---------------------------- MODULE HunterWallet ----------------------------
(* One hunter's wallet and its withdrawals.  Handlers run at the grain of    *)
(* their database calls; a wallet operation is a transaction under READ      *)
(* COMMITTED that reads the wallet, journals, and writes: by increments      *)
(* where the code increments, absolutely where it does not.  An exception, a *)
(* timeout and a crash are one action, Abort.  Left out: the currency, the   *)
(* destination of a withdrawal, and mails.  What leads to a credit is in     *)
(* ApprovedSubmission.  A definition named ...Mutant is a planted bug that   *)
(* the runs must be able to find; nothing uses it.                           *)
EXTENDS Integers, FiniteSets

CONSTANTS Wds,          \* bound: the withdrawal rows that can be created
          Workers,      \* requests and job runs in progress at once
          Duties,       \* which of the handlers a worker may run
          Nets,         \* rewardValue less the commission of the day's tier
          Amounts,      \* what a withdrawal can ask for
          Corrections,  \* what adminAdjust can add, negative or positive
          MaxPending,   \* WITHDRAWAL_LIMITS.MAX_PENDING_PER_USER
          MaxCredited,  \* bound: sum of credits after which none starts
          MaxCorrected, \* bound: sum of corrections after which none starts
          NoRef         \* "no withdrawal"

ASSUME WalletAssumption ==
    /\ Nets \subseteq Nat \ {0}
    /\ Amounts \subseteq Nat \ {0}
    /\ Corrections \subseteq Int \ {0}
    /\ MaxPending \in Nat \ {0}
    /\ MaxCredited \in Nat
    /\ MaxCorrected \in Nat
    /\ NoRef \notin Wds
    /\ Duties \in [Workers -> SUBSET {"credit", "withdraw", "settle", "adjust"}]

VARIABLES wallet,    \* the wallet row
          journal,   \* sum of the amounts of the wallet's transactions, per type
          wd,        \* the withdrawal rows, each with its journal rows counted
          worker     \* where each request or job run stands, and what it has read

vars == <<wallet, journal, wd, worker>>

-----------------------------------------------------------------------------
WithdrawalStatuses == {"none", "REQUESTED", "PROCESSING", "COMPLETED", "FAILED", "CANCELLED"}
WalletTxTypes == {"CREDIT", "HOLD", "RELEASE", "DEBIT", "CORRECTION"}

NoWithdrawal == [status |-> "none", amount |-> 0, processedAt |-> FALSE,
                 held |-> 0, released |-> 0, debited |-> 0]

InStatus(statuses) == {r \in Wds : wd[r].status \in statuses}

Idle == [at |-> "idle"]
At(w, at) == worker[w].at = at
Goto(w, state) == worker' = [worker EXCEPT ![w] = state]
Starts(w, duty) == At(w, "idle") /\ duty \in Duties[w]

\* A call of WalletService.
Call(type, amount, ref) ==
    [at |-> "walletRead", type |-> type, amount |-> amount, ref |-> ref]

Init ==
    /\ wallet = [balance |-> 0, pending |-> 0, earned |-> 0, withdrawn |-> 0]
    /\ journal = [t \in WalletTxTypes |-> 0]
    /\ wd = [r \in Wds |-> NoWithdrawal]
    /\ worker = [w \in Workers |-> Idle]

-----------------------------------------------------------------------------
(* WalletService: creditWallet, holdFunds, releaseFunds, completeWithdrawal, *)
(* adminAdjust.  The first read locks nothing.                               *)
ReadSuffices(type, amount) ==
    CASE type = "HOLD" -> wallet.balance >= amount
      [] type = "CORRECTION" -> wallet.balance + amount >= 0
      [] OTHER -> TRUE

WalletRead(w) ==
    /\ At(w, "walletRead")
    /\ Goto(w, IF ReadSuffices(worker[w].type, worker[w].amount)
                 THEN [at |-> "walletWrite", type |-> worker[w].type,
                       amount |-> worker[w].amount, ref |-> worker[w].ref,
                       seen |-> wallet.balance]
                 ELSE Idle)
    /\ UNCHANGED <<wallet, journal, wd>>

\* An increment adds to the row as it is, adminAdjust to the balance it read.
BalanceAfterMutant(type, amount, seen) ==
    seen + CASE type \in {"CREDIT", "RELEASE", "CORRECTION"} -> amount
             [] type = "HOLD" -> 0 - amount
             [] OTHER -> 0
BalanceAfter(type, amount, seen) ==
    CASE type \in {"CREDIT", "RELEASE"} -> wallet.balance + amount
      [] type = "HOLD" -> wallet.balance - amount
      [] type = "CORRECTION" -> seen + amount
      [] OTHER -> wallet.balance

PendingAfter(type, amount) ==
    CASE type = "HOLD" -> wallet.pending + amount
      [] type \in {"RELEASE", "DEBIT"} -> wallet.pending - amount
      [] OTHER -> wallet.pending

Earned(type, amount) ==
    IF type = "CREDIT" \/ (type = "CORRECTION" /\ amount > 0) THEN amount ELSE 0

\* The journal keeps the absolute value of a correction.
JournalAmountMutant(type, amount) == amount
JournalAmount(type, amount) == IF amount < 0 THEN 0 - amount ELSE amount

WalletWrite(w) ==
    /\ At(w, "walletWrite")
    /\ LET type == worker[w].type
           amount == worker[w].amount
           ref == worker[w].ref
           one(t) == IF type = t THEN 1 ELSE 0
       IN /\ wallet' = [balance |-> BalanceAfter(type, amount, worker[w].seen),
                        pending |-> PendingAfter(type, amount),
                        earned |-> wallet.earned + Earned(type, amount),
                        withdrawn |-> wallet.withdrawn + amount * one("DEBIT")]
          /\ journal' = [journal EXCEPT ![type] = @ + JournalAmount(type, amount)]
          /\ wd' = [r \in Wds |-> IF r = ref
                      THEN [wd[r] EXCEPT !.held = @ + one("HOLD"),
                                         !.released = @ + one("RELEASE"),
                                         !.debited = @ + one("DEBIT")]
                      ELSE wd[r]]
    /\ Goto(w, Idle)

\* updatePayout and the payout job credit the reward less the commission.
creditWalletWithCommission(w, net) ==
    /\ Starts(w, "credit")
    /\ journal["CREDIT"] < MaxCredited
    /\ Goto(w, Call("CREDIT", net, NoRef))
    /\ UNCHANGED <<wallet, journal, wd>>

adminAdjust(w, amount) ==
    /\ Starts(w, "adjust")
    /\ journal["CORRECTION"] < MaxCorrected
    /\ Goto(w, Call("CORRECTION", amount, NoRef))
    /\ UNCHANGED <<wallet, journal, wd>>

-----------------------------------------------------------------------------
(* WithdrawalService.                                                        *)
OpenStatuses == {"REQUESTED", "PROCESSING"}

requestWithdrawal(w, amount) ==
    /\ Starts(w, "withdraw")
    /\ Cardinality(InStatus(OpenStatuses)) < MaxPending
    /\ Goto(w, [at |-> "requestBalance", amount |-> amount])
    /\ UNCHANGED <<wallet, journal, wd>>

RequestBalance(w) ==
    /\ At(w, "requestBalance")
    /\ Goto(w, IF wallet.balance < worker[w].amount THEN Idle
               ELSE [at |-> "requestCreate", amount |-> worker[w].amount])
    /\ UNCHANGED <<wallet, journal, wd>>

\* The row commits by itself; the hold follows in a transaction of its own.
RequestCreate(w) ==
    /\ At(w, "requestCreate")
    /\ \E r \in InStatus({"none"}) :
           /\ wd' = [wd EXCEPT ![r] =
                        [NoWithdrawal EXCEPT !.status = "REQUESTED", !.amount = worker[w].amount]]
           /\ Goto(w, Call("HOLD", worker[w].amount, r))
    /\ UNCHANGED <<wallet, journal>>

\* What each handler needs to read before it writes the status it leads to.
FromMutant(to) == CASE to = "COMPLETED" -> {"REQUESTED", "PROCESSING"}
                    [] to = "FAILED" -> {"REQUESTED", "PROCESSING"}
                    [] OTHER -> {"REQUESTED"}
From(to) == CASE to = "COMPLETED" -> {"PROCESSING"}
              [] to = "FAILED" -> {"REQUESTED", "PROCESSING"}
              [] OTHER -> {"REQUESTED"}

Finds(w, duty, r, to) ==
    /\ Starts(w, duty)
    /\ wd[r].status \in From(to)
    /\ Goto(w, [at |-> "withdrawalUpdate", wd |-> r, to |-> to])
    /\ UNCHANGED <<wallet, journal, wd>>

processWithdrawal(w, r) == Finds(w, "settle", r, "PROCESSING")
completeWithdrawal(w, r) == Finds(w, "settle", r, "COMPLETED")
failWithdrawal(w, r) == Finds(w, "settle", r, "FAILED")
cancelWithdrawal(w, r) == Finds(w, "withdraw", r, "CANCELLED")

\* Written without comparing the status again; then debit or release.
WithdrawalUpdate(w) ==
    /\ At(w, "withdrawalUpdate")
    /\ LET r == worker[w].wd
           to == worker[w].to
       IN /\ wd' = [wd EXCEPT ![r].status = to,
                              ![r].processedAt = @ \/ to = "PROCESSING"]
          /\ Goto(w, CASE to = "PROCESSING" -> Idle
                       [] to = "COMPLETED" -> Call("DEBIT", wd[r].amount, r)
                       [] OTHER -> Call("RELEASE", wd[r].amount, r))
    /\ UNCHANGED <<wallet, journal>>

\* Cut off before its next call.
Abort(w) ==
    /\ ~At(w, "idle")
    /\ Goto(w, Idle)
    /\ UNCHANGED <<wallet, journal, wd>>

-----------------------------------------------------------------------------
Withdrawal(w) ==
    \/ \E amount \in Amounts : requestWithdrawal(w, amount)
    \/ RequestBalance(w) \/ RequestCreate(w)
    \/ \E r \in Wds : \/ processWithdrawal(w, r) \/ completeWithdrawal(w, r)
                      \/ failWithdrawal(w, r) \/ cancelWithdrawal(w, r)
    \/ WithdrawalUpdate(w)

Wallet(w) ==
    \/ \E net \in Nets : creditWalletWithCommission(w, net)
    \/ \E amount \in Corrections : adminAdjust(w, amount)
    \/ WalletRead(w) \/ WalletWrite(w)

Next == \E w \in Workers : Withdrawal(w) \/ Wallet(w) \/ Abort(w)

Spec == Init /\ [][Next]_vars

-----------------------------------------------------------------------------
Refs == Wds \cup {NoRef}
WorkerStates ==
    {Idle}
    \cup [at : {"walletRead"}, type : WalletTxTypes, amount : Int, ref : Refs]
    \cup [at : {"walletWrite"}, type : WalletTxTypes, amount : Int, ref : Refs, seen : Int]
    \cup [at : {"requestBalance", "requestCreate"}, amount : Amounts]
    \cup [at : {"withdrawalUpdate"}, wd : Wds, to : WithdrawalStatuses]

\* The journal holds no negative amount, a withdrawal's row no negative count.
TypeOK ==
    /\ wallet \in [balance : Int, pending : Int, earned : Int, withdrawn : Int]
    /\ journal \in [WalletTxTypes -> Nat]
    /\ wd \in [Wds -> [status : WithdrawalStatuses, amount : Amounts \cup {0},
                       processedAt : BOOLEAN, held : Nat, released : Nat, debited : Nat]]
    /\ worker \in [Workers -> WorkerStates]

\* The wallet is the sum of its journal however credits, holds, releases and
\* debits overlap, as long as no correction has overwritten the balance; the
\* other columns survive corrections too.
WalletMatchesJournal ==
    /\ wallet.pending = journal["HOLD"] - journal["RELEASE"] - journal["DEBIT"]
    /\ wallet.withdrawn = journal["DEBIT"]
    /\ journal["CORRECTION"] = 0 =>
           /\ wallet.balance = journal["CREDIT"] + journal["RELEASE"] - journal["HOLD"]
           /\ wallet.earned = journal["CREDIT"]

\* Whatever statuses stale requests bring back: a withdrawal is held at most
\* once, is debited only if an admin has processed it, and nothing has moved
\* while it is still REQUESTED.
SettledInOrder ==
    \A r \in Wds :
        /\ wd[r].held <= 1
        /\ wd[r].debited > 0 => wd[r].processedAt
        /\ wd[r].status \in {"none", "REQUESTED"} => wd[r].released = 0 /\ wd[r].debited = 0
=============================================================================
