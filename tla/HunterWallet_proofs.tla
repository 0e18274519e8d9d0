------------------------- MODULE HunterWallet_proofs -------------------------
(* TLAPS proofs about HunterWallet, for any number of requests, job runs and *)
(* withdrawals and any amounts: the wallet is the sum of its journal, and    *)
(* withdrawals are held, released and debited in order.                      *)
EXTENDS HunterWallet, TLAPS

WalletRow == [balance : Int, pending : Int, earned : Int, withdrawn : Int]
WithdrawalRow == [status : WithdrawalStatuses, amount : Amounts \cup {0},
                  processedAt : BOOLEAN, held : Nat, released : Nat, debited : Nat]

Calling(x) == x.at \in {"walletRead", "walletWrite"}

\* A call of WalletService has an amount that fits its type, and is entitled
\* to what it is about to journal: a withdrawal is held for the first time,
\* and released or debited after its status was written.
Entitled(x) ==
    Calling(x) =>
        /\ IF x.type = "CORRECTION" THEN x.amount # 0 ELSE x.amount >= 0
        /\ x.type \in {"CREDIT", "CORRECTION"} => x.ref = NoRef
        /\ x.type = "HOLD" => /\ x.ref \in Wds
                              /\ wd[x.ref].status # "none" /\ wd[x.ref].held = 0
        /\ x.type \in {"RELEASE", "DEBIT"} =>
               x.ref \in Wds /\ wd[x.ref].status \notin {"none", "REQUESTED"}
        /\ x.type = "DEBIT" => wd[x.ref].processedAt

\* A handler that is about to write a status has found the withdrawal, and it
\* completes only what was processed.
Found(x) ==
    x.at = "withdrawalUpdate" =>
        /\ x.to \notin {"none", "REQUESTED"}
        /\ wd[x.wd].status # "none"
        /\ x.to = "COMPLETED" => wd[x.wd].processedAt

Sound(x) == Entitled(x) /\ Found(x)
Reliable == \A w \in Workers : Sound(worker[w])

Holding(x) == Calling(x) /\ x.type = "HOLD"
HoldsAlone ==
    \A v, w \in Workers :
        Holding(worker[v]) /\ Holding(worker[w]) /\ worker[v].ref = worker[w].ref => v = w

RowsFollow ==
    \A r \in Wds :
        /\ wd[r].status = "PROCESSING" => wd[r].processedAt
        /\ wd[r].status = "none" => wd[r] = NoWithdrawal

IInv == /\ TypeOK
        /\ WalletMatchesJournal
        /\ SettledInOrder
        /\ Reliable
        /\ HoldsAlone
        /\ RowsFollow

-----------------------------------------------------------------------------
LEMMA Moves ==
    ASSUME TypeOK, NEW w \in Workers, NEW x \in WorkerStates, Goto(w, x)
    PROVE  /\ worker' \in [Workers -> WorkerStates]
           /\ worker'[w] = x
           /\ \A u \in Workers : u # w => worker'[u] = worker[u]
BY DEF TypeOK, Goto

\* A step that only moves a request or job on, to a state that is sound.
LEMMA MoveIInv ==
    ASSUME IInv, NEW w \in Workers, NEW x \in WorkerStates, Goto(w, x), Sound(x),
           Holding(x) => Holding(worker[w]) /\ worker[w].ref = x.ref,
           UNCHANGED <<wallet, journal, wd>>
    PROVE  IInv'
<1>1. /\ worker' \in [Workers -> WorkerStates]
      /\ worker'[w] = x
      /\ \A u \in Workers : u # w => worker'[u] = worker[u]
  BY Moves DEF IInv
<1>2. TypeOK' /\ WalletMatchesJournal' /\ SettledInOrder' /\ RowsFollow'
  BY <1>1 DEF IInv, TypeOK, WalletMatchesJournal, SettledInOrder, RowsFollow
<1>3. Reliable'
  <2>1. \A u \in Workers : Sound(worker'[u])
    BY <1>1 DEF IInv, Reliable
  <2> QED BY <2>1 DEF Reliable, Sound, Entitled, Found
<1>4. HoldsAlone'
  BY <1>1 DEF IInv, HoldsAlone
<1> QED BY <1>2, <1>3, <1>4 DEF IInv

LEMMA IdleIsSound == Idle \in WorkerStates /\ Sound(Idle) /\ ~Holding(Idle)
BY DEF WorkerStates, Idle, Sound, Entitled, Found, Holding, Calling

-----------------------------------------------------------------------------
(* The wallet operations.                                                    *)
LEMMA WalletReadIInv ==
    ASSUME IInv, NEW w \in Workers, WalletRead(w)
    PROVE  IInv'
<1>1. worker[w] \in WorkerStates /\ Sound(worker[w]) /\ worker[w].at = "walletRead"
  BY DEF IInv, TypeOK, Reliable, WalletRead, At
<1>2. /\ worker[w].type \in WalletTxTypes /\ worker[w].amount \in Int
      /\ worker[w].ref \in Refs
  BY <1>1 DEF WorkerStates, Idle
<1> DEFINE x == [at |-> "walletWrite", type |-> worker[w].type, amount |-> worker[w].amount,
                 ref |-> worker[w].ref, seen |-> wallet.balance]
<1>3. CASE ReadSuffices(worker[w].type, worker[w].amount)
  <2>1. Goto(w, x) /\ UNCHANGED <<wallet, journal, wd>>
    BY <1>3 DEF WalletRead
  <2>2. x \in WorkerStates
    BY <1>2 DEF WorkerStates, IInv, TypeOK
  <2>3. Sound(x)
    BY <1>1 DEF Sound, Entitled, Found, Calling
  <2>4. Holding(x) => Holding(worker[w]) /\ worker[w].ref = x.ref
    BY <1>1 DEF Holding, Calling
  <2> HIDE DEF x
  <2> QED BY <2>1, <2>2, <2>3, <2>4, MoveIInv
<1>4. CASE ~ReadSuffices(worker[w].type, worker[w].amount)
  BY <1>4, IdleIsSound, MoveIInv DEF WalletRead
<1> QED BY <1>3, <1>4

LEMMA RowFields ==
    ASSUME NEW x \in WithdrawalRow
    PROVE  /\ x.status \in WithdrawalStatuses
           /\ x.amount \in Nat
           /\ x.held \in Nat /\ x.released \in Nat /\ x.debited \in Nat
<1>1. x.amount \in Amounts \cup {0}
  BY DEF WithdrawalRow
<1>2. x.amount \in Nat
  <2>1. Amounts \cup {0} \subseteq Nat
    BY WalletAssumption
  <2> QED BY <1>1, <2>1
<1>3. x.held \in Nat /\ x.released \in Nat /\ x.debited \in Nat
  BY DEF WithdrawalRow
<1>4. x.status \in WithdrawalStatuses
  BY DEF WithdrawalRow
<1> QED BY <1>2, <1>3, <1>4

LEMMA CallTyped ==
    ASSUME NEW type \in WalletTxTypes, NEW amount \in Int, NEW ref \in Refs
    PROVE  Call(type, amount, ref) \in WorkerStates
BY DEF Call, WorkerStates

LEMMA NewRowTyped ==
    ASSUME NEW amount \in Amounts
    PROVE  [NoWithdrawal EXCEPT !.status = "REQUESTED", !.amount = amount] \in WithdrawalRow
BY DEF NoWithdrawal, WithdrawalRow, WithdrawalStatuses

\* What a wallet operation writes to the withdrawal that it refers to.
LEMMA WriteRows ==
    ASSUME wd \in [Wds -> WithdrawalRow], NEW w \in Workers, WalletWrite(w)
    PROVE  /\ \A r \in Wds :
                 /\ wd'[r] \in WithdrawalRow
                 /\ wd'[r].status = wd[r].status /\ wd'[r].processedAt = wd[r].processedAt
                 /\ wd'[r].held = wd[r].held
                        + (IF r = worker[w].ref /\ worker[w].type = "HOLD" THEN 1 ELSE 0)
                 /\ wd'[r].released = wd[r].released
                        + (IF r = worker[w].ref /\ worker[w].type = "RELEASE" THEN 1 ELSE 0)
                 /\ wd'[r].debited = wd[r].debited
                        + (IF r = worker[w].ref /\ worker[w].type = "DEBIT" THEN 1 ELSE 0)
                 /\ r # worker[w].ref => wd'[r] = wd[r]
           /\ wd' \in [Wds -> WithdrawalRow]
<1> DEFINE one(t) == IF worker[w].type = t THEN 1 ELSE 0
           new(r) == [wd[r] EXCEPT !.held = @ + one("HOLD"), !.released = @ + one("RELEASE"),
                                   !.debited = @ + one("DEBIT")]
<1>1. wd' = [r \in Wds |-> IF r = worker[w].ref THEN new(r) ELSE wd[r]]
  BY DEF WalletWrite
<1>2. one("HOLD") \in {0, 1} /\ one("RELEASE") \in {0, 1} /\ one("DEBIT") \in {0, 1}
  OBVIOUS
<1> HIDE DEF one, new
<1>3. ASSUME NEW r \in Wds
      PROVE  /\ new(r) \in WithdrawalRow
             /\ new(r).status = wd[r].status /\ new(r).processedAt = wd[r].processedAt
             /\ new(r).held = wd[r].held + one("HOLD")
             /\ new(r).released = wd[r].released + one("RELEASE")
             /\ new(r).debited = wd[r].debited + one("DEBIT")
  <2>1. PICK h \in Nat, l \in Nat, d \in Nat :
            /\ h = wd[r].held + one("HOLD")
            /\ l = wd[r].released + one("RELEASE")
            /\ d = wd[r].debited + one("DEBIT")
    <3>1. wd[r].held \in Nat /\ wd[r].released \in Nat /\ wd[r].debited \in Nat
      BY DEF WithdrawalRow
    <3> QED BY <1>2, <3>1
  <2>2. wd[r] \in WithdrawalRow
    OBVIOUS
  <2>3. new(r) = [wd[r] EXCEPT !.held = h, !.released = l, !.debited = d]
    BY <2>1 DEF new
  <2>4. [wd[r] EXCEPT !.held = h] \in WithdrawalRow
    BY <2>2 DEF WithdrawalRow
  <2>5. [wd[r] EXCEPT !.held = h, !.released = l] \in WithdrawalRow
    BY <2>4 DEF WithdrawalRow
  <2>6. [wd[r] EXCEPT !.held = h, !.released = l, !.debited = d] \in WithdrawalRow
    BY <2>5 DEF WithdrawalRow
  <2>7. /\ new(r).status = wd[r].status /\ new(r).processedAt = wd[r].processedAt
        /\ new(r).held = h /\ new(r).released = l /\ new(r).debited = d
    BY <2>2, <2>3 DEF WithdrawalRow
  <2> QED BY <2>1, <2>3, <2>6, <2>7
<1>4. \A r \in Wds : /\ r = worker[w].ref => wd'[r] = new(r)
                     /\ r # worker[w].ref => wd'[r] = wd[r]
  BY <1>1
<1>5. \A r \in Wds : wd[r].held \in Nat /\ wd[r].released \in Nat /\ wd[r].debited \in Nat
  BY DEF WithdrawalRow
<1>6. \A r \in Wds : wd'[r] \in WithdrawalRow
  BY <1>3, <1>4
<1>7. wd' \in [Wds -> WithdrawalRow]
  BY <1>1, <1>6
<1>8. ASSUME NEW r \in Wds
      PROVE  /\ wd'[r].status = wd[r].status /\ wd'[r].processedAt = wd[r].processedAt
             /\ wd'[r].held = wd[r].held + (IF r = worker[w].ref THEN one("HOLD") ELSE 0)
             /\ wd'[r].released = wd[r].released + (IF r = worker[w].ref THEN one("RELEASE") ELSE 0)
             /\ wd'[r].debited = wd[r].debited + (IF r = worker[w].ref THEN one("DEBIT") ELSE 0)
  <2>1. CASE r = worker[w].ref
    BY <1>3, <1>4, <2>1
  <2>2. CASE r # worker[w].ref
    BY <1>4, <1>5, <2>2
  <2> QED BY <2>1, <2>2
<1> QED BY <1>4, <1>6, <1>7, <1>8 DEF one

LEMMA WalletWriteIInv ==
    ASSUME IInv, NEW w \in Workers, WalletWrite(w)
    PROVE  IInv'
<1> DEFINE type == worker[w].type
           amount == worker[w].amount
           ref == worker[w].ref
           seen == worker[w].seen
<1>1. worker[w] \in WorkerStates /\ Sound(worker[w]) /\ worker[w].at = "walletWrite"
  BY DEF IInv, TypeOK, Reliable, WalletWrite, At
<1>2. type \in WalletTxTypes /\ amount \in Int /\ ref \in Refs /\ seen \in Int
  BY <1>1 DEF WorkerStates, Idle
<1>3. IF type = "CORRECTION" THEN amount # 0 ELSE amount >= 0
  BY <1>1 DEF Sound, Entitled, Calling
<1>4. /\ wallet' = [balance |-> BalanceAfter(type, amount, seen),
                    pending |-> PendingAfter(type, amount),
                    earned |-> wallet.earned + Earned(type, amount),
                    withdrawn |-> wallet.withdrawn + (IF type = "DEBIT" THEN amount ELSE 0)]
      /\ journal' = [journal EXCEPT ![type] = @ + JournalAmount(type, amount)]
      /\ Goto(w, Idle)
  <2>1. amount * (IF type = "DEBIT" THEN 1 ELSE 0) = IF type = "DEBIT" THEN amount ELSE 0
    BY <1>2
  <2> QED BY <2>1, Zenon DEF WalletWrite
<1>5. /\ wallet \in WalletRow /\ journal \in [WalletTxTypes -> Nat]
      /\ wd \in [Wds -> WithdrawalRow] /\ NoRef \notin Wds
  BY WalletAssumption DEF IInv, TypeOK, WalletRow, WithdrawalRow
<1>6. /\ worker' \in [Workers -> WorkerStates]
      /\ worker'[w] = Idle
      /\ \A u \in Workers : u # w => worker'[u] = worker[u]
  BY <1>4, IdleIsSound, Moves DEF IInv
<1>7. JournalAmount(type, amount) \in Nat
  BY <1>2 DEF JournalAmount
<1>8. /\ \A r \in Wds :
            /\ wd'[r] \in WithdrawalRow
            /\ wd'[r].status = wd[r].status /\ wd'[r].processedAt = wd[r].processedAt
            /\ wd'[r].held = wd[r].held + (IF r = ref /\ type = "HOLD" THEN 1 ELSE 0)
            /\ wd'[r].released = wd[r].released + (IF r = ref /\ type = "RELEASE" THEN 1 ELSE 0)
            /\ wd'[r].debited = wd[r].debited + (IF r = ref /\ type = "DEBIT" THEN 1 ELSE 0)
            /\ r # ref => wd'[r] = wd[r]
      /\ wd' \in [Wds -> WithdrawalRow]
  BY <1>5, WriteRows
<1> HIDE DEF type, amount, ref, seen
<1>9. wallet' \in WalletRow
  <2>1. /\ wallet.balance \in Int /\ wallet.pending \in Int
        /\ wallet.earned \in Int /\ wallet.withdrawn \in Int
    BY <1>5 DEF WalletRow
  <2>2. BalanceAfter(type, amount, seen) \in Int
    BY <1>2, <2>1 DEF BalanceAfter
  <2>3. PendingAfter(type, amount) \in Int
    BY <1>2, <2>1 DEF PendingAfter
  <2>4. wallet.earned + Earned(type, amount) \in Int
    BY <1>2, <2>1 DEF Earned
  <2>5. wallet.withdrawn + (IF type = "DEBIT" THEN amount ELSE 0) \in Int
    BY <1>2, <2>1
  <2> QED BY <1>4, <2>2, <2>3, <2>4, <2>5 DEF WalletRow
<1>10. /\ journal' \in [WalletTxTypes -> Nat]
       /\ journal'[type] = journal[type] + JournalAmount(type, amount)
       /\ \A t \in WalletTxTypes : t # type => journal'[t] = journal[t]
  <2>1. journal[type] + JournalAmount(type, amount) \in Nat
    BY <1>2, <1>5, <1>7
  <2> QED BY <1>2, <1>4, <1>5, <2>1
<1>11. TypeOK'
  BY <1>6, <1>8, <1>9, <1>10 DEF TypeOK, WalletRow, WithdrawalRow
<1>12. WalletMatchesJournal'
  <2>1. /\ wallet.pending = journal["HOLD"] - journal["RELEASE"] - journal["DEBIT"]
        /\ wallet.withdrawn = journal["DEBIT"]
        /\ journal["CORRECTION"] = 0 =>
               /\ wallet.balance = journal["CREDIT"] + journal["RELEASE"] - journal["HOLD"]
               /\ wallet.earned = journal["CREDIT"]
    BY DEF IInv, WalletMatchesJournal
  <2>2. \A t \in WalletTxTypes : journal[t] \in Nat
    BY <1>5
  <2>3. CASE type = "CORRECTION"
    <3>1. JournalAmount(type, amount) > 0
      BY <1>2, <1>3, <2>3 DEF JournalAmount
    <3>2. wallet'.pending = wallet.pending /\ wallet'.withdrawn = wallet.withdrawn
      <4>1. wallet.withdrawn + 0 = wallet.withdrawn
        BY <1>5 DEF WalletRow
      <4> QED BY <1>4, <2>3, <4>1 DEF PendingAfter
    <3>3. journal'["CORRECTION"] # 0
      BY <1>7, <1>10, <2>2, <2>3, <3>1 DEF WalletTxTypes
    <3> QED BY <1>10, <2>1, <2>3, <3>2, <3>3 DEF WalletMatchesJournal, WalletTxTypes
  <2>4. CASE type # "CORRECTION"
    <3>1. JournalAmount(type, amount) = amount
      BY <1>2, <1>3, <2>4 DEF JournalAmount
    <3>2. /\ wallet'.pending = PendingAfter(type, amount)
          /\ wallet'.withdrawn = wallet.withdrawn + (IF type = "DEBIT" THEN amount ELSE 0)
          /\ wallet'.balance = BalanceAfter(type, amount, seen)
          /\ wallet'.earned = wallet.earned + (IF type = "CREDIT" THEN amount ELSE 0)
      BY <1>4, <2>4 DEF Earned
    <3>3. /\ wallet.balance \in Int /\ wallet.pending \in Int
          /\ wallet.earned \in Int /\ wallet.withdrawn \in Int
      BY <1>5 DEF WalletRow
    <3>4. \A t \in WalletTxTypes :
             journal'[t] = IF t = type THEN journal[t] + amount ELSE journal[t]
      BY <1>10, <3>1
    <3>5. /\ journal["CREDIT"] \in Nat /\ journal["HOLD"] \in Nat /\ journal["RELEASE"] \in Nat
          /\ journal["DEBIT"] \in Nat /\ journal["CORRECTION"] \in Nat
      BY <2>2 DEF WalletTxTypes
    <3>6. CASE type = "CREDIT"
      <4>1. /\ wallet'.pending = wallet.pending
            /\ wallet'.balance = wallet.balance + amount
        BY <3>2, <3>6 DEF PendingAfter, BalanceAfter
      <4>2. journal'["CREDIT"] = journal["CREDIT"] + amount
        BY <3>4, <3>6 DEF WalletTxTypes
      <4>3. journal'["HOLD"] = journal["HOLD"]
        BY <3>4, <3>6 DEF WalletTxTypes
      <4>4. /\ journal'["RELEASE"] = journal["RELEASE"] /\ journal'["DEBIT"] = journal["DEBIT"]
            /\ journal'["CORRECTION"] = journal["CORRECTION"]
        BY <3>4, <3>6 DEF WalletTxTypes
      <4> QED BY <1>2, <2>1, <3>2, <3>3, <3>6, <3>5, <4>1, <4>2, <4>3, <4>4
           DEF WalletMatchesJournal
    <3>7. CASE type = "HOLD"
      <4>1. /\ wallet'.pending = wallet.pending + amount
            /\ wallet'.balance = wallet.balance - amount
        BY <3>2, <3>7 DEF PendingAfter, BalanceAfter
      <4>2. journal'["HOLD"] = journal["HOLD"] + amount
        BY <3>4, <3>7 DEF WalletTxTypes
      <4>3. journal'["CREDIT"] = journal["CREDIT"]
        BY <3>4, <3>7 DEF WalletTxTypes
      <4>4. /\ journal'["RELEASE"] = journal["RELEASE"] /\ journal'["DEBIT"] = journal["DEBIT"]
            /\ journal'["CORRECTION"] = journal["CORRECTION"]
        BY <3>4, <3>7 DEF WalletTxTypes
      <4> QED BY <1>2, <2>1, <3>2, <3>3, <3>7, <3>5, <4>1, <4>2, <4>3, <4>4
           DEF WalletMatchesJournal
    <3>8. CASE type = "RELEASE"
      <4>1. /\ wallet'.pending = wallet.pending - amount
            /\ wallet'.balance = wallet.balance + amount
        BY <3>2, <3>8 DEF PendingAfter, BalanceAfter
      <4>2. journal'["RELEASE"] = journal["RELEASE"] + amount
        BY <3>4, <3>8 DEF WalletTxTypes
      <4>3. journal'["CREDIT"] = journal["CREDIT"] /\ journal'["HOLD"] = journal["HOLD"]
        BY <3>4, <3>8 DEF WalletTxTypes
      <4>4. journal'["DEBIT"] = journal["DEBIT"] /\ journal'["CORRECTION"] = journal["CORRECTION"]
        BY <3>4, <3>8 DEF WalletTxTypes
      <4> QED BY <1>2, <2>1, <3>2, <3>3, <3>8, <3>5, <4>1, <4>2, <4>3, <4>4
           DEF WalletMatchesJournal
    <3>9. CASE type = "DEBIT"
      <4>1. /\ wallet'.pending = wallet.pending - amount
            /\ wallet'.balance = wallet.balance
        BY <3>2, <3>9 DEF PendingAfter, BalanceAfter
      <4>2. journal'["DEBIT"] = journal["DEBIT"] + amount
        BY <3>4, <3>9 DEF WalletTxTypes
      <4>3. journal'["CREDIT"] = journal["CREDIT"] /\ journal'["HOLD"] = journal["HOLD"]
        BY <3>4, <3>9 DEF WalletTxTypes
      <4>4. journal'["RELEASE"] = journal["RELEASE"] /\ journal'["CORRECTION"] = journal["CORRECTION"]
        BY <3>4, <3>9 DEF WalletTxTypes
      <4> QED BY <1>2, <2>1, <3>2, <3>3, <3>9, <3>5, <4>1, <4>2, <4>3, <4>4
           DEF WalletMatchesJournal
    <3> QED BY <1>2, <2>4, <3>6, <3>7, <3>8, <3>9 DEF WalletTxTypes
  <2> QED BY <2>3, <2>4
<1>13. SettledInOrder'
  <2>1. \A r \in Wds : r = ref =>
           /\ type = "HOLD" => wd[r].held = 0
           /\ type \in {"RELEASE", "DEBIT"} => wd[r].status \notin {"none", "REQUESTED"}
           /\ type = "DEBIT" => wd[r].processedAt
    BY <1>1 DEF Sound, Entitled, Calling, type, ref
  <2>2. SUFFICES ASSUME NEW r \in Wds
                 PROVE  /\ wd'[r].held <= 1
                        /\ wd'[r].debited > 0 => wd'[r].processedAt
                        /\ wd'[r].status \in {"none", "REQUESTED"} =>
                               wd'[r].released = 0 /\ wd'[r].debited = 0
    BY DEF SettledInOrder
  <2>3. /\ wd[r].held <= 1 /\ wd[r].held \in Nat
        /\ wd[r].debited > 0 => wd[r].processedAt
        /\ wd[r].debited \in Nat /\ wd[r].released \in Nat
        /\ wd[r].status \in {"none", "REQUESTED"} => wd[r].released = 0 /\ wd[r].debited = 0
    BY <1>5 DEF IInv, SettledInOrder, WithdrawalRow
  <2> QED BY <1>8, <2>1, <2>3
<1>14. Reliable'
  <2>1. SUFFICES ASSUME NEW u \in Workers PROVE Sound(worker[u])'
    BY DEF Reliable
  <2>2. CASE u = w
    BY <1>6, <2>2 DEF Sound, Entitled, Found, Calling, Idle
  <2>3. CASE u # w
    <3>1. worker'[u] = worker[u] /\ Sound(worker[u]) /\ worker[u] \in WorkerStates
      BY <1>6, <2>3 DEF IInv, Reliable, TypeOK
    <3>2. ~(Holding(worker[u]) /\ Holding(worker[w]) /\ worker[u].ref = worker[w].ref)
      BY <2>3 DEF IInv, HoldsAlone
    <3>3. Entitled(worker[u])'
      <4>1. worker[u].type = "HOLD" /\ Calling(worker[u]) => wd'[worker[u].ref].held = 0
        <5>1. SUFFICES ASSUME Holding(worker[u]) PROVE wd'[worker[u].ref].held = 0
          BY DEF Holding
        <5>2. worker[u].ref \in Wds /\ wd[worker[u].ref].held = 0
          BY <3>1, <5>1 DEF Sound, Entitled, Holding
        <5>3. ~(worker[u].ref = ref /\ type = "HOLD")
          BY <1>1, <3>2, <5>1 DEF Holding, Calling, type, ref
        <5> QED BY <1>8, <5>2, <5>3
      <4>2. Calling(worker[u])' = Calling(worker[u])
        BY <3>1 DEF Calling
      <4> QED BY <1>8, <3>1, <4>1, <4>2 DEF Sound, Entitled
    <3>4. Found(worker[u])'
      <4>1. worker[u].at = "withdrawalUpdate" => worker[u].wd \in Wds
        BY <3>1 DEF WorkerStates, Idle
      <4> QED BY <1>8, <3>1, <4>1 DEF Sound, Found
    <3> QED BY <3>3, <3>4 DEF Sound
  <2> QED BY <2>2, <2>3
<1>15. HoldsAlone'
  BY <1>6, IdleIsSound DEF IInv, HoldsAlone
<1>16. RowsFollow'
  <2>1. \A r \in Wds : wd[r].status = "none" => r # ref
    <3>1. ref \in Wds => /\ type \notin {"CREDIT", "CORRECTION"}
                         /\ wd[ref].status # "none"
      BY <1>1, <1>2, <1>5 DEF Sound, Entitled, Calling, WalletTxTypes, type, ref
    <3> QED BY <3>1
  <2> QED BY <1>8, <2>1 DEF IInv, RowsFollow
<1> QED BY <1>11, <1>12, <1>13, <1>14, <1>15, <1>16 DEF IInv

-----------------------------------------------------------------------------
(* The handlers that write withdrawals.                                      *)

\* A step that writes one withdrawal's status or creates it, and goes on to a
\* sound state, keeps what every other request relies on.
LEMMA RowIInv ==
    ASSUME IInv, NEW w \in Workers, NEW x \in WorkerStates, NEW r \in Wds, NEW row,
           row \in WithdrawalRow, Goto(w, x), wd' = [wd EXCEPT ![r] = row],
           Sound(x)',
           Holding(x) => x.ref = r /\ wd[r].status = "none",
           row.held = wd[r].held /\ row.released = wd[r].released /\ row.debited = wd[r].debited,
           row.status # "none",
           wd[r].status \notin {"none", "REQUESTED"} => row.status # "REQUESTED",
           wd[r].processedAt => row.processedAt,
           row.status = "PROCESSING" => row.processedAt,
           row.status = "REQUESTED" => wd[r].status = "none",
           UNCHANGED <<wallet, journal>>
    PROVE  IInv'
<1>1. wd \in [Wds -> WithdrawalRow]
  BY DEF IInv, TypeOK, WithdrawalRow
<1>2. /\ wd' \in [Wds -> WithdrawalRow] /\ wd'[r] = row
      /\ \A q \in Wds : q # r => wd'[q] = wd[q]
  BY <1>1
<1>3. /\ worker' \in [Workers -> WorkerStates]
      /\ worker'[w] = x
      /\ \A u \in Workers : u # w => worker'[u] = worker[u]
  BY Moves DEF IInv
<1>4. TypeOK' /\ WalletMatchesJournal'
  BY <1>2, <1>3 DEF IInv, TypeOK, WalletMatchesJournal, WithdrawalRow
<1>5. /\ wd[r].held <= 1
      /\ wd[r].debited > 0 => wd[r].processedAt
      /\ wd[r].status \in {"none", "REQUESTED"} => wd[r].released = 0 /\ wd[r].debited = 0
      /\ wd[r].status = "none" => wd[r] = NoWithdrawal
  BY DEF IInv, SettledInOrder, RowsFollow
<1>6. SettledInOrder'
  BY <1>2, <1>5 DEF IInv, SettledInOrder
<1>7. RowsFollow'
  BY <1>2 DEF IInv, RowsFollow
<1>8. Reliable'
  <2>1. SUFFICES ASSUME NEW u \in Workers PROVE Sound(worker[u])'
    BY DEF Reliable
  <2>2. CASE u = w
    BY <1>3, <2>2 DEF Sound, Entitled, Found, Calling
  <2>3. CASE u # w
    <3>1. worker'[u] = worker[u] /\ Sound(worker[u]) /\ worker[u] \in WorkerStates
      BY <1>3, <2>3 DEF IInv, Reliable, TypeOK
    <3>2. Entitled(worker[u])'
      BY <1>2, <1>5, <3>1 DEF Sound, Entitled, Calling
    <3>3. Found(worker[u])'
      <4>1. worker[u].at = "withdrawalUpdate" => worker[u].wd \in Wds
        BY <3>1 DEF WorkerStates, Idle
      <4> QED BY <1>2, <3>1, <4>1 DEF Sound, Found
    <3> QED BY <3>2, <3>3 DEF Sound
  <2> QED BY <2>2, <2>3
<1>9. HoldsAlone'
  <2>1. \A u \in Workers : Holding(worker[u]) /\ worker[u].ref = r => wd[r].status # "none"
    BY DEF IInv, Reliable, Sound, Entitled, Holding
  <2> QED BY <1>3, <2>1 DEF IInv, HoldsAlone
<1> QED BY <1>4, <1>6, <1>7, <1>8, <1>9 DEF IInv

LEMMA RequestCreateIInv ==
    ASSUME IInv, NEW w \in Workers, RequestCreate(w)
    PROVE  IInv'
<1>1. worker[w] \in WorkerStates /\ worker[w].at = "requestCreate"
  BY DEF IInv, TypeOK, RequestCreate, At
<1>2. worker[w].amount \in Amounts
  BY <1>1 DEF WorkerStates, Idle
<1>3. worker[w].amount \in Nat
  BY <1>2, WalletAssumption
<1>4. PICK r \in Wds :
         /\ wd[r].status = "none"
         /\ wd' = [wd EXCEPT ![r] =
                      [NoWithdrawal EXCEPT !.status = "REQUESTED", !.amount = worker[w].amount]]
         /\ Goto(w, Call("HOLD", worker[w].amount, r))
         /\ UNCHANGED <<wallet, journal>>
  BY DEF RequestCreate, InStatus
<1>5. wd[r] = NoWithdrawal /\ wd \in [Wds -> WithdrawalRow]
  BY <1>4 DEF IInv, RowsFollow, TypeOK, WithdrawalRow
<1>6. PICK row \in WithdrawalRow :
         row = [NoWithdrawal EXCEPT !.status = "REQUESTED", !.amount = worker[w].amount]
  BY <1>2, NewRowTyped
<1>7. /\ row.status = "REQUESTED" /\ row.held = 0 /\ row.released = 0 /\ row.debited = 0
      /\ wd[r].held = 0 /\ wd[r].released = 0 /\ wd[r].debited = 0 /\ ~wd[r].processedAt
  BY <1>5, <1>6 DEF NoWithdrawal
<1>8. PICK x \in WorkerStates : x = Call("HOLD", worker[w].amount, r)
  BY <1>3, CallTyped DEF WalletTxTypes, Refs
<1>9. x.at = "walletRead" /\ x.type = "HOLD" /\ x.amount >= 0 /\ x.ref = r
  BY <1>3, <1>8 DEF Call
<1>10. wd' = [wd EXCEPT ![r] = row] /\ Goto(w, x) /\ UNCHANGED <<wallet, journal>>
  BY <1>4, <1>6, <1>8
<1>11. wd'[r] = row
  BY <1>5, <1>10
<1>12. Sound(x)'
  BY <1>7, <1>9, <1>11 DEF Sound, Entitled, Found, Calling
<1> QED BY <1>4, <1>7, <1>9, <1>10, <1>12, RowIInv

LEMMA WithdrawalUpdateIInv ==
    ASSUME IInv, NEW w \in Workers, WithdrawalUpdate(w)
    PROVE  IInv'
<1>1. worker[w] \in WorkerStates /\ Sound(worker[w]) /\ worker[w].at = "withdrawalUpdate"
  BY DEF IInv, TypeOK, Reliable, WithdrawalUpdate, At
<1>2. worker[w].wd \in Wds /\ worker[w].to \in WithdrawalStatuses
  BY <1>1 DEF WorkerStates, Idle
<1>3. PICK r \in Wds, to \in WithdrawalStatuses : r = worker[w].wd /\ to = worker[w].to
  BY <1>2
<1>4. /\ to \notin {"none", "REQUESTED"} /\ wd[r].status # "none"
      /\ to = "COMPLETED" => wd[r].processedAt
  BY <1>1, <1>3 DEF Sound, Found
<1>5. wd \in [Wds -> WithdrawalRow] /\ wd[r] \in WithdrawalRow
  BY DEF IInv, TypeOK, WithdrawalRow
<1>6. wd[r].amount \in Nat
  BY <1>5, RowFields
<1>7. /\ wd' = [wd EXCEPT ![r].status = to, ![r].processedAt = @ \/ to = "PROCESSING"]
      /\ Goto(w, CASE to = "PROCESSING" -> Idle
                   [] to = "COMPLETED" -> Call("DEBIT", wd[r].amount, r)
                   [] OTHER -> Call("RELEASE", wd[r].amount, r))
      /\ UNCHANGED <<wallet, journal>>
  BY <1>3 DEF WithdrawalUpdate
<1>8. PICK row \in WithdrawalRow :
         row = [wd[r] EXCEPT !.status = to, !.processedAt = @ \/ to = "PROCESSING"]
  BY <1>5 DEF WithdrawalRow
<1>9. /\ wd' = [wd EXCEPT ![r] = row]
      /\ wd'[r] = row
  BY <1>5, <1>7, <1>8 DEF WithdrawalRow
<1>10. /\ row.status = to
       /\ row.processedAt <=> (wd[r].processedAt \/ to = "PROCESSING")
       /\ row.held = wd[r].held /\ row.released = wd[r].released /\ row.debited = wd[r].debited
  BY <1>5, <1>8 DEF WithdrawalRow
<1>11. PICK x \in WorkerStates : Goto(w, x) /\ Sound(x)' /\ ~Holding(x)
  <2>1. CASE to = "PROCESSING"
    <3>1. Goto(w, Idle)
      BY <1>7, <2>1
    <3>2. Sound(Idle)'
      BY DEF Idle, Sound, Entitled, Found, Calling
    <3> QED BY <3>1, <3>2, IdleIsSound
  <2>2. CASE to = "COMPLETED"
    <3>1. PICK x \in WorkerStates : x = Call("DEBIT", wd[r].amount, r)
      BY <1>6, CallTyped DEF WalletTxTypes, Refs
    <3>2. Goto(w, x)
      BY <1>7, <2>2, <3>1
    <3>3. /\ x.at = "walletRead" /\ x.type = "DEBIT" /\ x.amount >= 0 /\ x.ref = r
      BY <1>6, <3>1 DEF Call
    <3>4. Sound(x)' /\ ~Holding(x)
      BY <1>4, <1>9, <1>10, <2>2, <3>3 DEF Sound, Entitled, Found, Calling, Holding
    <3> QED BY <3>2, <3>4
  <2>3. CASE to \notin {"PROCESSING", "COMPLETED"}
    <3>1. PICK x \in WorkerStates : x = Call("RELEASE", wd[r].amount, r)
      BY <1>6, CallTyped DEF WalletTxTypes, Refs
    <3>2. Goto(w, x)
      BY <1>7, <2>3, <3>1
    <3>3. /\ x.at = "walletRead" /\ x.type = "RELEASE" /\ x.amount >= 0 /\ x.ref = r
      BY <1>6, <3>1 DEF Call
    <3>4. Sound(x)' /\ ~Holding(x)
      BY <1>4, <1>9, <1>10, <2>3, <3>3 DEF Sound, Entitled, Found, Calling, Holding
    <3> QED BY <3>2, <3>4
  <2> QED BY <2>1, <2>2, <2>3
<1> QED BY <1>4, <1>7, <1>9, <1>10, <1>11, RowIInv

-----------------------------------------------------------------------------
LEMMA WithdrawalIInv ==
    ASSUME IInv, NEW w \in Workers, Withdrawal(w)
    PROVE  IInv'
<1>1. wd \in [Wds -> WithdrawalRow] /\ worker[w] \in WorkerStates
  BY DEF IInv, TypeOK, WithdrawalRow
<1>2. ASSUME NEW amount \in Amounts, requestWithdrawal(w, amount) PROVE IInv'
  <2> DEFINE x == [at |-> "requestBalance", amount |-> amount]
  <2>1. x \in WorkerStates /\ Sound(x) /\ ~Holding(x)
    BY DEF WorkerStates, Sound, Entitled, Found, Calling, Holding
  <2>2. Goto(w, x) /\ UNCHANGED <<wallet, journal, wd>>
    BY <1>2 DEF requestWithdrawal
  <2> HIDE DEF x
  <2> QED BY <2>1, <2>2, MoveIInv
<1>3. ASSUME RequestBalance(w) PROVE IInv'
  <2> DEFINE x == [at |-> "requestCreate", amount |-> worker[w].amount]
  <2>1. worker[w].amount \in Amounts
    BY <1>1, <1>3 DEF RequestBalance, At, WorkerStates, Idle
  <2>2. x \in WorkerStates /\ Sound(x) /\ ~Holding(x)
    BY <2>1 DEF WorkerStates, Sound, Entitled, Found, Calling, Holding
  <2>3. Goto(w, x) \/ Goto(w, Idle)
    BY <1>3 DEF RequestBalance
  <2>4. UNCHANGED <<wallet, journal, wd>>
    BY <1>3 DEF RequestBalance
  <2> HIDE DEF x
  <2> QED BY <2>2, <2>3, <2>4, IdleIsSound, MoveIInv
<1>4. ASSUME NEW duty, NEW r \in Wds, NEW to \in WithdrawalStatuses \ {"none", "REQUESTED"},
             Finds(w, duty, r, to)
      PROVE  IInv'
  <2> DEFINE x == [at |-> "withdrawalUpdate", wd |-> r, to |-> to]
  <2>1. x \in WorkerStates
    BY DEF WorkerStates
  <2>2. wd[r].status \in From(to) /\ Goto(w, x) /\ UNCHANGED <<wallet, journal, wd>>
    BY <1>4 DEF Finds
  <2>3. From(to) \subseteq {"REQUESTED", "PROCESSING"}
    BY DEF From
  <2>4. to = "COMPLETED" => From(to) = {"PROCESSING"}
    BY DEF From
  <2>5. wd[r].status # "none" /\ (to = "COMPLETED" => wd[r].status = "PROCESSING")
    BY <2>2, <2>3, <2>4
  <2>6. Sound(x) /\ ~Holding(x)
    BY <2>5 DEF IInv, RowsFollow, Sound, Entitled, Found, Calling, Holding
  <2> HIDE DEF x
  <2> QED BY <2>1, <2>2, <2>6, MoveIInv
<1>5. ASSUME NEW r \in Wds, \/ processWithdrawal(w, r) \/ completeWithdrawal(w, r)
                            \/ failWithdrawal(w, r) \/ cancelWithdrawal(w, r)
      PROVE  IInv'
  BY <1>4, <1>5 DEF processWithdrawal, completeWithdrawal, failWithdrawal, cancelWithdrawal,
                    WithdrawalStatuses
<1> QED BY <1>2, <1>3, <1>5, RequestCreateIInv, WithdrawalUpdateIInv DEF Withdrawal

LEMMA WalletIInv ==
    ASSUME IInv, NEW w \in Workers, Wallet(w)
    PROVE  IInv'
<1>1. ASSUME NEW amount \in Int, NEW type \in {"CREDIT", "CORRECTION"},
             IF type = "CORRECTION" THEN amount # 0 ELSE amount >= 0,
             Goto(w, Call(type, amount, NoRef)), UNCHANGED <<wallet, journal, wd>>
      PROVE  IInv'
  <2> DEFINE x == Call(type, amount, NoRef)
  <2>1. x \in WorkerStates /\ Sound(x) /\ ~Holding(x)
    BY <1>1 DEF Call, WorkerStates, WalletTxTypes, Refs, Sound, Entitled, Found, Calling, Holding
  <2> HIDE DEF x
  <2> QED BY <1>1, <2>1, MoveIInv DEF x
<1>2. ASSUME NEW net \in Nets, creditWalletWithCommission(w, net) PROVE IInv'
  <2>1. net \in Int /\ net >= 0
    BY WalletAssumption
  <2> QED BY <1>1, <1>2, <2>1 DEF creditWalletWithCommission
<1>3. ASSUME NEW amount \in Corrections, adminAdjust(w, amount) PROVE IInv'
  <2>1. amount \in Int /\ amount # 0
    BY WalletAssumption
  <2> QED BY <1>1, <1>3, <2>1 DEF adminAdjust
<1> QED BY <1>2, <1>3, WalletReadIInv, WalletWriteIInv DEF Wallet

LEMMA InitIInv == Init => IInv
<1> SUFFICES ASSUME Init PROVE IInv
  OBVIOUS
<1>1. TypeOK
  BY IdleIsSound DEF Init, TypeOK, NoWithdrawal, WithdrawalStatuses
<1>2. WalletMatchesJournal
  BY DEF Init, WalletMatchesJournal, WalletTxTypes
<1>3. SettledInOrder /\ RowsFollow
  BY DEF Init, SettledInOrder, RowsFollow, NoWithdrawal
<1>4. Reliable /\ HoldsAlone
  BY IdleIsSound DEF Init, Reliable, HoldsAlone
<1> QED BY <1>1, <1>2, <1>3, <1>4 DEF IInv

LEMMA NextIInv == IInv /\ [Next]_vars => IInv'
<1> SUFFICES ASSUME IInv, [Next]_vars PROVE IInv'
  OBVIOUS
<1>1. ASSUME NEW w \in Workers, Abort(w) PROVE IInv'
  BY <1>1, IdleIsSound, MoveIInv DEF Abort
<1>2. CASE UNCHANGED vars
  BY <1>2 DEF vars, IInv, TypeOK, WalletMatchesJournal, SettledInOrder, RowsFollow,
              Reliable, HoldsAlone, Sound, Entitled, Found, Holding, Calling
<1> QED BY <1>1, <1>2, WithdrawalIInv, WalletIInv DEF Next

LEMMA Invariance == Spec => []IInv
BY InitIInv, NextIInv, PTL DEF Spec

-----------------------------------------------------------------------------
\* Wallet, journal, withdrawals and requests keep their types; in particular
\* no journal row is negative, though corrections may be.
THEOREM TypeCorrect == Spec => []TypeOK
<1>1. IInv => TypeOK
  BY DEF IInv
<1> QED BY <1>1, Invariance, PTL

\* However credits, holds, releases and debits overlap, the wallet is the sum
\* of its journal, unless a correction has overwritten the balance.
THEOREM WalletIsItsJournal == Spec => []WalletMatchesJournal
<1>1. IInv => WalletMatchesJournal
  BY DEF IInv
<1> QED BY <1>1, Invariance, PTL

\* No race of stale requests holds a withdrawal twice, debits one that was
\* never processed, or moves money for one that is still REQUESTED.
THEOREM WithdrawalsInOrder == Spec => []SettledInOrder
<1>1. IInv => SettledInOrder
  BY DEF IInv
<1> QED BY <1>1, Invariance, PTL

-----------------------------------------------------------------------------
(* Which overlaps the wallet cannot take.  Nothing in the code keeps requests *)
(* of a hunter apart, and two of them can overdraw the balance or settle one  *)
(* withdrawal twice.  The theorems below bound the damage: the balance needs  *)
(* no more than one spender at a time, a withdrawal no more than one request  *)
(* that settles it, with any credits, jobs and crashes beside them.           *)
Spending == {"withdraw", "adjust"}
Settling == {"withdraw", "settle"}
OneOf(duties) ==
    \A u, w \in Workers : Duties[u] \cap duties # {} /\ Duties[w] \cap duties # {} => u = w
OneSpender == OneOf(Spending)
OneSettler == OneOf(Settling)

\* The wallet is never overdrawn.
NeverOverdrawn == wallet.balance >= 0

\* A withdrawal is released or debited once at most, and not both.
SettledOnce == \A r \in Wds : wd[r].released + wd[r].debited <= 1

\* The status of a withdrawal moves only as its handlers have read it.
StatusInOrder ==
    [][\A r \in Wds : wd'[r].status # wd[r].status =>
           IF wd[r].status = "none" THEN wd'[r].status = "REQUESTED"
                                    ELSE wd[r].status \in From(wd'[r].status)]_vars

\* What a worker is at belongs to one of its duties.
OnDuty(w, x) ==
    /\ x.at \in {"requestBalance", "requestCreate"} => "withdraw" \in Duties[w]
    /\ x.at = "withdrawalUpdate" => Duties[w] \cap Settling # {}
    /\ Calling(x) => /\ x.type = "HOLD" => "withdraw" \in Duties[w]
                     /\ x.type = "CORRECTION" => "adjust" \in Duties[w]
                     /\ x.type \in {"RELEASE", "DEBIT"} => Duties[w] \cap Settling # {}
DutiesKept == \A w \in Workers : OnDuty(w, worker[w])

\* What a spender has checked still holds when it writes.
Covered(x) ==
    x.at = "walletWrite" => /\ x.type = "HOLD" => wallet.balance >= x.amount
                            /\ x.type = "CORRECTION" => x.seen + x.amount >= 0
Solvent == NeverOverdrawn /\ \A w \in Workers : Covered(worker[w])

\* A settler writes over the status that it has read, and moves money for a
\* withdrawal for the first time, after its last status.
Final == {"COMPLETED", "FAILED", "CANCELLED"}
Unsettled(r) == wd[r].released = 0 /\ wd[r].debited = 0
Fresh(x) ==
    /\ x.at = "withdrawalUpdate" => wd[x.wd].status \in From(x.to)
    /\ Calling(x) /\ x.type \in {"RELEASE", "DEBIT"} => Unsettled(x.ref) /\ wd[x.ref].status \in Final
Settled ==
    /\ SettledOnce
    /\ \A r \in Wds : wd[r].status \notin Final => Unsettled(r)
    /\ \A w \in Workers : Fresh(worker[w])

\* What a step may do to the worker that takes it, in one place: it keeps to its
\* duties, and where it goes to depends on what it has just read.
LEMMA StepKinds ==
    ASSUME IInv, DutiesKept, NEW w \in Workers, Withdrawal(w) \/ Wallet(w) \/ Abort(w)
    PROVE  \E x \in WorkerStates :
             /\ Goto(w, x) /\ OnDuty(w, x)
             /\ \/ /\ UNCHANGED <<wallet, wd>>
                   /\ Covered(x)
                   /\ x.at = "withdrawalUpdate" => x.wd \in Wds /\ wd[x.wd].status \in From(x.to)
                   /\ Calling(x) /\ x.type \in {"RELEASE", "DEBIT"} =>
                          Calling(worker[w]) /\ x.type = worker[w].type /\ x.ref = worker[w].ref
                \/ WalletWrite(w) /\ x = Idle
                \/ RequestCreate(w) /\ Calling(x) /\ x.at = "walletRead" /\ x.type = "HOLD"
                \/ /\ WithdrawalUpdate(w)
                   /\ worker[w].to = "PROCESSING" => x = Idle
                   /\ worker[w].to # "PROCESSING" => Calling(x) /\ x.at = "walletRead" /\ x.ref = worker[w].wd
<1> USE DEF At, Starts
<1>y. PICK y \in WorkerStates : y = worker[w] /\ OnDuty(w, y)
  BY DEF IInv, TypeOK, DutiesKept
<1>i. Idle \in WorkerStates /\ OnDuty(w, Idle) /\ Covered(Idle) /\ ~Calling(Idle) /\ Idle.at = "idle"
  BY DEF WorkerStates, Idle, OnDuty, Covered, Calling
<1>1. ASSUME NEW amount \in Amounts, requestWithdrawal(w, amount)
      PROVE  \E x \in WorkerStates : /\ Goto(w, x) /\ OnDuty(w, x) /\ UNCHANGED <<wallet, wd>>
                                     /\ x.at = "requestBalance"
  <2>1. PICK x : x = [at |-> "requestBalance", amount |-> amount]
    OBVIOUS
  <2>2. x \in WorkerStates
    BY <2>1 DEF WorkerStates
  <2>3. Goto(w, x) /\ "withdraw" \in Duties[w] /\ UNCHANGED <<wallet, wd>>
    BY <1>1, <2>1 DEF requestWithdrawal
  <2>4. OnDuty(w, x)
    BY <2>1, <2>3 DEF OnDuty, Calling
  <2> QED BY <2>1, <2>2, <2>3, <2>4
<1>2. ASSUME RequestBalance(w)
      PROVE  \E x \in WorkerStates : /\ Goto(w, x) /\ OnDuty(w, x) /\ UNCHANGED <<wallet, wd>>
                                     /\ x.at \in {"idle", "requestCreate"}
  <2>1. y.amount \in Amounts /\ "withdraw" \in Duties[w]
    BY <1>2, <1>y DEF RequestBalance, WorkerStates, Idle, OnDuty
  <2>2. PICK x : x = [at |-> "requestCreate", amount |-> y.amount]
    OBVIOUS
  <2>3. x \in WorkerStates
    BY <2>1, <2>2 DEF WorkerStates
  <2>4. OnDuty(w, x)
    BY <2>1, <2>2 DEF OnDuty, Calling
  <2>5. (Goto(w, x) \/ Goto(w, Idle)) /\ UNCHANGED <<wallet, wd>>
    BY <1>2, <1>y, <2>2 DEF RequestBalance
  <2> QED BY <1>i, <2>2, <2>3, <2>4, <2>5
<1>3. ASSUME NEW duty \in Settling, NEW r \in Wds, NEW to \in WithdrawalStatuses, Finds(w, duty, r, to)
      PROVE  \E x \in WorkerStates : /\ Goto(w, x) /\ OnDuty(w, x) /\ UNCHANGED <<wallet, wd>>
                                     /\ x.at = "withdrawalUpdate" /\ x.wd \in Wds
                                     /\ wd[x.wd].status \in From(x.to)
  <2>1. PICK x : x = [at |-> "withdrawalUpdate", wd |-> r, to |-> to]
    OBVIOUS
  <2>2. x \in WorkerStates
    BY <2>1 DEF WorkerStates
  <2>3. Goto(w, x) /\ duty \in Duties[w] /\ UNCHANGED <<wallet, wd>> /\ wd[r].status \in From(to)
    BY <1>3, <2>1 DEF Finds
  <2>4. OnDuty(w, x)
    BY <2>1, <2>3 DEF OnDuty, Calling, Settling
  <2> QED BY <2>1, <2>2, <2>3, <2>4
<1>4. ASSUME NEW r \in Wds, \/ processWithdrawal(w, r) \/ completeWithdrawal(w, r)
                            \/ failWithdrawal(w, r) \/ cancelWithdrawal(w, r)
      PROVE  \E x \in WorkerStates : /\ Goto(w, x) /\ OnDuty(w, x) /\ UNCHANGED <<wallet, wd>>
                                     /\ x.at = "withdrawalUpdate" /\ x.wd \in Wds
                                     /\ wd[x.wd].status \in From(x.to)
  BY <1>3, <1>4 DEF processWithdrawal, completeWithdrawal, failWithdrawal, cancelWithdrawal,
                    WithdrawalStatuses, Settling
<1>5. ASSUME NEW amount \in Int, NEW type \in {"CREDIT", "CORRECTION"},
             type = "CORRECTION" => "adjust" \in Duties[w],
             Goto(w, Call(type, amount, NoRef)), UNCHANGED <<wallet, wd>>
      PROVE  \E x \in WorkerStates : /\ Goto(w, x) /\ OnDuty(w, x) /\ UNCHANGED <<wallet, wd>>
                                     /\ x.at = "walletRead" /\ x.type \in {"CREDIT", "CORRECTION"}
  <2>1. PICK x \in WorkerStates : x = Call(type, amount, NoRef)
    BY CallTyped DEF WalletTxTypes, Refs
  <2>2. x.at = "walletRead" /\ x.type = type
    BY <2>1 DEF Call
  <2>3. OnDuty(w, x)
    BY <1>5, <2>2 DEF OnDuty, Calling
  <2> QED BY <1>5, <2>1, <2>2, <2>3
<1>6. ASSUME \/ \E net \in Nets : creditWalletWithCommission(w, net)
             \/ \E amount \in Corrections : adminAdjust(w, amount)
      PROVE  \E x \in WorkerStates : /\ Goto(w, x) /\ OnDuty(w, x) /\ UNCHANGED <<wallet, wd>>
                                     /\ x.at = "walletRead" /\ x.type \in {"CREDIT", "CORRECTION"}
  <2>1. Nets \subseteq Int /\ Corrections \subseteq Int
    BY WalletAssumption
  <2> QED BY <1>5, <1>6, <2>1 DEF creditWalletWithCommission, adminAdjust
<1>7. ASSUME WalletRead(w)
      PROVE  \E x \in WorkerStates :
                 /\ Goto(w, x) /\ OnDuty(w, x) /\ UNCHANGED <<wallet, wd>> /\ Covered(x)
                 /\ \/ x.at = "idle"
                    \/ /\ x.at = "walletWrite" /\ Calling(y)
                       /\ x.type = y.type /\ x.ref = y.ref
  <2>1. y.at = "walletRead" /\ UNCHANGED <<wallet, wd>>
    BY <1>7, <1>y DEF WalletRead
  <2>2. y.type \in WalletTxTypes /\ y.amount \in Int /\ y.ref \in Refs
    BY <2>1 DEF WorkerStates, Idle
  <2>3. CASE ReadSuffices(y.type, y.amount)
    <3>1. PICK x : x = [at |-> "walletWrite", type |-> y.type, amount |-> y.amount,
                        ref |-> y.ref, seen |-> wallet.balance]
      OBVIOUS
    <3>2. Goto(w, x)
      BY <1>7, <1>y, <2>3, <3>1 DEF WalletRead
    <3>3. x \in WorkerStates
      BY <2>2, <3>1 DEF WorkerStates, IInv, TypeOK
    <3>4. OnDuty(w, x)
      BY <1>y, <2>1, <3>1 DEF OnDuty, Calling
    <3>5. /\ y.type = "HOLD" => wallet.balance >= y.amount
          /\ y.type = "CORRECTION" => wallet.balance + y.amount >= 0
      BY <2>3 DEF ReadSuffices
    <3>6. Covered(x)
      BY <3>1, <3>5 DEF Covered
    <3> QED BY <2>1, <3>1, <3>2, <3>3, <3>4, <3>6 DEF Calling
  <2>4. CASE ~ReadSuffices(y.type, y.amount)
    <3>1. Goto(w, Idle)
      BY <1>7, <1>y, <2>4 DEF WalletRead
    <3> QED BY <1>i, <2>1, <3>1
  <2> QED BY <2>3, <2>4
<1>8. ASSUME RequestCreate(w)
      PROVE  \E x \in WorkerStates : /\ Goto(w, x) /\ OnDuty(w, x)
                                     /\ Calling(x) /\ x.at = "walletRead" /\ x.type = "HOLD"
  <2>1. y.amount \in Amounts /\ "withdraw" \in Duties[w]
    BY <1>8, <1>y DEF RequestCreate, WorkerStates, Idle, OnDuty
  <2>2. PICK r \in Wds : Goto(w, Call("HOLD", y.amount, r))
    BY <1>8, <1>y DEF RequestCreate, InStatus
  <2>3. y.amount \in Int
    <3>1. Amounts \subseteq Int
      BY WalletAssumption
    <3> QED BY <2>1, <3>1
  <2>4. PICK x \in WorkerStates : x = Call("HOLD", y.amount, r)
    BY <2>3, CallTyped DEF WalletTxTypes, Refs
  <2>5. x.at = "walletRead" /\ x.type = "HOLD"
    BY <2>4 DEF Call
  <2>6. OnDuty(w, x)
    BY <2>1, <2>5 DEF OnDuty, Calling
  <2> QED BY <2>2, <2>4, <2>5, <2>6 DEF Calling
<1>9. ASSUME WithdrawalUpdate(w)
      PROVE  \E x \in WorkerStates :
                 /\ Goto(w, x) /\ OnDuty(w, x)
                 /\ y.to = "PROCESSING" => x = Idle
                 /\ y.to # "PROCESSING" => Calling(x) /\ x.at = "walletRead" /\ x.ref = y.wd
  <2>1. y.at = "withdrawalUpdate" /\ y.wd \in Wds /\ Duties[w] \cap Settling # {}
    BY <1>9, <1>y DEF WithdrawalUpdate, WorkerStates, Idle, OnDuty
  <2>2. wd[y.wd].amount \in Int
    BY <2>1, RowFields DEF IInv, TypeOK, WithdrawalRow
  <2>3. ASSUME NEW type \in {"RELEASE", "DEBIT"}, Goto(w, Call(type, wd[y.wd].amount, y.wd))
        PROVE  \E x \in WorkerStates : /\ Goto(w, x) /\ OnDuty(w, x)
                                       /\ Calling(x) /\ x.at = "walletRead" /\ x.ref = y.wd
    <3>1. PICK x \in WorkerStates : x = Call(type, wd[y.wd].amount, y.wd)
      BY <2>1, <2>2, CallTyped DEF WalletTxTypes, Refs
    <3>2. x.at = "walletRead" /\ x.type = type /\ x.ref = y.wd
      BY <3>1 DEF Call
    <3>3. OnDuty(w, x)
      BY <2>1, <3>2 DEF OnDuty, Calling
    <3> QED BY <2>3, <3>1, <3>2, <3>3 DEF Calling
  <2>4. Goto(w, CASE y.to = "PROCESSING" -> Idle
                  [] y.to = "COMPLETED" -> Call("DEBIT", wd[y.wd].amount, y.wd)
                  [] OTHER -> Call("RELEASE", wd[y.wd].amount, y.wd))
    BY <1>9, <1>y DEF WithdrawalUpdate
  <2>5. CASE y.to = "PROCESSING"
    BY <1>i, <2>4, <2>5
  <2>6. CASE y.to = "COMPLETED"
    <3>1. Goto(w, Call("DEBIT", wd[y.wd].amount, y.wd))
      BY <2>4, <2>6
    <3> QED BY <2>3, <2>6, <3>1
  <2>7. CASE y.to \notin {"PROCESSING", "COMPLETED"}
    <3>1. Goto(w, Call("RELEASE", wd[y.wd].amount, y.wd))
      BY <2>4, <2>7
    <3> QED BY <2>3, <2>7, <3>1
  <2> QED BY <2>5, <2>6, <2>7
<1>10. ASSUME WalletWrite(w) PROVE Goto(w, Idle)
  BY <1>10 DEF WalletWrite
<1>11. ASSUME Abort(w) PROVE Goto(w, Idle) /\ UNCHANGED <<wallet, wd>>
  BY <1>11 DEF Abort
<1>12. \A x : /\ x.at \in {"idle", "requestBalance", "requestCreate"} => Covered(x) /\ ~Calling(x)
              /\ x.at = "withdrawalUpdate" => Covered(x) /\ ~Calling(x)
              /\ x.at = "walletRead" => Covered(x)
  BY DEF Covered, Calling
<1>13. CASE \E amount \in Amounts : requestWithdrawal(w, amount)
  BY <1>1, <1>12, <1>13
<1>14. CASE RequestBalance(w)
  BY <1>2, <1>12, <1>14
<1>15. CASE \E r \in Wds : \/ processWithdrawal(w, r) \/ completeWithdrawal(w, r)
                           \/ failWithdrawal(w, r) \/ cancelWithdrawal(w, r)
  BY <1>4, <1>12, <1>15
<1>16. CASE \/ \E net \in Nets : creditWalletWithCommission(w, net)
            \/ \E amount \in Corrections : adminAdjust(w, amount)
  BY <1>6, <1>12, <1>16
<1>17. CASE WalletRead(w)
  BY <1>7, <1>12, <1>17, <1>y DEF Calling
<1>18. CASE RequestCreate(w)
  BY <1>8, <1>18
<1>19. CASE WithdrawalUpdate(w)
  BY <1>9, <1>19, <1>y
<1>20. CASE WalletWrite(w)
  BY <1>10, <1>20, <1>i
<1>21. CASE Abort(w)
  BY <1>11, <1>21, <1>i
<1> QED BY <1>13, <1>14, <1>15, <1>16, <1>17, <1>18, <1>19, <1>20, <1>21 DEF Withdrawal, Wallet

\* A step of worker w to x leaves the others where they were.
LEMMA DutiesStay ==
    ASSUME IInv, DutiesKept, NEW w \in Workers, NEW x \in WorkerStates, Goto(w, x), OnDuty(w, x)
    PROVE  DutiesKept'
<1>1. worker'[w] = x /\ \A u \in Workers : u # w => worker'[u] = worker[u]
  BY Moves DEF IInv
<1> SUFFICES ASSUME NEW u \in Workers PROVE OnDuty(u, worker[u])'
  BY DEF DutiesKept
<1>2. OnDuty(u, worker'[u])
  BY <1>1 DEF DutiesKept
<1> QED BY <1>2 DEF OnDuty, Calling

\* What WalletWrite does to the balance: it falls only to a spender.
LEMMA BalanceSteps ==
    ASSUME IInv, NEW w \in Workers, WalletWrite(w)
    PROVE  \E y \in WorkerStates :
             /\ y = worker[w] /\ y.at = "walletWrite" /\ Calling(y)
             /\ y.type = "HOLD" => wallet'.balance = wallet.balance - y.amount
             /\ y.type = "CORRECTION" => wallet'.balance = y.seen + y.amount
             /\ y.type \notin {"HOLD", "CORRECTION"} => wallet'.balance >= wallet.balance
             /\ wallet.balance \in Int /\ wallet'.balance \in Int
             /\ y.amount \in Int /\ y.seen \in Int
<1>1. PICK y \in WorkerStates : y = worker[w] /\ Sound(y)
  BY DEF IInv, TypeOK, Reliable
<1>2. y.at = "walletWrite" /\ Calling(y)
  BY <1>1 DEF WalletWrite, At, Calling
<1>3. y.type \in WalletTxTypes /\ y.amount \in Int /\ y.seen \in Int
  BY <1>2 DEF WorkerStates, Idle
<1>4. y.type # "CORRECTION" => y.amount >= 0
  BY <1>1, <1>2 DEF Sound, Entitled
<1>5. wallet'.balance = BalanceAfter(y.type, y.amount, y.seen)
  BY <1>1 DEF WalletWrite
<1>6. wallet.balance \in Int
  BY DEF IInv, TypeOK
<1>7. CASE y.type = "HOLD"
  <2>1. wallet'.balance = wallet.balance - y.amount
    BY <1>5, <1>7 DEF BalanceAfter
  <2> QED BY <1>1, <1>2, <1>3, <1>6, <1>7, <2>1
<1>8. CASE y.type = "CORRECTION"
  <2>1. wallet'.balance = y.seen + y.amount
    BY <1>5, <1>8 DEF BalanceAfter
  <2> QED BY <1>1, <1>2, <1>3, <1>6, <1>8, <2>1
<1>9. CASE y.type \in {"CREDIT", "RELEASE"}
  <2>1. wallet'.balance = wallet.balance + y.amount
    BY <1>5, <1>9 DEF BalanceAfter
  <2> QED BY <1>1, <1>2, <1>3, <1>4, <1>6, <1>9, <2>1
<1>10. CASE y.type = "DEBIT"
  <2>1. wallet'.balance = wallet.balance
    BY <1>5, <1>10 DEF BalanceAfter
  <2> QED BY <1>1, <1>2, <1>3, <1>6, <1>10, <2>1
<1> QED BY <1>3, <1>7, <1>8, <1>9, <1>10 DEF WalletTxTypes

\* The balance falls only when the one spender writes, as it has checked.
LEMMA SolventNext ==
    ASSUME OneSpender, IInv, DutiesKept, Solvent, NEW w \in Workers,
           Withdrawal(w) \/ Wallet(w) \/ Abort(w)
    PROVE  DutiesKept' /\ Solvent'
<1>1. PICK x \in WorkerStates :
             /\ Goto(w, x) /\ OnDuty(w, x)
             /\ \/ UNCHANGED wallet /\ Covered(x)
                \/ WalletWrite(w) /\ x = Idle
  <2>1. \A x : x.at = "walletRead" \/ x = Idle => Covered(x)
    BY DEF Covered, Idle
  <2>2. RequestCreate(w) \/ WithdrawalUpdate(w) => UNCHANGED wallet
    BY DEF RequestCreate, WithdrawalUpdate
  <2> QED BY StepKinds, <2>1, <2>2
<1>2. DutiesKept'
  BY <1>1, DutiesStay
<1>3. worker'[w] = x /\ \A u \in Workers : u # w => worker'[u] = worker[u]
  BY <1>1, Moves DEF IInv
<1>4. CASE UNCHANGED wallet /\ Covered(x)
  <2>1. ASSUME NEW u \in Workers PROVE Covered(worker'[u])
    BY <1>3, <1>4 DEF Solvent
  <2>2. ASSUME NEW u \in Workers PROVE Covered(worker[u])'
    BY <1>4, <2>1 DEF Covered
  <2> QED BY <1>2, <1>4, <2>2 DEF Solvent, NeverOverdrawn
<1>5. CASE WalletWrite(w) /\ x = Idle
  <2>1. PICK y \in WorkerStates :
             /\ y = worker[w] /\ y.at = "walletWrite" /\ Calling(y)
             /\ y.type = "HOLD" => wallet'.balance = wallet.balance - y.amount
             /\ y.type = "CORRECTION" => wallet'.balance = y.seen + y.amount
             /\ y.type \notin {"HOLD", "CORRECTION"} => wallet'.balance >= wallet.balance
             /\ wallet.balance \in Int /\ wallet'.balance \in Int
             /\ y.amount \in Int /\ y.seen \in Int
    BY <1>5, BalanceSteps
  <2>2. Covered(y) /\ OnDuty(w, y) /\ wallet.balance >= 0
    BY <2>1 DEF Solvent, NeverOverdrawn, DutiesKept
  <2>3. wallet'.balance >= 0
    BY <2>1, <2>2 DEF Covered
  <2>4. ASSUME NEW u \in Workers PROVE Covered(worker[u])'
    <3>1. CASE u = w
      BY <1>3, <1>5, <3>1 DEF Covered, Idle
    <3>2. CASE u # w
      <4>1. PICK z \in WorkerStates : z = worker[u] /\ z = worker'[u] /\ Covered(z) /\ OnDuty(u, z)
        BY <1>3, <3>2 DEF IInv, TypeOK, Solvent, DutiesKept
      <4>2. CASE z.at = "walletWrite" /\ z.type = "HOLD"
        <5>1. "withdraw" \in Duties[u]
          BY <4>1, <4>2 DEF OnDuty, Calling
        <5>2. y.type \notin {"HOLD", "CORRECTION"}
          BY <2>1, <2>2, <3>2, <5>1 DEF OnDuty, OneSpender, OneOf, Spending
        <5>3. z.amount \in Int /\ wallet.balance >= z.amount
          BY <4>1, <4>2 DEF WorkerStates, Idle, Covered
        <5>4. wallet'.balance >= z.amount
          BY <2>1, <5>2, <5>3
        <5> QED BY <4>1, <4>2, <5>4 DEF Covered
      <4>3. CASE ~(z.at = "walletWrite" /\ z.type = "HOLD")
        BY <4>1, <4>3 DEF Covered
      <4> QED BY <4>2, <4>3
    <3> QED BY <3>1, <3>2
  <2> QED BY <2>3, <2>4, <1>2 DEF Solvent, NeverOverdrawn
<1> QED BY <1>1, <1>2, <1>4, <1>5

\* With one request at a time that withdraws or corrects, holdFunds and
\* adminAdjust never overdraw the wallet: their check before the write is enough.
THEOREM OneSpenderNeverOverdraws == OneSpender => (Spec => []NeverOverdrawn)
<1> SUFFICES ASSUME OneSpender PROVE Spec => []NeverOverdrawn
  OBVIOUS
<1>1. Init => DutiesKept /\ Solvent
  BY DEF Init, DutiesKept, OnDuty, Calling, Solvent, NeverOverdrawn, Covered, Idle
<1>2. IInv /\ DutiesKept /\ Solvent /\ [Next]_vars => DutiesKept' /\ Solvent'
  <2> SUFFICES ASSUME IInv, DutiesKept, Solvent, [Next]_vars PROVE DutiesKept' /\ Solvent'
    OBVIOUS
  <2>1. CASE UNCHANGED vars
    BY <2>1 DEF vars, DutiesKept, OnDuty, Calling, Solvent, NeverOverdrawn, Covered
  <2> QED BY <2>1, SolventNext DEF Next
<1>3. Solvent => NeverOverdrawn
  BY DEF Solvent
<1> QED BY <1>1, <1>2, <1>3, Invariance, PTL DEF Spec

\* The statuses that the handlers start from are not final.
LEMMA FromIsOpen == \A to : From(to) \subseteq {"REQUESTED", "PROCESSING"}
BY DEF From

\* While a settler is at work no other worker relies on a status.
LEMMA OthersIdle ==
    ASSUME OneSettler, IInv, DutiesKept, NEW w \in Workers, Duties[w] \cap Settling # {},
           NEW u \in Workers, u # w, worker'[u] = worker[u]
    PROVE  Fresh(worker[u])'
<1>1. PICK z : z = worker[u] /\ OnDuty(u, z)
  BY DEF DutiesKept
<1>2. Duties[u] \cap Settling = {}
  BY DEF OneSettler, OneOf
<1>3. z.at # "withdrawalUpdate" /\ ~(Calling(z) /\ z.type \in {"RELEASE", "DEBIT"})
  BY <1>1, <1>2 DEF OnDuty
<1> QED BY <1>1, <1>3 DEF Fresh, Calling

\* As long as the rows keep their status and their releases and debits, what is
\* fresh stays so.
LEMMA FreshKeeps ==
    ASSUME IInv, NEW z \in WorkerStates, Sound(z), Fresh(z),
           \A r \in Wds : /\ wd'[r].status = wd[r].status
                         /\ wd'[r].released = wd[r].released /\ wd'[r].debited = wd[r].debited
    PROVE  Fresh(z)'
<1>1. z.at = "withdrawalUpdate" => z.wd \in Wds
  BY DEF WorkerStates, Idle
<1>2. Calling(z) /\ z.type \in {"RELEASE", "DEBIT"} => z.ref \in Wds
  BY DEF Sound, Entitled
<1> QED BY <1>1, <1>2 DEF Fresh, Unsettled, Calling

LEMMA SettledNext ==
    ASSUME OneSettler, IInv, DutiesKept, Settled, NEW w \in Workers,
           Withdrawal(w) \/ Wallet(w) \/ Abort(w)
    PROVE  /\ DutiesKept' /\ Settled'
           /\ \A r \in Wds : wd'[r].status # wd[r].status =>
                  IF wd[r].status = "none" THEN wd'[r].status = "REQUESTED"
                                           ELSE wd[r].status \in From(wd'[r].status)
<1> DEFINE StatusSteps ==
        \A r \in Wds : wd'[r].status # wd[r].status =>
            IF wd[r].status = "none" THEN wd'[r].status = "REQUESTED"
                                     ELSE wd[r].status \in From(wd'[r].status)
<1>t. /\ wd \in [Wds -> WithdrawalRow] /\ worker \in [Workers -> WorkerStates]
      /\ \A r \in Wds : wd[r].released \in Nat /\ wd[r].debited \in Nat
  BY DEF IInv, TypeOK, WithdrawalRow
<1>s. /\ \A r \in Wds : wd[r].released + wd[r].debited <= 1
      /\ \A r \in Wds : wd[r].status \notin Final => Unsettled(r)
      /\ \A u \in Workers : Fresh(worker[u]) /\ Sound(worker[u]) /\ OnDuty(u, worker[u])
  BY DEF Settled, SettledOnce, DutiesKept, IInv, Reliable
<1>y. PICK y \in WorkerStates : y = worker[w] /\ Fresh(y) /\ Sound(y) /\ OnDuty(w, y)
  BY <1>t, <1>s
<1>1. PICK x \in WorkerStates :
             /\ Goto(w, x) /\ OnDuty(w, x)
             /\ \/ UNCHANGED wd /\ Fresh(x)
                \/ WalletWrite(w) /\ x = Idle
                \/ RequestCreate(w) /\ x.at = "walletRead" /\ x.type = "HOLD"
                \/ /\ WithdrawalUpdate(w)
                   /\ y.to = "PROCESSING" => x = Idle
                   /\ y.to # "PROCESSING" => Calling(x) /\ x.at = "walletRead" /\ x.ref = y.wd
  <2>1. ASSUME NEW x, x.at = "withdrawalUpdate" => x.wd \in Wds /\ wd[x.wd].status \in From(x.to),
               Calling(x) /\ x.type \in {"RELEASE", "DEBIT"} =>
                   Calling(y) /\ x.type = y.type /\ x.ref = y.ref
        PROVE  Fresh(x)
    BY <1>y, <2>1 DEF Fresh
  <2> QED BY StepKinds, <1>y, <2>1
<1>2. DutiesKept'
  BY <1>1, DutiesStay
<1>3. worker'[w] = x /\ \A u \in Workers : u # w => worker'[u] = worker[u]
  BY <1>1, Moves DEF IInv
<1>4. CASE UNCHANGED wd /\ Fresh(x)
  <2>1. \A u \in Workers : Fresh(worker'[u])
    BY <1>3, <1>4, <1>s
  <2>2. \A u \in Workers : Fresh(worker[u])'
    BY <1>4, <2>1 DEF Fresh, Unsettled, Calling
  <2>3. Settled'
    BY <1>4, <1>s, <2>2 DEF Settled, SettledOnce, Unsettled
  <2> QED BY <1>2, <1>4, <2>3
<1>5. CASE WalletWrite(w) /\ x = Idle
  <2>1. \A r \in Wds :
           /\ wd'[r].status = wd[r].status
           /\ wd'[r].released = wd[r].released + (IF r = y.ref /\ y.type = "RELEASE" THEN 1 ELSE 0)
           /\ wd'[r].debited = wd[r].debited + (IF r = y.ref /\ y.type = "DEBIT" THEN 1 ELSE 0)
    BY <1>5, <1>t, <1>y, WriteRows
  <2>2. Calling(y)
    BY <1>5, <1>y DEF WalletWrite, At, Calling
  <2>3. Fresh(Idle)'
    BY DEF Fresh, Calling, Idle
  <2>4. CASE y.type \in {"RELEASE", "DEBIT"}
    <3>1. Duties[w] \cap Settling # {}
      BY <1>y, <2>2, <2>4 DEF OnDuty
    <3>2. \A u \in Workers : Fresh(worker[u])'
      <4>1. ASSUME NEW u \in Workers PROVE Fresh(worker[u])'
        <5>1. CASE u = w
          BY <1>3, <1>5, <2>3, <5>1 DEF Fresh, Calling, Idle
        <5>2. CASE u # w
          BY <1>3, <3>1, <5>2, OthersIdle
        <5> QED BY <5>1, <5>2
      <4> QED BY <4>1
    <3>3. wd[y.ref].released = 0 /\ wd[y.ref].debited = 0 /\ wd[y.ref].status \in Final
      BY <1>y, <2>2, <2>4 DEF Fresh, Unsettled
    <3>4. ASSUME NEW r \in Wds
          PROVE  /\ wd'[r].released + wd'[r].debited <= 1
                 /\ wd'[r].status \notin Final => wd'[r].released = 0 /\ wd'[r].debited = 0
      <4>1. CASE r = y.ref
        BY <2>1, <2>4, <3>3, <4>1
      <4>2. CASE r # y.ref
        <5>1. wd'[r].released = wd[r].released /\ wd'[r].debited = wd[r].debited /\ wd'[r].status = wd[r].status
          BY <1>t, <2>1, <4>2
        <5> QED BY <1>s, <5>1 DEF Unsettled
      <4> QED BY <4>1, <4>2
    <3> QED BY <1>2, <2>1, <3>2, <3>4 DEF Settled, SettledOnce, Unsettled
  <2>5. CASE y.type \notin {"RELEASE", "DEBIT"}
    <3>1. \A r \in Wds : /\ wd'[r].status = wd[r].status
                        /\ wd'[r].released = wd[r].released /\ wd'[r].debited = wd[r].debited
      BY <1>t, <2>1, <2>5
    <3>2. ASSUME NEW u \in Workers PROVE Fresh(worker[u])'
      <4>1. CASE u = w
        BY <1>3, <1>5, <2>3, <4>1 DEF Fresh, Calling, Idle
      <4>2. CASE u # w
        <5>1. PICK z \in WorkerStates : z = worker[u] /\ z = worker'[u] /\ Fresh(z) /\ Sound(z)
          BY <1>3, <1>s, <1>t, <4>2
        <5>2. Fresh(z)'
          BY <3>1, <5>1, FreshKeeps
        <5> QED BY <5>1, <5>2
      <4> QED BY <4>1, <4>2
    <3> QED BY <1>2, <1>s, <3>1, <3>2 DEF Settled, SettledOnce, Unsettled
  <2> QED BY <2>4, <2>5
<1>6. CASE RequestCreate(w) /\ x.at = "walletRead" /\ x.type = "HOLD"
  <2>1. PICK r \in Wds : /\ wd[r].status = "none"
                         /\ wd' = [wd EXCEPT ![r] = [NoWithdrawal EXCEPT !.status = "REQUESTED",
                                                                        !.amount = worker[w].amount]]
    BY <1>6 DEF RequestCreate, InStatus
  <2>2. /\ wd'[r].status = "REQUESTED" /\ wd'[r].released = 0 /\ wd'[r].debited = 0
        /\ \A q \in Wds : q # r => wd'[q] = wd[q]
    BY <1>t, <2>1 DEF NoWithdrawal
  <2>3. Duties[w] \cap Settling # {}
    BY <1>6, <1>y DEF RequestCreate, At, OnDuty, Settling
  <2>4. ASSUME NEW u \in Workers PROVE Fresh(worker[u])'
    <3>1. CASE u = w
      BY <1>3, <1>6, <3>1 DEF Fresh, Calling
    <3>2. CASE u # w
      BY <1>3, <2>3, <3>2, OthersIdle
    <3> QED BY <3>1, <3>2
  <2>5. Settled'
    BY <1>s, <2>2, <2>4 DEF Settled, SettledOnce, Unsettled
  <2>6. StatusSteps
    BY <2>1, <2>2
  <2> QED BY <1>2, <2>5, <2>6
<1>7. CASE /\ WithdrawalUpdate(w)
           /\ y.to = "PROCESSING" => x = Idle
           /\ y.to # "PROCESSING" => Calling(x) /\ x.at = "walletRead" /\ x.ref = y.wd
  <2>1. y.at = "withdrawalUpdate" /\ Duties[w] \cap Settling # {}
    BY <1>7, <1>y DEF WithdrawalUpdate, At, OnDuty
  <2>2. PICK r \in Wds, to \in WithdrawalStatuses : r = y.wd /\ to = y.to
    BY <2>1 DEF WorkerStates, Idle
  <2>3. to \notin {"none", "REQUESTED"} /\ wd[r].status \in From(to)
    BY <1>y, <2>1, <2>2 DEF Sound, Found, Fresh
  <2>4. wd[r].status \in {"REQUESTED", "PROCESSING"}
    BY <2>3, FromIsOpen
  <2>5. wd[r].released = 0 /\ wd[r].debited = 0
    BY <1>s, <2>4 DEF Unsettled, Final
  <2>6. wd' = [wd EXCEPT ![r].status = to, ![r].processedAt = @ \/ to = "PROCESSING"]
    BY <1>7, <1>y, <2>2 DEF WithdrawalUpdate
  <2>7. /\ wd'[r].status = to /\ wd'[r].released = 0 /\ wd'[r].debited = 0
        /\ \A q \in Wds : q # r => wd'[q] = wd[q]
    BY <1>t, <2>5, <2>6 DEF WithdrawalRow
  <2>8. to = "PROCESSING" \/ to \in Final
    BY <2>2, <2>3 DEF WithdrawalStatuses, Final
  <2>9. Fresh(x)'
    <3>1. CASE to = "PROCESSING"
      BY <1>7, <2>2, <3>1 DEF Fresh, Calling, Idle
    <3>2. CASE to # "PROCESSING"
      <4>1. x.at = "walletRead" /\ x.ref = r
        BY <1>7, <2>2, <3>2
      <4> QED BY <2>7, <2>8, <3>2, <4>1 DEF Fresh, Calling, Unsettled
    <3> QED BY <3>1, <3>2
  <2>10. ASSUME NEW u \in Workers PROVE Fresh(worker[u])'
    <3>1. CASE u = w
      <4>1. worker'[u] = x
        BY <1>3, <3>1
      <4> QED BY <2>9, <4>1 DEF Fresh, Calling
    <3>2. CASE u # w
      BY <1>3, <2>1, <3>2, OthersIdle
    <3> QED BY <3>1, <3>2
  <2>11. Settled'
    BY <1>s, <2>7, <2>10 DEF Settled, SettledOnce, Unsettled
  <2>12. StatusSteps
    BY <2>3, <2>4, <2>7
  <2> QED BY <1>2, <2>11, <2>12
<1> QED BY <1>1, <1>4, <1>5, <1>6, <1>7

LEMMA OneSettlerSettled ==
    OneSettler => (Spec => [](DutiesKept /\ Settled) /\ StatusInOrder)
<1> SUFFICES ASSUME OneSettler PROVE Spec => [](DutiesKept /\ Settled) /\ StatusInOrder
  OBVIOUS
<1> DEFINE StatusSteps ==
        \A r \in Wds : wd'[r].status # wd[r].status =>
            IF wd[r].status = "none" THEN wd'[r].status = "REQUESTED"
                                     ELSE wd[r].status \in From(wd'[r].status)
<1>1. Init => DutiesKept /\ Settled
  <2> SUFFICES ASSUME Init PROVE DutiesKept /\ Settled
    OBVIOUS
  <2>1. DutiesKept
    BY DEF Init, DutiesKept, OnDuty, Calling, Idle
  <2>2. \A u \in Workers : Fresh(worker[u])
    BY DEF Init, Fresh, Calling, Idle
  <2>3. \A r \in Wds : wd[r].released = 0 /\ wd[r].debited = 0
    BY DEF Init, NoWithdrawal
  <2> QED BY <2>1, <2>2, <2>3 DEF Settled, SettledOnce, Unsettled
<1>2. IInv /\ DutiesKept /\ Settled /\ [Next]_vars => DutiesKept' /\ Settled' /\ [StatusSteps]_vars
  <2> SUFFICES ASSUME IInv, DutiesKept, Settled, [Next]_vars
               PROVE  DutiesKept' /\ Settled' /\ [StatusSteps]_vars
    OBVIOUS
  <2>1. CASE UNCHANGED vars
    BY <2>1 DEF vars, DutiesKept, OnDuty, Calling, Settled, SettledOnce, Unsettled, Fresh
  <2> QED BY <2>1, SettledNext DEF Next
<1> QED BY <1>1, <1>2, Invariance, PTL DEF Spec, StatusInOrder

\* With one request at a time that opens or settles withdrawals, none is paid
\* out and given back, or either of them twice.
THEOREM OneSettlerSettlesOnce == OneSettler => (Spec => []SettledOnce)
<1>1. Settled => SettledOnce
  BY DEF Settled
<1> QED BY <1>1, OneSettlerSettled, PTL

\* With one such request at a time, the status moves only from where completeWithdrawal,
\* failWithdrawal, cancelWithdrawal and processWithdrawal say they start.
THEOREM OneSettlerInOrder == OneSettler => (Spec => StatusInOrder)
BY OneSettlerSettled, PTL
=============================================================================
