---------------------------- MODULE Subscriptions ----------------------------
(* The Pro subscription of one hunter or brand: requests that subscribe,     *)
(* cancel and reactivate, the hourly jobs that renew and expire, and the     *)
(* ledger posting that follows each payment row. No provider is called:      *)
(* subscribe and renewSubscription write a SubscriptionPayment that reads    *)
(* SUCCEEDED, and book it, for money that nobody was asked for. What is said *)
(* here of payments is said of these rows. Handlers run at the grain of      *)
(* their database calls; no write compares what was read before it. Left     *)
(* out: prices, reminders, notifications, audit rows, and the grace-period   *)
(* job, since nothing ever sets a subscription PAST_DUE. A definition named  *)
(* ...Mutant is a planted bug that the runs must be able to find; nothing    *)
(* uses it.                                                                  *)
EXTENDS Integers

CONSTANTS Workers,    \* requests and job runs in progress at once
          Duties,     \* which of the handlers a worker may run
          MaxPayments \* bound: payment rows after which no period ends and no one subscribes

ASSUME SubscriptionAssumption ==
    /\ MaxPayments \in Nat
    /\ Duties \in [Workers -> SUBSET {"owner", "admin", "renew", "expire"}]

VARIABLES sub,      \* the Subscription row; over: its currentPeriodEnd has passed
          payments, \* SubscriptionPayment rows, all of them SUCCEEDED
          booked,   \* subscription_charged groups in the ledger
          worker    \* where each request or job run stands, and what it has read

vars == <<sub, payments, booked, worker>>

-----------------------------------------------------------------------------
SubscriptionStatuses == {"none", "ACTIVE", "CANCELLED", "EXPIRED"}
Tiers == {"FREE", "PRO"}

\* atEnd is cancelAtPeriodEnd.
NoSubscription == [status |-> "none", tier |-> "FREE", atEnd |-> FALSE, over |-> FALSE]
Exists == sub.status # "none"

Idle == [at |-> "idle"]
At(w, at) == worker[w].at = at
Goto(w, state) == worker' = [worker EXCEPT ![w] = state]
Starts(w, duty) == At(w, "idle") /\ duty \in Duties[w]
Reads(w, duty, state) == Starts(w, duty) /\ Goto(w, state) /\ UNCHANGED <<sub, payments, booked>>

Init ==
    /\ sub = NoSubscription
    /\ payments = 0
    /\ booked = 0
    /\ worker = [w \in Workers |-> Idle]

\* What the other services ask for; an active row is not asked for its end.
getActiveTier ==
    IF sub.status = "ACTIVE" \/ (sub.status = "CANCELLED" /\ ~sub.over) THEN sub.tier ELSE "FREE"

-----------------------------------------------------------------------------
(* subscribe.  Within the paid period of a cancelled row it calls reactivate,*)
(* which reads again; a row that was cancelled at once it cannot bring back. *)
subscribe(w) ==
    /\ sub.status # "ACTIVE"
    /\ payments < MaxPayments
    /\ Reads(w, "owner", IF sub.status = "CANCELLED" /\ ~sub.over
                           THEN [at |-> "reactivateRead"]
                           ELSE [at |-> "subscribeWrite", exists |-> Exists])

Subscribed == [status |-> "ACTIVE", tier |-> "PRO", atEnd |-> FALSE, over |-> FALSE]

\* One transaction with the payment row.  The loser of two creations gets P2002.
SubscribeWrite(w) ==
    /\ At(w, "subscribeWrite")
    /\ IF ~worker[w].exists /\ Exists
         THEN /\ Goto(w, Idle)
              /\ UNCHANGED <<sub, payments>>
         ELSE /\ sub' = Subscribed
              /\ payments' = payments + 1
              /\ Goto(w, [at |-> "post"])
    /\ UNCHANGED booked

\* postChargeLedger; an error is logged and not tried again.
postChargeLedger(w) ==
    /\ At(w, "post")
    /\ booked' \in {booked, booked + 1}
    /\ Goto(w, Idle)
    /\ UNCHANGED <<sub, payments>>

-----------------------------------------------------------------------------
(* cancel and cancelById, then performCancel; the admin's way has no check   *)
(* of the status.                                                            *)
Cancellable == Exists /\ sub.status # "CANCELLED" /\ ~sub.atEnd

cancel(w, immediate) ==
    /\ Cancellable /\ sub.status = "ACTIVE"
    /\ Reads(w, "owner", [at |-> "cancelWrite", immediate |-> immediate])

cancelById(w, immediate) ==
    /\ Cancellable
    /\ Reads(w, "admin", [at |-> "cancelWrite", immediate |-> immediate])

CancelledRow(immediate) ==
    IF immediate THEN [sub EXCEPT !.status = "CANCELLED", !.tier = "FREE", !.atEnd = FALSE]
                 ELSE [sub EXCEPT !.status = "CANCELLED", !.atEnd = TRUE]

CancelWrite(w) ==
    /\ At(w, "cancelWrite")
    /\ sub' = CancelledRow(worker[w].immediate)
    /\ Goto(w, Idle)
    /\ UNCHANGED <<payments, booked>>

Reactivatable == sub.status = "CANCELLED" /\ sub.atEnd /\ ~sub.over

reactivate(w) ==
    /\ Reactivatable
    /\ Reads(w, "owner", [at |-> "reactivateWrite"])

ReactivateRead(w) ==
    /\ At(w, "reactivateRead")
    /\ Goto(w, IF Reactivatable THEN [at |-> "reactivateWrite"] ELSE Idle)
    /\ UNCHANGED <<sub, payments, booked>>

ReactivatedMutant == [sub EXCEPT !.status = "ACTIVE", !.atEnd = FALSE, !.over = FALSE]
Reactivated == [sub EXCEPT !.status = "ACTIVE", !.atEnd = FALSE]

ReactivateWrite(w) ==
    /\ At(w, "reactivateWrite")
    /\ sub' = Reactivated
    /\ Goto(w, Idle)
    /\ UNCHANGED <<payments, booked>>

-----------------------------------------------------------------------------
(* SubscriptionLifecycleScheduler: what a job has found, it renews or        *)
(* expires, whatever has become of it.                                       *)
Due == sub.status = "ACTIVE" /\ ~sub.atEnd /\ sub.over
Ended == sub.status = "CANCELLED" /\ sub.atEnd /\ sub.over

processRenewals(w) == Due /\ Reads(w, "renew", [at |-> "renewRead"])

RenewReadMutant(w) ==
    /\ At(w, "renewRead")
    /\ Goto(w, IF sub.over THEN Idle ELSE [at |-> "renewWrite"])
    /\ UNCHANGED <<sub, payments, booked>>
RenewRead(w) ==
    /\ At(w, "renewRead")
    /\ Goto(w, [at |-> "renewWrite"])
    /\ UNCHANGED <<sub, payments, booked>>

Renewed == [sub EXCEPT !.over = FALSE]

RenewWrite(w) ==
    /\ At(w, "renewWrite")
    /\ sub' = Renewed
    /\ payments' = payments + 1
    /\ Goto(w, [at |-> "post"])
    /\ UNCHANGED booked

processExpiries(w) == Ended /\ Reads(w, "expire", [at |-> "expireWrite"])

LeftCancelledMutant == [sub EXCEPT !.tier = "FREE"]
ExpiredMutant == [sub EXCEPT !.status = "FREE", !.tier = "FREE", !.atEnd = FALSE]
Expired == [sub EXCEPT !.status = "EXPIRED", !.tier = "FREE", !.atEnd = FALSE]

ExpireWrite(w) ==
    /\ At(w, "expireWrite")
    /\ sub' = Expired
    /\ Goto(w, Idle)
    /\ UNCHANGED <<payments, booked>>

-----------------------------------------------------------------------------
\* Cut off before its next call, or the call fails.
Abort(w) ==
    /\ ~At(w, "idle")
    /\ Goto(w, Idle)
    /\ UNCHANGED <<sub, payments, booked>>

PeriodEnds ==
    /\ Exists /\ ~sub.over
    /\ payments < MaxPayments
    /\ sub' = [sub EXCEPT !.over = TRUE]
    /\ UNCHANGED <<payments, booked, worker>>

Request(w) ==
    \/ subscribe(w) \/ SubscribeWrite(w)
    \/ \E immediate \in BOOLEAN : cancel(w, immediate) \/ cancelById(w, immediate)
    \/ CancelWrite(w)
    \/ reactivate(w) \/ ReactivateRead(w) \/ ReactivateWrite(w)

Job(w) ==
    \/ processRenewals(w) \/ RenewRead(w) \/ RenewWrite(w)
    \/ processExpiries(w) \/ ExpireWrite(w)

Next == \/ \E w \in Workers : Request(w) \/ Job(w) \/ postChargeLedger(w) \/ Abort(w)
        \/ PeriodEnds

Spec == Init /\ [][Next]_vars

\* Cron starts each job every hour, and its calls do not fail on every run;
\* a posting ends, if only by failing.  No request has to be made or finished.
FairSpec ==
    /\ Spec
    /\ \A w \in Workers : WF_vars(postChargeLedger(w))
    /\ \A w \in {v \in Workers : "renew" \in Duties[v]} :
           SF_vars(processRenewals(w)) /\ SF_vars(RenewRead(w)) /\ SF_vars(RenewWrite(w))
    /\ \A w \in {v \in Workers : "expire" \in Duties[v]} :
           SF_vars(processExpiries(w)) /\ SF_vars(ExpireWrite(w))

-----------------------------------------------------------------------------
WorkerStates ==
    {Idle}
    \cup [at : {"subscribeWrite"}, exists : BOOLEAN]
    \cup [at : {"cancelWrite"}, immediate : BOOLEAN]
    \cup [at : {"post", "reactivateRead", "reactivateWrite",
                "renewRead", "renewWrite", "expireWrite"}]

TypeOK ==
    /\ sub \in [status : SubscriptionStatuses, tier : Tiers, atEnd : BOOLEAN, over : BOOLEAN]
    /\ payments \in Nat
    /\ booked \in Nat
    /\ worker \in [Workers -> WorkerStates]

\* Whoever gets Pro has a payment row recorded for it in that step, or is about
\* to: his period is over and the next renewal records one.  This is all that
\* can come of a reactivation that the end of the period overtakes.
ProIsRecorded ==
    [][getActiveTier = "FREE" /\ getActiveTier' = "PRO" => payments' > payments \/ Due']_vars

\* A subscription whose period is over does not stay unrenewed, and one that
\* was cancelled to its end does not stay unexpired.
DueGetsRenewed == Due ~> ~Due
EndedGetsExpired == Ended ~> ~Ended
=============================================================================
