------------------------ MODULE Subscriptions_proofs ------------------------
(* TLAPS proofs about Subscriptions, for any number of requests and job      *)
(* runs: nobody gets Pro without a payment row recorded or due, and what one *)
(* request or job at a time does to the period that a row was recorded for.  *)
EXTENDS Subscriptions, TLAPS

\* A row that shows Pro is one that getActiveTier may still answer with, so
\* that Pro can come back only with an end of the period that has passed.
ProIsShown == sub.tier = "PRO" => sub.status \in {"ACTIVE", "CANCELLED"}

IInv == TypeOK /\ ProIsShown

-----------------------------------------------------------------------------
SubRow == [status : SubscriptionStatuses, tier : Tiers, atEnd : BOOLEAN, over : BOOLEAN]

\* A request or job moves on, and writes the row or leaves it, with or without a
\* payment.
LEMMA StepIInv ==
    ASSUME IInv, NEW w \in Workers, NEW x \in WorkerStates, Goto(w, x),
           sub' \in SubRow, ProIsShown', payments' \in Nat, booked' \in Nat
    PROVE  IInv'
<1>1. worker' \in [Workers -> WorkerStates]
  BY DEF IInv, TypeOK, Goto
<1> QED BY <1>1 DEF IInv, TypeOK, SubRow

LEMMA MoveIInv ==
    ASSUME IInv, NEW w \in Workers, NEW x \in WorkerStates, Goto(w, x),
           UNCHANGED <<sub, payments, booked>>
    PROVE  IInv'
<1>1. sub' \in SubRow /\ ProIsShown' /\ payments' \in Nat /\ booked' \in Nat
  BY DEF IInv, TypeOK, SubRow, ProIsShown
<1> QED BY <1>1, StepIInv

\* A step that writes the row and no payment.
LEMMA WriteIInv ==
    ASSUME IInv, NEW w \in Workers, Goto(w, Idle), sub' \in SubRow, ProIsShown',
           UNCHANGED <<payments, booked>>
    PROVE  IInv'
<1>1. Idle \in WorkerStates /\ payments' \in Nat /\ booked' \in Nat
  BY DEF WorkerStates, IInv, TypeOK
<1> QED BY <1>1, StepIInv

\* A step that writes the row and a payment for it.
LEMMA PaymentIInv ==
    ASSUME IInv, NEW w \in Workers, Goto(w, [at |-> "post"]), sub' \in SubRow, ProIsShown',
           payments' = payments + 1, UNCHANGED booked
    PROVE  IInv'
<1> DEFINE x == [at |-> "post"]
<1>1. x \in WorkerStates /\ payments' \in Nat /\ booked' \in Nat
  BY DEF WorkerStates, IInv, TypeOK
<1> QED BY <1>1, StepIInv

LEMMA RequestIInv ==
    ASSUME IInv, NEW w \in Workers, Request(w)
    PROVE  IInv'
<1>1. /\ sub \in SubRow
      /\ worker[w] \in WorkerStates
      /\ ProIsShown
  BY DEF IInv, TypeOK, SubRow
<1>2. ASSUME subscribe(w) PROVE IInv'
  <2>1. PICK x \in WorkerStates : /\ Goto(w, x)
                                  /\ UNCHANGED <<sub, payments, booked>>
    BY <1>2 DEF subscribe, Reads, WorkerStates, Exists
  <2> QED BY <2>1, MoveIInv
<1>3. ASSUME SubscribeWrite(w) PROVE IInv'
  <2>1. CASE ~worker[w].exists /\ Exists
    <3>1. Idle \in WorkerStates
      BY DEF WorkerStates, Idle
    <3>2. Goto(w, Idle) /\ UNCHANGED <<sub, payments, booked>>
      BY <1>3, <2>1 DEF SubscribeWrite
    <3> QED BY <3>1, <3>2, MoveIInv
  <2>2. CASE ~(~worker[w].exists /\ Exists)
    <3>1. Goto(w, [at |-> "post"]) /\ sub' = Subscribed /\ payments' = payments + 1 /\ booked' = booked
      BY <1>3, <2>2 DEF SubscribeWrite
    <3>2. ProIsShown'
      BY <3>1 DEF ProIsShown, Subscribed
    <3>3. sub' \in SubRow
      BY <3>1 DEF SubRow, Subscribed, SubscriptionStatuses, Tiers
    <3> QED BY <3>1, <3>2, <3>3, PaymentIInv
  <2> QED BY <2>1, <2>2
<1>4. ASSUME NEW immediate \in BOOLEAN, cancel(w, immediate) \/ cancelById(w, immediate)
      PROVE  IInv'
  <2>1. PICK x \in WorkerStates : /\ Goto(w, x)
                                  /\ UNCHANGED <<sub, payments, booked>>
    BY <1>4 DEF cancel, cancelById, Reads, WorkerStates
  <2> QED BY <2>1, MoveIInv
<1>5. ASSUME CancelWrite(w) PROVE IInv'
  <2>1. worker[w].immediate \in BOOLEAN
    BY <1>1, <1>5 DEF CancelWrite, At, WorkerStates, Idle
  <2>2. /\ sub' = CancelledRow(worker[w].immediate) /\ Goto(w, Idle)
        /\ UNCHANGED <<payments, booked>>
    BY <1>5 DEF CancelWrite
  <2>3. sub' \in SubRow
    BY <1>1, <2>1, <2>2 DEF CancelledRow, SubscriptionStatuses, Tiers, SubRow
  <2>4. sub'.status = "CANCELLED"
    BY <1>1, <2>1, <2>2 DEF CancelledRow
  <2> QED BY <2>2, <2>3, <2>4, WriteIInv DEF ProIsShown
<1>6. ASSUME reactivate(w) \/ ReactivateRead(w) PROVE IInv'
  <2>1. PICK x \in WorkerStates : /\ Goto(w, x)
                                  /\ UNCHANGED <<sub, payments, booked>>
    BY <1>6 DEF reactivate, ReactivateRead, Reads, WorkerStates, Idle
  <2> QED BY <2>1, MoveIInv
<1>7. ASSUME ReactivateWrite(w) PROVE IInv'
  <2>1. sub' = Reactivated /\ Goto(w, Idle) /\ UNCHANGED <<payments, booked>>
    BY <1>7 DEF ReactivateWrite
  <2>2. sub' \in SubRow
    BY <1>1, <2>1 DEF Reactivated, SubscriptionStatuses, SubRow
  <2>3. sub'.status = "ACTIVE"
    BY <1>1, <2>1 DEF Reactivated
  <2> QED BY <2>1, <2>2, <2>3, WriteIInv DEF ProIsShown
<1> QED BY <1>2, <1>3, <1>4, <1>5, <1>6, <1>7 DEF Request

LEMMA JobIInv ==
    ASSUME IInv, NEW w \in Workers, Job(w)
    PROVE  IInv'
<1>1. /\ sub \in SubRow
      /\ ProIsShown
  BY DEF IInv, TypeOK, SubRow
<1>2. ASSUME processRenewals(w) \/ RenewRead(w) \/ processExpiries(w) PROVE IInv'
  <2>1. PICK x \in WorkerStates : /\ Goto(w, x)
                                  /\ UNCHANGED <<sub, payments, booked>>
    BY <1>2 DEF processRenewals, RenewRead, processExpiries, Reads, WorkerStates
  <2> QED BY <2>1, MoveIInv
<1>3. ASSUME RenewWrite(w) PROVE IInv'
  <2>1. /\ sub' = Renewed /\ payments' = payments + 1 /\ booked' = booked
        /\ Goto(w, [at |-> "post"])
    BY <1>3 DEF RenewWrite
  <2>2. sub' \in SubRow
    BY <1>1, <2>1 DEF Renewed, SubRow
  <2>3. ProIsShown'
    BY <1>1, <2>1 DEF Renewed, ProIsShown
  <2> QED BY <2>1, <2>2, <2>3, PaymentIInv
<1>4. ASSUME ExpireWrite(w) PROVE IInv'
  <2>1. sub' = Expired /\ Goto(w, Idle) /\ UNCHANGED <<payments, booked>>
    BY <1>4 DEF ExpireWrite
  <2>2. sub' \in SubRow
    BY <1>1, <2>1 DEF Expired, SubscriptionStatuses, Tiers, SubRow
  <2>3. sub'.tier = "FREE"
    BY <1>1, <2>1 DEF Expired
  <2> QED BY <2>1, <2>2, <2>3, WriteIInv DEF ProIsShown
<1> QED BY <1>2, <1>3, <1>4 DEF Job

LEMMA InitIInv == Init => IInv
<1> SUFFICES ASSUME Init PROVE IInv
  OBVIOUS
<1>1. TypeOK
  BY DEF Init, TypeOK, NoSubscription, SubscriptionStatuses, Tiers, WorkerStates, Idle
<1>2. ProIsShown
  BY DEF Init, ProIsShown, NoSubscription
<1> QED BY <1>1, <1>2 DEF IInv

LEMMA NextIInv == IInv /\ [Next]_vars => IInv'
<1> SUFFICES ASSUME IInv, [Next]_vars PROVE IInv'
  OBVIOUS
<1>1. ASSUME NEW w \in Workers, postChargeLedger(w) PROVE IInv'
  <2>1. Goto(w, Idle) /\ booked' \in {booked, booked + 1} /\ UNCHANGED <<sub, payments>>
    BY <1>1 DEF postChargeLedger
  <2>2. Idle \in WorkerStates /\ sub' \in SubRow /\ ProIsShown'
        /\ payments' \in Nat /\ booked' \in Nat
    BY <2>1 DEF WorkerStates, IInv, TypeOK, SubRow, ProIsShown
  <2> QED BY <2>1, <2>2, StepIInv
<1>2. ASSUME NEW w \in Workers, Abort(w) PROVE IInv'
  <2>1. Idle \in WorkerStates
    BY DEF WorkerStates
  <2> QED BY <1>2, <2>1, MoveIInv DEF Abort
<1>3. ASSUME PeriodEnds PROVE IInv'
  <2>1. sub' = [sub EXCEPT !.over = TRUE] /\ UNCHANGED <<payments, booked, worker>>
    BY <1>3 DEF PeriodEnds
  <2> QED BY <2>1 DEF IInv, TypeOK, ProIsShown
<1>4. CASE UNCHANGED vars
  BY <1>4 DEF vars, IInv, TypeOK, ProIsShown
<1> QED BY <1>1, <1>2, <1>3, <1>4, RequestIInv, JobIInv DEF Next

LEMMA Invariance == Spec => []IInv
BY InitIInv, NextIInv, PTL DEF Spec

-----------------------------------------------------------------------------
\* The row, the counters and the state of every request and job keep their
\* types: no write leaves a status or tier that the schema does not have.
THEOREM TypeCorrect == Spec => []TypeOK
<1>1. IInv => TypeOK
  BY DEF IInv
<1> QED BY <1>1, Invariance, PTL

\* No step gives Pro to whom getActiveTier answered FREE before, unless it
\* records a payment for it or the next renewal will.
LEMMA ProStep ==
    ASSUME IInv, [Next]_vars, getActiveTier = "FREE", getActiveTier' = "PRO"
    PROVE  payments' > payments \/ Due'
<1>1. /\ sub \in SubRow
      /\ payments \in Nat /\ ProIsShown
  BY DEF IInv, TypeOK, SubRow
<1>2. sub' # sub
  BY DEF getActiveTier
<1>3. ASSUME NEW w \in Workers, Request(w) PROVE payments' > payments \/ Due'
  <2>1. CASE SubscribeWrite(w)
    BY <1>1, <1>2, <2>1 DEF SubscribeWrite
  <2>2. CASE CancelWrite(w)
    BY <1>1, <2>2 DEF CancelWrite, CancelledRow, getActiveTier, ProIsShown
  <2>3. CASE ReactivateWrite(w)
    BY <1>1, <2>3 DEF ReactivateWrite, Reactivated, getActiveTier, ProIsShown, Due
  <2> QED BY <1>2, <1>3, <2>1, <2>2, <2>3
       DEF Request, subscribe, cancel, cancelById, reactivate, ReactivateRead, Reads
<1>4. ASSUME NEW w \in Workers, Job(w) PROVE payments' > payments \/ Due'
  <2>1. CASE RenewWrite(w)
    BY <1>1, <2>1 DEF RenewWrite
  <2>2. CASE ExpireWrite(w)
    BY <1>1, <2>2 DEF ExpireWrite, Expired, getActiveTier
  <2> QED BY <1>2, <1>4, <2>1, <2>2 DEF Job, processRenewals, processExpiries, RenewRead, Reads
<1>5. CASE PeriodEnds
  BY <1>1, <1>5 DEF PeriodEnds, getActiveTier
<1> QED BY <1>2, <1>3, <1>4, <1>5 DEF Next, postChargeLedger, Abort, vars

\* Whatever jobs and requests write over each other, nobody gets Pro off the
\* record: the step that gives it writes a payment row, or leaves a renewal due.
\* Whether anybody was asked for the money is another matter: the code asks no one.
THEOREM ProIsOnRecord == Spec => ProIsRecorded
<1>1. IInv /\ [Next]_vars =>
          [getActiveTier = "FREE" /\ getActiveTier' = "PRO" => payments' > payments \/ Due']_vars
  BY ProStep
<1> QED BY <1>1, Invariance, PTL DEF Spec, ProIsRecorded

-----------------------------------------------------------------------------
(* Where one request or job at a time deals with the subscription, a payment *)
(* row is written only for who was without Pro or due, gives Pro for a new   *)
(* period, and that lasts to its end, unless he or an admin ends it at once. *)
OneActor == \A v, w \in {u \in Workers : Duties[u] # {}} : v = w

RowBuysPro ==
    payments' > payments => /\ getActiveTier = "FREE" \/ Due
                          /\ getActiveTier' = "PRO" /\ ~sub'.over
PeriodLasts ==
    getActiveTier = "PRO" /\ getActiveTier' = "FREE"
        => sub'.over \/ (sub'.status = "CANCELLED" /\ ~sub'.atEnd)
RecordedAndKept == [][RowBuysPro /\ PeriodLasts]_vars

\* An active subscription is a Pro one; what has expired or lost its tier is over.
Sold == /\ sub.status = "ACTIVE" => sub.tier = "PRO"
        /\ sub.status = "EXPIRED" => sub.over
        /\ sub.status = "CANCELLED" /\ sub.atEnd => sub.tier = "PRO" \/ sub.over

\* What a request or job has read still holds, but that the period may end.
Ground(w) ==
    /\ ~At(w, "idle") => Duties[w] # {}
    /\ At(w, "subscribeWrite") => /\ worker[w].exists = Exists
                                  /\ sub.status # "ACTIVE"
                                  /\ sub.status = "CANCELLED" => sub.over
    /\ At(w, "cancelWrite") => sub.status \in {"ACTIVE", "EXPIRED"}
    /\ At(w, "reactivateWrite") => sub.status = "CANCELLED" /\ sub.atEnd /\ sub.tier = "PRO"
    /\ worker[w].at \in {"renewRead", "renewWrite"} => Due
    /\ At(w, "expireWrite") => Ended
Grounded == Sold /\ \A w \in Workers : Ground(w)

\* What a worker's next state asks of the row.
GroundOf(x, row) ==
    /\ x.at = "subscribeWrite" => /\ x.exists = (row.status # "none")
                                  /\ row.status # "ACTIVE"
                                  /\ row.status = "CANCELLED" => row.over
    /\ x.at = "cancelWrite" => row.status \in {"ACTIVE", "EXPIRED"}
    /\ x.at = "reactivateWrite" => row.status = "CANCELLED" /\ row.atEnd /\ row.tier = "PRO"
    /\ x.at \in {"renewRead", "renewWrite"} => row.status = "ACTIVE" /\ ~row.atEnd /\ row.over
    /\ x.at = "expireWrite" => row.status = "CANCELLED" /\ row.atEnd /\ row.over

\* With one actor, only what he does next is to be justified.
LEMMA ActorKeeps ==
    ASSUME IInv, Grounded, OneActor, NEW w \in Workers, NEW x, Goto(w, x),
           Duties[w] # {}, Sold', GroundOf(x, sub')
    PROVE  Grounded'
<1>1. worker'[w] = x /\ \A u \in Workers : u # w => worker'[u] = worker[u]
  BY DEF IInv, TypeOK, Goto
<1>2. ASSUME NEW u \in Workers PROVE Ground(u)'
  <2>1. CASE u = w
    BY <1>1, <2>1 DEF Ground, GroundOf, At, Exists, Due, Ended
  <2>2. CASE u # w
    <3>1. Duties[u] = {}
      BY <2>2 DEF OneActor
    <3>2. worker'[u].at = "idle"
      BY <1>1, <2>2, <3>1 DEF Grounded, Ground, At
    <3> QED BY <3>2 DEF Ground, At
  <2> QED BY <2>1, <2>2
<1> QED BY <1>2 DEF Grounded

\* A step that reads and goes on.
LEMMA ReadKeeps ==
    ASSUME IInv, Grounded, OneActor, NEW w \in Workers, NEW x, Goto(w, x), Duties[w] # {},
           UNCHANGED <<sub, payments>>, GroundOf(x, sub)
    PROVE  Grounded' /\ RowBuysPro /\ PeriodLasts
<1>1. Sold'
  BY DEF Grounded, Sold
<1>2. payments' = payments /\ getActiveTier' = getActiveTier /\ payments \in Nat
  BY DEF getActiveTier, IInv, TypeOK
<1> QED BY <1>1, <1>2, ActorKeeps DEF RowBuysPro, PeriodLasts

LEMMA RequestKeeps ==
    ASSUME IInv, Grounded, OneActor, NEW w \in Workers, Request(w)
    PROVE  Grounded' /\ RowBuysPro /\ PeriodLasts
<1>1. sub \in SubRow /\ worker[w] \in WorkerStates /\ payments \in Nat
  BY DEF IInv, TypeOK, SubRow
<1>2. Sold /\ Ground(w)
  BY DEF Grounded
<1>3. CASE subscribe(w)
  <2>1. PICK x : /\ Goto(w, x) /\ UNCHANGED <<sub, payments>> /\ Duties[w] # {}
                 /\ x = IF sub.status = "CANCELLED" /\ ~sub.over
                          THEN [at |-> "reactivateRead"]
                          ELSE [at |-> "subscribeWrite", exists |-> Exists]
    BY <1>3 DEF subscribe, Reads, Starts
  <2>2. sub.status # "ACTIVE"
    BY <1>3 DEF subscribe
  <2>3. GroundOf(x, sub)
    BY <1>1, <2>1, <2>2 DEF GroundOf, Exists, SubRow
  <2> QED BY <2>1, <2>3, ReadKeeps
<1>4. CASE SubscribeWrite(w)
  <2>1. /\ Duties[w] # {} /\ worker[w].exists = Exists /\ sub.status # "ACTIVE"
        /\ sub.status = "CANCELLED" => sub.over
    BY <1>2, <1>4 DEF SubscribeWrite, Ground, At
  <2>2. sub' = Subscribed /\ payments' = payments + 1 /\ Goto(w, [at |-> "post"])
    BY <1>4, <2>1 DEF SubscribeWrite
  <2>3. Sold' /\ GroundOf([at |-> "post"], sub')
    BY <2>2 DEF Sold, GroundOf, Subscribed
  <2>4. Grounded'
    BY <2>1, <2>2, <2>3, ActorKeeps
  <2>5. getActiveTier = "FREE" /\ getActiveTier' = "PRO" /\ ~sub'.over
    BY <1>1, <2>1, <2>2 DEF getActiveTier, Subscribed
  <2> QED BY <2>4, <2>5 DEF RowBuysPro, PeriodLasts
<1>5. ASSUME NEW immediate \in BOOLEAN, cancel(w, immediate) \/ cancelById(w, immediate)
      PROVE  Grounded' /\ RowBuysPro /\ PeriodLasts
  <2>1. PICK x : /\ Goto(w, x) /\ UNCHANGED <<sub, payments>> /\ Duties[w] # {}
                 /\ x.at = "cancelWrite" /\ sub.status \notin {"none", "CANCELLED"}
    BY <1>5 DEF cancel, cancelById, Reads, Starts, Cancellable, Exists
  <2>2. GroundOf(x, sub)
    BY <1>1, <2>1 DEF GroundOf, SubRow, SubscriptionStatuses
  <2> QED BY <2>1, <2>2, ReadKeeps
<1>6. CASE CancelWrite(w)
  <2>1. PICK immediate \in BOOLEAN : immediate = worker[w].immediate
    BY <1>1, <1>6 DEF CancelWrite, At, WorkerStates, Idle
  <2>2. Duties[w] # {} /\ sub.status \in {"ACTIVE", "EXPIRED"}
    BY <1>2, <1>6 DEF CancelWrite, Ground, At
  <2>3. /\ sub' = CancelledRow(immediate) /\ Goto(w, Idle) /\ payments' = payments
    BY <1>6, <2>1 DEF CancelWrite
  <2>4. /\ sub'.status = "CANCELLED" /\ sub'.over = sub.over /\ sub'.atEnd = ~immediate
        /\ sub'.tier = IF immediate THEN "FREE" ELSE sub.tier
    BY <1>1, <2>3 DEF CancelledRow, SubRow
  <2>5. Sold'
    BY <1>2, <2>2, <2>4 DEF Sold
  <2>6. GroundOf(Idle, sub')
    BY DEF GroundOf, Idle
  <2>7. Grounded'
    BY <2>2, <2>3, <2>5, <2>6, ActorKeeps
  <2>8. PeriodLasts
    BY <1>1, <2>4 DEF PeriodLasts, getActiveTier
  <2> QED BY <1>1, <2>3, <2>7, <2>8 DEF RowBuysPro
<1>7. CASE reactivate(w)
  <2>1. /\ Goto(w, [at |-> "reactivateWrite"]) /\ UNCHANGED <<sub, payments>> /\ Duties[w] # {}
        /\ sub.status = "CANCELLED" /\ sub.atEnd /\ ~sub.over
    BY <1>7 DEF reactivate, Reads, Starts, Reactivatable
  <2>2. GroundOf([at |-> "reactivateWrite"], sub)
    BY <1>2, <2>1 DEF GroundOf, Sold
  <2> QED BY <2>1, <2>2, ReadKeeps
<1>8. CASE ReactivateRead(w)
  <2>1. Duties[w] # {}
    BY <1>2, <1>8 DEF ReactivateRead, Ground, At
  <2>2. PICK x : /\ Goto(w, x)
                 /\ x = IF Reactivatable THEN [at |-> "reactivateWrite"] ELSE Idle
    BY <1>8 DEF ReactivateRead
  <2>3. GroundOf(x, sub)
    BY <1>2, <2>2 DEF GroundOf, Sold, Reactivatable, Idle
  <2> QED BY <1>8, <2>1, <2>2, <2>3, ReadKeeps DEF ReactivateRead
<1>9. CASE ReactivateWrite(w)
  <2>1. Duties[w] # {} /\ sub.status = "CANCELLED" /\ sub.atEnd /\ sub.tier = "PRO"
    BY <1>2, <1>9 DEF ReactivateWrite, Ground, At
  <2>2. sub' = Reactivated /\ Goto(w, Idle) /\ payments' = payments
    BY <1>9 DEF ReactivateWrite
  <2>3. sub'.status = "ACTIVE" /\ sub'.tier = "PRO"
    BY <1>1, <2>1, <2>2 DEF Reactivated, SubRow
  <2>4. Sold' /\ GroundOf(Idle, sub')
    BY <2>3 DEF Sold, GroundOf, Idle
  <2>5. Grounded'
    BY <2>1, <2>2, <2>4, ActorKeeps
  <2>6. getActiveTier' = "PRO"
    BY <2>3 DEF getActiveTier
  <2> QED BY <1>1, <2>2, <2>5, <2>6 DEF RowBuysPro, PeriodLasts
<1> QED BY <1>3, <1>4, <1>5, <1>6, <1>7, <1>8, <1>9 DEF Request

LEMMA JobKeeps ==
    ASSUME IInv, Grounded, OneActor, NEW w \in Workers, Job(w)
    PROVE  Grounded' /\ RowBuysPro /\ PeriodLasts
<1>1. sub \in SubRow /\ payments \in Nat
  BY DEF IInv, TypeOK, SubRow
<1>2. Sold /\ Ground(w)
  BY DEF Grounded
<1>3. CASE processRenewals(w)
  <2>1. /\ Goto(w, [at |-> "renewRead"]) /\ UNCHANGED <<sub, payments>> /\ Duties[w] # {} /\ Due
    BY <1>3 DEF processRenewals, Reads, Starts
  <2> QED BY <2>1, ReadKeeps DEF GroundOf, Due
<1>4. CASE RenewRead(w)
  <2>1. Duties[w] # {} /\ Due /\ Goto(w, [at |-> "renewWrite"]) /\ UNCHANGED <<sub, payments>>
    BY <1>2, <1>4 DEF RenewRead, Ground, At
  <2> QED BY <2>1, ReadKeeps DEF GroundOf, Due
<1>5. CASE RenewWrite(w)
  <2>1. /\ Duties[w] # {} /\ Due
        /\ sub' = Renewed /\ payments' = payments + 1 /\ Goto(w, [at |-> "post"])
    BY <1>2, <1>5 DEF RenewWrite, Ground, At
  <2>2. sub'.status = "ACTIVE" /\ sub'.tier = "PRO" /\ ~sub'.over
    BY <1>1, <1>2, <2>1 DEF Renewed, Due, Sold, SubRow
  <2>3. Sold' /\ GroundOf([at |-> "post"], sub')
    BY <2>2 DEF Sold, GroundOf
  <2>4. Grounded'
    BY <2>1, <2>3, ActorKeeps
  <2>5. getActiveTier' = "PRO"
    BY <2>2 DEF getActiveTier
  <2> QED BY <2>1, <2>2, <2>4, <2>5 DEF RowBuysPro, PeriodLasts
<1>6. CASE processExpiries(w)
  <2>1. /\ Goto(w, [at |-> "expireWrite"]) /\ UNCHANGED <<sub, payments>> /\ Duties[w] # {} /\ Ended
    BY <1>6 DEF processExpiries, Reads, Starts
  <2> QED BY <2>1, ReadKeeps DEF GroundOf, Ended
<1>7. CASE ExpireWrite(w)
  <2>1. /\ Duties[w] # {} /\ Ended
        /\ sub' = Expired /\ payments' = payments /\ Goto(w, Idle)
    BY <1>2, <1>7 DEF ExpireWrite, Ground, At
  <2>2. sub'.status = "EXPIRED" /\ sub'.over
    BY <1>1, <2>1 DEF Expired, Ended, SubRow
  <2>3. Sold' /\ GroundOf(Idle, sub')
    BY <2>2 DEF Sold, GroundOf, Idle
  <2>4. Grounded'
    BY <2>1, <2>3, ActorKeeps
  <2> QED BY <1>1, <2>1, <2>2, <2>4 DEF RowBuysPro, PeriodLasts
<1> QED BY <1>3, <1>4, <1>5, <1>6, <1>7 DEF Job

LEMMA NextKeeps ==
    ASSUME IInv, Grounded, OneActor, [Next]_vars
    PROVE  Grounded' /\ RowBuysPro /\ PeriodLasts
<1>1. sub \in SubRow /\ payments \in Nat
  BY DEF IInv, TypeOK, SubRow
<1>2. ASSUME NEW w \in Workers, postChargeLedger(w) \/ Abort(w)
      PROVE  Grounded' /\ RowBuysPro /\ PeriodLasts
  <2>1. Duties[w] # {} /\ Goto(w, Idle) /\ UNCHANGED <<sub, payments>>
    BY <1>2 DEF postChargeLedger, Abort, Grounded, Ground, At
  <2>2. GroundOf(Idle, sub)
    BY DEF GroundOf, Idle
  <2> QED BY <2>1, <2>2, ReadKeeps
<1>3. CASE PeriodEnds
  <2>1. /\ sub'.status = sub.status /\ sub'.tier = sub.tier /\ sub'.atEnd = sub.atEnd
        /\ sub'.over /\ UNCHANGED <<payments, worker>>
    BY <1>1, <1>3 DEF PeriodEnds, SubRow
  <2>2. \A u \in Workers : Ground(u)'
    BY <2>1 DEF Grounded, Ground, At, Exists, Due, Ended
  <2>3. Sold'
    BY <2>1 DEF Grounded, Sold
  <2> QED BY <1>1, <2>1, <2>2, <2>3 DEF Grounded, RowBuysPro, PeriodLasts
<1>4. CASE UNCHANGED vars
  <2>1. \A u \in Workers : Ground(u)'
    BY <1>4 DEF vars, Grounded, Ground, At, Exists, Due, Ended
  <2>2. Sold' /\ payments' = payments /\ getActiveTier' = getActiveTier
    BY <1>4 DEF vars, Grounded, Sold, getActiveTier
  <2> QED BY <1>1, <2>1, <2>2 DEF Grounded, RowBuysPro, PeriodLasts
<1> QED BY <1>2, <1>3, <1>4, RequestKeeps, JobKeeps DEF Next

\* The jobs write what they found, and requests what they read, without a
\* comparison; as long as one of them at a time deals with a subscription, no
\* period has two payment rows, and none that has one is cut short.
THEOREM OneActorRecordedAndKept == OneActor => (Spec => RecordedAndKept)
<1> SUFFICES ASSUME OneActor PROVE Spec => RecordedAndKept
  OBVIOUS
<1>1. Init => Grounded
  BY DEF Init, Grounded, Sold, Ground, At, Idle, NoSubscription
<1>2. IInv /\ Grounded /\ [Next]_vars => Grounded'
  BY NextKeeps
<1>3. IInv /\ Grounded /\ [Next]_vars => [RowBuysPro /\ PeriodLasts]_vars
  BY NextKeeps
<1> QED BY <1>1, <1>2, <1>3, Invariance, PTL DEF Spec, RecordedAndKept
=============================================================================
