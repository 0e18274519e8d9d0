---------------------- MODULE ApprovedSubmission_proofs ----------------------
(* TLAPS proofs about ApprovedSubmission, for any number of submissions,     *)
(* disputes, requests and job runs: the history of a dispute follows its     *)
(* status, and one replica's payout job credits a submission once.           *)
EXTENDS ApprovedSubmission, TLAPS

SubRow == [status : Statuses, payout : PayoutStatuses, due : BOOLEAN, row : BOOLEAN]
DisputeRow == [status : DisputeStatuses, deadline : Times, closeAt : Times]

IInv == TypeOK /\ HistoryFollowsStatus

\* At most one replica runs the payout job, which takes no lock.
OneReplica == \A v, w \in Running("autopay") : v = w

\* What is known of a submission that only the payout job has dealt with.
Untouched(s) ==
    ~touched[s] => /\ sub[s].status = "APPROVED"
                   /\ credits[s] = 0 \/ (credits[s] = 1 /\ sub[s].payout = "PAID")

\* Only the payout job pays such a submission, which it has not credited yet,
\* and has marked once it is about to; nobody else is at it.
Pays(w, x) ==
    \A s \in Subs : ~touched[s] =>
        /\ x.at \in {"autoUpdate", "credit"} /\ s \in x.subs =>
               /\ "autopay" \in Duties[w]
               /\ credits[s] = 0
               /\ sub[s].payout = IF x.at = "credit" THEN "PAID" ELSE "NOT_PAID"
        /\ x.at \in {"payoutRow", "reviewUpdate"} => x.sub # s

PayInv == /\ \A s \in Subs : Untouched(s)
          /\ \A w \in Workers : Pays(w, worker[w])

-----------------------------------------------------------------------------
(* Types, and the history of disputes.                                       *)
LEMMA Moves ==
    ASSUME TypeOK, NEW w \in Workers, NEW x \in WorkerStates, Goto(w, x)
    PROVE  /\ worker' \in [Workers -> WorkerStates]
           /\ worker'[w] = x
           /\ \A u \in Workers : u # w => worker'[u] = worker[u]
BY DEF TypeOK, Goto

LEMMA IdleTyped == Idle \in WorkerStates
BY DEF WorkerStates, Idle

LEMMA MoveIInv ==
    ASSUME IInv, NEW w \in Workers, NEW x \in WorkerStates, Goto(w, x),
           sub' \in [Subs -> SubRow], touched' \in [Subs -> BOOLEAN],
           credits' \in [Subs -> Nat], UNCHANGED <<dispute, recorded>>
    PROVE  IInv'
<1>1. worker' \in [Workers -> WorkerStates]
  BY Moves DEF IInv
<1>2. TypeOK'
  BY <1>1 DEF IInv, TypeOK, SubRow
<1>3. HistoryFollowsStatus'
  BY DEF IInv, HistoryFollowsStatus
<1> QED BY <1>2, <1>3 DEF IInv

LEMMA DisputeIInv ==
    ASSUME IInv, worker' \in [Workers -> WorkerStates],
           sub' \in [Subs -> SubRow], touched' \in [Subs -> BOOLEAN],
           dispute' \in [Disputes -> DisputeRow], recorded' \in [Disputes -> DisputeStatuses],
           HistoryFollowsStatus', UNCHANGED credits
    PROVE  IInv'
<1>1. TypeOK'
  BY DEF IInv, TypeOK, SubRow, DisputeRow
<1> QED BY <1>1 DEF IInv

LEMMA PayoutIInv ==
    ASSUME IInv, NEW w \in Workers, Payout(w)
    PROVE  IInv'
<1>1. /\ sub \in [Subs -> SubRow] /\ touched \in [Subs -> BOOLEAN]
      /\ credits \in [Subs -> Nat] /\ worker[w] \in WorkerStates
  BY DEF IInv, TypeOK, SubRow
<1>2. ASSUME NEW s \in Subs, NEW to \in PayoutStatuses, updatePayout(w, s, to) PROVE IInv'
  <2>1. sub[s].row \in BOOLEAN
    BY <1>1 DEF SubRow
  <2>2. PICK x \in WorkerStates :
           x = [at |-> "payoutUpdate", sub |-> s, to |-> to, row |-> sub[s].row]
    BY <2>1 DEF WorkerStates
  <2> QED BY <1>1, <1>2, <2>2, MoveIInv DEF updatePayout
<1>3. ASSUME PayoutUpdate(w) PROVE IInv'
  <2>1. PICK s \in Subs, to \in PayoutStatuses, row \in BOOLEAN :
           s = worker[w].sub /\ to = worker[w].to /\ row = worker[w].row
    BY <1>1, <1>3 DEF PayoutUpdate, At, WorkerStates, Idle
  <2>2. PICK x \in WorkerStates : x = [at |-> "payoutRow", sub |-> s, row |-> row]
    BY DEF WorkerStates
  <2>3. Goto(w, x) \/ Goto(w, Idle)
    BY <1>3, <2>1, <2>2 DEF PayoutUpdate
  <2>4. sub' = [sub EXCEPT ![s].payout = to] /\ touched' = [touched EXCEPT ![s] = TRUE]
    BY <1>3, <2>1 DEF PayoutUpdate
  <2>5. sub' \in [Subs -> SubRow] /\ touched' \in [Subs -> BOOLEAN]
    BY <1>1, <2>4 DEF SubRow
  <2>6. UNCHANGED <<credits, dispute, recorded>>
    BY <1>3 DEF PayoutUpdate
  <2> QED BY <1>1, <2>3, <2>5, <2>6, IdleTyped, MoveIInv
<1>4. ASSUME PayoutRow(w) PROVE IInv'
  <2>1. PICK s \in Subs : s = worker[w].sub
    BY <1>1, <1>4 DEF PayoutRow, At, WorkerStates, Idle
  <2>2. PICK x \in WorkerStates : x = [at |-> "credit", subs |-> {s}]
    BY DEF WorkerStates
  <2>3. /\ Goto(w, x) \/ Goto(w, Idle)
        /\ sub' = sub \/ sub' = [sub EXCEPT ![s].row = TRUE]
        /\ UNCHANGED <<touched, credits, dispute, recorded>>
    BY <1>4, <2>1, <2>2 DEF PayoutRow
  <2>4. sub' \in [Subs -> SubRow]
    BY <1>1, <2>3 DEF SubRow
  <2> QED BY <1>1, <2>3, <2>4, IdleTyped, MoveIInv
<1>5. ASSUME NEW s \in Subs, NEW to \in Statuses, review(w, s, to) PROVE IInv'
  <2>1. PICK x \in WorkerStates : x = [at |-> "reviewUpdate", sub |-> s, to |-> to]
    BY DEF WorkerStates
  <2> QED BY <1>1, <1>5, <2>1, MoveIInv DEF review
<1>6. ASSUME ReviewUpdate(w) PROVE IInv'
  <2>1. PICK s \in Subs, to \in Statuses : s = worker[w].sub /\ to = worker[w].to
    BY <1>1, <1>6 DEF ReviewUpdate, At, WorkerStates, Idle
  <2>2. /\ sub' = [sub EXCEPT ![s].status = to, ![s].due = @ /\ to # "APPROVED"]
        /\ Goto(w, Idle) /\ UNCHANGED <<touched, credits, dispute, recorded>>
    BY <1>6, <2>1 DEF ReviewUpdate
  <2>3. sub' \in [Subs -> SubRow]
    BY <1>1, <2>2 DEF SubRow
  <2> QED BY <1>1, <2>2, <2>3, IdleTyped, MoveIInv
<1>7. ASSUME NEW s \in Subs, updateSubmission(w, s) PROVE IInv'
  <2>1. PICK x \in WorkerStates : x = [at |-> "reviewUpdate", sub |-> s, to |-> "SUBMITTED"]
    BY DEF WorkerStates, Statuses
  <2> QED BY <1>1, <1>7, <2>1, MoveIInv DEF updateSubmission
<1>8. ASSUME NEW s \in Subs, NEW to \in Statuses, overrideSubmission(w, s, to) PROVE IInv'
  <2>1. /\ sub' = [sub EXCEPT ![s].status = to] /\ touched' = [touched EXCEPT ![s] = TRUE]
        /\ UNCHANGED <<credits, dispute, recorded, worker>>
    BY <1>8 DEF overrideSubmission
  <2>2. sub' \in [Subs -> SubRow] /\ touched' \in [Subs -> BOOLEAN]
    BY <1>1, <2>1 DEF SubRow
  <2>3. worker' \in [Workers -> WorkerStates] /\ dispute' \in [Disputes -> DisputeRow]
        /\ recorded' \in [Disputes -> DisputeStatuses] /\ HistoryFollowsStatus'
    BY <2>1 DEF IInv, TypeOK, DisputeRow, HistoryFollowsStatus
  <2> QED BY <2>1, <2>2, <2>3, DisputeIInv
<1> QED BY <1>2, <1>3, <1>4, <1>5, <1>6, <1>7, <1>8 DEF Payout

LEMMA ResolvedTyped ==
    ASSUME NEW x \in SubRow, NEW resolution
    PROVE  ResolvedSubmission(x, resolution) \in SubRow
<1>1. [x EXCEPT !.status = "REJECTED", !.payout = "NOT_PAID"] \in SubRow
  BY DEF SubRow, Statuses, PayoutStatuses
<1>2. [x EXCEPT !.payout = "PENDING"] \in SubRow
  BY DEF SubRow, PayoutStatuses
<1>3. [x EXCEPT !.status = "NEEDS_MORE_INFO"] \in SubRow
  BY DEF SubRow, Statuses
<1> QED BY <1>1, <1>2, <1>3 DEF ResolvedSubmission

LEMMA DisputeStepIInv ==
    ASSUME IInv, NEW w \in Workers, Dispute(w)
    PROVE  IInv'
<1>1. /\ sub \in [Subs -> SubRow] /\ touched \in [Subs -> BOOLEAN]
      /\ credits \in [Subs -> Nat] /\ worker[w] \in WorkerStates
      /\ dispute \in [Disputes -> DisputeRow] /\ recorded \in [Disputes -> DisputeStatuses]
  BY DEF IInv, TypeOK, SubRow, DisputeRow
<1>2. ASSUME NEW s \in Subs, create(w, s) PROVE IInv'
  <2>1. PICK x \in WorkerStates : x = [at |-> "disputeCreate", sub |-> s]
    BY DEF WorkerStates
  <2> QED BY <1>1, <1>2, <2>1, MoveIInv DEF create
<1>3. ASSUME DisputeCreate(w) PROVE IInv'
  <2>1. PICK d \in Disputes : /\ dispute' = [dispute EXCEPT ![d].status = "DRAFT"]
                              /\ recorded' = [recorded EXCEPT ![d] = "DRAFT"]
    BY <1>3 DEF DisputeCreate
  <2>2. Goto(w, Idle) /\ UNCHANGED <<sub, touched, credits>>
    BY <1>3 DEF DisputeCreate
  <2>3. dispute' \in [Disputes -> DisputeRow] /\ recorded' \in [Disputes -> DisputeStatuses]
    BY <1>1, <2>1 DEF DisputeRow, DisputeStatuses
  <2>4. HistoryFollowsStatus'
    BY <1>1, <2>1 DEF IInv, HistoryFollowsStatus, DisputeRow
  <2> QED BY <1>1, <2>2, <2>3, <2>4, IdleTyped, Moves, DisputeIInv DEF IInv
<1>4. ASSUME NEW duty, NEW d \in Disputes, NEW to \in DisputeStatuses,
             NEW resolution \in Resolutions \cup {"none"}, Finds(w, duty, d, to, resolution)
      PROVE  IInv'
  <2>1. PICK x \in WorkerStates :
           x = [at |-> "disputeUpdate", dispute |-> d, to |-> to, resolution |-> resolution]
    BY DEF WorkerStates
  <2> QED BY <1>1, <1>4, <2>1, MoveIInv DEF Finds
<1>5. ASSUME NEW d \in Disputes,
             \/ submitDraft(w, d) \/ escalate(w, d) \/ withdraw(w, d)
             \/ \E to \in DisputeStatuses : transition(w, d, to)
             \/ \E resolution \in Resolutions : resolve(w, d, resolution)
      PROVE  IInv'
  BY <1>4, <1>5 DEF submitDraft, escalate, withdraw, transition, resolve, DisputeStatuses
<1>6. ASSUME DisputeUpdate(w) PROVE IInv'
  <2>1. PICK d \in Disputes, to \in DisputeStatuses, resolution \in Resolutions \cup {"none"} :
           d = worker[w].dispute /\ to = worker[w].to /\ resolution = worker[w].resolution
    <3>1. worker[w].dispute \in Disputes /\ worker[w].to \in DisputeStatuses
      BY <1>1, <1>6 DEF DisputeUpdate, At, WorkerStates, Idle
    <3>2. worker[w].resolution \in Resolutions \cup {"none"}
      BY <1>1, <1>6 DEF DisputeUpdate, At, WorkerStates, Idle
    <3> QED BY <3>1, <3>2
  <2>2. /\ dispute' = [dispute EXCEPT ![d] = Dated(dispute[d], to, resolution)]
        /\ recorded' = [recorded EXCEPT ![d] = to]
        /\ sub' = [sub EXCEPT ![DisputeOf[d]] = ResolvedSubmission(sub[DisputeOf[d]], resolution)]
        /\ touched' = [touched EXCEPT ![DisputeOf[d]] =
                           @ \/ resolution \in Resolutions \ {"OTHER"}]
        /\ Goto(w, Idle) /\ UNCHANGED credits
    BY <1>6, <2>1 DEF DisputeUpdate, RecordedStatus
  <2>3. DisputeOf[d] \in Subs
    BY ApprovedAssumption
  <2>4. Dated(dispute[d], to, resolution) \in DisputeRow
        /\ Dated(dispute[d], to, resolution).status = to
    BY <1>1 DEF Dated, DisputeRow, Times
  <2>5. ResolvedSubmission(sub[DisputeOf[d]], resolution) \in SubRow
    BY <1>1, <2>3, ResolvedTyped
  <2>6. sub' \in [Subs -> SubRow] /\ touched' \in [Subs -> BOOLEAN]
    BY <1>1, <2>2, <2>3, <2>5
  <2>7. dispute' \in [Disputes -> DisputeRow] /\ recorded' \in [Disputes -> DisputeStatuses]
    BY <1>1, <2>2, <2>4
  <2>8. /\ dispute'[d].status = to /\ recorded'[d] = to
        /\ \A e \in Disputes : e # d => dispute'[e] = dispute[e] /\ recorded'[e] = recorded[e]
    BY <1>1, <2>2, <2>4
  <2>9. HistoryFollowsStatus'
    BY <2>8 DEF IInv, HistoryFollowsStatus
  <2> QED BY <1>1, <2>2, <2>6, <2>7, <2>9, IdleTyped, Moves, DisputeIInv DEF IInv
<1> QED BY <1>2, <1>3, <1>5, <1>6 DEF Dispute

LEMMA JobIInv ==
    ASSUME IInv, NEW w \in Workers, Job(w)
    PROVE  IInv'
<1>1. /\ sub \in [Subs -> SubRow] /\ touched \in [Subs -> BOOLEAN]
      /\ credits \in [Subs -> Nat] /\ worker[w] \in WorkerStates
      /\ dispute \in [Disputes -> DisputeRow] /\ recorded \in [Disputes -> DisputeStatuses]
  BY DEF IInv, TypeOK, SubRow, DisputeRow
<1>2. ASSUME processExpiredDeadlines(w) PROVE IInv'
  <2>1. PICK x \in WorkerStates : x = [at |-> "autoUpdate", subs |-> {s \in Subs : Due(s)}]
    BY DEF WorkerStates
  <2> QED BY <1>1, <1>2, <2>1, MoveIInv DEF processExpiredDeadlines
<1>3. ASSUME AutoUpdate(w) PROVE IInv'
  <2>1. PICK subs \in SUBSET Subs : subs = worker[w].subs
    BY <1>1, <1>3 DEF AutoUpdate, At, WorkerStates, Idle
  <2>2. PICK x \in WorkerStates : x = [at |-> "credit", subs |-> subs]
    BY DEF WorkerStates
  <2>3. /\ sub' = [s \in Subs |-> IF s \in subs THEN MarkedPaid(s) ELSE sub[s]]
        /\ Goto(w, x) /\ UNCHANGED <<touched, credits, dispute, recorded>>
    BY <1>3, <2>1, <2>2 DEF AutoUpdate
  <2>4. \A s \in Subs : MarkedPaid(s) \in SubRow
    BY <1>1 DEF MarkedPaid, SubRow, PayoutStatuses
  <2>5. sub' \in [Subs -> SubRow]
    BY <1>1, <2>3, <2>4
  <2> QED BY <1>1, <2>3, <2>5, MoveIInv
<1>4. ASSUME creditWalletWithCommission(w) PROVE IInv'
  <2>1. PICK subs \in SUBSET Subs : subs = worker[w].subs
    BY <1>1, <1>4 DEF creditWalletWithCommission, At, WorkerStates, Idle
  <2>2. PICK s \in subs :
           /\ credits' = [credits EXCEPT ![s] = @ + 1] \/ credits' = credits
           /\ Goto(w, IF subs = {s} THEN Idle ELSE [at |-> "credit", subs |-> subs \ {s}])
    BY <1>4, <2>1 DEF creditWalletWithCommission
  <2>3. PICK x \in WorkerStates : x = [at |-> "credit", subs |-> subs \ {s}]
    BY DEF WorkerStates
  <2>4. Goto(w, x) \/ Goto(w, Idle)
    BY <2>2, <2>3
  <2>5. credits' \in [Subs -> Nat]
    BY <1>1, <2>2
  <2>6. UNCHANGED <<sub, touched, dispute, recorded>>
    BY <1>4 DEF creditWalletWithCommission
  <2> QED BY <1>1, <2>4, <2>5, <2>6, IdleTyped, MoveIInv
<1>5. ASSUME autoEscalateStaleDisputes(w) \/ autoCloseResolvedDisputes(w) PROVE IInv'
  <2>1. [at |-> "escalateUpdate"] \in WorkerStates /\ [at |-> "closeUpdate"] \in WorkerStates
    BY DEF WorkerStates
  <2> QED BY <1>1, <1>5, <2>1, MoveIInv DEF autoEscalateStaleDisputes, autoCloseResolvedDisputes
<1>6. ASSUME EscalateUpdate(w) PROVE IInv'
  <2>1. /\ dispute' = [d \in Disputes |-> IF Stale(d) THEN Escalated(d) ELSE dispute[d]]
        /\ Goto(w, Idle) /\ UNCHANGED <<sub, touched, credits, recorded>>
    BY <1>6 DEF EscalateUpdate
  <2>2. \A d \in Disputes : Escalated(d) \in DisputeRow /\ Escalated(d).status = "ESCALATED"
    BY <1>1 DEF Escalated, DisputeRow, DisputeStatuses
  <2>3. dispute' \in [Disputes -> DisputeRow]
    BY <1>1, <2>1, <2>2
  <2>4. HistoryFollowsStatus'
    BY <1>1, <2>1, <2>2 DEF IInv, HistoryFollowsStatus, Stale
  <2> QED BY <1>1, <2>1, <2>3, <2>4, IdleTyped, Moves, DisputeIInv DEF IInv
<1>7. ASSUME CloseUpdate(w) PROVE IInv'
  <2>1. /\ dispute' = [d \in Disputes |-> IF Ripe(d) THEN Closed(d) ELSE dispute[d]]
        /\ Goto(w, Idle) /\ UNCHANGED <<sub, touched, credits, recorded>>
    BY <1>7 DEF CloseUpdate
  <2>2. \A d \in Disputes : Closed(d) \in DisputeRow /\ Closed(d).status = "CLOSED"
    BY <1>1 DEF Closed, DisputeRow, DisputeStatuses
  <2>3. dispute' \in [Disputes -> DisputeRow]
    BY <1>1, <2>1, <2>2
  <2>4. HistoryFollowsStatus'
    BY <1>1, <2>1, <2>2 DEF IInv, HistoryFollowsStatus, Ripe
  <2> QED BY <1>1, <2>1, <2>3, <2>4, IdleTyped, Moves, DisputeIInv DEF IInv
<1> QED BY <1>2, <1>3, <1>4, <1>5, <1>6, <1>7 DEF Job

LEMMA InitIInv == Init => IInv
<1> SUFFICES ASSUME Init PROVE IInv
  OBVIOUS
<1>1. TypeOK
  BY IdleTyped DEF Init, TypeOK, Statuses, PayoutStatuses, NoDispute, DisputeStatuses, Times
<1>2. HistoryFollowsStatus
  BY DEF Init, HistoryFollowsStatus, NoDispute
<1> QED BY <1>1, <1>2 DEF IInv

LEMMA NextIInv == IInv /\ [Next]_vars => IInv'
<1> SUFFICES ASSUME IInv, [Next]_vars PROVE IInv'
  OBVIOUS
<1>1. /\ sub \in [Subs -> SubRow] /\ touched \in [Subs -> BOOLEAN]
      /\ credits \in [Subs -> Nat] /\ worker \in [Workers -> WorkerStates]
      /\ dispute \in [Disputes -> DisputeRow] /\ recorded \in [Disputes -> DisputeStatuses]
  BY DEF IInv, TypeOK, SubRow, DisputeRow
<1>2. ASSUME NEW w \in Workers, Abort(w) PROVE IInv'
  BY <1>1, <1>2, IdleTyped, MoveIInv DEF Abort
<1>3. ASSUME NEW s \in Subs, DeadlinePasses(s) PROVE IInv'
  <2>1. /\ sub' = [sub EXCEPT ![s].due = TRUE]
        /\ UNCHANGED <<touched, credits, dispute, recorded, worker>>
    BY <1>3 DEF DeadlinePasses
  <2>2. sub' \in [Subs -> SubRow]
    BY <1>1, <2>1 DEF SubRow
  <2>3. HistoryFollowsStatus'
    BY <2>1 DEF IInv, HistoryFollowsStatus
  <2> QED BY <1>1, <2>1, <2>2, <2>3, DisputeIInv
<1>4. ASSUME NEW d \in Disputes, DatePasses(d) PROVE IInv'
  <2>1. /\ \/ dispute' = [dispute EXCEPT ![d].deadline = "past"]
           \/ dispute' = [dispute EXCEPT ![d].closeAt = "past"]
        /\ UNCHANGED <<sub, touched, credits, recorded, worker>>
    BY <1>4 DEF DatePasses
  <2>2. dispute' \in [Disputes -> DisputeRow]
    BY <1>1, <2>1 DEF DisputeRow, Times
  <2>3. \A e \in Disputes : dispute'[e].status = dispute[e].status
    BY <1>1, <2>1 DEF DisputeRow
  <2>4. HistoryFollowsStatus'
    BY <2>1, <2>3 DEF IInv, HistoryFollowsStatus
  <2> QED BY <1>1, <2>1, <2>2, <2>4, DisputeIInv
<1>5. CASE UNCHANGED vars
  BY <1>5 DEF vars, IInv, TypeOK, HistoryFollowsStatus
<1> QED BY <1>2, <1>3, <1>4, <1>5, PayoutIInv, DisputeStepIInv, JobIInv DEF Next

LEMMA Invariance == Spec => []IInv
BY InitIInv, NextIInv, PTL DEF Spec

-----------------------------------------------------------------------------
(* What the payout job pays.                                                 *)

\* Steps other than the job's update and its credits.
LEMMA PayKeeps ==
    ASSUME PayInv, IInv, NEW w \in Workers, NEW x \in WorkerStates, Goto(w, x),
           \A s \in Subs : ~touched'[s] => /\ ~touched[s]
                                           /\ sub'[s].status = sub[s].status
                                           /\ sub'[s].payout = sub[s].payout,
           credits' = credits, Pays(w, x)'
    PROVE  PayInv'
<1>1. worker'[w] = x /\ \A u \in Workers : u # w => worker'[u] = worker[u]
  BY Moves DEF IInv
<1>2. \A s \in Subs : Untouched(s)'
  BY DEF PayInv, Untouched
<1>3. ASSUME NEW u \in Workers PROVE Pays(u, worker[u])'
  <2>1. CASE u = w
    BY <1>1, <2>1 DEF Pays
  <2>2. CASE u # w
    BY <1>1, <2>2 DEF PayInv, Pays
  <2> QED BY <2>1, <2>2
<1> QED BY <1>2, <1>3 DEF PayInv

\* A step that only goes on to a state of no interest here.
LEMMA ElsewhereKeeps ==
    ASSUME PayInv, IInv, NEW w \in Workers, NEW x \in WorkerStates, Goto(w, x),
           x.at \notin {"autoUpdate", "credit", "payoutRow", "reviewUpdate"},
           UNCHANGED <<sub, touched, credits>>
    PROVE  PayInv'
<1>1. Pays(w, x)'
  BY DEF Pays
<1> QED BY <1>1, PayKeeps

LEMMA IdlePays == Idle.at = "idle"
BY DEF Idle

LEMMA PayoutPayInv ==
    ASSUME PayInv, IInv, NEW w \in Workers, Payout(w)
    PROVE  PayInv'
<1>1. /\ sub \in [Subs -> SubRow] /\ touched \in [Subs -> BOOLEAN]
      /\ worker[w] \in WorkerStates /\ Pays(w, worker[w])
  BY DEF IInv, TypeOK, SubRow, PayInv
<1>2. ASSUME NEW s \in Subs, NEW to \in PayoutStatuses, updatePayout(w, s, to) PROVE PayInv'
  <2>1. sub[s].row \in BOOLEAN
    BY <1>1 DEF SubRow
  <2>2. PICK x \in WorkerStates :
           x = [at |-> "payoutUpdate", sub |-> s, to |-> to, row |-> sub[s].row]
    BY <2>1 DEF WorkerStates
  <2> QED BY <1>2, <2>2, ElsewhereKeeps DEF updatePayout
<1>3. ASSUME PayoutUpdate(w) PROVE PayInv'
  <2>1. PICK s \in Subs, row \in BOOLEAN : s = worker[w].sub /\ row = worker[w].row
    BY <1>1, <1>3 DEF PayoutUpdate, At, WorkerStates, Idle
  <2>2. PICK x \in WorkerStates : x = [at |-> "payoutRow", sub |-> s, row |-> row]
    BY DEF WorkerStates
  <2>3. Goto(w, x) \/ Goto(w, Idle)
    BY <1>3, <2>1, <2>2 DEF PayoutUpdate
  <2>4. /\ sub' = [sub EXCEPT ![s].payout = worker[w].to]
        /\ touched' = [touched EXCEPT ![s] = TRUE] /\ credits' = credits
    BY <1>3, <2>1 DEF PayoutUpdate
  <2>5. \A q \in Subs : ~touched'[q] => ~touched[q] /\ sub'[q] = sub[q] /\ q # s
    BY <1>1, <2>4
  <2>6. Pays(w, x)' /\ Pays(w, Idle)'
    BY <2>2, <2>5 DEF Pays, Idle
  <2> QED BY <2>3, <2>4, <2>5, <2>6, IdleTyped, PayKeeps
<1>4. ASSUME PayoutRow(w) PROVE PayInv'
  <2>1. PICK s \in Subs : s = worker[w].sub
    BY <1>1, <1>4 DEF PayoutRow, At, WorkerStates, Idle
  <2>2. touched[s]
    BY <1>1, <1>4, <2>1 DEF PayoutRow, At, Pays
  <2>3. PICK x \in WorkerStates : x = [at |-> "credit", subs |-> {s}]
    BY DEF WorkerStates
  <2>4. /\ Goto(w, x) \/ Goto(w, Idle)
        /\ sub' = sub \/ sub' = [sub EXCEPT ![s].row = TRUE]
        /\ UNCHANGED <<touched, credits>>
    BY <1>4, <2>1, <2>3 DEF PayoutRow
  <2>5. Pays(w, x)' /\ Pays(w, Idle)'
    BY <2>2, <2>3, <2>4 DEF Pays, Idle
  <2>6. \A q \in Subs : sub'[q].status = sub[q].status /\ sub'[q].payout = sub[q].payout
    BY <1>1, <2>4 DEF SubRow
  <2> QED BY <2>4, <2>5, <2>6, IdleTyped, PayKeeps
<1>5. ASSUME NEW s \in Subs, NEW to \in Statuses, review(w, s, to) PROVE PayInv'
  <2>1. PICK x \in WorkerStates : x = [at |-> "reviewUpdate", sub |-> s, to |-> to]
    BY DEF WorkerStates
  <2>2. sub[s].status # "APPROVED" /\ Goto(w, x) /\ UNCHANGED <<sub, touched, credits>>
    BY <1>5, <2>1 DEF review, REVIEW_TRANSITIONS
  <2>3. touched[s]
    BY <2>2 DEF PayInv, Untouched
  <2>4. Pays(w, x)'
    BY <2>1, <2>2, <2>3 DEF Pays
  <2> QED BY <2>2, <2>4, PayKeeps
<1>6. ASSUME ReviewUpdate(w) PROVE PayInv'
  <2>1. PICK s \in Subs : s = worker[w].sub
    BY <1>1, <1>6 DEF ReviewUpdate, At, WorkerStates, Idle
  <2>2. touched[s]
    BY <1>1, <1>6, <2>1 DEF ReviewUpdate, At, Pays
  <2>3. /\ \A q \in Subs : q # s => sub'[q] = sub[q]
        /\ Goto(w, Idle) /\ UNCHANGED <<touched, credits>>
    BY <1>1, <1>6, <2>1 DEF ReviewUpdate
  <2>4. Pays(w, Idle)'
    BY DEF Pays, Idle
  <2> QED BY <2>2, <2>3, <2>4, IdleTyped, PayKeeps
<1>7. ASSUME NEW s \in Subs, updateSubmission(w, s) PROVE PayInv'
  <2>1. PICK x \in WorkerStates : x = [at |-> "reviewUpdate", sub |-> s, to |-> "SUBMITTED"]
    BY DEF WorkerStates, Statuses
  <2>2. /\ sub[s].status = "NEEDS_MORE_INFO"
        /\ Goto(w, x) /\ UNCHANGED <<sub, touched, credits>>
    BY <1>7, <2>1 DEF updateSubmission
  <2>3. touched[s]
    BY <2>2 DEF PayInv, Untouched
  <2>4. Pays(w, x)'
    BY <2>1, <2>2, <2>3 DEF Pays
  <2> QED BY <2>2, <2>4, PayKeeps
<1>8. ASSUME NEW s \in Subs, NEW to \in Statuses, overrideSubmission(w, s, to) PROVE PayInv'
  <2>1. /\ sub' = [sub EXCEPT ![s].status = to] /\ touched' = [touched EXCEPT ![s] = TRUE]
        /\ UNCHANGED <<credits, worker>>
    BY <1>8 DEF overrideSubmission
  <2>2. \A q \in Subs : ~touched'[q] => ~touched[q] /\ sub'[q] = sub[q]
    BY <1>1, <2>1
  <2>3. \A q \in Subs : Untouched(q)'
    BY <2>1, <2>2 DEF PayInv, Untouched
  <2>4. ASSUME NEW u \in Workers PROVE Pays(u, worker[u])'
    <3>1. Pays(u, worker[u]) /\ worker'[u] = worker[u]
      BY <2>1 DEF PayInv
    <3> QED BY <2>1, <2>2, <3>1 DEF Pays
  <2> QED BY <2>3, <2>4 DEF PayInv
<1> QED BY <1>2, <1>3, <1>4, <1>5, <1>6, <1>7, <1>8 DEF Payout

LEMMA DisputePayInv ==
    ASSUME PayInv, IInv, NEW w \in Workers, Dispute(w)
    PROVE  PayInv'
<1>1. /\ sub \in [Subs -> SubRow] /\ touched \in [Subs -> BOOLEAN]
      /\ worker[w] \in WorkerStates
  BY DEF IInv, TypeOK, SubRow
<1>2. ASSUME NEW s \in Subs, create(w, s) PROVE PayInv'
  <2>1. PICK x \in WorkerStates : x = [at |-> "disputeCreate", sub |-> s]
    BY DEF WorkerStates
  <2> QED BY <1>2, <2>1, ElsewhereKeeps DEF create
<1>3. ASSUME DisputeCreate(w) PROVE PayInv'
  BY <1>3, IdleTyped, IdlePays, ElsewhereKeeps DEF DisputeCreate
<1>4. ASSUME NEW duty, NEW d \in Disputes, NEW to \in DisputeStatuses,
             NEW resolution \in Resolutions \cup {"none"}, Finds(w, duty, d, to, resolution)
      PROVE  PayInv'
  <2>1. PICK x \in WorkerStates :
           x = [at |-> "disputeUpdate", dispute |-> d, to |-> to, resolution |-> resolution]
    BY DEF WorkerStates
  <2> QED BY <1>4, <2>1, ElsewhereKeeps DEF Finds
<1>5. ASSUME NEW d \in Disputes,
             \/ submitDraft(w, d) \/ escalate(w, d) \/ withdraw(w, d)
             \/ \E to \in DisputeStatuses : transition(w, d, to)
             \/ \E resolution \in Resolutions : resolve(w, d, resolution)
      PROVE  PayInv'
  BY <1>4, <1>5 DEF submitDraft, escalate, withdraw, transition, resolve, DisputeStatuses
<1>6. ASSUME DisputeUpdate(w) PROVE PayInv'
  <2>1. PICK s \in Subs : s = DisputeOf[worker[w].dispute]
    BY <1>1, <1>6, ApprovedAssumption DEF DisputeUpdate, At, WorkerStates, Idle
  <2>2. PICK resolution : resolution = worker[w].resolution
    OBVIOUS
  <2>3. /\ sub' = [sub EXCEPT ![s] = ResolvedSubmission(sub[s], resolution)]
        /\ touched' = [touched EXCEPT ![s] = @ \/ resolution \in Resolutions \ {"OTHER"}]
        /\ Goto(w, Idle) /\ UNCHANGED credits
    BY <1>6, <2>1, <2>2 DEF DisputeUpdate
  <2>4. \A q \in Subs : q # s => touched'[q] = touched[q] /\ sub'[q] = sub[q]
    BY <1>1, <2>3
  <2>5. ~touched'[s] => ~touched[s] /\ resolution \notin Resolutions \ {"OTHER"}
    BY <1>1, <2>3
  <2>6. resolution \notin Resolutions \ {"OTHER"} => ResolvedSubmission(sub[s], resolution) = sub[s]
    BY DEF ResolvedSubmission, Resolutions
  <2>7. sub'[s] = ResolvedSubmission(sub[s], resolution)
    BY <1>1, <2>3
  <2>8. \A q \in Subs : ~touched'[q] => ~touched[q] /\ sub'[q] = sub[q]
    BY <2>4, <2>5, <2>6, <2>7
  <2>9. Pays(w, Idle)'
    BY DEF Pays, Idle
  <2> QED BY <2>3, <2>8, <2>9, IdleTyped, PayKeeps
<1> QED BY <1>2, <1>3, <1>5, <1>6 DEF Dispute

LEMMA JobPayInv ==
    ASSUME OneReplica, PayInv, IInv, NEW w \in Workers, Job(w)
    PROVE  PayInv'
<1>1. /\ sub \in [Subs -> SubRow] /\ touched \in [Subs -> BOOLEAN]
      /\ credits \in [Subs -> Nat] /\ worker[w] \in WorkerStates
      /\ Pays(w, worker[w])
  BY DEF IInv, TypeOK, SubRow, PayInv
<1>2. ASSUME processExpiredDeadlines(w) PROVE PayInv'
  <2>1. PICK x \in WorkerStates : x = [at |-> "autoUpdate", subs |-> {s \in Subs : Due(s)}]
    BY DEF WorkerStates
  <2>2. /\ Goto(w, x) /\ UNCHANGED <<sub, touched, credits>> /\ "autopay" \in Duties[w]
    BY <1>2, <2>1 DEF processExpiredDeadlines, Starts
  <2>3. \A s \in Subs : Due(s) /\ ~touched[s] => sub[s].payout = "NOT_PAID" /\ credits[s] = 0
    BY DEF PayInv, Untouched, Due, Unpaid
  <2>4. Pays(w, x)'
    BY <2>1, <2>2, <2>3 DEF Pays
  <2> QED BY <2>2, <2>4, PayKeeps
<1>3. ASSUME AutoUpdate(w) PROVE PayInv'
  <2>1. PICK subs \in SUBSET Subs : subs = worker[w].subs
    BY <1>1, <1>3 DEF AutoUpdate, At, WorkerStates, Idle
  <2>2. PICK x \in WorkerStates : x = [at |-> "credit", subs |-> subs]
    BY DEF WorkerStates
  <2>3. /\ sub' = [s \in Subs |-> IF s \in subs THEN MarkedPaid(s) ELSE sub[s]]
        /\ Goto(w, x) /\ UNCHANGED <<touched, credits>> /\ worker[w].at = "autoUpdate"
    BY <1>3, <2>1, <2>2 DEF AutoUpdate, At
  <2>4. /\ worker'[w] = x
        /\ \A u \in Workers : u # w => worker'[u] = worker[u]
    BY <2>3, Moves DEF IInv
  <2>5. \A s \in subs : ~touched[s] => /\ "autopay" \in Duties[w] /\ credits[s] = 0
                                       /\ sub[s].payout = "NOT_PAID" /\ sub[s].status = "APPROVED"
    BY <1>1, <2>1, <2>3 DEF Pays, PayInv, Untouched
  <2>6. \A s \in subs : ~touched[s] => sub'[s].status = "APPROVED" /\ sub'[s].payout = "PAID"
    BY <1>1, <2>3, <2>5 DEF MarkedPaid, Unpaid, SubRow
  <2>7. \A s \in Subs : s \notin subs => sub'[s] = sub[s]
    BY <2>3
  <2>8. \A s \in Subs : Untouched(s)'
    BY <2>3, <2>5, <2>6, <2>7 DEF PayInv, Untouched
  <2>9. ASSUME NEW u \in Workers PROVE Pays(u, worker[u])'
    <3>1. CASE u = w
      BY <2>2, <2>3, <2>4, <2>5, <2>6, <3>1 DEF Pays
    <3>2. CASE u # w
      <4>1. Pays(u, worker[u]) /\ worker'[u] = worker[u]
        BY <2>4, <3>2 DEF PayInv
      <4>2. \A s \in subs : ~touched[s] => "autopay" \notin Duties[u]
        BY <2>5, <3>2 DEF OneReplica, Running
      <4> QED BY <2>3, <2>7, <4>1, <4>2 DEF Pays
    <3> QED BY <3>1, <3>2
  <2> QED BY <2>8, <2>9 DEF PayInv
<1>4. ASSUME creditWalletWithCommission(w) PROVE PayInv'
  <2>1. PICK subs \in SUBSET Subs : subs = worker[w].subs
    BY <1>1, <1>4 DEF creditWalletWithCommission, At, WorkerStates, Idle
  <2>2. PICK s \in subs :
           /\ credits' = [credits EXCEPT ![s] = @ + 1] \/ credits' = credits
           /\ Goto(w, IF subs = {s} THEN Idle ELSE [at |-> "credit", subs |-> subs \ {s}])
    BY <1>4, <2>1 DEF creditWalletWithCommission
  <2>3. PICK y \in WorkerStates : y = [at |-> "credit", subs |-> subs \ {s}]
    BY DEF WorkerStates
  <2>4. PICK x \in {y, Idle} : Goto(w, x)
    BY <2>2, <2>3
  <2>5. worker[w].at = "credit" /\ UNCHANGED <<sub, touched>>
    BY <1>4 DEF creditWalletWithCommission, At
  <2>6. /\ worker'[w] = x
        /\ \A u \in Workers : u # w => worker'[u] = worker[u]
    BY <2>4, IdleTyped, Moves DEF IInv
  <2>7. \A q \in subs : ~touched[q] => /\ "autopay" \in Duties[w] /\ credits[q] = 0
                                       /\ sub[q].payout = "PAID"
    BY <1>1, <2>1, <2>5 DEF Pays
  <2>8. credits'[s] \in {credits[s], credits[s] + 1}
        /\ \A q \in Subs : q # s => credits'[q] = credits[q]
    BY <1>1, <2>2
  <2>9. \A q \in Subs : Untouched(q)'
    BY <2>5, <2>7, <2>8 DEF PayInv, Untouched
  <2>10. ASSUME NEW u \in Workers PROVE Pays(u, worker[u])'
    <3>1. CASE u = w
      BY <2>3, <2>4, <2>5, <2>6, <2>7, <2>8, <3>1 DEF Pays, Idle
    <3>2. CASE u # w
      <4>1. Pays(u, worker[u]) /\ worker'[u] = worker[u]
        BY <2>6, <3>2 DEF PayInv
      <4>2. ~touched[s] => "autopay" \notin Duties[u]
        BY <2>7, <3>2 DEF OneReplica, Running
      <4> QED BY <2>5, <2>8, <4>1, <4>2 DEF Pays
    <3> QED BY <3>1, <3>2
  <2> QED BY <2>9, <2>10 DEF PayInv
<1>5. ASSUME autoEscalateStaleDisputes(w) \/ autoCloseResolvedDisputes(w) PROVE PayInv'
  <2>1. [at |-> "escalateUpdate"] \in WorkerStates /\ [at |-> "closeUpdate"] \in WorkerStates
    BY DEF WorkerStates
  <2> QED BY <1>5, <2>1, ElsewhereKeeps DEF autoEscalateStaleDisputes, autoCloseResolvedDisputes
<1>6. ASSUME EscalateUpdate(w) \/ CloseUpdate(w) PROVE PayInv'
  BY <1>6, IdleTyped, IdlePays, ElsewhereKeeps DEF EscalateUpdate, CloseUpdate
<1> QED BY <1>2, <1>3, <1>4, <1>5, <1>6 DEF Job

LEMMA InitPayInv == Init => PayInv
BY DEF Init, PayInv, Untouched, Pays, Idle

LEMMA NextPayInv == OneReplica /\ PayInv /\ IInv /\ [Next]_vars => PayInv'
<1> SUFFICES ASSUME OneReplica, PayInv, IInv, [Next]_vars PROVE PayInv'
  OBVIOUS
<1>1. ASSUME NEW w \in Workers, Abort(w) PROVE PayInv'
  BY <1>1, IdleTyped, IdlePays, ElsewhereKeeps DEF Abort
<1>2. ASSUME NEW s \in Subs, DeadlinePasses(s) PROVE PayInv'
  <2>1. sub \in [Subs -> SubRow]
    BY DEF IInv, TypeOK, SubRow
  <2>2. \A q \in Subs : sub'[q].status = sub[q].status /\ sub'[q].payout = sub[q].payout
    BY <1>2, <2>1 DEF DeadlinePasses, SubRow
  <2> QED BY <1>2, <2>2 DEF DeadlinePasses, PayInv, Untouched, Pays
<1>3. ASSUME NEW d \in Disputes, DatePasses(d) PROVE PayInv'
  BY <1>3 DEF DatePasses, PayInv, Untouched, Pays
<1>4. CASE UNCHANGED vars
  BY <1>4 DEF vars, PayInv, Untouched, Pays
<1> QED BY <1>1, <1>2, <1>3, <1>4, PayoutPayInv, DisputePayInv, JobPayInv DEF Next

-----------------------------------------------------------------------------
\* Submissions, disputes, credits and requests keep their types: no handler
\* and no resolution writes a status that the schema does not have.
THEOREM TypeCorrect == Spec => []TypeOK
<1>1. IInv => TypeOK
  BY DEF IInv
<1> QED BY <1>1, Invariance, PTL

\* Whatever stale requests and jobs write over each other, the history of a
\* dispute ends in its status, or one of the jobs' two steps before it.
THEOREM HistoryFollows == Spec => []HistoryFollowsStatus
<1>1. IInv => HistoryFollowsStatus
  BY DEF IInv
<1> QED BY <1>1, Invariance, PTL

\* If one replica runs the payout job, a submission that nobody else has
\* decided about is credited once, after it was marked PAID, wherever the
\* runs of the job were cut off.
THEOREM AutoPayoutPaysOnce ==
    ASSUME OneReplica
    PROVE  Spec => []AutoPayoutCreditsOnce
<1>1. PayInv => AutoPayoutCreditsOnce
  BY DEF PayInv, Untouched, AutoPayoutCreditsOnce
<1>2. PayInv /\ IInv /\ [Next]_vars => PayInv'
  BY NextPayInv
<1> QED BY <1>1, <1>2, InitPayInv, Invariance, PTL DEF Spec

-----------------------------------------------------------------------------
(* Where one request at a time deals with disputes, beside any number of     *)
(* runs of the two jobs, no dispute leaves the table of its transitions: a   *)
(* job that comes between a request's read and its write only does what the  *)
(* request was about to do, or leaves what it does allowed.                  *)
Arbiters == Running("dispute") \cup Running("arbitrate")
OneArbiter == \A v, w \in Arbiters : v = w

Follows(from, to) ==
    \/ to = from
    \/ to \in DISPUTE_TRANSITIONS(from)
    \/ from = "none" /\ to = "DRAFT"
DisputesInOrder ==
    [][\A d \in Disputes : Follows(dispute[d].status, dispute'[d].status)]_vars

\* A decision that was read from the table still follows, or was overtaken by
\* the job that takes the same step.
Timely(from, to) ==
    \/ to \in DISPUTE_TRANSITIONS(from)
    \/ to = from /\ to \in {"ESCALATED", "CLOSED"}

InTime(w) ==
    /\ worker[w].at \in {"disputeCreate", "disputeUpdate"} => w \in Arbiters
    /\ At(w, "disputeUpdate") => Timely(dispute[worker[w].dispute].status, worker[w].to)
AllInTime == \A w \in Workers : InTime(w)

DisputesFollow == \A d \in Disputes : Follows(dispute[d].status, dispute'[d].status)

\* The two steps of the jobs overtake no decision that was in time.
LEMMA JobsOvertake ==
    ASSUME NEW to
    PROVE  /\ Timely("AWAITING_RESPONSE", to) => Timely("ESCALATED", to)
           /\ Timely("RESOLVED", to) => Timely("CLOSED", to)
BY DEF Timely, DISPUTE_TRANSITIONS

LEMMA StillInTime ==
    ASSUME IInv, AllInTime, NEW w \in Workers, NEW x \in WorkerStates, Goto(w, x),
           UNCHANGED dispute,
           x.at \in {"disputeCreate", "disputeUpdate"} => w \in Arbiters,
           x.at = "disputeUpdate" => Timely(dispute[x.dispute].status, x.to)
    PROVE  AllInTime' /\ DisputesFollow
<1>1. worker'[w] = x /\ \A u \in Workers : u # w => worker'[u] = worker[u]
  BY Moves DEF IInv
<1>2. Arbiters' = Arbiters
  BY DEF Arbiters, Running
<1>3. AllInTime'
  BY <1>1, <1>2 DEF AllInTime, InTime, At, Timely
<1> QED BY <1>3 DEF DisputesFollow, Follows

\* Whoever writes as the only arbiter leaves nobody behind.
LEMMA ArbiterAlone ==
    ASSUME IInv, AllInTime, OneArbiter, NEW w \in Arbiters, Goto(w, Idle)
    PROVE  AllInTime'
<1>1. w \in Workers /\ worker'[w] = Idle /\ \A u \in Workers : u # w => worker'[u] = worker[u]
  BY IdleTyped, Moves DEF IInv, Arbiters, Running
<1>2. ASSUME NEW u \in Workers PROVE worker'[u].at \notin {"disputeCreate", "disputeUpdate"}
  <2>1. CASE u = w
    BY <1>1, <2>1 DEF Idle
  <2>2. CASE u # w
    BY <1>1, <2>2 DEF AllInTime, InTime, OneArbiter
  <2> QED BY <2>1, <2>2
<1> QED BY <1>2 DEF AllInTime, InTime, At

LEMMA DisputeInTime ==
    ASSUME IInv, AllInTime, OneArbiter, NEW w \in Workers, Dispute(w)
    PROVE  AllInTime' /\ DisputesFollow
<1>1. worker[w] \in WorkerStates /\ dispute \in [Disputes -> DisputeRow]
  BY DEF IInv, TypeOK, DisputeRow
<1>2. ASSUME NEW s \in Subs, create(w, s) PROVE AllInTime' /\ DisputesFollow
  <2>1. PICK x \in WorkerStates : x = [at |-> "disputeCreate", sub |-> s]
    BY DEF WorkerStates
  <2>2. w \in Arbiters
    BY <1>2 DEF create, Starts, Arbiters, Running
  <2> QED BY <1>2, <2>1, <2>2, StillInTime DEF create
<1>3. ASSUME DisputeCreate(w) PROVE AllInTime' /\ DisputesFollow
  <2>1. w \in Arbiters
    BY <1>3 DEF DisputeCreate, At, AllInTime, InTime
  <2>2. AllInTime'
    BY <1>3, <2>1, ArbiterAlone DEF DisputeCreate
  <2>3. PICK d \in Disputes : dispute[d] = NoDispute
                              /\ dispute' = [dispute EXCEPT ![d].status = "DRAFT"]
    BY <1>3 DEF DisputeCreate
  <2>4. dispute[d].status = "none" /\ dispute'[d].status = "DRAFT"
    BY <1>1, <2>3 DEF NoDispute, DisputeRow
  <2>5. \A e \in Disputes : e # d => dispute'[e] = dispute[e]
    BY <1>1, <2>3
  <2> QED BY <2>2, <2>4, <2>5 DEF DisputesFollow, Follows
<1>4. ASSUME NEW duty \in {"dispute", "arbitrate"}, NEW d \in Disputes, NEW to \in DisputeStatuses,
             NEW resolution \in Resolutions \cup {"none"}, Finds(w, duty, d, to, resolution)
      PROVE  AllInTime' /\ DisputesFollow
  <2>1. PICK x \in WorkerStates :
           x = [at |-> "disputeUpdate", dispute |-> d, to |-> to, resolution |-> resolution]
    BY DEF WorkerStates
  <2>2. w \in Arbiters /\ to \in DISPUTE_TRANSITIONS(dispute[d].status)
    BY <1>4 DEF Finds, Starts, Arbiters, Running
  <2> QED BY <1>4, <2>1, <2>2, StillInTime DEF Finds, Timely
<1>5. ASSUME NEW d \in Disputes,
             \/ submitDraft(w, d) \/ escalate(w, d) \/ withdraw(w, d)
             \/ \E to \in DisputeStatuses : transition(w, d, to)
             \/ \E resolution \in Resolutions : resolve(w, d, resolution)
      PROVE  AllInTime' /\ DisputesFollow
  BY <1>4, <1>5 DEF submitDraft, escalate, withdraw, transition, resolve, DisputeStatuses
<1>6. ASSUME DisputeUpdate(w) PROVE AllInTime' /\ DisputesFollow
  <2>1. w \in Arbiters /\ Timely(dispute[worker[w].dispute].status, worker[w].to)
    BY <1>6 DEF DisputeUpdate, At, AllInTime, InTime
  <2>2. AllInTime'
    BY <1>6, <2>1, ArbiterAlone DEF DisputeUpdate
  <2>3. PICK d \in Disputes : d = worker[w].dispute
    BY <1>1, <1>6 DEF DisputeUpdate, At, WorkerStates, Idle
  <2>4. dispute' = [dispute EXCEPT ![d] = Dated(dispute[d], worker[w].to, worker[w].resolution)]
    BY <1>6, <2>3 DEF DisputeUpdate
  <2>5. dispute'[d].status = worker[w].to /\ \A e \in Disputes : e # d => dispute'[e] = dispute[e]
    BY <1>1, <2>4 DEF Dated
  <2>6. Follows(dispute[d].status, dispute'[d].status)
    BY <2>1, <2>3, <2>5 DEF Timely, Follows
  <2> QED BY <2>2, <2>5, <2>6 DEF DisputesFollow, Follows
<1> QED BY <1>2, <1>3, <1>5, <1>6 DEF Dispute

\* What both jobs do to the disputes they find.
LEMMA OvertakenInTime ==
    ASSUME IInv, AllInTime, NEW w \in Workers, Goto(w, Idle),
           \A d \in Disputes :
               \/ dispute'[d].status = dispute[d].status
               \/ dispute[d].status = "AWAITING_RESPONSE" /\ dispute'[d].status = "ESCALATED"
               \/ dispute[d].status = "RESOLVED" /\ dispute'[d].status = "CLOSED"
    PROVE  AllInTime' /\ DisputesFollow
<1>1. worker'[w] = Idle /\ \A u \in Workers : u # w => worker'[u] = worker[u]
  BY IdleTyped, Moves DEF IInv
<1>2. Arbiters' = Arbiters
  BY DEF Arbiters, Running
<1>3. ASSUME NEW u \in Workers PROVE InTime(u)'
  <2>1. CASE u = w
    BY <1>1, <2>1 DEF InTime, At, Idle
  <2>2. CASE u # w
    <3>1. At(u, "disputeUpdate") => worker[u].dispute \in Disputes
      BY DEF IInv, TypeOK, At, WorkerStates, Idle
    <3>2. InTime(u)
      BY DEF AllInTime
    <3> QED BY <1>1, <1>2, <2>2, <3>1, <3>2, JobsOvertake DEF InTime, At, Timely
  <2> QED BY <2>1, <2>2
<1>4. DisputesFollow
  BY DEF DisputesFollow, Follows, DISPUTE_TRANSITIONS
<1> QED BY <1>3, <1>4 DEF AllInTime

LEMMA JobsInTime ==
    ASSUME IInv, AllInTime, NEW w \in Workers, Job(w)
    PROVE  AllInTime' /\ DisputesFollow
<1>1. worker[w] \in WorkerStates /\ dispute \in [Disputes -> DisputeRow]
  BY DEF IInv, TypeOK, DisputeRow
<1>2. ASSUME NEW x \in WorkerStates, Goto(w, x), UNCHANGED dispute,
             x.at \notin {"disputeCreate", "disputeUpdate"}
      PROVE  AllInTime' /\ DisputesFollow
  BY <1>2, StillInTime
<1>3. CASE processExpiredDeadlines(w)
  <2>1. [at |-> "autoUpdate", subs |-> {s \in Subs : Due(s)}] \in WorkerStates
    BY DEF WorkerStates
  <2> QED BY <1>2, <1>3, <2>1 DEF processExpiredDeadlines
<1>4. CASE AutoUpdate(w)
  <2>1. [at |-> "credit", subs |-> worker[w].subs] \in WorkerStates
    BY <1>1, <1>4 DEF AutoUpdate, At, WorkerStates, Idle
  <2> QED BY <1>2, <1>4, <2>1 DEF AutoUpdate
<1>5. CASE creditWalletWithCommission(w)
  <2>1. PICK subs \in SUBSET Subs : subs = worker[w].subs
    BY <1>1, <1>5 DEF creditWalletWithCommission, At, WorkerStates, Idle
  <2>2. PICK s \in subs :
           Goto(w, IF subs = {s} THEN Idle ELSE [at |-> "credit", subs |-> subs \ {s}])
    BY <1>5, <2>1 DEF creditWalletWithCommission
  <2>3. PICK x \in WorkerStates : x = [at |-> "credit", subs |-> subs \ {s}]
    BY DEF WorkerStates
  <2>4. \E y \in {x, Idle} : Goto(w, y)
    BY <2>2, <2>3
  <2>5. UNCHANGED dispute
    BY <1>5 DEF creditWalletWithCommission
  <2>6. x.at = "credit" /\ Idle.at = "idle"
    BY <2>3 DEF Idle
  <2> QED BY <1>2, <2>4, <2>5, <2>6, IdleTyped
<1>6. CASE autoEscalateStaleDisputes(w) \/ autoCloseResolvedDisputes(w)
  <2>1. [at |-> "escalateUpdate"] \in WorkerStates /\ [at |-> "closeUpdate"] \in WorkerStates
    BY DEF WorkerStates
  <2> QED BY <1>2, <1>6, <2>1 DEF autoEscalateStaleDisputes, autoCloseResolvedDisputes
<1>7. CASE EscalateUpdate(w)
  <2>1. \A d \in Disputes : \/ dispute'[d].status = dispute[d].status
                            \/ /\ dispute[d].status = "AWAITING_RESPONSE"
                               /\ dispute'[d].status = "ESCALATED"
    BY <1>1, <1>7 DEF EscalateUpdate, Escalated, Stale, DisputeRow
  <2> QED BY <1>7, <2>1, OvertakenInTime DEF EscalateUpdate
<1>8. CASE CloseUpdate(w)
  <2>1. \A d \in Disputes : \/ dispute'[d].status = dispute[d].status
                            \/ dispute[d].status = "RESOLVED" /\ dispute'[d].status = "CLOSED"
    BY <1>1, <1>8 DEF CloseUpdate, Closed, Ripe, DisputeRow
  <2> QED BY <1>8, <2>1, OvertakenInTime DEF CloseUpdate
<1> QED BY <1>3, <1>4, <1>5, <1>6, <1>7, <1>8 DEF Job

LEMMA PayoutInTime ==
    ASSUME IInv, AllInTime, NEW w \in Workers, Payout(w)
    PROVE  AllInTime' /\ DisputesFollow
<1>1. worker[w] \in WorkerStates
  BY DEF IInv, TypeOK
<1>2. ASSUME NEW x \in WorkerStates, Goto(w, x), UNCHANGED dispute,
             x.at \notin {"disputeCreate", "disputeUpdate"}
      PROVE  AllInTime' /\ DisputesFollow
  BY <1>2, StillInTime
<1>3. Idle \in WorkerStates /\ Idle.at = "idle"
  BY DEF WorkerStates, Idle
<1>4. ASSUME NEW s \in Subs, NEW to \in PayoutStatuses, updatePayout(w, s, to)
      PROVE  AllInTime' /\ DisputesFollow
  <2>1. [at |-> "payoutUpdate", sub |-> s, to |-> to, row |-> sub[s].row] \in WorkerStates
    BY DEF IInv, TypeOK, WorkerStates
  <2> QED BY <1>2, <1>4, <2>1 DEF updatePayout
<1>5. ASSUME NEW s \in Subs, NEW to \in Statuses, review(w, s, to)
      PROVE  AllInTime' /\ DisputesFollow
  <2>1. [at |-> "reviewUpdate", sub |-> s, to |-> to] \in WorkerStates
    BY DEF WorkerStates
  <2> QED BY <1>2, <1>5, <2>1 DEF review
<1>6. CASE PayoutUpdate(w)
  <2>1. [at |-> "payoutRow", sub |-> worker[w].sub, row |-> worker[w].row] \in WorkerStates
    BY <1>1, <1>6 DEF PayoutUpdate, At, WorkerStates, Idle
  <2> QED BY <1>2, <1>3, <1>6, <2>1 DEF PayoutUpdate
<1>7. CASE PayoutRow(w)
  <2>1. [at |-> "credit", subs |-> {worker[w].sub}] \in WorkerStates
    BY <1>1, <1>7 DEF PayoutRow, At, WorkerStates, Idle
  <2> QED BY <1>2, <1>3, <1>7, <2>1 DEF PayoutRow
<1>8. CASE ReviewUpdate(w)
  BY <1>2, <1>3, <1>8 DEF ReviewUpdate
<1>9. ASSUME NEW s \in Subs, updateSubmission(w, s) PROVE AllInTime' /\ DisputesFollow
  <2>1. [at |-> "reviewUpdate", sub |-> s, to |-> "SUBMITTED"] \in WorkerStates
    BY DEF WorkerStates, Statuses
  <2> QED BY <1>2, <1>9, <2>1 DEF updateSubmission
<1>10. ASSUME NEW s \in Subs, NEW to \in Statuses, overrideSubmission(w, s, to)
       PROVE  AllInTime' /\ DisputesFollow
  <2>1. UNCHANGED <<dispute, worker>> /\ Arbiters' = Arbiters
    BY <1>10 DEF overrideSubmission, Arbiters, Running
  <2> QED BY <2>1 DEF AllInTime, InTime, At, Timely, DisputesFollow, Follows
<1> QED BY <1>4, <1>5, <1>6, <1>7, <1>8, <1>9, <1>10 DEF Payout

LEMMA NextInTime ==
    ASSUME IInv, AllInTime, OneArbiter, [Next]_vars
    PROVE  AllInTime' /\ DisputesFollow
<1>1. ASSUME NEW w \in Workers, Abort(w) PROVE AllInTime' /\ DisputesFollow
  <2>1. Idle.at = "idle"
    BY DEF Idle
  <2> QED BY <1>1, <2>1, IdleTyped, StillInTime DEF Abort
<1>2. ASSUME \A d \in Disputes : dispute'[d].status = dispute[d].status, UNCHANGED worker
      PROVE  AllInTime' /\ DisputesFollow
  <2>1. \A u \in Workers : At(u, "disputeUpdate") => worker[u].dispute \in Disputes
    BY DEF IInv, TypeOK, At, WorkerStates, Idle
  <2>2. Arbiters' = Arbiters
    BY DEF Arbiters, Running
  <2>3. AllInTime'
    BY <1>2, <2>1, <2>2 DEF AllInTime, InTime, At, Timely
  <2> QED BY <1>2, <2>3 DEF DisputesFollow, Follows
<1>3. ASSUME NEW s \in Subs, DeadlinePasses(s) PROVE AllInTime' /\ DisputesFollow
  BY <1>2, <1>3 DEF DeadlinePasses
<1>4. ASSUME NEW d \in Disputes, DatePasses(d) PROVE AllInTime' /\ DisputesFollow
  <2>1. dispute \in [Disputes -> DisputeRow]
    BY DEF IInv, TypeOK, DisputeRow
  <2>2. \A e \in Disputes : dispute'[e].status = dispute[e].status
    BY <1>4, <2>1 DEF DatePasses, DisputeRow
  <2> QED BY <1>2, <1>4, <2>2 DEF DatePasses
<1>5. CASE UNCHANGED vars
  BY <1>2, <1>5 DEF vars
<1> QED BY <1>1, <1>3, <1>4, <1>5, PayoutInTime, DisputeInTime, JobsInTime DEF Next

\* The status of a dispute is read before the transaction that writes it, and
\* not compared there.  As long as one request at a time deals with disputes,
\* no run of the jobs can make it leave DISPUTE_TRANSITIONS: nothing that is
\* closed or withdrawn is opened again.
THEOREM OneArbiterInOrder == OneArbiter => (Spec => DisputesInOrder)
<1> SUFFICES ASSUME OneArbiter PROVE Spec => DisputesInOrder
  OBVIOUS
<1>1. Init => AllInTime
  BY DEF Init, AllInTime, InTime, At, Idle
<1>2. IInv /\ AllInTime /\ [Next]_vars => AllInTime'
  BY NextInTime
<1>3. IInv /\ AllInTime /\ [Next]_vars
        => [\A d \in Disputes : Follows(dispute[d].status, dispute'[d].status)]_vars
  BY NextInTime DEF DisputesFollow
<1> QED BY <1>1, <1>2, <1>3, Invariance, PTL DEF Spec, DisputesInOrder
=============================================================================
