------------------------- MODULE ApprovedSubmission -------------------------
(* What happens to submissions once they are approved: updatePayout and the  *)
(* payout job pay the hunter, a dispute may be opened and resolved, which    *)
(* rewrites the submission, as an administrator may, so that it is reviewed  *)
(* again (PostVerification has the gate of that review), and two jobs move   *)
(* disputes on.  Handlers run at the grain of their transactions; a status   *)
(* that was read is never compared again, except by updateMany.  A credit is *)
(* one step, as HunterWallet shows that none gets lost.  Left out: messages, *)
(* evidence, assignment, mails.  A definition named ...Mutant is a planted   *)
(* bug that the runs must be able to find; nothing uses it.                  *)
EXTENDS Integers, FiniteSets

CONSTANTS Subs,        \* submissions, approved to begin with
          Disputes,    \* bound: the dispute rows that can be created
          DisputeOf,   \* the submission each dispute is about
          Workers,     \* requests and job runs in progress at once
          Duties,      \* which of the handlers a worker may run
          Overrides,   \* bound: the statuses that an administrator sets
          MaxActive,   \* DISPUTE_LIMITS.MAX_ACTIVE_PER_SUBMISSION
          MaxCredits   \* bound: credits after which no payout and no override starts

Statuses == {"SUBMITTED", "IN_REVIEW", "NEEDS_MORE_INFO", "APPROVED", "REJECTED"}

ASSUME ApprovedAssumption ==
    /\ DisputeOf \in [Disputes -> Subs]
    /\ MaxActive \in Nat \ {0}
    /\ MaxCredits \in Nat
    /\ Overrides \subseteq Statuses
    /\ Duties \in [Workers -> SUBSET {"payout", "submit", "review", "override",
                                      "dispute", "arbitrate", "autopay", "disputeJobs"}]

VARIABLES sub,       \* status, payoutStatus, verificationDeadline passed, payout row exists
          touched,   \* history: updatePayout, a dispute or an override has rewritten it
          credits,   \* wallet credits that refer to the submission
          dispute,   \* the dispute rows
          recorded,  \* toStatus of the dispute's latest DisputeStatusHistory row
          worker     \* where each request or job run stands, and what it has read

vars == <<sub, touched, credits, dispute, recorded, worker>>

-----------------------------------------------------------------------------
PayoutStatuses == {"NOT_PAID", "PENDING", "PAID"}

REVIEW_TRANSITIONS(from) ==
    CASE from = "SUBMITTED" -> {"IN_REVIEW", "APPROVED", "REJECTED", "NEEDS_MORE_INFO"}
      [] from = "IN_REVIEW" -> {"APPROVED", "REJECTED", "NEEDS_MORE_INFO"}
      [] from = "NEEDS_MORE_INFO" -> {"IN_REVIEW", "APPROVED", "REJECTED"}
      [] OTHER -> {}

PAYOUT_TRANSITIONS(from) ==
    CASE from = "NOT_PAID" -> {"PENDING", "PAID"}
      [] from = "PENDING" -> {"PAID", "NOT_PAID"}
      [] OTHER -> {}

DisputeStatuses == {"none", "DRAFT", "OPEN", "UNDER_REVIEW", "AWAITING_RESPONSE",
                    "ESCALATED", "RESOLVED", "CLOSED", "WITHDRAWN"}
Active == {"DRAFT", "OPEN", "UNDER_REVIEW", "AWAITING_RESPONSE", "ESCALATED"}
Resolutions == {"SUBMISSION_REVOKED", "PAYMENT_APPROVED", "RESUBMISSION_REQUIRED", "OTHER"}

DISPUTE_TRANSITIONS(from) ==
    CASE from = "DRAFT" -> {"OPEN", "WITHDRAWN"}
      [] from = "OPEN" -> {"UNDER_REVIEW", "ESCALATED", "WITHDRAWN"}
      [] from = "UNDER_REVIEW" -> {"AWAITING_RESPONSE", "ESCALATED", "RESOLVED"}
      [] from = "AWAITING_RESPONSE" -> {"UNDER_REVIEW", "ESCALATED", "RESOLVED"}
      [] from = "ESCALATED" -> {"UNDER_REVIEW", "RESOLVED"}
      [] from = "RESOLVED" -> {"CLOSED"}
      [] OTHER -> {}

\* responseDeadline and resolvedAt + AUTO_CLOSE_DAYS: not set, to come, or past.
Times == {"null", "future", "past"}
NoDispute == [status |-> "none", deadline |-> "null", closeAt |-> "null"]

Idle == [at |-> "idle"]
At(w, at) == worker[w].at = at
Goto(w, state) == worker' = [worker EXCEPT ![w] = state]
Starts(w, duty) == At(w, "idle") /\ duty \in Duties[w]

Init ==
    /\ sub = [s \in Subs |-> [status |-> "APPROVED", payout |-> "NOT_PAID",
                              due |-> FALSE, row |-> FALSE]]
    /\ touched = [s \in Subs |-> FALSE]
    /\ credits = [s \in Subs |-> 0]
    /\ dispute = [d \in Disputes |-> NoDispute]
    /\ recorded = [d \in Disputes |-> "none"]
    /\ worker = [w \in Workers |-> Idle]

-----------------------------------------------------------------------------
(* SubmissionsService.updatePayout: the payout row is created if there was   *)
(* none at the read, and is unique; the credit follows the answer.           *)
updatePayout(w, s, to) ==
    /\ Starts(w, "payout")
    /\ credits[s] < MaxCredits
    /\ sub[s].status = "APPROVED"
    /\ to \in PAYOUT_TRANSITIONS(sub[s].payout)
    /\ Goto(w, [at |-> "payoutUpdate", sub |-> s, to |-> to, row |-> sub[s].row])
    /\ UNCHANGED <<sub, touched, credits, dispute, recorded>>

PayoutUpdate(w) ==
    /\ At(w, "payoutUpdate")
    /\ sub' = [sub EXCEPT ![worker[w].sub].payout = worker[w].to]
    /\ touched' = [touched EXCEPT ![worker[w].sub] = TRUE]
    /\ Goto(w, IF worker[w].to = "PAID"
                 THEN [at |-> "payoutRow", sub |-> worker[w].sub, row |-> worker[w].row]
                 ELSE Idle)
    /\ UNCHANGED <<credits, dispute, recorded>>

\* The loser of two creations gets P2002, and credits nothing.
PayoutRow(w) ==
    /\ At(w, "payoutRow")
    /\ LET s == worker[w].sub IN
           IF ~worker[w].row /\ sub[s].row
             THEN /\ Goto(w, Idle)
                  /\ UNCHANGED sub
             ELSE /\ sub' = [sub EXCEPT ![s].row = TRUE]
                  /\ Goto(w, [at |-> "credit", subs |-> {s}])
    /\ UNCHANGED <<touched, credits, dispute, recorded>>

-----------------------------------------------------------------------------
(* PayoutSchedulerService.processExpiredDeadlines.                           *)
Unpaid(s) == sub[s].status = "APPROVED" /\ sub[s].payout = "NOT_PAID"
Due(s) == Unpaid(s) /\ sub[s].due

processExpiredDeadlines(w) ==
    /\ Starts(w, "autopay")
    /\ LET found == {s \in Subs : Due(s)}
       IN /\ found # {}
          /\ Goto(w, [at |-> "autoUpdate", subs |-> found])
    /\ UNCHANGED <<sub, touched, credits, dispute, recorded>>

\* updateMany compares the statuses again; the credits go to all that was read.
MarkedPaidMutant(s) == [sub[s] EXCEPT !.payout = IF @ = "PENDING" THEN "PAID" ELSE @]
MarkedPaid(s) == IF Unpaid(s) THEN [sub[s] EXCEPT !.payout = "PAID"] ELSE sub[s]

AutoUpdate(w) ==
    /\ At(w, "autoUpdate")
    /\ sub' = [s \in Subs |-> IF s \in worker[w].subs THEN MarkedPaid(s) ELSE sub[s]]
    /\ Goto(w, [at |-> "credit", subs |-> worker[w].subs])
    /\ UNCHANGED <<touched, credits, dispute, recorded>>

\* Each credit succeeds or fails by itself, and is not tried again.
creditWalletWithCommission(w) ==
    /\ At(w, "credit")
    /\ \E s \in worker[w].subs :
           /\ \/ credits' = [credits EXCEPT ![s] = @ + 1]
              \/ UNCHANGED credits
           /\ Goto(w, IF worker[w].subs = {s} THEN Idle
                      ELSE [at |-> "credit", subs |-> worker[w].subs \ {s}])
    /\ UNCHANGED <<sub, touched, dispute, recorded>>

-----------------------------------------------------------------------------
(* What was sent back is submitted and reviewed again (SubmissionsService);  *)
(* an approval sets a new verificationDeadline.                              *)
updateSubmission(w, s) ==
    /\ Starts(w, "submit")
    /\ sub[s].status = "NEEDS_MORE_INFO"
    /\ Goto(w, [at |-> "reviewUpdate", sub |-> s, to |-> "SUBMITTED"])
    /\ UNCHANGED <<sub, touched, credits, dispute, recorded>>

review(w, s, to) ==
    /\ Starts(w, "review")
    /\ to \in REVIEW_TRANSITIONS(sub[s].status)
    /\ Goto(w, [at |-> "reviewUpdate", sub |-> s, to |-> to])
    /\ UNCHANGED <<sub, touched, credits, dispute, recorded>>

ReviewUpdate(w) ==
    /\ At(w, "reviewUpdate")
    /\ sub' = [sub EXCEPT ![worker[w].sub].status = worker[w].to,
                          ![worker[w].sub].due = @ /\ worker[w].to # "APPROVED"]
    /\ Goto(w, Idle)
    /\ UNCHANGED <<touched, credits, dispute, recorded>>

\* AdminService.overrideSubmission sets the status it is given, and no more.
overrideSubmission(w, s, to) ==
    /\ Starts(w, "override")
    /\ to \in Overrides /\ credits[s] < MaxCredits
    /\ sub' = [sub EXCEPT ![s].status = to]
    /\ touched' = [touched EXCEPT ![s] = TRUE]
    /\ UNCHANGED <<credits, dispute, recorded, worker>>

-----------------------------------------------------------------------------
(* DisputesService.                                                          *)
create(w, s) ==
    /\ Starts(w, "dispute")
    /\ sub[s].status = "APPROVED" \/ sub[s].payout = "PAID"
    /\ Cardinality({d \in Disputes : DisputeOf[d] = s /\ dispute[d].status \in Active}) < MaxActive
    /\ Goto(w, [at |-> "disputeCreate", sub |-> s])
    /\ UNCHANGED <<sub, touched, credits, dispute, recorded>>

DisputeCreate(w) ==
    /\ At(w, "disputeCreate")
    /\ \E d \in Disputes :
           /\ DisputeOf[d] = worker[w].sub
           /\ dispute[d] = NoDispute
           /\ dispute' = [dispute EXCEPT ![d].status = "DRAFT"]
           /\ recorded' = [recorded EXCEPT ![d] = "DRAFT"]
    /\ Goto(w, Idle)
    /\ UNCHANGED <<sub, touched, credits>>

Finds(w, duty, d, to, resolution) ==
    /\ Starts(w, duty)
    /\ to \in DISPUTE_TRANSITIONS(dispute[d].status)
    /\ Goto(w, [at |-> "disputeUpdate", dispute |-> d, to |-> to, resolution |-> resolution])
    /\ UNCHANGED <<sub, touched, credits, dispute, recorded>>

submitDraft(w, d) == Finds(w, "dispute", d, "OPEN", "none")
escalate(w, d) == Finds(w, "dispute", d, "ESCALATED", "none")
withdraw(w, d) == Finds(w, "dispute", d, "WITHDRAWN", "none")
transition(w, d, to) == Finds(w, "arbitrate", d, to, "none")
resolve(w, d, resolution) == Finds(w, "arbitrate", d, "RESOLVED", resolution)

\* What resolve writes to the submission in its transaction.
ResolvedSubmissionMutant(x, resolution) ==
    CASE resolution = "SUBMISSION_REVOKED" -> [x EXCEPT !.status = "REJECTED", !.payout = "NOT_PAID"]
      [] resolution = "PAYMENT_APPROVED" -> [x EXCEPT !.payout = "APPROVED"]
      [] OTHER -> x
ResolvedSubmission(x, resolution) ==
    CASE resolution = "SUBMISSION_REVOKED" -> [x EXCEPT !.status = "REJECTED", !.payout = "NOT_PAID"]
      [] resolution = "PAYMENT_APPROVED" -> [x EXCEPT !.payout = "PENDING"]
      [] resolution = "RESUBMISSION_REQUIRED" -> [x EXCEPT !.status = "NEEDS_MORE_INFO"]
      [] OTHER -> x

Dated(x, to, resolution) ==
    [status |-> to,
     deadline |-> IF to = "AWAITING_RESPONSE" THEN "future" ELSE x.deadline,
     closeAt |-> IF resolution \in Resolutions THEN "future" ELSE x.closeAt]

\* One transaction: status, dates, history row, and the submission.
RecordedStatusMutant(d, to) == IF to = "ESCALATED" THEN recorded[d] ELSE to
RecordedStatus(d, to) == to

DisputeUpdate(w) ==
    /\ At(w, "disputeUpdate")
    /\ LET d == worker[w].dispute
           s == DisputeOf[d]
           to == worker[w].to
           resolution == worker[w].resolution
       IN /\ dispute' = [dispute EXCEPT ![d] = Dated(dispute[d], to, resolution)]
          /\ recorded' = [recorded EXCEPT ![d] = RecordedStatus(d, to)]
          /\ sub' = [sub EXCEPT ![s] = ResolvedSubmission(sub[s], resolution)]
          /\ touched' = [touched EXCEPT ![s] =
                             @ \/ resolution \in Resolutions \ {"OTHER"}]
    /\ Goto(w, Idle)
    /\ UNCHANGED credits

-----------------------------------------------------------------------------
(* DisputeSchedulerService.  Both jobs find, updateMany under the same       *)
(* condition, and then fail to write history: no user has the id SYSTEM that *)
(* changedByUserId refers to.                                                *)
Stale(d) == dispute[d].status = "AWAITING_RESPONSE" /\ dispute[d].deadline = "past"
Ripe(d) == dispute[d].status = "RESOLVED" /\ dispute[d].closeAt = "past"

autoEscalateStaleDisputes(w) ==
    /\ Starts(w, "disputeJobs")
    /\ \E d \in Disputes : Stale(d)
    /\ Goto(w, [at |-> "escalateUpdate"])
    /\ UNCHANGED <<sub, touched, credits, dispute, recorded>>

EscalatedMutant(d) == dispute[d]
Escalated(d) == [dispute[d] EXCEPT !.status = "ESCALATED"]

EscalateUpdate(w) ==
    /\ At(w, "escalateUpdate")
    /\ dispute' = [d \in Disputes |-> IF Stale(d) THEN Escalated(d) ELSE dispute[d]]
    /\ Goto(w, Idle)
    /\ UNCHANGED <<sub, touched, credits, recorded>>

autoCloseResolvedDisputes(w) ==
    /\ Starts(w, "disputeJobs")
    /\ \E d \in Disputes : Ripe(d)
    /\ Goto(w, [at |-> "closeUpdate"])
    /\ UNCHANGED <<sub, touched, credits, dispute, recorded>>

ClosedMutant(d) == [dispute[d] EXCEPT !.deadline = "null"]
Closed(d) == [dispute[d] EXCEPT !.status = "CLOSED"]

CloseUpdate(w) ==
    /\ At(w, "closeUpdate")
    /\ dispute' = [d \in Disputes |-> IF Ripe(d) THEN Closed(d) ELSE dispute[d]]
    /\ Goto(w, Idle)
    /\ UNCHANGED <<sub, touched, credits, recorded>>

-----------------------------------------------------------------------------
\* Cut off before its next call.
Abort(w) ==
    /\ ~At(w, "idle")
    /\ Goto(w, Idle)
    /\ UNCHANGED <<sub, touched, credits, dispute, recorded>>

\* A verificationDeadline, a responseDeadline or a close date passes; a date
\* that no job would look at now may as well pass later.
DeadlinePasses(s) ==
    /\ Unpaid(s) /\ ~sub[s].due
    /\ credits[s] < MaxCredits
    /\ sub' = [sub EXCEPT ![s].due = TRUE]
    /\ UNCHANGED <<touched, credits, dispute, recorded, worker>>

DatePasses(d) ==
    /\ \/ /\ dispute[d].status = "AWAITING_RESPONSE" /\ dispute[d].deadline = "future"
          /\ dispute' = [dispute EXCEPT ![d].deadline = "past"]
       \/ /\ dispute[d].status = "RESOLVED" /\ dispute[d].closeAt = "future"
          /\ dispute' = [dispute EXCEPT ![d].closeAt = "past"]
    /\ UNCHANGED <<sub, touched, credits, recorded, worker>>

Payout(w) ==
    \/ \E s \in Subs, to \in PayoutStatuses : updatePayout(w, s, to)
    \/ \E s \in Subs : updateSubmission(w, s)
    \/ \E s \in Subs, to \in Statuses : review(w, s, to) \/ overrideSubmission(w, s, to)
    \/ PayoutUpdate(w) \/ PayoutRow(w) \/ ReviewUpdate(w)

Dispute(w) ==
    \/ \E s \in Subs : create(w, s)
    \/ \E d \in Disputes :
           \/ submitDraft(w, d) \/ escalate(w, d) \/ withdraw(w, d)
           \/ \E to \in DisputeStatuses : transition(w, d, to)
           \/ \E resolution \in Resolutions : resolve(w, d, resolution)
    \/ DisputeCreate(w) \/ DisputeUpdate(w)

Job(w) ==
    \/ processExpiredDeadlines(w) \/ AutoUpdate(w) \/ creditWalletWithCommission(w)
    \/ autoEscalateStaleDisputes(w) \/ EscalateUpdate(w)
    \/ autoCloseResolvedDisputes(w) \/ CloseUpdate(w)

Next == \/ \E w \in Workers : Payout(w) \/ Dispute(w) \/ Job(w) \/ Abort(w)
        \/ \E s \in Subs : DeadlinePasses(s)
        \/ \E d \in Disputes : DatePasses(d)

Spec == Init /\ [][Next]_vars

Running(duty) == {w \in Workers : duty \in Duties[w]}

\* Cron starts each job again and again, and its reads and writes do not fail
\* on every run.  No request has to be made or to be finished.
FairSpec ==
    /\ Spec
    /\ \A w \in Running("autopay") :
           /\ SF_vars(processExpiredDeadlines(w)) /\ SF_vars(AutoUpdate(w))
           /\ WF_vars(creditWalletWithCommission(w))
    /\ \A w \in Running("disputeJobs") :
           /\ SF_vars(autoEscalateStaleDisputes(w)) /\ SF_vars(EscalateUpdate(w))
           /\ SF_vars(autoCloseResolvedDisputes(w)) /\ SF_vars(CloseUpdate(w))

-----------------------------------------------------------------------------
WorkerStates ==
    {Idle}
    \cup [at : {"payoutUpdate"}, sub : Subs, to : PayoutStatuses, row : BOOLEAN]
    \cup [at : {"payoutRow"}, sub : Subs, row : BOOLEAN]
    \cup [at : {"autoUpdate", "credit"}, subs : SUBSET Subs]
    \cup [at : {"reviewUpdate"}, sub : Subs, to : Statuses]
    \cup [at : {"disputeCreate"}, sub : Subs]
    \cup [at : {"disputeUpdate"}, dispute : Disputes, to : DisputeStatuses,
          resolution : Resolutions \cup {"none"}]
    \cup [at : {"escalateUpdate", "closeUpdate"}]

TypeOK ==
    /\ sub \in [Subs -> [status : Statuses, payout : PayoutStatuses, due : BOOLEAN, row : BOOLEAN]]
    /\ touched \in [Subs -> BOOLEAN]
    /\ credits \in [Subs -> Nat]
    /\ dispute \in [Disputes -> [status : DisputeStatuses, deadline : Times, closeAt : Times]]
    /\ recorded \in [Disputes -> DisputeStatuses]
    /\ worker \in [Workers -> WorkerStates]

\* As long as only the payout job of one replica has decided about a payment,
\* the hunter is credited at most once, and only for a submission that is
\* marked PAID: the job marks first, wherever its earlier runs were cut off.
AutoPayoutCreditsOnce ==
    \A s \in Subs : credits[s] > 0 /\ ~touched[s] =>
        credits[s] = 1 /\ sub[s].payout = "PAID"

\* The history of a dispute ends in its status, whatever stale requests write
\* over each other, except for the one step that only the jobs take without
\* recording it.
HistoryFollowsStatus ==
    \A d \in Disputes :
        \/ recorded[d] = dispute[d].status
        \/ recorded[d] = "AWAITING_RESPONSE" /\ dispute[d].status = "ESCALATED"
        \/ recorded[d] = "RESOLVED" /\ dispute[d].status = "CLOSED"

\* A dispute that waits for a response past its deadline, a dispute that was
\* resolved long ago, and a payment that is due do not stay so.
StaleGetsEscalated == \A d \in Disputes : Stale(d) ~> ~Stale(d)
RipeGetsClosed == \A d \in Disputes : Ripe(d) ~> ~Ripe(d)
DueGetsPaid == \A s \in Subs : Due(s) ~> ~Due(s)
=============================================================================
