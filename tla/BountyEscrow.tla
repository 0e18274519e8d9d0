---------------------------- MODULE BountyEscrow ----------------------------
(* One funded bounty: what review, resubmission, payout, refunds, dispute    *)
(* decisions, the administrator's override, the clearance job, the auto-     *)
(* payout job and the expired-bounty job do to its submissions, its refund   *)
(* rows and the ledger, each handler at the grain of its database calls (no  *)
(* handler holds a transaction over two of them). A worker is one request or *)
(* one run of a cron job on one API replica; a dispute decision, an override *)
(* and an auto-payout are a single write and need no worker.                 *)
(* postTransactionGroup is one step here, as LedgerPost shows it may be: a   *)
(* group is added under a free key, otherwise nothing happens. A definition  *)
(* named ...Mutant is a planted bug that the runs must be able to find;      *)
(* nothing uses it.                                                          *)
EXTENDS Integers, Sequences, FiniteSets

CONSTANTS Subs,      \* the submissions
          Refunds,   \* bound: the refund rows that can be created
          Workers,   \* requests and job runs in progress at once
          Duties,    \* which of the handlers a worker may run
          Face,      \* bounty.faceValueCents, escrowed when it was funded
          Nets,      \* hunterNetCents of the tiers a hunter can have
          Batch,     \* take: batchSize of the clearance job
          Reopenable, \* the submissions that are disputed or that an administrator overrides
          Overrides, \* bound: the statuses an administrator overrides with
          NoRef      \* "no submission", "no refund"

ASSUME EscrowAssumption ==
    /\ Face \in Nat \ {0}
    /\ Nets \subseteq 1 .. Face
    /\ Batch \in Nat \ {0}
    /\ Reopenable \subseteq Subs
    /\ NoRef \notin Subs \cup Refunds
    /\ Subs \cap Refunds = {}
    /\ Duties \in [Workers -> SUBSET {"review", "submit", "payout", "refund", "clear", "expire"}]

VARIABLES status,     \* submission.status
          snapshot,   \* submission.hunterNetCents, 0 for null
          payout,     \* submission.payoutStatus and whether payout.paidAt is set
          refund,     \* the refund rows
          payment,    \* bounty.paymentStatus
          ledger,     \* the posted transaction groups
          matured,    \* net-payable entries whose clearanceReleaseAt has passed, in its order
          worker      \* where each request or job run stands, and what it has read

vars == <<status, snapshot, payout, refund, payment, ledger, matured, worker>>

-----------------------------------------------------------------------------
Statuses == {"SUBMITTED", "IN_REVIEW", "NEEDS_MORE_INFO", "APPROVED", "REJECTED"}
PayoutStatuses == {"NOT_PAID", "PENDING", "PAID"}
Scenarios == {"BEFORE_APPROVAL", "AFTER_APPROVAL", "AFTER_PAYOUT"}

REVIEW_TRANSITIONS(from) ==
    CASE from = "SUBMITTED" -> {"IN_REVIEW", "APPROVED", "REJECTED", "NEEDS_MORE_INFO"}
      [] from = "IN_REVIEW" -> {"APPROVED", "REJECTED", "NEEDS_MORE_INFO"}
      [] from = "NEEDS_MORE_INFO" -> {"IN_REVIEW", "APPROVED", "REJECTED"}
      [] OTHER -> {}

PAYOUT_TRANSITIONS(from) ==
    CASE from = "NOT_PAID" -> {"PENDING", "PAID"}
      [] from = "PENDING" -> {"PAID", "NOT_PAID"}
      [] OTHER -> {}

(* A transaction group: its key (action, ref), the submission it is about,   *)
(* and the hunter's net amount among its legs.                               *)
Actions == {"approved", "cleared", "refunded", "expired"}
Group(action, ref, sub, net) == [action |-> action, ref |-> ref, sub |-> sub, net |-> net]
Groups(action) == {g \in ledger : g.action = action}

postTransactionGroup(g) ==
    ledger' = IF \E h \in ledger : h.action = g.action /\ h.ref = g.ref
                THEN ledger
                ELSE ledger \cup {g}

\* The brand_reserve balance of the bounty: every leg on it is of faceValueCents.
Reversals == {g \in Groups("refunded") :
                 refund[g.ref].scenario = "AFTER_APPROVAL"}
Reserve == Face * (1 + Cardinality(Reversals)
                     - Cardinality(Groups("approved"))
                     - Cardinality({g \in Groups("refunded") : g.sub = NoRef})
                     - Cardinality(Groups("expired")))

NoRow == [state |-> "none"]
RefundRow(state, scenario) == [state |-> state, scenario |-> scenario]
NewRefund == CHOOSE r \in Refunds : refund[r] = NoRow

Idle == [at |-> "idle"]
At(w, at) == worker[w].at = at
Goto(w, state) == worker' = [worker EXCEPT ![w] = state]
Starts(w, duty) == At(w, "idle") /\ duty \in Duties[w]

Approved == {s \in Subs : status[s] = "APPROVED"}

Init ==
    /\ status = [s \in Subs |-> "SUBMITTED"]
    /\ snapshot = [s \in Subs |-> 0]
    /\ payout = [s \in Subs |-> [status |-> "NOT_PAID", paidAt |-> FALSE]]
    /\ refund = [r \in Refunds |-> NoRow]
    /\ payment = "PAID"
    /\ ledger = {}
    /\ matured = <<>>
    /\ worker = [w \in Workers |-> Idle]

-----------------------------------------------------------------------------
(* SubmissionsService.updateSubmission and review: the status read is not    *)
(* compared again when it is overwritten.  ApprovalLedgerService.postApproval *)
(* follows an approval, and an error in it is logged and swallowed.          *)
updateSubmission(w, s) ==
    /\ Starts(w, "submit")
    /\ status[s] = "NEEDS_MORE_INFO"
    /\ Goto(w, [at |-> "reviewUpdate", sub |-> s, to |-> "SUBMITTED"])
    /\ UNCHANGED <<status, snapshot, payout, refund, payment, ledger, matured>>

review(w, s, to) ==
    /\ Starts(w, "review")
    /\ to \in REVIEW_TRANSITIONS(status[s])
    /\ Goto(w, [at |-> "reviewUpdate", sub |-> s, to |-> to])
    /\ UNCHANGED <<status, snapshot, payout, refund, payment, ledger, matured>>

ReviewUpdate(w) ==
    /\ At(w, "reviewUpdate")
    /\ status' = [status EXCEPT ![worker[w].sub] = worker[w].to]
    /\ Goto(w, IF worker[w].to = "APPROVED"
                 THEN [at |-> "approvalRead", sub |-> worker[w].sub]
                 ELSE Idle)
    /\ UNCHANGED <<snapshot, payout, refund, payment, ledger, matured>>

\* postApproval reads the submission again, and the hunter's tier of the day.
ApprovalRead(w) ==
    /\ At(w, "approvalRead")
    /\ IF status[worker[w].sub] = "APPROVED"
         THEN \E net \in Nets :
                  Goto(w, [at |-> "approvalPost", sub |-> worker[w].sub, net |-> net])
         ELSE Goto(w, Idle)
    /\ UNCHANGED <<status, snapshot, payout, refund, payment, ledger, matured>>

\* An approval is filed under its submission, whoever posts it.
ApprovalKeyMutant(w) == w
ApprovalKey(w) == worker[w].sub

ApprovalPost(w) ==
    /\ At(w, "approvalPost")
    /\ postTransactionGroup(Group("approved", ApprovalKey(w), worker[w].sub, worker[w].net))
    /\ Goto(w, [worker[w] EXCEPT !.at = "snapshot"])
    /\ UNCHANGED <<status, snapshot, payout, refund, payment, matured>>

SnapshotOfMutant(w) == Face + 1
SnapshotOf(w) == worker[w].net

ApprovalSnapshot(w) ==
    /\ At(w, "snapshot")
    /\ snapshot' = [snapshot EXCEPT ![worker[w].sub] = SnapshotOf(w)]
    /\ Goto(w, Idle)
    /\ UNCHANGED <<status, payout, refund, payment, ledger, matured>>

-----------------------------------------------------------------------------
(* SubmissionsService.updatePayout: payoutStatus first, then the payout row, *)
(* which is created at the first PAID and unique per submission.             *)
updatePayout(w, s, to) ==
    /\ Starts(w, "payout")
    /\ status[s] = "APPROVED"
    /\ to \in PAYOUT_TRANSITIONS(payout[s].status)
    /\ Goto(w, [at |-> "payoutUpdate", sub |-> s, to |-> to])
    /\ UNCHANGED <<status, snapshot, payout, refund, payment, ledger, matured>>

PayoutUpdate(w) ==
    /\ At(w, "payoutUpdate")
    /\ payout' = [payout EXCEPT ![worker[w].sub].status = worker[w].to]
    /\ Goto(w, IF worker[w].to = "PAID" THEN [at |-> "payoutRow", sub |-> worker[w].sub]
                                        ELSE Idle)
    /\ UNCHANGED <<status, snapshot, refund, payment, ledger, matured>>

PayoutRow(w) ==
    /\ At(w, "payoutRow")
    /\ payout' = [payout EXCEPT ![worker[w].sub].paidAt = TRUE]
    /\ Goto(w, Idle)
    /\ UNCHANGED <<status, snapshot, refund, payment, ledger, matured>>

-----------------------------------------------------------------------------
(* DisputesService.resolve: a submission is revoked, its payment approved, or *)
(* a resubmission required, whatever its approval has posted.                *)
resolve(s) ==
    /\ s \in Reopenable
    /\ \/ /\ status' = [status EXCEPT ![s] = "REJECTED"]
          /\ payout' = [payout EXCEPT ![s].status = "NOT_PAID"]
       \/ /\ payout' = [payout EXCEPT ![s].status = "PENDING"]
          /\ UNCHANGED status
       \/ /\ status' = [status EXCEPT ![s] = "NEEDS_MORE_INFO"]
          /\ UNCHANGED payout
    /\ UNCHANGED <<snapshot, refund, payment, ledger, matured, worker>>

\* AdminService.overrideSubmission sets the status it is given, and no more.
overrideSubmission(s, to) ==
    /\ s \in Reopenable
    /\ to \in Overrides
    /\ status' = [status EXCEPT ![s] = to]
    /\ UNCHANGED <<snapshot, payout, refund, payment, ledger, matured, worker>>

\* PayoutSchedulerService, when the deadline of an approved submission has passed.
processExpiredDeadlines(s) ==
    /\ status[s] = "APPROVED"
    /\ payout[s].status = "NOT_PAID"
    /\ payout' = [payout EXCEPT ![s].status = "PAID"]
    /\ UNCHANGED <<status, snapshot, refund, payment, ledger, matured, worker>>

-----------------------------------------------------------------------------
(* RefundsService.  Nothing ties a refund to the ones requested before it.   *)
CreateRefund(w, state, scenario, next) ==
    /\ \E r \in Refunds : refund[r] = NoRow
    /\ refund' = [refund EXCEPT ![NewRefund] = RefundRow(state, scenario)]
    /\ Goto(w, next)

requestBeforeApproval(w) ==
    /\ Starts(w, "refund")
    /\ payment = "PAID"
    /\ Approved = {}
    /\ Goto(w, [at |-> "requestRefund"])
    /\ UNCHANGED <<status, snapshot, payout, refund, payment, ledger, matured>>

RequestRefund(w) ==
    /\ At(w, "requestRefund")
    /\ CreateRefund(w, "REQUESTED", "BEFORE_APPROVAL", Idle)
    /\ UNCHANGED <<status, snapshot, payout, payment, ledger, matured>>

\* What approveBeforeApproval does once it has read a REQUESTED row.
AfterRefundReadMutant == "markRefunded"
AfterRefundRead == "refundPost"

approveBeforeApproval(w, r) ==
    /\ Starts(w, "refund")
    /\ refund[r] = RefundRow("REQUESTED", "BEFORE_APPROVAL")
    /\ Goto(w, [at |-> AfterRefundRead, refund |-> r, sub |-> NoRef, net |-> 0])
    /\ UNCHANGED <<status, snapshot, payout, refund, payment, ledger, matured>>

MarkRefunded(w) ==
    /\ At(w, "markRefunded")
    /\ payment' = "REFUNDED"
    /\ Goto(w, [worker[w] EXCEPT !.at = "completeRefund"])
    /\ UNCHANGED <<status, snapshot, payout, refund, ledger, matured>>

\* Both refunds of a submission need the net amount that its approval left.
HasSnapshotMutant(s) == TRUE
HasSnapshot(s) == snapshot[s] # 0

requestAfterApproval(w, s) ==
    /\ Starts(w, "refund")
    /\ ~payout[s].paidAt
    /\ HasSnapshot(s)
    /\ Goto(w, [at |-> "createReversal", sub |-> s, net |-> snapshot[s], scenario |-> "AFTER_APPROVAL"])
    /\ UNCHANGED <<status, snapshot, payout, refund, payment, ledger, matured>>

requestAfterPayout(w, s) ==
    /\ Starts(w, "refund")
    /\ HasSnapshot(s)
    /\ Goto(w, [at |-> "createReversal", sub |-> s, net |-> snapshot[s], scenario |-> "AFTER_PAYOUT"])
    /\ UNCHANGED <<status, snapshot, payout, refund, payment, ledger, matured>>

CreateReversal(w) ==
    /\ At(w, "createReversal")
    /\ CreateRefund(w, "APPROVED", worker[w].scenario,
                    [at |-> "refundPost", refund |-> NewRefund,
                     sub |-> worker[w].sub, net |-> worker[w].net])
    /\ UNCHANGED <<status, snapshot, payout, payment, ledger, matured>>

RefundPost(w) ==
    /\ At(w, "refundPost")
    /\ postTransactionGroup(Group("refunded", worker[w].refund, worker[w].sub, worker[w].net))
    /\ Goto(w, [worker[w] EXCEPT !.at = IF worker[w].sub = NoRef THEN "markRefunded"
                                                                 ELSE "completeRefund"])
    /\ UNCHANGED <<status, snapshot, payout, refund, payment, matured>>

CompleteRefund(w) ==
    /\ At(w, "completeRefund")
    /\ refund' = [refund EXCEPT ![worker[w].refund].state = "COMPLETED"]
    /\ Goto(w, Idle)
    /\ UNCHANGED <<status, snapshot, payout, payment, ledger, matured>>

-----------------------------------------------------------------------------
(* ClearanceService.releaseEligible.  The net-payable credit of an approval  *)
(* matures when its clearance window is over; windows differ by tier, so the *)
(* order is not the order of approval.                                       *)
Mature(s) ==
    /\ \E g \in Groups("approved") : g.sub = s
    /\ \A i \in DOMAIN matured : matured[i] # s
    /\ matured' = Append(matured, s)
    /\ UNCHANGED <<status, snapshot, payout, refund, payment, ledger, worker>>

\* The oldest matured entries up to the batch size, released or not.
CandidatesMutant == SubSeq(matured, 2, Len(matured))
Candidates == SubSeq(matured, 1, IF Batch < Len(matured) THEN Batch ELSE Len(matured))

clearanceRelease(w) ==
    /\ Starts(w, "clear")
    /\ Candidates # <<>>
    /\ Goto(w, [at |-> "clear", batch |-> Candidates])
    /\ UNCHANGED <<status, snapshot, payout, refund, payment, ledger, matured>>

\* The key and the amount of a release are those of the entry it releases.
ReleaseKeyMutant(w, s) == <<w, s>>
ReleaseKey(w, s) == s
EntryAmountMutant(s) == snapshot[s]
EntryAmount(s) == (CHOOSE g \in Groups("approved") : g.sub = s).net

NextCandidate(w) ==
    Goto(w, IF Len(worker[w].batch) = 1
              THEN Idle
              ELSE [at |-> "clear", batch |-> Tail(worker[w].batch)])

ReleaseEntry(w, s) ==
    /\ At(w, "clear")
    /\ Head(worker[w].batch) = s
    /\ postTransactionGroup(Group("cleared", ReleaseKey(w, s), s, EntryAmount(s)))
    /\ NextCandidate(w)
    /\ UNCHANGED <<status, snapshot, payout, refund, payment, matured>>

\* A failed release is logged and the loop goes on.
ReleaseFails(w) ==
    /\ At(w, "clear")
    /\ NextCandidate(w)
    /\ UNCHANGED <<status, snapshot, payout, refund, payment, ledger, matured>>

-----------------------------------------------------------------------------
(* ExpiredBountyService.releaseEligible, for this LIVE bounty, once its       *)
(* endDate has passed (nothing else depends on that date).                   *)
expiredRelease(w) ==
    /\ Starts(w, "expire")
    /\ Approved = {}
    /\ Goto(w, [at |-> "expirePost"])
    /\ UNCHANGED <<status, snapshot, payout, refund, payment, ledger, matured>>

ExpirePost(w) ==
    /\ At(w, "expirePost")
    /\ postTransactionGroup(Group("expired", NoRef, NoRef, 0))
    /\ Goto(w, Idle)
    /\ UNCHANGED <<status, snapshot, payout, refund, payment, matured>>

\* The kill switch, a database error or a crash ends a handler where it is.
Abort(w) ==
    /\ ~At(w, "idle")
    /\ Goto(w, Idle)
    /\ UNCHANGED <<status, snapshot, payout, refund, payment, ledger, matured>>

-----------------------------------------------------------------------------
Review(w) ==
    \/ \E s \in Subs : updateSubmission(w, s) \/ \E to \in Statuses : review(w, s, to)
    \/ ReviewUpdate(w) \/ ApprovalRead(w) \/ ApprovalPost(w) \/ ApprovalSnapshot(w)

Payout(w) ==
    \/ \E s \in Subs, to \in PayoutStatuses : updatePayout(w, s, to)
    \/ PayoutUpdate(w) \/ PayoutRow(w)

Refund(w) ==
    \/ requestBeforeApproval(w) \/ RequestRefund(w)
    \/ \E r \in Refunds : approveBeforeApproval(w, r)
    \/ \E s \in Subs : requestAfterApproval(w, s) \/ requestAfterPayout(w, s)
    \/ CreateReversal(w) \/ RefundPost(w) \/ MarkRefunded(w) \/ CompleteRefund(w)

Clear(w) ==
    \/ clearanceRelease(w)
    \/ \E s \in Subs : ReleaseEntry(w, s)
    \/ ReleaseFails(w)

Expire(w) == expiredRelease(w) \/ ExpirePost(w)

\* Single writes of a submission outside its reviews.
Decree(s) ==
    \/ resolve(s)
    \/ \E to \in Statuses : overrideSubmission(s, to)
    \/ processExpiredDeadlines(s)

Next ==
    \/ \E w \in Workers : Review(w) \/ Payout(w) \/ Refund(w) \/ Clear(w) \/ Expire(w) \/ Abort(w)
    \/ \E s \in Subs : Decree(s) \/ Mature(s)

Spec == Init /\ [][Next]_vars

\* The cron runs the clearance job for ever, its loop goes on, time passes, and
\* a release that is attempted again and again does not fail every time.
FairSpec ==
    /\ Spec
    /\ \A s \in Subs : WF_vars(Mature(s))
    /\ \A w \in Workers : /\ SF_vars(clearanceRelease(w))
                          /\ WF_vars(Clear(w) /\ worker'[w] # worker[w])
                          /\ \A s \in Subs : SF_vars(ReleaseEntry(w, s))

-----------------------------------------------------------------------------
WorkerStates ==
    {Idle}
    \cup [at : {"reviewUpdate"}, sub : Subs, to : Statuses]
    \cup [at : {"approvalRead", "payoutRow"}, sub : Subs]
    \cup [at : {"approvalPost", "snapshot"}, sub : Subs, net : Nets]
    \cup [at : {"payoutUpdate"}, sub : Subs, to : PayoutStatuses]
    \cup [at : {"requestRefund", "expirePost"}]
    \cup [at : {"createReversal"}, sub : Subs, net : Nets, scenario : Scenarios]
    \cup [at : {"refundPost", "markRefunded", "completeRefund"},
          refund : Refunds, sub : Subs \cup {NoRef}, net : Nets \cup {0}]
    \cup [at : {"clear"}, batch : Seq(Subs) \ {<<>>}]

TypeOK ==
    /\ status \in [Subs -> Statuses]
    /\ snapshot \in [Subs -> Nets \cup {0}]
    /\ payout \in [Subs -> [status : PayoutStatuses, paidAt : BOOLEAN]]
    /\ refund \in [Refunds -> {NoRow} \cup [state : {"REQUESTED", "APPROVED", "COMPLETED"},
                                            scenario : Scenarios]]
    /\ payment \in {"PAID", "REFUNDED"}
    /\ ledger \subseteq [action : Actions, ref : Subs \cup Refunds \cup {NoRef},
                         sub : Subs \cup {NoRef}, net : Nets \cup {0}]
    /\ matured \in Seq(Subs)
    /\ worker \in [Workers -> WorkerStates]

\* However requests, retries and overlapping job runs interleave, an approval,
\* a release of an entry and a refund row each reach the ledger at most once.
EachEventPostedOnce ==
    /\ \A g, h \in Groups("approved") \cup Groups("cleared") :
           g.action = h.action /\ g.sub = h.sub => g = h
    /\ \A g, h \in Groups("refunded") : g.ref = h.ref => g = h

\* A reversal or clawback always has an approval to undo: requestAfterApproval
\* and requestAfterPayout rely on the snapshot on the submission for that.
ReversalHasOriginal ==
    \A g \in Groups("refunded") :
        g.sub # NoRef => \E h \in Groups("approved") : h.sub = g.sub

\* hunter_available receives just what the matured net-payable credit owes,
\* also when the snapshot on the submission was written by a racing approval.
ReleaseMatchesApproval ==
    \A g \in Groups("cleared") :
        /\ \E i \in DOMAIN matured : matured[i] = g.sub
        /\ \E h \in Groups("approved") : h.sub = g.sub /\ h.net = g.net

\* A refund row reads COMPLETED, and the bounty REFUNDED, only when the ledger
\* has the group that paid it back, wherever the handler was cut off.
RefundSettled ==
    /\ \A r \in Refunds : refund[r].state = "COMPLETED" =>
           \E g \in Groups("refunded") : g.ref = r
    /\ payment = "REFUNDED" => \E g \in Groups("refunded") : g.sub = NoRef

Promise == INSTANCE HunterEarnings WITH
    earned <- {<<g.sub, g.net>> : g \in Groups("approved")},
    available <- {<<g.sub, g.net>> : g \in Groups("cleared")},
    undone <- {<<g.ref, g.sub>> : g \in Groups("refunded") \ {g \in ledger : g.sub = NoRef}}

\* However requests, jobs and crashes interleave, the ledger moves only as the
\* hunters are promised: approved once, released once in that amount, reversed
\* by a refund only where there is an approval.
ImplementsEarnings == Promise!Spec

\* Every matured net-payable entry is released in the end (the clearance job
\* exists for nothing else).
IsReleased(s) == \E g \in Groups("cleared") : g.sub = s
ClearedEventuallyAvailable ==
    \A s \in Subs : (\E i \in DOMAIN matured : matured[i] = s) ~> IsReleased(s)

\* The escrow of a bounty pays for every approved submission up to its cap.
ReserveCoversApprovals == Reserve >= 0
=============================================================================
