-------------------------- MODULE PostVerification --------------------------
(* The verification of one submission's posts: the scraper that every        *)
(* trigger runs in the background under a Redis lock, the sweep that starts  *)
(* it again, the hunter who replaces posts, the reviewer whose approval is   *)
(* gated on the result, and the visibility job that scrapes approved posts   *)
(* again and refunds after repeated failures.  Handlers run at the grain of  *)
(* their database and Redis calls.  Left out: what the checks check, cadence *)
(* and cost cap of the job (a candidate may be passed over), mails, and the  *)
(* kill switch and the ledger, which may refuse any refund.  A definition    *)
(* named ...Mutant is a planted bug that the runs must be able to find;      *)
(* nothing uses it.                                                          *)
EXTENDS Integers

CONSTANTS Rows,             \* bound: the rows that the hunter's URLs can get
          Workers,          \* requests and job runs in progress at once
          Duties,           \* which of the handlers a worker may run
          FailureThreshold, \* FAILURE_THRESHOLD
          MaxFailures       \* bound: counter or streak from which on no pass starts

ASSUME VerificationAssumption ==
    /\ FailureThreshold \in Nat \ {0}
    /\ MaxFailures \in Nat
    /\ Duties \in [Workers -> SUBSET {"submit", "review", "sweep", "recheck",
                                    "resolve", "override"}]

VARIABLES status,    \* Submission.status
          row,       \* scrapeStatus of each SubmissionUrlScrape row
          rules,     \* the bounty has something to verify
          lock,      \* the submission's scrape lock is set in Redis
          passLock,  \* the lock of the visibility pass is set
          failures,  \* consecutiveVisibilityFailures
          streak,    \* history: failing passes since the last good one, up to the threshold
          current,   \* history: reviewers since whose read no other review was
                     \* written and nobody replaced posts or reset them
          worker     \* where each request or job run stands, and what it has read

vars == <<status, row, rules, lock, passLock, failures, streak, current, worker>>

-----------------------------------------------------------------------------
Statuses == {"none", "SUBMITTED", "IN_REVIEW", "NEEDS_MORE_INFO", "APPROVED", "REJECTED"}
RowStatuses == {"none", "PENDING", "IN_PROGRESS", "VERIFIED", "FAILED", "deleted"}

REVIEW_TRANSITIONS(from) ==
    CASE from = "SUBMITTED" -> {"IN_REVIEW", "APPROVED", "REJECTED", "NEEDS_MORE_INFO"}
      [] from = "IN_REVIEW" -> {"APPROVED", "REJECTED", "NEEDS_MORE_INFO"}
      [] from = "NEEDS_MORE_INFO" -> {"IN_REVIEW", "APPROVED", "REJECTED"}
      [] OTHER -> {}

InStatus(statuses) == {r \in Rows : row[r] \in statuses}
Urls == InStatus({"PENDING", "IN_PROGRESS", "VERIFIED", "FAILED"})
Unused == InStatus({"none"})
AllVerified == InStatus({"VERIFIED"}) = Urls

Idle == [at |-> "idle"]
At(w, at) == worker[w].at = at
Goto(w, state) == worker' = [worker EXCEPT ![w] = state]
Starts(w, duty) == At(w, "idle") /\ duty \in Duties[w]

\* prev is the counter that a visibility pass has read; other callers of
\* scrapeAndVerify do nothing after it.
NoPass == -1
Caller(prev) == IF prev = NoPass THEN Idle ELSE [at |-> "summary", prev |-> prev]
FailedCaller(prev) == IF prev = NoPass THEN Idle ELSE [at |-> "passRelease"]
Scrape(prev) == [at |-> "scrapeLock", prev |-> prev]

Init ==
    /\ status = "none"
    /\ row = [r \in Rows |-> "none"]
    /\ rules \in BOOLEAN
    /\ lock = FALSE /\ passLock = FALSE
    /\ failures = 0 /\ streak = 0
    /\ current = {}
    /\ worker = [w \in Workers |-> Idle]

-----------------------------------------------------------------------------
(* SubmissionScraperService.scrapeAndVerify.                                 *)
SkippedMutant == lock' = FALSE
Skipped == UNCHANGED lock

ScrapeSkip(w) ==
    /\ At(w, "scrapeLock") /\ lock
    /\ Skipped
    /\ Goto(w, Caller(worker[w].prev))
    /\ UNCHANGED <<status, row, rules, passLock, failures, streak, current>>

ScrapeLock(w) ==
    /\ At(w, "scrapeLock") /\ ~lock
    /\ lock' = TRUE
    /\ Goto(w, [at |-> "scrapeRead", prev |-> worker[w].prev])
    /\ UNCHANGED <<status, row, rules, passLock, failures, streak, current>>

\* Without rules, the cost guard: what is PENDING counts as verified.
TodoMutant == IF rules THEN Urls \ InStatus({"IN_PROGRESS"}) ELSE InStatus({"PENDING"})
Todo == IF rules THEN InStatus({"PENDING", "FAILED"}) ELSE InStatus({"PENDING"})

Release(prev, threw) == [at |-> "scrapeRelease", prev |-> prev, threw |-> threw]

ScrapeRead(w) ==
    /\ At(w, "scrapeRead")
    /\ Goto(w, IF Todo = {} THEN Release(worker[w].prev, FALSE)
               ELSE [at |-> IF rules THEN "scrapeMark" ELSE "costGuard",
                     prev |-> worker[w].prev, todo |-> Todo])
    /\ UNCHANGED <<status, row, rules, lock, passLock, failures, streak, current>>

\* An update of a row that is gone makes the transaction fail.
CostGuard(w) ==
    /\ At(w, "costGuard")
    /\ LET todo == worker[w].todo IN
           IF todo \subseteq Urls
             THEN /\ row' = [r \in Rows |-> IF r \in todo THEN "VERIFIED" ELSE row[r]]
                  /\ Goto(w, Release(worker[w].prev, FALSE))
             ELSE /\ Goto(w, Release(worker[w].prev, TRUE))
                  /\ UNCHANGED row
    /\ UNCHANGED <<status, rules, lock, passLock, failures, streak, current>>

ScrapeMark(w) ==
    /\ At(w, "scrapeMark")
    /\ row' = [r \in Rows |-> IF r \in worker[w].todo \cap Urls THEN "IN_PROGRESS" ELSE row[r]]
    /\ Goto(w, [at |-> "scrapeResult", prev |-> worker[w].prev, todo |-> worker[w].todo])
    /\ UNCHANGED <<status, rules, lock, passLock, failures, streak, current>>

\* Here P2025 is caught, and the results are lost.
ScrapeResult(w) ==
    /\ At(w, "scrapeResult")
    /\ LET todo == worker[w].todo IN
           IF todo \subseteq Urls
             THEN \E good \in SUBSET todo :
                      row' = [r \in Rows |-> IF r \in good THEN "VERIFIED"
                                             ELSE IF r \in todo THEN "FAILED" ELSE row[r]]
             ELSE UNCHANGED row
    /\ Goto(w, Release(worker[w].prev, FALSE))
    /\ UNCHANGED <<status, rules, lock, passLock, failures, streak, current>>

\* finally deletes the lock, whoever holds it by now; a failure to is logged.
ScrapeRelease(w) ==
    /\ At(w, "scrapeRelease")
    /\ lock' \in {FALSE, lock}
    /\ Goto(w, IF worker[w].threw THEN FailedCaller(worker[w].prev)
               ELSE Caller(worker[w].prev))
    /\ UNCHANGED <<status, row, rules, passLock, failures, streak, current>>

Scraping == {"scrapeRead", "costGuard", "scrapeMark", "scrapeResult", "scrapeRelease"}

\* A call of the database or of Apify throws.
ScrapeThrows(w) ==
    /\ worker[w].at \in Scraping \ {"scrapeRelease"}
    /\ Goto(w, Release(worker[w].prev, TRUE))
    /\ UNCHANGED <<status, row, rules, lock, passLock, failures, streak, current>>

-----------------------------------------------------------------------------
(* SubmissionsService.  The scrape is started after the answer.              *)
create(w) ==
    /\ Starts(w, "submit")
    /\ status = "none"
    /\ \E urls \in SUBSET Rows :
           /\ row' = [r \in Rows |-> IF r \in urls THEN "PENDING" ELSE "none"]
           /\ Goto(w, Scrape(NoPass))
    /\ status' = "SUBMITTED"
    /\ UNCHANGED <<rules, lock, passLock, failures, streak, current>>

updateSubmission(w) ==
    /\ Starts(w, "submit")
    /\ status = "NEEDS_MORE_INFO"
    /\ Goto(w, [at |-> "resubmit"])
    /\ UNCHANGED <<status, row, rules, lock, passLock, failures, streak, current>>

\* One transaction; an URL that stays keeps its row, result and all.
Resubmit(w) ==
    /\ At(w, "resubmit")
    /\ \E dropped \in SUBSET Urls, added \in SUBSET Unused :
           /\ row' = [r \in Rows |-> IF r \in dropped THEN "deleted"
                                     ELSE IF r \in added THEN "PENDING" ELSE row[r]]
           /\ \/ /\ added # {} \/ InStatus({"PENDING", "FAILED"}) \ dropped # {}
                 /\ Goto(w, Scrape(NoPass))
              \/ /\ added = {}
                 /\ InStatus({"PENDING", "FAILED"}) \ dropped = {} \/ dropped = {}
                 /\ Goto(w, Idle)
    /\ status' = "SUBMITTED"
    /\ current' = {}
    /\ UNCHANGED <<rules, lock, passLock, failures, streak>>

GatePasses == AllVerified

review(w, to) ==
    /\ Starts(w, "review")
    /\ to \in REVIEW_TRANSITIONS(status)
    /\ to = "APPROVED" => GatePasses
    /\ current' = current \cup {w}
    /\ Goto(w, [at |-> "reviewUpdate", to |-> to])
    /\ UNCHANGED <<status, row, rules, lock, passLock, failures, streak>>

ReviewUpdate(w) ==
    /\ At(w, "reviewUpdate")
    /\ status' = worker[w].to
    /\ current' = {}
    /\ Goto(w, Idle)
    /\ UNCHANGED <<row, rules, lock, passLock, failures, streak>>

(* Who writes the status without a look at it or at the posts.  A dispute,    *)
(* opened on what was approved, is resolved in whatever status it finds: it  *)
(* may have been sent back, submitted again or overridden since.             *)
resolve(w, to) ==
    /\ Starts(w, "resolve")
    /\ status # "none" /\ to \in {"REJECTED", "NEEDS_MORE_INFO"}
    /\ status' = to
    /\ UNCHANGED <<row, rules, lock, passLock, failures, streak, current, worker>>

\* AdminService.overrideSubmission sets the status it is given.
overrideSubmission(w, to) ==
    /\ Starts(w, "override")
    /\ status # "none" /\ to # "none"
    /\ status' = to
    /\ UNCHANGED <<row, rules, lock, passLock, failures, streak, current, worker>>

-----------------------------------------------------------------------------
(* SubmissionScrapeRecoveryScheduler.sweep.                                  *)
StuckMutant == InStatus({"IN_PROGRESS"})
Stuck == InStatus({"PENDING"})

sweep(w) ==
    /\ Starts(w, "sweep")
    /\ Stuck # {}
    /\ Goto(w, Scrape(NoPass))
    /\ UNCHANGED <<status, row, rules, lock, passLock, failures, streak, current>>

-----------------------------------------------------------------------------
(* SubmissionVisibilityScheduler.runRecheckPass and, from RescrapeRead on,   *)
(* processOne with SubmissionScraperService.rescrapeForVisibility.           *)
runRecheckPass(w) ==
    /\ Starts(w, "recheck")
    /\ failures < MaxFailures /\ streak < MaxFailures
    /\ ~passLock
    /\ passLock' = TRUE
    /\ Goto(w, [at |-> "passRead"])
    /\ UNCHANGED <<status, row, rules, lock, failures, streak, current>>

PassRead(w) ==
    /\ At(w, "passRead")
    /\ \/ /\ status = "APPROVED"
          /\ Goto(w, [at |-> "rescrapeRead", prev |-> failures])
       \/ Goto(w, [at |-> "passRelease"])
    /\ UNCHANGED <<status, row, rules, lock, passLock, failures, streak, current>>

\* The summary of a submission without URLs names no failure.
Counted(failed, kill, prev) ==
    [at |-> "counterUpdate", failed |-> failed, kill |-> kill, prev |-> prev]

RescrapeRead(w) ==
    /\ At(w, "rescrapeRead")
    /\ Goto(w, IF Urls = {} THEN Counted(FALSE, FALSE, worker[w].prev)
               ELSE [at |-> "rowsReset", prev |-> worker[w].prev])
    /\ UNCHANGED <<status, row, rules, lock, passLock, failures, streak, current>>

\* After the history was written; no lock is held yet.
RowsReset(w) ==
    /\ At(w, "rowsReset")
    /\ row' = [r \in Rows |-> IF r \in Urls THEN "PENDING" ELSE row[r]]
    /\ current' = {}
    /\ Goto(w, Scrape(worker[w].prev))
    /\ UNCHANGED <<status, rules, lock, passLock, failures, streak>>

\* A scrape that was skipped leaves nothing FAILED.  The kill switch is read
\* when the threshold is near; when it cannot be read it counts as active.
Summary(w) ==
    /\ At(w, "summary")
    /\ LET failed == InStatus({"FAILED"}) # {}
           near == failed /\ worker[w].prev + 1 >= FailureThreshold
       IN \E kill \in IF near THEN BOOLEAN ELSE {FALSE} :
              Goto(w, Counted(failed, kill, worker[w].prev))
    /\ UNCHANGED <<status, row, rules, lock, passLock, failures, streak, current>>

DecayMutant(s) == IF ~s.failed THEN s.prev - 1 ELSE IF s.kill THEN s.prev ELSE s.prev + 1
NewConsecutiveMutant(s) == IF s.failed /\ ~s.kill THEN s.prev + 1 ELSE s.prev
NewConsecutive(s) == IF ~s.failed THEN 0 ELSE IF s.kill THEN s.prev ELSE s.prev + 1

CounterUpdate(w) ==
    /\ At(w, "counterUpdate")
    /\ LET s == worker[w]
           new == NewConsecutive(s)
       IN /\ failures' = new
          /\ streak' = IF ~s.failed THEN 0
                       ELSE IF streak < FailureThreshold THEN streak + 1 ELSE streak
          /\ Goto(w, [at |-> IF s.failed /\ ~s.kill /\ new >= FailureThreshold
                               THEN "autoRefund" ELSE "passRelease"])
    /\ UNCHANGED <<status, row, rules, lock, passLock, current>>

\* The refund, issued or refused, is requestAfterApproval of BountyEscrow.
triggerAutoRefund(w) ==
    /\ At(w, "autoRefund")
    /\ Goto(w, [at |-> "passRelease"])
    /\ UNCHANGED <<status, row, rules, lock, passLock, failures, streak, current>>

PassRelease(w) ==
    /\ At(w, "passRelease")
    /\ passLock' \in {FALSE, passLock}
    /\ Goto(w, Idle)
    /\ UNCHANGED <<status, row, rules, lock, failures, streak, current>>

\* processOne throws: the other submissions of the pass go on, then it ends.
Passing == {"passRead", "rescrapeRead", "rowsReset", "summary", "counterUpdate", "autoRefund"}

PassThrows(w) ==
    /\ \/ worker[w].at \in Passing
       \/ At(w, "scrapeLock") /\ worker[w].prev # NoPass
    /\ Goto(w, [at |-> "passRelease"])
    /\ UNCHANGED <<status, row, rules, lock, passLock, failures, streak, current>>

-----------------------------------------------------------------------------
\* The process stops; what it had set in Redis stays.
Crash(w) ==
    /\ ~At(w, "idle")
    /\ Goto(w, Idle)
    /\ UNCHANGED <<status, row, rules, lock, passLock, failures, streak, current>>

\* The time to live is well above what a scrape, or a pass, takes.
Holder(w) == worker[w].at \in Scraping
InPass(w) == \/ worker[w].at \in Passing \cup {"passRelease"}
             \/ worker[w].at \in Scraping \cup {"scrapeLock"} /\ worker[w].prev # NoPass

LockExpires ==
    /\ lock /\ \A w \in Workers : ~Holder(w)
    /\ lock' = FALSE
    /\ UNCHANGED <<status, row, rules, passLock, failures, streak, current, worker>>

PassLockExpires ==
    /\ passLock /\ \A w \in Workers : ~InPass(w)
    /\ passLock' = FALSE
    /\ UNCHANGED <<status, row, rules, lock, failures, streak, current, worker>>

ScrapeStep(w) ==
    \/ ScrapeSkip(w) \/ ScrapeLock(w) \/ ScrapeRead(w) \/ CostGuard(w) \/ ScrapeMark(w)
    \/ ScrapeResult(w) \/ ScrapeRelease(w) \/ ScrapeThrows(w)

Request(w) ==
    \/ create(w) \/ updateSubmission(w) \/ Resubmit(w)
    \/ \E to \in Statuses : review(w, to)
    \/ ReviewUpdate(w)

Decree(w) == \E to \in Statuses : resolve(w, to) \/ overrideSubmission(w, to)

Job(w) ==
    \/ sweep(w)
    \/ runRecheckPass(w) \/ PassRead(w) \/ RescrapeRead(w) \/ RowsReset(w) \/ Summary(w)
    \/ CounterUpdate(w) \/ triggerAutoRefund(w) \/ PassRelease(w) \/ PassThrows(w)

Next == \/ \E w \in Workers : ScrapeStep(w) \/ Request(w) \/ Decree(w) \/ Job(w) \/ Crash(w)
        \/ LockExpires \/ PassLockExpires

Spec == Init /\ [][Next]_vars

\* The sweep runs again and again, also when the lock is free; its calls do
\* not throw on every run; who sets a lock releases it or is stopped, and
\* then it expires.  Nothing is assumed of requests and of the pass.
FairSpec ==
    /\ Spec
    /\ WF_vars(LockExpires)
    /\ WF_vars(\E w \in Workers : Holder(w) /\ ScrapeStep(w))
    /\ \A w \in {v \in Workers : "sweep" \in Duties[v]} :
           /\ SF_vars(sweep(w) /\ ~lock) /\ SF_vars(ScrapeLock(w))
           /\ SF_vars(ScrapeRead(w)) /\ SF_vars(CostGuard(w) \/ ScrapeMark(w))

-----------------------------------------------------------------------------
Prevs == Nat \cup {NoPass}
WorkerStates ==
    {Idle}
    \cup [at : {"scrapeLock", "scrapeRead"}, prev : Prevs]
    \cup [at : {"costGuard", "scrapeMark", "scrapeResult"}, prev : Prevs, todo : SUBSET Rows]
    \cup [at : {"scrapeRelease"}, prev : Prevs, threw : BOOLEAN]
    \cup [at : {"reviewUpdate"}, to : Statuses]
    \cup [at : {"rescrapeRead", "rowsReset", "summary"}, prev : Nat]
    \cup [at : {"counterUpdate"}, failed : BOOLEAN, kill : BOOLEAN, prev : Nat]
    \cup [at : {"resubmit", "passRead", "autoRefund", "passRelease"}]

TypeOK ==
    /\ status \in Statuses
    /\ row \in [Rows -> RowStatuses]
    /\ rules \in BOOLEAN
    /\ lock \in BOOLEAN /\ passLock \in BOOLEAN
    /\ failures \in Nat /\ streak \in 0..FailureThreshold
    /\ current \subseteq Workers
    /\ worker \in [Workers -> WorkerStates]

\* However triggers, sweeps and passes meet, and wherever they are cut off,
\* two scrapes of the submission never run at once: no post is billed twice.
ScrapesExclusive ==
    \A v, w \in Workers : Holder(v) /\ Holder(w) => v = w

\* What the approval gate has seen stays true until the approval is written,
\* unless another review, new posts or a reset come in between: a scrape in
\* the background, a dispute or an administrator takes no verified post back.
GateHoldsUntilRaced ==
    \A w \in current : At(w, "reviewUpdate") /\ worker[w].to = "APPROVED" => AllVerified

\* An automatic refund follows a streak of failing passes as long as the
\* threshold, however passes overlap, crash, or are held by the kill switch.
RefundNeedsStreak ==
    \A w \in Workers : At(w, "autoRefund") => streak = FailureThreshold

\* A post that waits to be scraped is scraped, though the request that
\* submitted it was cut off, and scrapes crash with the lock set.
GetsScraped(r) == row[r] = "PENDING" ~> row[r] # "PENDING"
=============================================================================
