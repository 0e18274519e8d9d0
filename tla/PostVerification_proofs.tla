----------------------- MODULE PostVerification_proofs -----------------------
(* TLAPS proofs about PostVerification, for any number of requests, job runs *)
(* and posts and any threshold: scrapes exclude each other, what the gate    *)
(* has seen lasts until somebody races it, and a refund follows a streak.    *)
EXTENDS PostVerification, TLAPS

IsHolding(x) == x.at \in Scraping
IsPassing(x) == \/ x.at \in Passing \cup {"passRelease"}
                \/ x.at \in Scraping \cup {"scrapeLock"} /\ x.prev # NoPass

\* Who is at work has its lock, and is alone with it.
LocksHold ==
    \A w \in Workers : /\ IsHolding(worker[w]) => lock
                       /\ IsPassing(worker[w]) => passLock

PassesExclusive ==
    \A v, w \in Workers : IsPassing(worker[v]) /\ IsPassing(worker[w]) => v = w

\* The counter that a pass has read is still the counter.
HasPrev(x) == \/ x.at \in {"rescrapeRead", "rowsReset", "summary", "counterUpdate"}
              \/ x.at \in Scraping \cup {"scrapeLock"} /\ x.prev # NoPass
PrevsAreCurrent == \A w \in Workers : HasPrev(worker[w]) => worker[w].prev = failures

\* The counter is behind the streak, as it stands still with the kill switch.
StreakCovers == streak = FailureThreshold \/ failures <= streak

\* What a scrape is about is not verified: nobody else could have done it.
HasTodo(x) == x.at \in {"costGuard", "scrapeMark", "scrapeResult"}
TodoUnverified ==
    \A w \in Workers : HasTodo(worker[w]) => \A r \in worker[w].todo : row[r] # "VERIFIED"

\* Nobody reviews what was not submitted.
ReviewsSubmitted ==
    /\ status = "none" => current = {}
    /\ \A w \in Workers : At(w, "reviewUpdate") => worker[w].to # "none"

IInv == /\ TypeOK
        /\ LocksHold /\ ScrapesExclusive /\ PassesExclusive
        /\ PrevsAreCurrent /\ StreakCovers /\ RefundNeedsStreak
        /\ TodoUnverified /\ ReviewsSubmitted /\ GateHoldsUntilRaced

-----------------------------------------------------------------------------
LEMMA Moves ==
    ASSUME TypeOK, NEW w \in Workers, NEW x \in WorkerStates, Goto(w, x)
    PROVE  /\ worker' \in [Workers -> WorkerStates]
           /\ worker'[w] = x
           /\ \A u \in Workers : u # w => worker'[u] = worker[u]
BY DEF TypeOK, Goto

\* What a step has to keep.  It may take a free lock, and drop its own.
LEMMA StepIInv ==
    ASSUME IInv, NEW w \in Workers, NEW x \in WorkerStates, Goto(w, x),
           status' \in Statuses, row' \in [Rows -> RowStatuses], UNCHANGED rules,
           lock' \in BOOLEAN, passLock' \in BOOLEAN, current' \subseteq current \cup {w},
           UNCHANGED <<failures, streak>>,
           IsHolding(x) => lock' /\ (IsHolding(worker[w]) \/ ~lock),
           lock => lock' \/ IsHolding(worker[w]),
           IsPassing(x) => passLock' /\ (IsPassing(worker[w]) \/ ~passLock),
           passLock => passLock' \/ IsPassing(worker[w]),
           HasPrev(x) => x.prev = failures,
           x.at = "autoRefund" => streak = FailureThreshold,
           \A r \in Rows : row'[r] = "VERIFIED" => row[r] = "VERIFIED" \/ IsHolding(worker[w]),
           HasTodo(x) => \A r \in x.todo : row'[r] # "VERIFIED",
           status' = "none" => status = "none" /\ current' = current,
           x.at = "reviewUpdate" => x.to # "none",
           current' # {} /\ AllVerified => AllVerified',
           w \in current' /\ x.at = "reviewUpdate" /\ x.to = "APPROVED" => AllVerified'
    PROVE  IInv'
<1>1. /\ worker' \in [Workers -> WorkerStates]
      /\ worker'[w] = x
      /\ \A u \in Workers : u # w => worker'[u] = worker[u]
  BY Moves DEF IInv
<1>2. TypeOK'
  BY <1>1 DEF IInv, TypeOK
<1>3. LocksHold'
  <2>1. ASSUME NEW u \in Workers, u # w
        PROVE  /\ IsHolding(worker[u]) => lock'
               /\ IsPassing(worker[u]) => passLock'
    BY <2>1 DEF IInv, LocksHold, ScrapesExclusive, PassesExclusive, Holder, IsHolding
  <2> QED BY <1>1, <2>1 DEF LocksHold, IsHolding, IsPassing
<1>4. ScrapesExclusive'
  <2>1. ASSUME NEW u \in Workers, u # w, IsHolding(x) PROVE ~IsHolding(worker[u])
    BY <2>1 DEF IInv, LocksHold, ScrapesExclusive, Holder, IsHolding
  <2> QED BY <1>1, <2>1 DEF IInv, ScrapesExclusive, Holder, IsHolding
<1>5. PassesExclusive'
  <2>1. ASSUME NEW u \in Workers, u # w, IsPassing(x) PROVE ~IsPassing(worker[u])
    BY <2>1 DEF IInv, LocksHold, PassesExclusive
  <2> QED BY <1>1, <2>1 DEF IInv, PassesExclusive
<1>6. PrevsAreCurrent' /\ StreakCovers' /\ RefundNeedsStreak'
  BY <1>1 DEF IInv, PrevsAreCurrent, StreakCovers, RefundNeedsStreak, At
<1>7. TodoUnverified'
  <2>1. ASSUME NEW u \in Workers, u # w, HasTodo(worker[u]), NEW r \in worker[u].todo
        PROVE  row'[r] # "VERIFIED"
    <3>1. row[r] # "VERIFIED" /\ r \in Rows
      BY <2>1 DEF IInv, TodoUnverified, TypeOK, WorkerStates, HasTodo, Idle
    <3>2. ~IsHolding(worker[w])
      BY <2>1 DEF IInv, ScrapesExclusive, Holder, IsHolding, HasTodo, Scraping
    <3> QED BY <3>1, <3>2
  <2> QED BY <1>1, <2>1 DEF TodoUnverified
<1>8. ReviewsSubmitted'
  BY <1>1 DEF IInv, ReviewsSubmitted, At
<1>9. GateHoldsUntilRaced'
  <2>1. ASSUME NEW u \in current', u # w, worker[u].at = "reviewUpdate", worker[u].to = "APPROVED"
        PROVE  AllVerified'
    BY <2>1 DEF IInv, GateHoldsUntilRaced, At
  <2>2. current' \subseteq Workers
    BY DEF IInv, TypeOK
  <2> QED BY <1>1, <2>1, <2>2 DEF GateHoldsUntilRaced, At
<1> QED BY <1>2, <1>3, <1>4, <1>5, <1>6, <1>7, <1>8, <1>9 DEF IInv

\* A step that only moves a request or job run on.
LEMMA MoveIInv ==
    ASSUME IInv, NEW w \in Workers, NEW x \in WorkerStates, Goto(w, x),
           UNCHANGED <<status, row, rules, lock, passLock, failures, streak, current>>,
           IsHolding(x) => IsHolding(worker[w]), IsPassing(x) => IsPassing(worker[w]),
           HasPrev(x) => x.prev = failures,
           x.at = "autoRefund" => streak = FailureThreshold,
           HasTodo(x) => \A r \in x.todo : row[r] # "VERIFIED",
           x.at # "reviewUpdate"
    PROVE  IInv'
<1>1. /\ status \in Statuses /\ row \in [Rows -> RowStatuses] /\ lock \in BOOLEAN
      /\ passLock \in BOOLEAN
  BY DEF IInv, TypeOK
<1>2. /\ IsHolding(worker[w]) => lock
      /\ IsPassing(worker[w]) => passLock
  BY DEF IInv, LocksHold
<1>3. AllVerified => AllVerified'
  BY DEF AllVerified, InStatus, Urls
<1> QED BY <1>1, <1>2, <1>3, StepIInv

LEMMA IdleMoves ==
    ASSUME IInv, NEW w \in Workers, Goto(w, Idle),
           UNCHANGED <<status, row, rules, lock, passLock, failures, streak, current>>
    PROVE  IInv'
<1>1. /\ Idle \in WorkerStates /\ Idle.at = "idle"
      /\ ~IsHolding(Idle) /\ ~IsPassing(Idle) /\ ~HasPrev(Idle) /\ ~HasTodo(Idle)
  BY DEF WorkerStates, Idle, IsHolding, IsPassing, HasPrev, HasTodo, Scraping, Passing
<1> QED BY <1>1, MoveIInv

\* The states that a scrape goes through and returns to.
LEMMA ScrapeStates ==
    ASSUME NEW prev \in Prevs
    PROVE  /\ Caller(prev) \in WorkerStates /\ FailedCaller(prev) \in WorkerStates
           /\ ~IsHolding(Caller(prev)) /\ ~IsHolding(FailedCaller(prev))
           /\ IsPassing(Caller(prev)) => prev # NoPass
           /\ IsPassing(FailedCaller(prev)) => prev # NoPass
           /\ HasPrev(Caller(prev)) => prev # NoPass /\ Caller(prev).prev = prev
           /\ ~HasPrev(FailedCaller(prev))
           /\ ~HasTodo(Caller(prev)) /\ ~HasTodo(FailedCaller(prev))
           /\ Caller(prev).at \notin {"autoRefund", "reviewUpdate"}
           /\ FailedCaller(prev).at \notin {"autoRefund", "reviewUpdate"}
<1>1. CASE prev = NoPass
  BY <1>1 DEF Caller, FailedCaller, Idle, WorkerStates, IsHolding, IsPassing, HasPrev, HasTodo,
              Scraping, Passing
<1>2. CASE prev # NoPass
  <2>1. Caller(prev) = [at |-> "summary", prev |-> prev] /\ prev \in Nat
    BY <1>2 DEF Caller, Prevs
  <2>2. FailedCaller(prev) = [at |-> "passRelease"]
    BY <1>2 DEF FailedCaller
  <2> QED BY <1>2, <2>1, <2>2 DEF WorkerStates, IsHolding, IsPassing, HasPrev, HasTodo,
                                  Scraping, Passing
<1> QED BY <1>1, <1>2

LEMMA Fields ==
    ASSUME NEW x \in WorkerStates
    PROVE  /\ x.at \in Scraping \cup {"scrapeLock"} => x.prev \in Prevs
           /\ HasTodo(x) => x.todo \subseteq Rows
           /\ x.at = "scrapeRelease" => x.threw \in BOOLEAN
           /\ x.at = "reviewUpdate" => x.to \in Statuses
           /\ x.at \in {"rescrapeRead", "rowsReset", "summary", "counterUpdate"} => x.prev \in Nat
           /\ x.at = "counterUpdate" => x.failed \in BOOLEAN /\ x.kill \in BOOLEAN
<1>1. x.at \in Scraping \cup {"scrapeLock"} => x.prev \in Prevs
  BY DEF WorkerStates, Scraping, Idle
<1>2. HasTodo(x) => x.todo \subseteq Rows
  BY DEF WorkerStates, HasTodo, Idle
<1>3. x.at = "scrapeRelease" => x.threw \in BOOLEAN
  BY DEF WorkerStates, Idle
<1>4. x.at = "reviewUpdate" => x.to \in Statuses
  BY DEF WorkerStates, Idle
<1>5. x.at \in {"rescrapeRead", "rowsReset", "summary", "counterUpdate"} => x.prev \in Nat
  BY DEF WorkerStates, Idle
<1>6. x.at = "counterUpdate" => x.failed \in BOOLEAN /\ x.kill \in BOOLEAN
  BY DEF WorkerStates, Idle
<1> QED BY <1>1, <1>2, <1>3, <1>4, <1>5, <1>6

LEMMA AllVerifiedMeans ==
    /\ AllVerified <=> \A r \in Rows : row[r] \notin {"PENDING", "IN_PROGRESS", "FAILED"}
    /\ AllVerified' <=> \A r \in Rows : row'[r] \notin {"PENDING", "IN_PROGRESS", "FAILED"}
BY DEF AllVerified, Urls, InStatus

-----------------------------------------------------------------------------
(* SubmissionScraperService.scrapeAndVerify.                                 *)
LEMMA ScrapeIInv ==
    ASSUME IInv, NEW w \in Workers, ScrapeStep(w)
    PROVE  IInv'
<1>1. /\ status \in Statuses /\ row \in [Rows -> RowStatuses]
      /\ lock \in BOOLEAN /\ passLock \in BOOLEAN
      /\ worker[w] \in WorkerStates
  BY DEF IInv, TypeOK
<1>2. /\ IsHolding(worker[w]) => lock
      /\ IsPassing(worker[w]) => passLock
      /\ HasPrev(worker[w]) => worker[w].prev = failures
      /\ HasTodo(worker[w]) => \A r \in worker[w].todo : row[r] # "VERIFIED"
  BY DEF IInv, LocksHold, PrevsAreCurrent, TodoUnverified
<1>3. worker[w].at \in Scraping \cup {"scrapeLock"}
  BY DEF ScrapeStep, ScrapeSkip, ScrapeLock, ScrapeRead, CostGuard, ScrapeMark, ScrapeResult,
         ScrapeRelease, ScrapeThrows, At, Scraping
<1>4. PICK prev \in Prevs : prev = worker[w].prev
  BY <1>1, <1>3, Fields
<1>5. /\ IsPassing(worker[w]) <=> prev # NoPass
      /\ prev # NoPass => prev = failures
  BY <1>2, <1>3, <1>4 DEF IsPassing, HasPrev, Scraping, Passing
<1>6. ASSUME NEW threw \in BOOLEAN
      PROVE  \E x \in WorkerStates :
                 /\ x = Release(prev, threw)
                 /\ IsHolding(x) /\ (IsPassing(x) <=> prev # NoPass)
                 /\ HasPrev(x) => x.prev = prev /\ prev # NoPass
                 /\ ~HasTodo(x) /\ x.at = "scrapeRelease"
  <2>1. PICK x \in WorkerStates :
            x = [at |-> "scrapeRelease", prev |-> prev, threw |-> threw]
    BY DEF WorkerStates
  <2>2. x = Release(prev, threw) /\ x.at = "scrapeRelease" /\ x.prev = prev
    BY <2>1 DEF Release
  <2>3. /\ IsHolding(x) /\ (IsPassing(x) <=> prev # NoPass) /\ ~HasTodo(x)
        /\ HasPrev(x) => prev # NoPass
    BY <2>2 DEF IsHolding, IsPassing, HasPrev, HasTodo, Scraping, Passing
  <2> QED BY <2>2, <2>3
<1>7. ASSUME NEW at \in {"costGuard", "scrapeMark", "scrapeResult"}, NEW todo \in SUBSET Rows
      PROVE  \E x \in WorkerStates :
                 /\ x = [at |-> at, prev |-> prev, todo |-> todo]
                 /\ IsHolding(x) /\ (IsPassing(x) <=> prev # NoPass)
                 /\ HasPrev(x) => x.prev = prev /\ prev # NoPass
                 /\ x.at \notin {"autoRefund", "reviewUpdate"}
  <2>1. PICK x \in WorkerStates : x = [at |-> at, prev |-> prev, todo |-> todo]
    BY DEF WorkerStates
  <2>2. x.at = at /\ x.prev = prev
    BY <2>1
  <2>3. IsHolding(x) /\ (IsPassing(x) <=> prev # NoPass) /\ (HasPrev(x) => prev # NoPass)
    BY <2>2 DEF IsHolding, IsPassing, HasPrev, Scraping, Passing
  <2> QED BY <2>1, <2>2, <2>3
<1>8. ASSUME ScrapeSkip(w) PROVE IInv'
  BY <1>4, <1>5, <1>8, ScrapeStates, MoveIInv DEF ScrapeSkip, Skipped
<1>9. ASSUME ScrapeLock(w) PROVE IInv'
  <2>1. PICK x \in WorkerStates : x = [at |-> "scrapeRead", prev |-> prev]
    BY DEF WorkerStates
  <2>2. /\ IsPassing(x) <=> prev # NoPass
        /\ HasPrev(x) => x.prev = prev /\ prev # NoPass
        /\ ~HasTodo(x) /\ x.at \notin {"autoRefund", "reviewUpdate"}
    BY <2>1 DEF IsPassing, HasPrev, HasTodo, Scraping, Passing
  <2>3. /\ ~lock /\ lock' = TRUE /\ Goto(w, x)
        /\ UNCHANGED <<status, row, rules, passLock, failures, streak, current>>
    BY <1>4, <1>9, <2>1 DEF ScrapeLock
  <2>4. AllVerified' = AllVerified
    BY <2>3 DEF AllVerified, Urls, InStatus
  <2> QED BY <1>1, <1>2, <1>5, <2>2, <2>3, <2>4, StepIInv
<1>10. ASSUME ScrapeRead(w) PROVE IInv'
  <2>1. PICK todo \in SUBSET Rows : todo = Todo
    BY DEF Todo, InStatus
  <2>2. \A r \in todo : row[r] # "VERIFIED"
    BY <2>1 DEF Todo, InStatus
  <2>3. IsHolding(worker[w])
    BY <1>10 DEF ScrapeRead, At, IsHolding, Scraping
  <2>4. \/ Goto(w, Release(prev, FALSE))
        \/ \E at \in {"costGuard", "scrapeMark"} :
               Goto(w, [at |-> at, prev |-> prev, todo |-> todo])
    BY <1>4, <1>10, <2>1 DEF ScrapeRead
  <2>5. UNCHANGED <<status, row, rules, lock, passLock, failures, streak, current>>
    BY <1>10 DEF ScrapeRead
  <2>6. CASE Goto(w, Release(prev, FALSE))
    <3>1. PICK x \in WorkerStates :
              /\ x = Release(prev, FALSE)
              /\ IsHolding(x) /\ (IsPassing(x) <=> prev # NoPass)
              /\ HasPrev(x) => x.prev = prev /\ prev # NoPass
              /\ ~HasTodo(x) /\ x.at = "scrapeRelease"
      BY <1>6
    <3> QED BY <1>5, <2>3, <2>5, <2>6, <3>1, MoveIInv
  <2>7. ASSUME NEW at \in {"costGuard", "scrapeMark"},
               Goto(w, [at |-> at, prev |-> prev, todo |-> todo])
        PROVE  IInv'
    <3>1. PICK x \in WorkerStates :
              /\ x = [at |-> at, prev |-> prev, todo |-> todo]
              /\ IsHolding(x) /\ (IsPassing(x) <=> prev # NoPass)
              /\ HasPrev(x) => x.prev = prev /\ prev # NoPass
              /\ x.at \notin {"autoRefund", "reviewUpdate"}
      BY <1>7
    <3>2. x.todo = todo /\ Goto(w, x)
      BY <2>7, <3>1
    <3> QED BY <1>5, <2>2, <2>3, <2>5, <3>1, <3>2, MoveIInv
  <2> QED BY <2>4, <2>6, <2>7
<1>11. ASSUME NEW x \in WorkerStates, Goto(w, x), IsHolding(worker[w]),
              IsHolding(x), IsPassing(x) <=> prev # NoPass,
              HasPrev(x) => x.prev = prev /\ prev # NoPass,
              HasTodo(x) => \A r \in x.todo : row'[r] # "VERIFIED",
              x.at \notin {"autoRefund", "reviewUpdate"},
              row' \in [Rows -> RowStatuses], AllVerified => AllVerified',
              UNCHANGED <<status, rules, lock, passLock, failures, streak, current>>
       PROVE  IInv'
  BY <1>1, <1>2, <1>5, <1>11, StepIInv
<1>12. ASSUME CostGuard(w) PROVE IInv'
  <2>1. PICK todo \in SUBSET Rows : todo = worker[w].todo
    BY <1>1, <1>12, Fields DEF CostGuard, At, HasTodo
  <2>2. IsHolding(worker[w])
    BY <1>12 DEF CostGuard, At, IsHolding, Scraping
  <2>3. PICK x \in WorkerStates, threw \in BOOLEAN :
            /\ Goto(w, x) /\ x = Release(prev, threw)
            /\ IsHolding(x) /\ (IsPassing(x) <=> prev # NoPass)
            /\ HasPrev(x) => x.prev = prev /\ prev # NoPass
            /\ ~HasTodo(x) /\ x.at = "scrapeRelease"
    BY <1>4, <1>6, <1>12 DEF CostGuard
  <2>4. \/ row' = [r \in Rows |-> IF r \in todo THEN "VERIFIED" ELSE row[r]]
        \/ row' = row
    BY <1>12, <2>1 DEF CostGuard
  <2>5. row' \in [Rows -> RowStatuses]
    BY <1>1, <2>4 DEF RowStatuses
  <2>6. AllVerified => AllVerified'
    BY <2>4, AllVerifiedMeans
  <2>7. UNCHANGED <<status, rules, lock, passLock, failures, streak, current>>
    BY <1>12 DEF CostGuard
  <2> QED BY <1>11, <2>2, <2>3, <2>5, <2>6, <2>7
<1>13. ASSUME ScrapeMark(w) PROVE IInv'
  <2>1. PICK todo \in SUBSET Rows : todo = worker[w].todo
    BY <1>1, <1>13, Fields DEF ScrapeMark, At, HasTodo
  <2>2. IsHolding(worker[w]) /\ HasTodo(worker[w])
    BY <1>13 DEF ScrapeMark, At, IsHolding, HasTodo, Scraping
  <2>3. PICK x \in WorkerStates :
            /\ x = [at |-> "scrapeResult", prev |-> prev, todo |-> todo]
            /\ IsHolding(x) /\ (IsPassing(x) <=> prev # NoPass)
            /\ HasPrev(x) => x.prev = prev /\ prev # NoPass
            /\ x.at \notin {"autoRefund", "reviewUpdate"}
    BY <1>7
  <2>4. /\ row' = [r \in Rows |-> IF r \in todo \cap Urls THEN "IN_PROGRESS" ELSE row[r]]
        /\ Goto(w, x)
        /\ UNCHANGED <<status, rules, lock, passLock, failures, streak, current>>
    BY <1>4, <1>13, <2>1, <2>3 DEF ScrapeMark
  <2>5. \A r \in todo : row[r] # "VERIFIED"
    BY <1>2, <2>1, <2>2
  <2>6. x.todo = todo /\ \A r \in todo : row'[r] # "VERIFIED"
    BY <2>3, <2>4, <2>5
  <2>7. row' \in [Rows -> RowStatuses]
    BY <1>1, <2>4 DEF RowStatuses
  <2>8. AllVerified => AllVerified'
    <3>1. AllVerified => \A r \in Urls : row[r] = "VERIFIED"
      BY DEF AllVerified, InStatus
    <3>2. AllVerified => row' = row
      BY <1>1, <2>4, <2>5, <3>1
    <3> QED BY <3>2, AllVerifiedMeans
  <2> QED BY <1>11, <2>2, <2>3, <2>4, <2>6, <2>7, <2>8
<1>14. ASSUME ScrapeResult(w) PROVE IInv'
  <2>1. PICK todo \in SUBSET Rows : todo = worker[w].todo
    BY <1>1, <1>14, Fields DEF ScrapeResult, At, HasTodo
  <2>2. IsHolding(worker[w]) /\ HasTodo(worker[w])
    BY <1>14 DEF ScrapeResult, At, IsHolding, HasTodo, Scraping
  <2>3. PICK x \in WorkerStates :
            /\ x = Release(prev, FALSE)
            /\ IsHolding(x) /\ (IsPassing(x) <=> prev # NoPass)
            /\ HasPrev(x) => x.prev = prev /\ prev # NoPass
            /\ ~HasTodo(x) /\ x.at = "scrapeRelease"
    BY <1>6
  <2>4. /\ Goto(w, x)
        /\ UNCHANGED <<status, rules, lock, passLock, failures, streak, current>>
    BY <1>4, <1>14, <2>3 DEF ScrapeResult
  <2>5. \/ /\ todo \subseteq Urls
           /\ \E good \in SUBSET todo :
                  row' = [r \in Rows |-> IF r \in good THEN "VERIFIED"
                                         ELSE IF r \in todo THEN "FAILED" ELSE row[r]]
        \/ row' = row
    BY <1>14, <2>1 DEF ScrapeResult
  <2>6. row' \in [Rows -> RowStatuses]
    BY <1>1, <2>5 DEF RowStatuses
  <2>7. AllVerified => AllVerified'
    <3>1. AllVerified => \A r \in Urls : row[r] = "VERIFIED"
      BY DEF AllVerified, InStatus
    <3>2. AllVerified => row' = row
      BY <1>1, <1>2, <2>1, <2>2, <2>5, <3>1
    <3> QED BY <3>2, AllVerifiedMeans
  <2> QED BY <1>11, <2>2, <2>3, <2>4, <2>6, <2>7
<1>15. ASSUME ScrapeRelease(w) PROVE IInv'
  <2>1. IsHolding(worker[w]) /\ worker[w].threw \in BOOLEAN
    BY <1>1, <1>15, Fields DEF ScrapeRelease, At, IsHolding, Scraping
  <2>2. Goto(w, Caller(prev)) \/ Goto(w, FailedCaller(prev))
    BY <1>4, <1>15, <2>1 DEF ScrapeRelease
  <2>3. /\ lock' \in {FALSE, lock}
        /\ UNCHANGED <<status, row, rules, passLock, failures, streak, current>>
    BY <1>15 DEF ScrapeRelease
  <2>4. AllVerified' = AllVerified
    BY <2>3 DEF AllVerified, Urls, InStatus
  <2>5. ASSUME NEW x \in WorkerStates, Goto(w, x), ~IsHolding(x), ~HasTodo(x),
               IsPassing(x) => prev # NoPass,
               HasPrev(x) => prev # NoPass /\ x.prev = prev,
               x.at \notin {"autoRefund", "reviewUpdate"}
        PROVE  IInv'
    BY <1>1, <1>2, <1>5, <2>1, <2>3, <2>4, <2>5, StepIInv
  <2> QED BY <2>2, <2>5, ScrapeStates
<1>16. ASSUME ScrapeThrows(w) PROVE IInv'
  <2>1. PICK x \in WorkerStates :
            /\ x = Release(prev, TRUE)
            /\ IsHolding(x) /\ (IsPassing(x) <=> prev # NoPass)
            /\ HasPrev(x) => x.prev = prev /\ prev # NoPass
            /\ ~HasTodo(x) /\ x.at = "scrapeRelease"
    BY <1>6
  <2>2. IsHolding(worker[w]) /\ Goto(w, x)
    BY <1>4, <1>16, <2>1 DEF ScrapeThrows, IsHolding
  <2> QED BY <1>5, <1>16, <2>1, <2>2, MoveIInv DEF ScrapeThrows
<1> QED BY <1>8, <1>9, <1>10, <1>12, <1>13, <1>14, <1>15, <1>16 DEF ScrapeStep

-----------------------------------------------------------------------------
(* The requests.                                                             *)
LEMMA ScrapeStarts ==
    \E x \in WorkerStates :
        /\ x = Scrape(NoPass) /\ x.at = "scrapeLock"
        /\ ~IsHolding(x) /\ ~IsPassing(x) /\ ~HasPrev(x) /\ ~HasTodo(x)
<1>1. PICK x \in WorkerStates : x = [at |-> "scrapeLock", prev |-> NoPass]
  BY DEF WorkerStates, Prevs
<1>2. x = Scrape(NoPass) /\ x.at = "scrapeLock" /\ x.prev = NoPass
  BY <1>1 DEF Scrape
<1>3. ~IsHolding(x) /\ ~IsPassing(x) /\ ~HasPrev(x) /\ ~HasTodo(x)
  BY <1>2 DEF IsHolding, IsPassing, HasPrev, HasTodo, Scraping, Passing
<1> QED BY <1>2, <1>3

LEMMA RequestIInv ==
    ASSUME IInv, NEW w \in Workers, Request(w)
    PROVE  IInv'
<1>1. /\ status \in Statuses /\ row \in [Rows -> RowStatuses]
      /\ lock \in BOOLEAN /\ passLock \in BOOLEAN
      /\ worker[w] \in WorkerStates /\ current \subseteq Workers
  BY DEF IInv, TypeOK
<1>2. PICK scrape \in WorkerStates :
          /\ scrape = Scrape(NoPass) /\ scrape.at = "scrapeLock"
          /\ ~IsHolding(scrape) /\ ~IsPassing(scrape) /\ ~HasPrev(scrape) /\ ~HasTodo(scrape)
  BY ScrapeStarts
<1>3. /\ Idle \in WorkerStates /\ Idle.at = "idle"
      /\ ~IsHolding(Idle) /\ ~IsPassing(Idle) /\ ~HasPrev(Idle) /\ ~HasTodo(Idle)
  BY DEF WorkerStates, Idle, IsHolding, IsPassing, HasPrev, HasTodo, Scraping, Passing
<1>4. ASSUME create(w) PROVE IInv'
  <2>1. current = {}
    BY <1>4 DEF create, IInv, ReviewsSubmitted
  <2>2. PICK urls \in SUBSET Rows : row' = [r \in Rows |-> IF r \in urls THEN "PENDING" ELSE "none"]
    BY <1>4 DEF create
  <2>3. /\ status' = "SUBMITTED" /\ Goto(w, scrape)
        /\ UNCHANGED <<rules, lock, passLock, failures, streak, current>>
    BY <1>2, <1>4 DEF create
  <2>4. row' \in [Rows -> RowStatuses] /\ status' \in Statuses
    BY <2>2, <2>3 DEF RowStatuses, Statuses
  <2> QED BY <1>1, <1>2, <2>1, <2>2, <2>3, <2>4, StepIInv
<1>5. ASSUME updateSubmission(w) PROVE IInv'
  <2>1. PICK x \in WorkerStates : x = [at |-> "resubmit"]
    BY DEF WorkerStates
  <2>2. ~IsHolding(x) /\ ~IsPassing(x) /\ ~HasPrev(x) /\ ~HasTodo(x)
    BY <2>1 DEF IsHolding, IsPassing, HasPrev, HasTodo, Scraping, Passing
  <2> QED BY <1>5, <2>1, <2>2, MoveIInv DEF updateSubmission
<1>6. ASSUME Resubmit(w) PROVE IInv'
  <2>1. PICK dropped \in SUBSET Urls, added \in SUBSET Unused :
            /\ row' = [r \in Rows |-> IF r \in dropped THEN "deleted"
                                      ELSE IF r \in added THEN "PENDING" ELSE row[r]]
            /\ Goto(w, scrape) \/ Goto(w, Idle)
    BY <1>2, <1>6 DEF Resubmit
  <2>2. /\ status' = "SUBMITTED" /\ current' = {}
        /\ UNCHANGED <<rules, lock, passLock, failures, streak>>
    BY <1>6 DEF Resubmit
  <2>3. row' \in [Rows -> RowStatuses] /\ status' \in Statuses
    BY <1>1, <2>1, <2>2 DEF RowStatuses, Statuses
  <2>4. \A r \in Rows : row'[r] = "VERIFIED" => row[r] = "VERIFIED"
    BY <2>1
  <2> QED BY <1>1, <1>2, <1>3, <2>1, <2>2, <2>3, <2>4, StepIInv
<1>7. ASSUME NEW to \in Statuses, review(w, to) PROVE IInv'
  <2>1. PICK x \in WorkerStates : x = [at |-> "reviewUpdate", to |-> to]
    BY DEF WorkerStates
  <2>2. ~IsHolding(x) /\ ~IsPassing(x) /\ ~HasPrev(x) /\ ~HasTodo(x)
    BY <2>1 DEF IsHolding, IsPassing, HasPrev, HasTodo, Scraping, Passing
  <2>3. /\ to \in REVIEW_TRANSITIONS(status) /\ (to = "APPROVED" => AllVerified)
        /\ current' = current \cup {w} /\ Goto(w, x)
        /\ UNCHANGED <<status, row, rules, lock, passLock, failures, streak>>
    BY <1>7, <2>1 DEF review, GatePasses
  <2>4. status # "none" /\ to # "none"
    BY <2>3 DEF REVIEW_TRANSITIONS
  <2>5. AllVerified' = AllVerified
    BY <2>3 DEF AllVerified, Urls, InStatus
  <2>6. x.at = "reviewUpdate" /\ x.to = to
    BY <2>1
  <2> QED BY <1>1, <2>2, <2>3, <2>4, <2>5, <2>6, StepIInv
<1>8. ASSUME ReviewUpdate(w) PROVE IInv'
  <2>1. PICK to \in Statuses : to = worker[w].to /\ to # "none"
    BY <1>1, <1>8, Fields DEF ReviewUpdate, At, IInv, ReviewsSubmitted
  <2>2. /\ status' = to /\ current' = {} /\ Goto(w, Idle)
        /\ UNCHANGED <<row, rules, lock, passLock, failures, streak>>
    BY <1>8, <2>1 DEF ReviewUpdate
  <2> QED BY <1>1, <1>3, <2>1, <2>2, StepIInv
<1> QED BY <1>4, <1>5, <1>6, <1>7, <1>8 DEF Request

-----------------------------------------------------------------------------
(* The jobs.                                                                 *)

\* The one step that writes the counter: no other pass has read it.
LEMMA CounterIInv ==
    ASSUME IInv, NEW w \in Workers, CounterUpdate(w)
    PROVE  IInv'
<1>1. /\ worker[w] \in WorkerStates /\ worker[w].at = "counterUpdate"
      /\ failures \in Nat /\ streak \in 0 .. FailureThreshold
      /\ FailureThreshold \in Nat \ {0}
  BY VerificationAssumption DEF IInv, TypeOK, CounterUpdate, At
<1>2. IsPassing(worker[w]) /\ worker[w].prev = failures
  BY <1>1 DEF IInv, PrevsAreCurrent, IsPassing, HasPrev, Passing
<1>3. worker[w].failed \in BOOLEAN /\ worker[w].kill \in BOOLEAN
  BY <1>1, Fields
<1>4. PICK failed \in BOOLEAN, kill \in BOOLEAN : failed = worker[w].failed /\ kill = worker[w].kill
  BY <1>3
<1>5. /\ failures' = IF ~failed THEN 0 ELSE IF kill THEN failures ELSE failures + 1
      /\ streak' = IF ~failed THEN 0
                   ELSE IF streak < FailureThreshold THEN streak + 1 ELSE streak
      /\ Goto(w, [at |-> IF failed /\ ~kill /\ failures' >= FailureThreshold
                           THEN "autoRefund" ELSE "passRelease"])
      /\ UNCHANGED <<status, row, rules, lock, passLock, current>>
  BY <1>2, <1>4 DEF CounterUpdate, NewConsecutive
<1>6. PICK x \in WorkerStates :
          /\ x = [at |-> IF failed /\ ~kill /\ failures' >= FailureThreshold
                           THEN "autoRefund" ELSE "passRelease"]
          /\ Goto(w, x)
  BY <1>5 DEF WorkerStates
<1>7. /\ ~IsHolding(x) /\ IsPassing(x) /\ ~HasPrev(x) /\ ~HasTodo(x) /\ x.at # "reviewUpdate"
      /\ x.at = "autoRefund" => failed /\ ~kill /\ failures' >= FailureThreshold
  BY <1>6 DEF IsHolding, IsPassing, HasPrev, HasTodo, Scraping, Passing
<1>8. /\ worker' \in [Workers -> WorkerStates]
      /\ worker'[w] = x
      /\ \A u \in Workers : u # w => worker'[u] = worker[u]
  BY <1>6, Moves DEF IInv
<1>9. \A u \in Workers : u # w => ~IsPassing(worker[u])
  BY <1>2 DEF IInv, PassesExclusive
<1>10. failures' \in Nat /\ streak' \in 0 .. FailureThreshold
  BY <1>1, <1>5
<1>11. TypeOK'
  BY <1>5, <1>8, <1>10 DEF IInv, TypeOK
<1>12. LocksHold' /\ ScrapesExclusive' /\ PassesExclusive'
  BY <1>2, <1>5, <1>7, <1>8, <1>9
  DEF IInv, LocksHold, ScrapesExclusive, PassesExclusive, Holder, IsHolding
<1>13. PrevsAreCurrent'
  <2>1. \A u \in Workers : HasPrev(worker[u]) => IsPassing(worker[u])
    BY DEF HasPrev, IsPassing, Passing
  <2> QED BY <1>7, <1>8, <1>9, <2>1 DEF PrevsAreCurrent
<1>14. StreakCovers'
  BY <1>1, <1>5 DEF IInv, StreakCovers
<1>15. RefundNeedsStreak'
  <2>1. \A u \in Workers : worker[u].at = "autoRefund" => IsPassing(worker[u])
    BY DEF IsPassing, Passing
  <2>2. x.at = "autoRefund" => streak' = FailureThreshold
    BY <1>1, <1>5, <1>7, <1>10, <1>14 DEF StreakCovers
  <2> QED BY <1>8, <1>9, <2>1, <2>2 DEF RefundNeedsStreak, At
<1>16. TodoUnverified' /\ ReviewsSubmitted'
  BY <1>5, <1>7, <1>8 DEF IInv, TodoUnverified, ReviewsSubmitted, At
<1>17. GateHoldsUntilRaced'
  <2>1. AllVerified' = AllVerified
    BY <1>5 DEF AllVerified, Urls, InStatus
  <2>2. current \subseteq Workers
    BY DEF IInv, TypeOK
  <2> QED BY <1>5, <1>7, <1>8, <2>1, <2>2 DEF IInv, GateHoldsUntilRaced, At
<1> QED BY <1>11, <1>12, <1>13, <1>14, <1>15, <1>16, <1>17 DEF IInv

LEMMA JobIInv ==
    ASSUME IInv, NEW w \in Workers, Job(w)
    PROVE  IInv'
<1>1. /\ status \in Statuses /\ row \in [Rows -> RowStatuses]
      /\ lock \in BOOLEAN /\ passLock \in BOOLEAN /\ failures \in Nat
      /\ worker[w] \in WorkerStates
  BY DEF IInv, TypeOK
<1>2. HasPrev(worker[w]) => worker[w].prev = failures
  BY DEF IInv, PrevsAreCurrent
<1>3. PICK scrape \in WorkerStates :
          /\ scrape = Scrape(NoPass) /\ scrape.at = "scrapeLock"
          /\ ~IsHolding(scrape) /\ ~IsPassing(scrape) /\ ~HasPrev(scrape) /\ ~HasTodo(scrape)
  BY ScrapeStarts
<1>4. PICK release \in WorkerStates :
          /\ release = [at |-> "passRelease"] /\ release.at = "passRelease"
          /\ ~IsHolding(release) /\ ~HasPrev(release) /\ ~HasTodo(release)
  <2>1. PICK x \in WorkerStates : x = [at |-> "passRelease"]
    BY DEF WorkerStates
  <2>2. ~IsHolding(x) /\ ~HasPrev(x) /\ ~HasTodo(x)
    BY <2>1 DEF IsHolding, HasPrev, HasTodo, Scraping
  <2> QED BY <2>1, <2>2
<1>5. ASSUME sweep(w) PROVE IInv'
  BY <1>3, <1>5, MoveIInv DEF sweep
<1>6. ASSUME runRecheckPass(w) PROVE IInv'
  <2>1. PICK x \in WorkerStates : x = [at |-> "passRead"]
    BY DEF WorkerStates
  <2>2. ~IsHolding(x) /\ ~HasPrev(x) /\ ~HasTodo(x)
    BY <2>1 DEF IsHolding, HasPrev, HasTodo, Scraping
  <2>3. /\ ~passLock /\ passLock' = TRUE /\ Goto(w, x)
        /\ UNCHANGED <<status, row, rules, lock, failures, streak, current>>
    BY <1>6, <2>1 DEF runRecheckPass
  <2>4. AllVerified' = AllVerified
    BY <2>3 DEF AllVerified, Urls, InStatus
  <2> QED BY <1>1, <2>1, <2>2, <2>3, <2>4, StepIInv
<1>7. ASSUME NEW x \in WorkerStates, Goto(w, x), worker[w].at \in Passing,
             ~IsHolding(x), HasPrev(x) => x.prev = failures, ~HasTodo(x),
             x.at = "autoRefund" => streak = FailureThreshold, x.at # "reviewUpdate",
             UNCHANGED <<status, row, rules, lock, passLock, failures, streak, current>>
      PROVE  IInv'
  <2>1. IsPassing(worker[w])
    BY <1>7 DEF IsPassing
  <2> QED BY <1>7, <2>1, MoveIInv
<1>8. ASSUME PassRead(w) PROVE IInv'
  <2>1. PICK x \in WorkerStates : x = [at |-> "rescrapeRead", prev |-> failures]
    BY <1>1 DEF WorkerStates
  <2>2. /\ ~IsHolding(x) /\ HasPrev(x) /\ ~HasTodo(x) /\ x.prev = failures
        /\ x.at \notin {"autoRefund", "reviewUpdate"}
    BY <2>1 DEF IsHolding, HasPrev, HasTodo, Scraping
  <2>3. Goto(w, x) \/ Goto(w, release)
    BY <1>4, <1>8, <2>1 DEF PassRead
  <2>4. /\ worker[w].at \in Passing
        /\ UNCHANGED <<status, row, rules, lock, passLock, failures, streak, current>>
    BY <1>8 DEF PassRead, At, Passing
  <2> QED BY <1>4, <1>7, <2>2, <2>3, <2>4
<1>9. ASSUME NEW failed \in BOOLEAN, NEW kill \in BOOLEAN
      PROVE  \E x \in WorkerStates :
                 /\ x = Counted(failed, kill, failures)
                 /\ ~IsHolding(x) /\ ~HasTodo(x) /\ x.prev = failures /\ x.at = "counterUpdate"
  <2>1. PICK x \in WorkerStates :
            x = [at |-> "counterUpdate", failed |-> failed, kill |-> kill, prev |-> failures]
    BY <1>1 DEF WorkerStates
  <2>2. x = Counted(failed, kill, failures) /\ x.prev = failures /\ x.at = "counterUpdate"
    BY <2>1 DEF Counted
  <2>3. ~IsHolding(x) /\ ~HasTodo(x)
    BY <2>2 DEF IsHolding, HasTodo, Scraping
  <2> QED BY <2>2, <2>3
<1>10. ASSUME RescrapeRead(w) PROVE IInv'
  <2>1. worker[w].prev = failures /\ worker[w].at \in Passing
    BY <1>2, <1>10 DEF RescrapeRead, At, HasPrev, Passing
  <2>2. PICK x \in WorkerStates : x = [at |-> "rowsReset", prev |-> failures]
    BY <1>1 DEF WorkerStates
  <2>3. /\ ~IsHolding(x) /\ ~HasTodo(x) /\ x.prev = failures
        /\ x.at \notin {"autoRefund", "reviewUpdate"}
    BY <2>2 DEF IsHolding, HasTodo, Scraping
  <2>4. Goto(w, x) \/ Goto(w, Counted(FALSE, FALSE, failures))
    BY <1>10, <2>1, <2>2 DEF RescrapeRead
  <2>5. UNCHANGED <<status, row, rules, lock, passLock, failures, streak, current>>
    BY <1>10 DEF RescrapeRead
  <2> QED BY <1>7, <1>9, <2>1, <2>3, <2>4, <2>5
<1>11. ASSUME RowsReset(w) PROVE IInv'
  <2>1. worker[w].prev = failures /\ IsPassing(worker[w])
    BY <1>2, <1>11 DEF RowsReset, At, HasPrev, IsPassing, Passing
  <2>2. PICK x \in WorkerStates : x = [at |-> "scrapeLock", prev |-> failures]
    BY <1>1 DEF WorkerStates, Prevs
  <2>3. ~IsHolding(x) /\ ~HasTodo(x) /\ x.prev = failures
        /\ x.at \notin {"autoRefund", "reviewUpdate"}
    BY <2>2 DEF IsHolding, HasTodo, Scraping
  <2>4. /\ row' = [r \in Rows |-> IF r \in Urls THEN "PENDING" ELSE row[r]]
        /\ current' = {} /\ Goto(w, x)
        /\ UNCHANGED <<status, rules, lock, passLock, failures, streak>>
    BY <1>11, <2>1, <2>2 DEF RowsReset, Scrape
  <2>5. row' \in [Rows -> RowStatuses]
    BY <1>1, <2>4 DEF RowStatuses
  <2>6. passLock /\ (status = "none" => current = {})
    BY <2>1 DEF IInv, LocksHold, ReviewsSubmitted
  <2> QED BY <1>1, <2>1, <2>3, <2>4, <2>5, <2>6, StepIInv
<1>12. ASSUME Summary(w) PROVE IInv'
  <2>1. worker[w].prev = failures /\ worker[w].at \in Passing
    BY <1>2, <1>12 DEF Summary, At, HasPrev, Passing
  <2>2. PICK failed \in BOOLEAN, kill \in BOOLEAN : Goto(w, Counted(failed, kill, failures))
    BY <1>12, <2>1 DEF Summary
  <2>3. UNCHANGED <<status, row, rules, lock, passLock, failures, streak, current>>
    BY <1>12 DEF Summary
  <2> QED BY <1>7, <1>9, <2>1, <2>2, <2>3
<1>13. ASSUME triggerAutoRefund(w) PROVE IInv'
  BY <1>4, <1>7, <1>13 DEF triggerAutoRefund, At, Passing
<1>14. ASSUME PassRelease(w) PROVE IInv'
  <2>1. /\ Idle \in WorkerStates /\ Idle.at = "idle"
        /\ ~IsHolding(Idle) /\ ~IsPassing(Idle) /\ ~HasPrev(Idle) /\ ~HasTodo(Idle)
    BY DEF WorkerStates, Idle, IsHolding, IsPassing, HasPrev, HasTodo, Scraping, Passing
  <2>2. /\ passLock' \in {FALSE, passLock} /\ Goto(w, Idle)
        /\ UNCHANGED <<status, row, rules, lock, failures, streak, current>>
    BY <1>14 DEF PassRelease
  <2>3. IsPassing(worker[w])
    BY <1>14 DEF PassRelease, At, IsPassing
  <2>4. AllVerified' = AllVerified
    BY <2>2 DEF AllVerified, Urls, InStatus
  <2> QED BY <1>1, <2>1, <2>2, <2>3, <2>4, StepIInv
<1>15. ASSUME PassThrows(w) PROVE IInv'
  <2>1. IsPassing(worker[w])
    BY <1>15 DEF PassThrows, At, IsPassing
  <2> QED BY <1>4, <1>15, <2>1, MoveIInv DEF PassThrows
<1>16. ASSUME CounterUpdate(w) PROVE IInv'
  BY <1>16, CounterIInv
<1> QED BY <1>5, <1>6, <1>8, <1>10, <1>11, <1>12, <1>13, <1>14, <1>15, <1>16 DEF Job

-----------------------------------------------------------------------------
(* Disputes, administrators, and the times to live of the locks.             *)

\* A step that moves no request and no job run on.
LEMMA StandingIInv ==
    ASSUME IInv,
           UNCHANGED <<row, rules, failures, streak, worker>>,
           status' \in Statuses, status' = "none" => status = "none",
           lock' \in BOOLEAN, passLock' \in BOOLEAN,
           current' \in {{}, current},
           \A w \in Workers : IsHolding(worker[w]) => lock',
           \A w \in Workers : IsPassing(worker[w]) => passLock'
    PROVE  IInv'
<1>1. TypeOK'
  BY DEF IInv, TypeOK
<1>2. LocksHold' /\ ScrapesExclusive' /\ PassesExclusive'
  BY DEF IInv, LocksHold, ScrapesExclusive, PassesExclusive, Holder
<1>3. PrevsAreCurrent' /\ StreakCovers' /\ RefundNeedsStreak'
  BY DEF IInv, PrevsAreCurrent, StreakCovers, RefundNeedsStreak, At
<1>4. TodoUnverified' /\ ReviewsSubmitted'
  BY DEF IInv, TodoUnverified, ReviewsSubmitted, At
<1>5. GateHoldsUntilRaced'
  BY DEF IInv, GateHoldsUntilRaced, At, AllVerified, Urls, InStatus
<1> QED BY <1>1, <1>2, <1>3, <1>4, <1>5 DEF IInv

LEMMA DecreeIInv ==
    ASSUME IInv, NEW w \in Workers, Decree(w)
    PROVE  IInv'
<1>1. /\ status' \in Statuses /\ status' # "none"
      /\ UNCHANGED <<row, rules, lock, passLock, failures, streak, current, worker>>
  BY DEF Decree, resolve, overrideSubmission, Statuses
<1>2. /\ lock \in BOOLEAN /\ passLock \in BOOLEAN
      /\ \A u \in Workers : /\ IsHolding(worker[u]) => lock
                            /\ IsPassing(worker[u]) => passLock
  BY DEF IInv, TypeOK, LocksHold
<1> QED BY <1>1, <1>2, StandingIInv

LEMMA ExpiryIInv == IInv /\ (LockExpires \/ PassLockExpires) => IInv'
<1> SUFFICES ASSUME IInv, LockExpires \/ PassLockExpires PROVE IInv'
  OBVIOUS
<1>1. /\ status \in Statuses /\ lock \in BOOLEAN /\ passLock \in BOOLEAN
      /\ \A w \in Workers : /\ IsHolding(worker[w]) => lock
                            /\ IsPassing(worker[w]) => passLock
  BY DEF IInv, TypeOK, LocksHold
<1>2. CASE LockExpires
  <2>1. /\ lock' = FALSE /\ \A w \in Workers : ~IsHolding(worker[w])
        /\ UNCHANGED <<status, row, rules, passLock, failures, streak, current, worker>>
    BY <1>2 DEF LockExpires, Holder, IsHolding
  <2> QED BY <1>1, <2>1, StandingIInv
<1>3. CASE PassLockExpires
  <2>1. /\ passLock' = FALSE /\ \A w \in Workers : ~IsPassing(worker[w])
        /\ UNCHANGED <<status, row, rules, lock, failures, streak, current, worker>>
    BY <1>3 DEF PassLockExpires, InPass, IsPassing
  <2> QED BY <1>1, <2>1, StandingIInv
<1> QED BY <1>2, <1>3

LEMMA InitIInv == Init => IInv
<1> SUFFICES ASSUME Init PROVE IInv
  OBVIOUS
<1>1. Idle.at = "idle" /\ Idle \in WorkerStates
  BY DEF Idle, WorkerStates
<1>2. TypeOK
  <2>1. row \in [Rows -> RowStatuses] /\ worker \in [Workers -> WorkerStates]
    BY <1>1 DEF Init, RowStatuses
  <2>2. failures \in Nat /\ streak \in 0..FailureThreshold
    BY VerificationAssumption DEF Init
  <2>3. status \in Statuses /\ rules \in BOOLEAN /\ lock \in BOOLEAN /\ passLock \in BOOLEAN
        /\ current \subseteq Workers
    BY DEF Init, Statuses
  <2> QED BY <2>1, <2>2, <2>3 DEF TypeOK
<1>3. \A w \in Workers : worker[w].at = "idle"
  BY <1>1 DEF Init
<1>4. \A w \in Workers : /\ ~IsHolding(worker[w]) /\ ~IsPassing(worker[w])
                         /\ ~HasPrev(worker[w]) /\ ~HasTodo(worker[w])
  BY <1>3 DEF IsHolding, IsPassing, HasPrev, HasTodo, Scraping, Passing
<1>5. LocksHold /\ ScrapesExclusive /\ PassesExclusive
  BY <1>4 DEF LocksHold, ScrapesExclusive, PassesExclusive, Holder, IsHolding
<1>6. PrevsAreCurrent /\ StreakCovers /\ RefundNeedsStreak
  BY <1>3, <1>4 DEF Init, PrevsAreCurrent, StreakCovers, RefundNeedsStreak, At
<1>7. TodoUnverified /\ ReviewsSubmitted /\ GateHoldsUntilRaced
  BY <1>3, <1>4 DEF Init, TodoUnverified, ReviewsSubmitted, GateHoldsUntilRaced, At
<1> QED BY <1>2, <1>5, <1>6, <1>7 DEF IInv

LEMMA NextIInv == IInv /\ [Next]_vars => IInv'
<1> SUFFICES ASSUME IInv, [Next]_vars PROVE IInv'
  OBVIOUS
<1>1. ASSUME NEW w \in Workers, Crash(w) PROVE IInv'
  BY <1>1, IdleMoves DEF Crash
<1>2. CASE UNCHANGED vars
  <2>1. /\ status \in Statuses /\ lock \in BOOLEAN /\ passLock \in BOOLEAN
        /\ \A w \in Workers : /\ IsHolding(worker[w]) => lock
                              /\ IsPassing(worker[w]) => passLock
    BY DEF IInv, TypeOK, LocksHold
  <2> QED BY <1>2, <2>1, StandingIInv DEF vars
<1> QED BY <1>1, <1>2, ScrapeIInv, RequestIInv, JobIInv, DecreeIInv, ExpiryIInv DEF Next

LEMMA Invariance == Spec => []IInv
BY InitIInv, NextIInv, PTL DEF Spec

-----------------------------------------------------------------------------
\* Status, rows, locks, counter and the place of every request and job run
\* keep their types; the counter of failures is never negative.
THEOREM TypeCorrect == Spec => []TypeOK
<1>1. IInv => TypeOK
  BY DEF IInv
<1> QED BY <1>1, Invariance, PTL

\* For any number of triggers, sweeps and passes, cut off anywhere, two
\* scrapes of one submission never run at once.
THEOREM ScrapesExclude == Spec => []ScrapesExclusive
<1>1. IInv => ScrapesExclusive
  BY DEF IInv
<1> QED BY <1>1, Invariance, PTL

\* For any threshold, an automatic refund follows that many failing passes in
\* a row, though the counter also stands still with the kill switch.
THEOREM RefundsFollowStreaks == Spec => []RefundNeedsStreak
<1>1. IInv => RefundNeedsStreak
  BY DEF IInv
<1> QED BY <1>1, Invariance, PTL

\* For any number of posts, no scrape in the background takes away what the
\* approval gate has seen.
THEOREM GateHolds == Spec => []GateHoldsUntilRaced
<1>1. IInv => GateHoldsUntilRaced
  BY DEF IInv
<1> QED BY <1>1, Invariance, PTL

-----------------------------------------------------------------------------
(* Where one request or job run at a time may replace posts, review, or      *)
(* reset rows, the race that GateHoldsUntilRaced excepts cannot happen, and  *)
(* what it says of the gate becomes a fact about approvals; disputes and     *)
(* administrators may interfere.  For the order of the statuses they are to  *)
(* take turns with the others.                                               *)
Reviewing == {"submit", "review", "recheck"}
Alone(duties) ==
    \A v, w \in Workers : Duties[v] \cap duties # {} /\ Duties[w] \cap duties # {} => v = w
OneReviewer == Alone(Reviewing)
OneDecider == Alone(Reviewing \cup {"resolve", "override"})

\* Nothing is approved while a post of it is not verified, but by the word of
\* an administrator, who does not ask.
ApprovesVerified ==
    [][status # "APPROVED" /\ status' = "APPROVED"
       => AllVerified \/ \E w \in Workers : overrideSubmission(w, "APPROVED")]_vars

\* The status moves as REVIEW_TRANSITIONS or a submission has it, but for
\* what a dispute or an administrator decrees.
Decided(from, to) ==
    \/ to = from
    \/ to \in REVIEW_TRANSITIONS(from)
    \/ from \in {"none", "NEEDS_MORE_INFO"} /\ to = "SUBMITTED"
DecidesInOrder == [][Decided(status, status') \/ \E w \in Workers : Decree(w)]_vars

\* Between its read and its write, a review has its duty and what it has seen.
ReviewingAt == {"resubmit", "reviewUpdate", "passRead", "rescrapeRead", "rowsReset"}
Kept ==
    \A w \in Workers :
        /\ worker[w].at \in ReviewingAt => Duties[w] \cap Reviewing # {}
        /\ At(w, "reviewUpdate") => w \in current

\* And the status that it has read.
Grounded ==
    \A w \in Workers :
        /\ At(w, "resubmit") => status = "NEEDS_MORE_INFO"
        /\ At(w, "reviewUpdate") => worker[w].to \in REVIEW_TRANSITIONS(status)

Fits(from, to) == from # "APPROVED" /\ to = "APPROVED" => AllVerified
Orderly == Grounded => Grounded' /\ Decided(status, status')

\* A step that leaves the status and the readers alone decides nothing.
LEMMA QuietKeeps ==
    ASSUME TypeOK, Kept, NEW w \in Workers, NEW x, Goto(w, x), UNCHANGED <<status, current>>,
           x.at \in ReviewingAt => Duties[w] \cap Reviewing # {},
           x.at \notin {"resubmit", "reviewUpdate"}
    PROVE  Kept' /\ Fits(status, status') /\ Orderly
<1>1. worker'[w] = x /\ \A u \in Workers : u # w => worker'[u] = worker[u]
  BY DEF TypeOK, Goto
<1>2. Kept'
  BY <1>1 DEF Kept, At, ReviewingAt
<1>3. REVIEW_TRANSITIONS(status)' = REVIEW_TRANSITIONS(status)
  BY DEF REVIEW_TRANSITIONS
<1>4. Grounded => Grounded'
  BY <1>1, <1>3 DEF Grounded, At
<1> QED BY <1>2, <1>4 DEF Fits, Decided, Orderly

\* The only one who may review takes nobody's ground.
LEMMA ReviewKeeps ==
    ASSUME TypeOK, Kept, OneReviewer, NEW w \in Workers, NEW x, Goto(w, x),
           Duties[w] \cap Reviewing # {}, x.at \notin ReviewingAt
    PROVE  Kept' /\ Grounded'
<1>1. worker'[w] = x /\ \A u \in Workers : u # w => worker'[u] = worker[u]
  BY DEF TypeOK, Goto
<1>2. ASSUME NEW u \in Workers PROVE worker'[u].at \notin ReviewingAt
  <2>1. CASE u = w
    BY <1>1, <2>1
  <2>2. CASE u # w
    <3>1. Duties[u] \cap Reviewing = {}
      BY <2>2 DEF OneReviewer, Alone
    <3> QED BY <1>1, <2>2, <3>1 DEF Kept
  <2> QED BY <2>1, <2>2
<1> QED BY <1>2 DEF Kept, Grounded, At, ReviewingAt

\* A scrape, and where it returns to, reviews nothing.
LEMMA ScrapesReviewNothing ==
    ASSUME NEW prev
    PROVE  /\ Caller(prev).at \notin ReviewingAt /\ FailedCaller(prev).at \notin ReviewingAt
           /\ Scrape(prev).at \notin ReviewingAt /\ Idle.at \notin ReviewingAt
           /\ \A threw : Release(prev, threw).at \notin ReviewingAt
BY DEF Caller, FailedCaller, Scrape, Idle, Release, ReviewingAt

LEMMA ScrapeKeeps ==
    ASSUME TypeOK, Kept, NEW w \in Workers, ScrapeStep(w)
    PROVE  Kept' /\ Fits(status, status') /\ Orderly
<1>1. UNCHANGED <<status, current>>
  BY DEF ScrapeStep, ScrapeSkip, ScrapeLock, ScrapeRead, CostGuard, ScrapeMark, ScrapeResult,
         ScrapeRelease, ScrapeThrows
<1>2. \E x : Goto(w, x) /\ x.at \notin ReviewingAt
  <2>1. CASE ScrapeSkip(w)
    BY <2>1, ScrapesReviewNothing DEF ScrapeSkip
  <2>2. CASE ScrapeLock(w)
    BY <2>2 DEF ScrapeLock, ReviewingAt
  <2>3. CASE ScrapeRead(w)
    <3> DEFINE x == IF Todo = {} THEN Release(worker[w].prev, FALSE)
                    ELSE [at |-> IF rules THEN "scrapeMark" ELSE "costGuard",
                          prev |-> worker[w].prev, todo |-> Todo]
    <3>1. Goto(w, x)
      BY <2>3 DEF ScrapeRead
    <3>2. x.at \notin ReviewingAt
      BY ScrapesReviewNothing DEF ReviewingAt
    <3> QED BY <3>1, <3>2
  <2>4. CASE CostGuard(w)
    BY <2>4, ScrapesReviewNothing DEF CostGuard
  <2>5. CASE ScrapeMark(w)
    BY <2>5 DEF ScrapeMark, ReviewingAt
  <2>6. CASE ScrapeResult(w)
    BY <2>6, ScrapesReviewNothing DEF ScrapeResult
  <2>7. CASE ScrapeRelease(w)
    BY <2>7, ScrapesReviewNothing DEF ScrapeRelease
  <2>8. CASE ScrapeThrows(w)
    BY <2>8, ScrapesReviewNothing DEF ScrapeThrows
  <2> QED BY <2>1, <2>2, <2>3, <2>4, <2>5, <2>6, <2>7, <2>8 DEF ScrapeStep
<1>3. PICK x : Goto(w, x) /\ x.at \notin ReviewingAt
  BY <1>2
<1> QED BY <1>1, <1>3, QuietKeeps DEF ReviewingAt

\* Whose duty it is to review, or to submit.
LEMMA DutyReviews ==
    ASSUME NEW w \in Workers, NEW duty \in Reviewing, Starts(w, duty)
    PROVE  Duties[w] \cap Reviewing # {}
BY DEF Starts

LEMMA RequestKeeps ==
    ASSUME IInv, Kept, OneReviewer, NEW w \in Workers, Request(w)
    PROVE  Kept' /\ Fits(status, status') /\ Orderly
<1>0. TypeOK /\ GateHoldsUntilRaced /\ ReviewsSubmitted
  BY DEF IInv
<1>1. CASE create(w)
  <2>1. \A u \in Workers : worker[u].at # "reviewUpdate"
    BY <1>0, <1>1 DEF create, Kept, ReviewsSubmitted, At
  <2>2. /\ Goto(w, Scrape(NoPass)) /\ Scrape(NoPass).at \notin ReviewingAt
        /\ status = "none" /\ status' = "SUBMITTED"
    BY <1>1, ScrapesReviewNothing DEF create
  <2>3. \A u \in Workers : worker'[u].at \in ReviewingAt => worker'[u] = worker[u]
    BY <1>0, <2>2 DEF TypeOK, Goto
  <2>4. Kept'
    BY <2>1, <2>3 DEF Kept, At, ReviewingAt
  <2>5. Grounded => Grounded'
    BY <2>1, <2>2, <2>3 DEF Grounded, At, ReviewingAt
  <2> QED BY <2>2, <2>4, <2>5 DEF Fits, Decided, Orderly
<1>2. CASE updateSubmission(w)
  <2>1. PICK x : x = [at |-> "resubmit"]
    OBVIOUS
  <2>2. /\ worker'[w].at = "resubmit" /\ \A u \in Workers : u # w => worker'[u] = worker[u]
        /\ status = "NEEDS_MORE_INFO" /\ UNCHANGED <<status, current>>
    BY <1>0, <1>2 DEF updateSubmission, TypeOK, Goto
  <2>3. Duties[w] \cap Reviewing # {}
    BY <1>2, DutyReviews DEF updateSubmission, Reviewing
  <2>4. REVIEW_TRANSITIONS(status)' = REVIEW_TRANSITIONS(status)
    BY <2>2 DEF REVIEW_TRANSITIONS
  <2>5. Kept' /\ (Grounded => Grounded')
    BY <2>2, <2>3, <2>4 DEF Kept, Grounded, At
  <2> QED BY <2>2, <2>5 DEF Fits, Decided, Orderly
<1>3. CASE Resubmit(w)
  <2>1. /\ Duties[w] \cap Reviewing # {}
        /\ Grounded => status = "NEEDS_MORE_INFO"
    BY <1>3 DEF Resubmit, Kept, Grounded, At, ReviewingAt
  <2>2. Goto(w, Scrape(NoPass)) \/ Goto(w, Idle)
    BY <1>3 DEF Resubmit
  <2>3. Kept' /\ Grounded'
    BY <1>0, <2>1, <2>2, ScrapesReviewNothing, ReviewKeeps
  <2>4. status' = "SUBMITTED"
    BY <1>3 DEF Resubmit
  <2> QED BY <2>1, <2>3, <2>4 DEF Fits, Decided, Orderly
<1>4. ASSUME NEW to \in Statuses, review(w, to)
      PROVE  Kept' /\ Fits(status, status') /\ Orderly
  <2>1. /\ worker'[w] = [at |-> "reviewUpdate", to |-> to]
        /\ \A u \in Workers : u # w => worker'[u] = worker[u]
        /\ to \in REVIEW_TRANSITIONS(status)
        /\ status' = status /\ current' = current \cup {w}
    BY <1>0, <1>4 DEF review, TypeOK, Goto
  <2>2. Duties[w] \cap Reviewing # {}
    BY <1>4, DutyReviews DEF review, Reviewing
  <2>3. REVIEW_TRANSITIONS(status)' = REVIEW_TRANSITIONS(status)
    BY <2>1 DEF REVIEW_TRANSITIONS
  <2>4. Kept' /\ (Grounded => Grounded')
    BY <2>1, <2>2, <2>3 DEF Kept, Grounded, At
  <2> QED BY <2>1, <2>4 DEF Fits, Decided, Orderly
<1>5. CASE ReviewUpdate(w)
  <2>1. /\ Duties[w] \cap Reviewing # {} /\ w \in current
        /\ Grounded => worker[w].to \in REVIEW_TRANSITIONS(status)
        /\ status' = worker[w].to
    BY <1>5 DEF ReviewUpdate, Kept, Grounded, At, ReviewingAt
  <2>2. worker[w].to = "APPROVED" => AllVerified
    BY <1>0, <1>5, <2>1 DEF ReviewUpdate, GateHoldsUntilRaced
  <2>3. Kept' /\ Grounded'
    BY <1>0, <1>5, <2>1, ScrapesReviewNothing, ReviewKeeps DEF ReviewUpdate
  <2> QED BY <2>1, <2>2, <2>3 DEF Fits, Decided, Orderly
<1> QED BY <1>1, <1>2, <1>3, <1>4, <1>5 DEF Request

\* A decree takes nobody's readers; who decides alone takes nobody's ground.
LEMMA DecreeKeeps ==
    ASSUME Kept, NEW w \in Workers, Decree(w)
    PROVE  /\ Kept'
           /\ Fits(status, status') \/ overrideSubmission(w, "APPROVED")
           /\ OneDecider => Grounded'
<1>1. /\ UNCHANGED <<current, worker>> /\ worker[w].at = "idle"
      /\ Duties[w] \cap {"resolve", "override"} # {}
  BY DEF Decree, resolve, overrideSubmission, Starts, At
<1>2. Kept'
  BY <1>1 DEF Kept, At
<1>3. Fits(status, status') \/ overrideSubmission(w, "APPROVED")
  BY DEF Decree, resolve, overrideSubmission, Fits
<1>4. ASSUME OneDecider, NEW u \in Workers PROVE worker'[u].at \notin ReviewingAt
  <2>1. CASE u = w
    BY <1>1, <2>1 DEF ReviewingAt
  <2>2. CASE u # w
    <3>1. Duties[u] \cap Reviewing = {}
      BY <1>1, <1>4, <2>2 DEF OneDecider, Alone
    <3> QED BY <1>1, <3>1 DEF Kept
  <2> QED BY <2>1, <2>2
<1> QED BY <1>2, <1>3, <1>4 DEF Grounded, At, ReviewingAt

LEMMA JobKeeps ==
    ASSUME IInv, Kept, OneReviewer, NEW w \in Workers, Job(w)
    PROVE  Kept' /\ Fits(status, status') /\ Orderly
<1>0. TypeOK
  BY DEF IInv
<1>1. worker[w].at \in ReviewingAt => Duties[w] \cap Reviewing # {}
  BY DEF Kept
<1>2. CASE sweep(w)
  BY <1>0, <1>2, ScrapesReviewNothing, QuietKeeps DEF sweep, ReviewingAt
<1>3. CASE runRecheckPass(w)
  <2>1. Duties[w] \cap Reviewing # {}
    BY <1>3, DutyReviews DEF runRecheckPass, Reviewing
  <2> QED BY <1>0, <1>3, <2>1, QuietKeeps DEF runRecheckPass
<1>4. CASE PassRead(w)
  <2>1. Duties[w] \cap Reviewing # {}
    BY <1>1, <1>4 DEF PassRead, At, ReviewingAt
  <2>2. Goto(w, [at |-> "rescrapeRead", prev |-> failures]) \/ Goto(w, [at |-> "passRelease"])
    BY <1>4 DEF PassRead
  <2> QED BY <1>0, <1>4, <2>1, <2>2, QuietKeeps DEF PassRead
<1>5. CASE RescrapeRead(w)
  <2>1. Duties[w] \cap Reviewing # {}
    BY <1>1, <1>5 DEF RescrapeRead, At, ReviewingAt
  <2>2. \E x : Goto(w, x) /\ x.at \in {"counterUpdate", "rowsReset"}
    BY <1>5 DEF RescrapeRead, Counted
  <2> QED BY <1>0, <1>5, <2>1, <2>2, QuietKeeps DEF RescrapeRead
<1>6. CASE RowsReset(w)
  <2>1. Duties[w] \cap Reviewing # {}
    BY <1>1, <1>6 DEF RowsReset, At, ReviewingAt
  <2>2. Kept' /\ Grounded'
    BY <1>0, <1>6, <2>1, ScrapesReviewNothing, ReviewKeeps DEF RowsReset
  <2>3. status' = status
    BY <1>6 DEF RowsReset
  <2> QED BY <2>2, <2>3 DEF Fits, Decided, Orderly
<1>7. ASSUME Summary(w) \/ CounterUpdate(w) \/ triggerAutoRefund(w) \/ PassRelease(w) \/ PassThrows(w)
      PROVE  Kept' /\ Fits(status, status') /\ Orderly
  <2>1. \E x : Goto(w, x) /\ x.at \notin ReviewingAt
    <3>1. CASE Summary(w)
      BY <3>1 DEF Summary, Counted, ReviewingAt
    <3>2. CASE CounterUpdate(w)
      BY <3>2 DEF CounterUpdate, ReviewingAt
    <3>3. CASE triggerAutoRefund(w)
      BY <3>3 DEF triggerAutoRefund, ReviewingAt
    <3>4. CASE PassRelease(w)
      BY <3>4, ScrapesReviewNothing DEF PassRelease
    <3>5. CASE PassThrows(w)
      BY <3>5 DEF PassThrows, ReviewingAt
    <3> QED BY <1>7, <3>1, <3>2, <3>3, <3>4, <3>5
  <2>2. UNCHANGED <<status, current>>
    BY <1>7 DEF Summary, CounterUpdate, triggerAutoRefund, PassRelease, PassThrows
  <2> QED BY <1>0, <2>1, <2>2, QuietKeeps DEF ReviewingAt
<1> QED BY <1>2, <1>3, <1>4, <1>5, <1>6, <1>7 DEF Job

LEMMA NextKeeps ==
    ASSUME IInv, Kept, OneReviewer, [Next]_vars
    PROVE  /\ Kept'
           /\ Fits(status, status') \/ \E w \in Workers : overrideSubmission(w, "APPROVED")
           /\ Orderly \/ \E w \in Workers : Decree(w)
<1>0. TypeOK
  BY DEF IInv
<1>1. ASSUME NEW w \in Workers, Crash(w) PROVE Kept' /\ Fits(status, status') /\ Orderly
  BY <1>0, <1>1, ScrapesReviewNothing, QuietKeeps DEF Crash, ReviewingAt
<1>2. ASSUME UNCHANGED <<status, current, worker>>
      PROVE  Kept' /\ Fits(status, status') /\ Orderly
  <2>1. REVIEW_TRANSITIONS(status)' = REVIEW_TRANSITIONS(status)
    BY <1>2 DEF REVIEW_TRANSITIONS
  <2> QED BY <1>2, <2>1 DEF Kept, Grounded, At, Fits, Decided, Orderly
<1>3. CASE LockExpires \/ PassLockExpires
  BY <1>2, <1>3 DEF LockExpires, PassLockExpires
<1>4. CASE UNCHANGED vars
  BY <1>2, <1>4 DEF vars
<1>5. ASSUME NEW w \in Workers, ScrapeStep(w) \/ Request(w) \/ Job(w)
      PROVE  Kept' /\ Fits(status, status') /\ Orderly
  BY <1>0, <1>5, ScrapeKeeps, RequestKeeps, JobKeeps
<1> QED BY <1>1, <1>3, <1>4, <1>5, DecreeKeeps DEF Next

LEMMA KeptAlways == OneReviewer => (Spec => [](IInv /\ Kept))
<1> SUFFICES ASSUME OneReviewer PROVE Spec => [](IInv /\ Kept)
  OBVIOUS
<1>1. Init => IInv /\ Kept
  <2>1. Init => Kept
    BY DEF Init, Kept, Idle, At, ReviewingAt
  <2> QED BY <2>1, InitIInv
<1>2. IInv /\ Kept /\ [Next]_vars => IInv' /\ Kept'
  BY NextIInv, NextKeeps
<1> QED BY <1>1, <1>2, PTL DEF Spec

\* Who is alone with all that decides is alone with the reviews.
LEMMA DecidersReview == OneDecider => OneReviewer
BY DEF OneDecider, OneReviewer, Alone

LEMMA GroundedAlways == OneDecider => (Spec => [](IInv /\ Kept /\ Grounded))
<1> SUFFICES ASSUME OneDecider PROVE Spec => [](IInv /\ Kept /\ Grounded)
  OBVIOUS
<1>1. Init => Grounded
  BY DEF Init, Grounded, Idle, At
<1>2. IInv /\ Kept /\ Grounded /\ [Next]_vars => Grounded'
  BY NextKeeps, DecidersReview, DecreeKeeps DEF Orderly
<1> QED BY <1>1, <1>2, KeptAlways, DecidersReview, PTL DEF Spec

\* The gate of an approval is read before the write and not in it; as long as
\* one actor at a time reviews, resubmits or resets, no review approves what
\* is not verified, whatever scrapes and sweeps run in the background and
\* whatever a dispute or an administrator decrees in between.
THEOREM OneReviewerApprovesVerified == OneReviewer => (Spec => ApprovesVerified)
<1> SUFFICES ASSUME OneReviewer PROVE Spec => ApprovesVerified
  OBVIOUS
<1>1. IInv /\ Kept /\ [Next]_vars
        => [status # "APPROVED" /\ status' = "APPROVED"
            => AllVerified \/ \E w \in Workers : overrideSubmission(w, "APPROVED")]_vars
  BY NextKeeps DEF Fits
<1> QED BY <1>1, KeptAlways, PTL DEF Spec, ApprovesVerified

\* The transition is checked on a read, too.  If disputes and administrators
\* take turns with those who review, only their own decrees leave the table,
\* however often: what is reviewed after one follows the table again.
THEOREM OneDeciderInOrder == OneDecider => (Spec => DecidesInOrder)
<1> SUFFICES ASSUME OneDecider PROVE Spec => DecidesInOrder
  OBVIOUS
<1>1. IInv /\ Kept /\ Grounded /\ [Next]_vars
        => [Decided(status, status') \/ \E w \in Workers : Decree(w)]_vars
  BY NextKeeps, DecidersReview DEF Orderly
<1> QED BY <1>1, GroundedAlways, PTL DEF Spec, DecidesInOrder
=============================================================================
