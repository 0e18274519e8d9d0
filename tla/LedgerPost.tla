----------------------------- MODULE LedgerPost -----------------------------
(* LedgerService.postTransactionGroup and the kill switch, at the grain of   *)
(* the statements that PostgreSQL interleaves (READ COMMITTED): every call   *)
(* reads the switch, looks its key up, and writes header, audit row and      *)
(* entries inside one transaction, its own or (InCallerTx) the caller's,     *)
(* which then also writes the caller's own rows.  A definition named         *)
(* ...Mutant is a planted bug that the runs must be able to find; nothing    *)
(* uses it.                                                                  *)
EXTENDS Naturals

CONSTANTS Calls,        \* calls of postTransactionGroup
          Keys,         \* (referenceId, actionType) pairs
          KeyOf,        \* the key each call posts under
          InCallerTx,   \* calls that pass existingTx
          Bypass,       \* calls with allowDuringKillSwitch
          Malformed,    \* calls with no leg, a leg <= 0, or unbalanced legs
          MaxAttempts   \* the model's bound: attempts of one call, the first included

ASSUME CallsAssumption ==
    /\ KeyOf \in [Calls -> Keys]
    /\ InCallerTx \subseteq Calls
    /\ Bypass \subseteq Calls
    /\ Malformed \subseteq Calls
    /\ MaxAttempts \in Nat \ {0}

VARIABLES killSwitch,   \* systemSetting row: the financial kill switch is on
          pc,           \* the next statement of each call
          attempt,      \* how often each call has been started
          db,           \* committed rows of each table
          dirty,        \* tables with an uncommitted row of the call's tx
          answer        \* what the call returns, once it is known

vars == <<killSwitch, pc, attempt, db, dirty, answer>>

-----------------------------------------------------------------------------
(* A group, its audit row, its entries and the caller's rows are named by    *)
(* the attempt that wrote them.                                              *)
Groups == Calls \X (1 .. MaxAttempts)
KeyOfGroup == [g \in Groups |-> KeyOf[g[1]]]

Tables == {"group", "audit", "entries", "caller"}
PCs == {"start", "precheck", "header", "audit", "entries",
        "caller", "commit", "reread", "answered", "failed"}

NoAnswer == <<>>
Answer(g, idempotent) == [group |-> g, idempotent |-> idempotent]

Own(c) == <<c, attempt[c]>>
InFlight(c) == pc[c] \notin {"answered", "failed"}

Posted(k) == {g \in db["group"] : KeyOfGroup[g] = k}

\* An index entry of an uncommitted header makes every other insert wait.
KeyLocked(c) == \E d \in Calls \ {c} :
                    KeyOf[d] = KeyOf[c] /\ "group" \in dirty[d]

Goto(c, label) == pc' = [pc EXCEPT ![c] = label]
Write(c, table) == dirty' = [dirty EXCEPT ![c] = @ \cup {table}]

Init == /\ killSwitch \in BOOLEAN
        /\ pc = [c \in Calls |-> "start"]
        /\ attempt = [c \in Calls |-> 1]
        /\ db = [t \in Tables |-> {}]
        /\ dirty = [c \in Calls |-> {}]
        /\ answer = [c \in Calls |-> NoAnswer]

-----------------------------------------------------------------------------
(* The transaction the call runs in is rolled back and the caller sees an    *)
(* error: a rejected input, the kill switch, a lost race inside the caller's *)
(* transaction, a database error, a timeout or a crash.                      *)
Rollback(c) ==
    /\ Goto(c, "failed")
    /\ dirty' = [dirty EXCEPT ![c] = {}]
    /\ answer' = [answer EXCEPT ![c] = NoAnswer]
    /\ UNCHANGED <<killSwitch, attempt, db>>

\* Bad legs are refused before anything is read.
Reject(c) ==
    /\ pc[c] = "start"
    /\ c \in Malformed
    /\ Rollback(c)

isKillSwitchActiveMutant == FALSE
isKillSwitchActive == killSwitch

CheckKillSwitch(c) ==
    /\ pc[c] = "start"
    /\ c \notin Malformed \cup Bypass
    /\ IF isKillSwitchActive
         THEN Rollback(c)
         ELSE /\ Goto(c, "precheck")
              /\ UNCHANGED <<killSwitch, attempt, db, dirty, answer>>

\* findUnique by (referenceId, actionType).
ExistingMutant(c) == db["group"]
Existing(c) == Posted(KeyOf[c])

\* A hit is answered at once; a caller that passed its
\* own transaction still has its own rows to write.
Precheck(c) ==
    /\ \/ pc[c] = "precheck"
       \/ pc[c] = "start" /\ c \in Bypass \ Malformed
    /\ IF Existing(c) = {}
         THEN /\ Goto(c, "header")
              /\ UNCHANGED answer
         ELSE /\ \E g \in Existing(c) :
                     answer' = [answer EXCEPT ![c] = Answer(g, TRUE)]
              /\ Goto(c, IF c \in InCallerTx THEN "caller" ELSE "answered")
    /\ UNCHANGED <<killSwitch, attempt, db, dirty>>

\* UNIQUE(referenceId, actionType) refuses a second header (P2002).
UniqueKeyMutant(c) == TRUE
UniqueKey(c) == Posted(KeyOf[c]) = {}

InsertHeader(c) ==
    /\ pc[c] = "header"
    /\ ~KeyLocked(c)
    /\ UniqueKey(c)
    /\ Write(c, "group")
    /\ answer' = [answer EXCEPT ![c] = Answer(Own(c), FALSE)]
    /\ Goto(c, "audit")
    /\ UNCHANGED <<killSwitch, attempt, db>>

\* A lost race: our own transaction is gone and the winner is read again
\* outside it; in the caller's transaction the error is the caller's to handle.
\* The planted bugs try the insert again, or answer without the read.
AfterLostRaceMutant(c) == UNCHANGED vars
AnswerUnreadMutant(c) ==
    IF c \in InCallerTx
      THEN Rollback(c)
      ELSE /\ answer' = [answer EXCEPT ![c] = Answer(NoAnswer, TRUE)]
           /\ Goto(c, "answered")
           /\ UNCHANGED <<killSwitch, attempt, db, dirty>>
AfterLostRace(c) ==
    IF c \in InCallerTx
      THEN Rollback(c)
      ELSE /\ Goto(c, "reread")
           /\ UNCHANGED <<killSwitch, attempt, db, dirty, answer>>

LoseRace(c) ==
    /\ pc[c] = "header"
    /\ ~KeyLocked(c)
    /\ ~UniqueKey(c)
    /\ AfterLostRace(c)

Reread(c) ==
    /\ pc[c] = "reread"
    /\ IF Existing(c) = {}
         THEN Rollback(c)
         ELSE /\ \E g \in Existing(c) :
                     answer' = [answer EXCEPT ![c] = Answer(g, TRUE)]
              /\ Goto(c, "answered")
              /\ UNCHANGED <<killSwitch, attempt, db, dirty>>

WriteAudit(c) ==
    /\ pc[c] = "audit"
    /\ Write(c, "audit")
    /\ Goto(c, "entries")
    /\ UNCHANGED <<killSwitch, attempt, db, answer>>

WriteEntries(c) ==
    /\ pc[c] = "entries"
    /\ Write(c, "entries")
    /\ Goto(c, IF c \in InCallerTx THEN "caller" ELSE "commit")
    /\ UNCHANGED <<killSwitch, attempt, db, answer>>

\* The rows the caller flips in the same transaction (the funding handler's
\* TradeSafeTransaction and Bounty), also after an idempotent answer.
CallerWrites(c) ==
    /\ pc[c] = "caller"
    /\ Write(c, "caller")
    /\ Goto(c, "commit")
    /\ UNCHANGED <<killSwitch, attempt, db, answer>>

\* The rows of the transaction become visible together.  The answer may still
\* be lost on its way to the caller.
CommittedMutant(c) == dirty[c] \ {"caller"}
Committed(c) == dirty[c]

Commit(c) ==
    /\ pc[c] = "commit"
    /\ db' = [t \in Tables |-> IF t \in Committed(c) THEN db[t] \cup {Own(c)} ELSE db[t]]
    /\ dirty' = [dirty EXCEPT ![c] = {}]
    /\ \/ /\ Goto(c, "answered")
          /\ UNCHANGED answer
       \/ /\ Goto(c, "failed")
          /\ answer' = [answer EXCEPT ![c] = NoAnswer]
    /\ UNCHANGED <<killSwitch, attempt>>

Abort(c) == InFlight(c) /\ Rollback(c)

\* The caller's scheduler, webhook or operator starts a failed call again, in
\* the code as often as it likes: only the model stops at MaxAttempts.
Retry(c) ==
    /\ pc[c] = "failed"
    /\ attempt[c] < MaxAttempts
    /\ attempt' = [attempt EXCEPT ![c] = @ + 1]
    /\ Goto(c, "start")
    /\ UNCHANGED <<killSwitch, db, dirty, answer>>

setKillSwitch(active) ==
    /\ killSwitch' = active
    /\ UNCHANGED <<pc, attempt, db, dirty, answer>>

Step(c) ==
    \/ Reject(c) \/ CheckKillSwitch(c) \/ Precheck(c)
    \/ InsertHeader(c) \/ LoseRace(c) \/ Reread(c)
    \/ WriteAudit(c) \/ WriteEntries(c) \/ CallerWrites(c) \/ Commit(c)

Next == \/ \E c \in Calls : Step(c) \/ Abort(c) \/ Retry(c)
        \/ \E active \in BOOLEAN : setKillSwitch(active)

Spec == Init /\ [][Next]_vars

\* Node keeps running a call it has started, and the database serves it.
FairSpec == Spec /\ \A c \in Calls : WF_vars(Step(c))

-----------------------------------------------------------------------------
TypeOK ==
    /\ killSwitch \in BOOLEAN
    /\ pc \in [Calls -> PCs]
    /\ attempt \in [Calls -> 1 .. MaxAttempts]
    /\ db \in [Tables -> SUBSET Groups]
    /\ dirty \in [Calls -> SUBSET Tables]
    /\ answer \in [Calls -> {NoAnswer} \cup [group : Groups, idempotent : BOOLEAN]]

\* Racing and retried calls never leave two groups under one key: what
\* reconciliation's duplicate check (reconciliation.service.ts) looks for.
AtMostOnePerKey ==
    \A g, h \in db["group"] : KeyOfGroup[g] = KeyOfGroup[h] => g = h

\* A posted group has its audit row and its entries, none of these stands
\* without its group, and the caller's rows are flipped exactly when the group
\* they depend on is posted, whoever posted it.
AllOrNothing ==
    /\ db["audit"] = db["group"]
    /\ db["entries"] = db["group"]
    /\ \A g \in db["group"] : g[1] \in InCallerTx => g \in db["caller"]
    /\ \A r \in db["caller"] : Posted(KeyOfGroup[r]) # {}

\* A caller is pointed to a group that really stands under its key, and is
\* told idempotent = FALSE only for the group its own attempt posted.
AnswerNamesPostedGroup ==
    \A c \in Calls : pc[c] = "answered" =>
        /\ answer[c].group \in Posted(KeyOf[c])
        /\ answer[c].idempotent <=> answer[c].group # Own(c)

\* The switch is read once, before the transaction, so a call that has read it
\* still posts after it is on.  No other ordinary call does: as long as the
\* switch stays on, those past it only become fewer, retries included.
PastSwitch == {c \in Calls \ Bypass : InFlight(c) /\ pc[c] # "start"}
SwitchAdmitsNone == [][killSwitch /\ killSwitch' => PastSwitch' \subseteq PastSwitch]_vars

\* Every call comes to an answer or an error: waiting for another call's
\* header never lasts forever, and a lost race is not repeated endlessly.
EveryCallSettles == \A c \in Calls : InFlight(c) ~> ~InFlight(c)

Promise == INSTANCE IdempotentLedger WITH
    GroupIds <- Groups,
    posted <- db["group"],
    reply <- [c \in Calls |-> IF pc[c] = "answered" THEN answer[c] ELSE <<>>]

\* Under every interleaving the tables implement the promise: the committed
\* headers are the posted groups, and a call has its reply once it returned.
ImplementsPromise == Promise!Spec
=============================================================================
