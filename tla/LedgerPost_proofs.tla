-------------------------- MODULE LedgerPost_proofs --------------------------
(* TLAPS proofs about LedgerPost, for any calls, keys and attempts: its      *)
(* safety invariants and that it implements IdempotentLedger.                *)
EXTENDS LedgerPost, TLAPS

Rows == {"group", "audit", "entries"}

\* How far a transaction has written is a matter of where its call stands.
TxShape == \A c \in Calls :
    /\ pc[c] \in {"start", "precheck", "header", "reread", "answered", "failed"}
           => dirty[c] = {}
    /\ pc[c] = "audit" => dirty[c] = {"group"}
    /\ pc[c] = "entries" => dirty[c] = {"group", "audit"}
    /\ pc[c] = "caller" => c \in InCallerTx /\ dirty[c] \in {{}, Rows}
    /\ pc[c] = "commit" => dirty[c] \in IF c \in InCallerTx THEN {{"caller"}, Tables}
                                                            ELSE {Rows}

\* Whoever has an uncommitted header is alone with its key.
Locks == \A c \in Calls : "group" \in dirty[c] =>
    /\ \A g \in db["group"] : KeyOf[g[1]] # KeyOf[c]
    /\ \A d \in Calls : KeyOf[d] = KeyOf[c] /\ "group" \in dirty[d] => d = c
    /\ answer[c] = Answer(Own(c), FALSE)

\* Committed rows are of earlier attempts, or of one that is over.
Fresh == \A t \in Tables : \A g \in db[t] :
    /\ g[2] <= attempt[g[1]]
    /\ InFlight(g[1]) => g[2] # attempt[g[1]]

\* A call without a header of its own goes on after an idempotent answer.
Redirected == \A c \in Calls :
    pc[c] \in {"caller", "commit"} /\ "group" \notin dirty[c] =>
        \E g \in db["group"] : /\ KeyOf[g[1]] = KeyOf[c]
                               /\ g # Own(c)
                               /\ answer[c] = Answer(g, TRUE)

IInv == /\ TypeOK
        /\ TxShape
        /\ Locks
        /\ Fresh
        /\ Redirected
        /\ AtMostOnePerKey
        /\ AllOrNothing
        /\ AnswerNamesPostedGroup

-----------------------------------------------------------------------------
USE DEF Groups, KeyOfGroup, Posted, Own, InFlight, KeyLocked, Answer, NoAnswer,
        Goto, Write, Existing, UniqueKey, Committed, AfterLostRace,
        isKillSwitchActive

\* No row, no lock and no answer exists before the first call.
LEMMA InitIInv == Init => IInv
BY CallsAssumption DEF Init, IInv, TypeOK, TxShape, Locks, Fresh, Redirected,
   AtMostOnePerKey, AllOrNothing, AnswerNamesPostedGroup, Tables, PCs

\* Rolling back leaves the committed rows alone and releases the call's lock.
LEMMA RollbackIInv == ASSUME IInv, NEW c \in Calls, InFlight(c), Rollback(c)
                      PROVE  IInv'
<1> USE CallsAssumption DEF Rollback, IInv, TypeOK
<1>1. TypeOK' BY DEF PCs
<1>2. TxShape' BY DEF TxShape
<1>3. Locks' BY DEF Locks
<1>4. Fresh' BY DEF Fresh
<1>5. Redirected' BY DEF Redirected
<1>7. AtMostOnePerKey' BY DEF AtMostOnePerKey
<1>8. AllOrNothing' BY DEF AllOrNothing
<1>9. AnswerNamesPostedGroup' BY DEF AnswerNamesPostedGroup
<1> QED BY <1>1, <1>2, <1>3, <1>4, <1>5, <1>7, <1>8, <1>9

\* Committing publishes the rows of one attempt under a key that was free, or
\* only the caller's rows beside the group they were redirected to.
LEMMA CommitIInv == ASSUME IInv, NEW c \in Calls, Commit(c)
                    PROVE  IInv'
<1> USE CallsAssumption
<1> DEFINE o == Own(c)
<1>1. \/ c \in InCallerTx /\ dirty[c] \in {{"caller"}, Tables}
      \/ c \notin InCallerTx /\ dirty[c] = Rows
  BY DEF Commit, IInv, TxShape
<1>2. /\ o \in Groups
      /\ o[1] = c
      /\ o[2] = attempt[c]
  BY DEF IInv, TypeOK
<1>3. /\ db' = [t \in Tables |-> IF t \in dirty[c] THEN db[t] \cup {o} ELSE db[t]]
      /\ dirty' = [dirty EXCEPT ![c] = {}]
      /\ pc[c] = "commit"
      /\ UNCHANGED <<killSwitch, attempt>>
      /\ \/ pc' = [pc EXCEPT ![c] = "answered"] /\ answer' = answer
         \/ pc' = [pc EXCEPT ![c] = "failed"] /\ answer' = [answer EXCEPT ![c] = <<>>]
  BY DEF Commit
<1> HIDE DEF o
<1>a. \A t \in Tables : db'[t] = IF t \in dirty[c] THEN db[t] \cup {o} ELSE db[t]
  BY <1>3
<1>b. /\ db'["group"] = IF "group" \in dirty[c] THEN db["group"] \cup {o} ELSE db["group"]
      /\ db'["audit"] = IF "audit" \in dirty[c] THEN db["audit"] \cup {o} ELSE db["audit"]
      /\ db'["entries"] = IF "entries" \in dirty[c] THEN db["entries"] \cup {o} ELSE db["entries"]
      /\ db'["caller"] = IF "caller" \in dirty[c] THEN db["caller"] \cup {o} ELSE db["caller"]
  BY <1>a DEF Tables
<1>c. \A t \in Tables : db[t] \subseteq Groups
  BY DEF IInv, TypeOK
<1>d. \A g \in Groups : KeyOfGroup[g] = KeyOf[g[1]] /\ g[1] \in Calls
  OBVIOUS
<1>4. TypeOK'
  <2>1. db' \in [Tables -> SUBSET Groups] BY <1>2, <1>3 DEF IInv, TypeOK
  <2>2. dirty' \in [Calls -> SUBSET Tables] BY <1>3 DEF IInv, TypeOK
  <2> QED BY <2>1, <2>2, <1>3 DEF IInv, TypeOK, PCs
<1>5. TxShape' BY <1>3 DEF IInv, TypeOK, TxShape
<1>6. Locks'
  <2> SUFFICES ASSUME NEW d \in Calls, "group" \in dirty'[d]
               PROVE  /\ \A g \in db'["group"] : KeyOf[g[1]] # KeyOf[d]
                      /\ \A e \in Calls : KeyOf[e] = KeyOf[d] /\ "group" \in dirty'[e] => e = d
                      /\ answer'[d] = Answer(Own(d)', FALSE)
    BY DEF Locks
  <2>1. d # c /\ "group" \in dirty[d] BY <1>3 DEF IInv, TypeOK
  <2>2. answer'[d] = Answer(Own(d)', FALSE) BY <2>1, <1>3 DEF IInv, TypeOK, Locks
  <2>3. \A e \in Calls : KeyOf[e] = KeyOf[d] /\ "group" \in dirty'[e] => e = d
    BY <2>1, <1>3 DEF IInv, TypeOK, Locks
  <2>4. "group" \in dirty[c] => KeyOf[c] # KeyOf[d] BY <2>1 DEF IInv, Locks
  <2>5. \A g \in db["group"] : KeyOf[g[1]] # KeyOf[d]
    BY <2>1 DEF IInv, Locks
  <2>6. \A g \in db'["group"] : KeyOf[g[1]] # KeyOf[d]
    BY <2>4, <2>5, <1>2, <1>b
  <2> QED BY <2>2, <2>3, <2>6
<1>7. Fresh'
  BY <1>2, <1>3, <1>a DEF IInv, TypeOK, Fresh
<1>8. Redirected'
  <2> SUFFICES ASSUME NEW d \in Calls, pc'[d] \in {"caller", "commit"}, "group" \notin dirty'[d]
               PROVE  \E g \in db'["group"] : /\ KeyOf[g[1]] = KeyOf[d]
                                              /\ g # Own(d)'
                                              /\ answer'[d] = Answer(g, TRUE)
    BY DEF Redirected
  <2>1. d # c /\ pc[d] = pc'[d] /\ dirty[d] = dirty'[d] /\ answer[d] = answer'[d]
    BY <1>3 DEF IInv, TypeOK
  <2>2. PICK g \in db["group"] : /\ KeyOf[g[1]] = KeyOf[d]
                                 /\ g # Own(d)
                                 /\ answer[d] = Answer(g, TRUE)
    BY <2>1 DEF IInv, Redirected
  <2>3. g \in db'["group"] BY <1>b
  <2> QED BY <2>1, <2>2, <2>3, <1>3
<1>9. AtMostOnePerKey'
  <2>1. "group" \in dirty[c] => \A g \in db["group"] : KeyOf[g[1]] # KeyOf[c]
    BY DEF IInv, Locks
  <2>2. \A g, h \in db["group"] : KeyOf[g[1]] = KeyOf[h[1]] => g = h
    BY <1>c, <1>d DEF IInv, AtMostOnePerKey, Tables
  <2>3. \A g, h \in db'["group"] : KeyOf[g[1]] = KeyOf[h[1]] => g = h
    BY <2>1, <2>2, <1>2, <1>b
  <2>4. db'["group"] \subseteq Groups BY <1>2, <1>b, <1>c DEF Tables
  <2> QED BY <2>3, <2>4, <1>d DEF AtMostOnePerKey
<1>10. AllOrNothing'
  <2>1. db'["audit"] = db'["group"] /\ db'["entries"] = db'["group"]
    BY <1>1, <1>b DEF IInv, AllOrNothing, Rows, Tables
  <2>2. \A g \in db'["group"] : g[1] \in InCallerTx => g \in db'["caller"]
    BY <1>1, <1>2, <1>b DEF IInv, AllOrNothing, Rows, Tables
  <2>3. \A r \in db["caller"] : \E g \in db["group"] : KeyOfGroup[g] = KeyOfGroup[r]
    BY DEF IInv, AllOrNothing
  <2>4. "group" \notin dirty[c] => \E g \in db["group"] : KeyOf[g[1]] = KeyOf[c]
    BY <1>3 DEF IInv, Redirected
  <2>5. KeyOfGroup[o] = KeyOf[c]
    BY <1>2, <1>d
  <2>6. \E g \in db'["group"] : KeyOfGroup[g] = KeyOf[c]
    BY <2>4, <2>5, <1>b, <1>c, <1>d DEF Tables
  <2>7. \A r \in db'["caller"] : r \in db["caller"] \/ r = o
    BY <1>b
  <2>8. db["group"] \subseteq db'["group"]
    BY <1>b
  <2>9. \A r \in db'["caller"] : \E g \in db'["group"] : KeyOfGroup[g] = KeyOfGroup[r]
    <3> TAKE r \in db'["caller"]
    <3>1. CASE r = o BY <3>1, <2>5, <2>6
    <3>2. CASE r \in db["caller"] BY <3>2, <2>3, <2>8
    <3> QED BY <3>1, <3>2, <2>7
  <2> QED BY <2>1, <2>2, <2>9 DEF AllOrNothing
<1>11. AnswerNamesPostedGroup'
  <2> SUFFICES ASSUME NEW d \in Calls, pc'[d] = "answered"
               PROVE  /\ answer'[d].group \in db'["group"]
                      /\ KeyOfGroup[answer'[d].group] = KeyOf[d]
                      /\ answer'[d].idempotent <=> answer'[d].group # Own(d)'
    BY DEF AnswerNamesPostedGroup
  <2>1. answer'[d] = answer[d] /\ Own(d)' = Own(d)
    BY <1>3 DEF IInv, TypeOK
  <2>2. CASE d # c
    <3>1. pc[d] = "answered" BY <2>2, <1>3 DEF IInv, TypeOK
    <3>2. /\ answer[d].group \in db["group"]
          /\ KeyOfGroup[answer[d].group] = KeyOf[d]
          /\ answer[d].idempotent <=> answer[d].group # Own(d)
      BY <3>1 DEF IInv, AnswerNamesPostedGroup
    <3> QED BY <2>1, <3>2, <1>b
  <2>3. CASE d = c /\ "group" \in dirty[c]
    <3>1. answer[d] = Answer(o, FALSE) BY <2>3 DEF IInv, Locks, o
    <3>2. o = Own(d) BY <2>3 DEF o
    <3> QED BY <2>1, <2>3, <3>1, <3>2, <1>2, <1>b, <1>d
  <2>4. CASE d = c /\ "group" \notin dirty[c]
    <3>1. PICK g \in db["group"] : /\ KeyOf[g[1]] = KeyOf[d]
                                   /\ g # Own(d)
                                   /\ answer[d] = Answer(g, TRUE)
      BY <2>4, <1>3 DEF IInv, Redirected
    <3> QED BY <2>1, <3>1, <1>b, <1>c, <1>d DEF Tables
  <2> QED BY <2>2, <2>3, <2>4
<1> QED BY <1>4, <1>5, <1>6, <1>7, <1>8, <1>9, <1>10, <1>11 DEF IInv

\* A call that has written nothing moves on without writing anything.
LEMMA MoveIInv == ASSUME IInv, NEW c \in Calls,
                         pc[c] \in {"start", "precheck", "header"},
                         NEW l \in {"precheck", "header", "reread"}, Goto(c, l),
                         UNCHANGED <<killSwitch, attempt, db, dirty, answer>>
                  PROVE  IInv'
<1> USE CallsAssumption DEF IInv, TypeOK
<1>1. TypeOK' BY DEF PCs
<1>2. TxShape' BY DEF TxShape
<1>3. Locks' BY DEF Locks
<1>4. Fresh' BY DEF Fresh
<1>5. Redirected' BY DEF Redirected
<1>6. AtMostOnePerKey' BY DEF AtMostOnePerKey
<1>7. AllOrNothing' BY DEF AllOrNothing
<1>8. AnswerNamesPostedGroup' BY DEF AnswerNamesPostedGroup
<1> QED BY <1>1, <1>2, <1>3, <1>4, <1>5, <1>6, <1>7, <1>8

\* A call finds a posted group under its key, which is never its own.
LEMMA RedirectIInv == ASSUME IInv, NEW c \in Calls,
                             pc[c] \in {"start", "precheck", "reread"},
                             NEW g \in Existing(c),
                             answer' = [answer EXCEPT ![c] = Answer(g, TRUE)],
                             Goto(c, "answered") \/ (Goto(c, "caller") /\ c \in InCallerTx),
                             UNCHANGED <<killSwitch, attempt, db, dirty>>
                      PROVE  IInv'
<1> USE CallsAssumption
<1>1. g \in db["group"] /\ g \in Groups /\ KeyOf[g[1]] = KeyOf[c] /\ g # Own(c)
  <2>1. g \in db["group"] /\ KeyOfGroup[g] = KeyOf[c] OBVIOUS
  <2>2. g \in Groups BY <2>1 DEF IInv, TypeOK, Tables
  <2>3. InFlight(g[1]) => g[2] # attempt[g[1]] BY <2>1 DEF IInv, Fresh, Tables
  <2> QED BY <2>1, <2>2, <2>3
<1>2. TypeOK' BY <1>1 DEF IInv, TypeOK, PCs
<1>3. TxShape' BY DEF IInv, TypeOK, TxShape
<1>4. dirty[c] = {} BY DEF IInv, TxShape
<1>5. Locks' BY <1>4 DEF IInv, TypeOK, Locks
<1>6. Fresh' BY DEF IInv, TypeOK, Fresh
<1>7. Redirected' BY <1>1 DEF IInv, TypeOK, Redirected
<1>8. AtMostOnePerKey' BY DEF IInv, TypeOK, AtMostOnePerKey
<1>9. AllOrNothing' BY DEF IInv, TypeOK, AllOrNothing
<1>10. AnswerNamesPostedGroup'
  <2> SUFFICES ASSUME NEW d \in Calls, pc'[d] = "answered"
               PROVE  /\ answer'[d].group \in db["group"]
                      /\ KeyOfGroup[answer'[d].group] = KeyOf[d]
                      /\ answer'[d].idempotent <=> answer'[d].group # Own(d)
    BY DEF AnswerNamesPostedGroup
  <2>1. CASE d = c
    <3>1. answer'[d] = Answer(g, TRUE) BY <2>1 DEF IInv, TypeOK
    <3> QED BY <2>1, <3>1, <1>1
  <2>2. CASE d # c
    <3>1. pc[d] = "answered" /\ answer'[d] = answer[d] BY <2>2 DEF IInv, TypeOK
    <3>2. /\ answer[d].group \in db["group"]
          /\ KeyOfGroup[answer[d].group] = KeyOf[d]
          /\ answer[d].idempotent <=> answer[d].group # Own(d)
      BY <3>1 DEF IInv, AnswerNamesPostedGroup
    <3> QED BY <3>1, <3>2
  <2> QED BY <2>1, <2>2
<1> QED BY <1>2, <1>3, <1>5, <1>6, <1>7, <1>8, <1>9, <1>10 DEF IInv

\* The header goes in only under a key that is neither posted nor locked.
LEMMA InsertHeaderIInv == ASSUME IInv, NEW c \in Calls, InsertHeader(c)
                          PROVE  IInv'
<1> USE CallsAssumption DEF InsertHeader, IInv, TypeOK
<1>1. TypeOK' BY DEF PCs, Tables
<1>2. TxShape' BY DEF TxShape
<1>3. Locks'
  <2>1. \A g \in db["group"] : g \in Groups /\ KeyOf[g[1]] # KeyOf[c]
    BY DEF Tables
  <2>2. \A d \in Calls \ {c} : KeyOf[d] = KeyOf[c] => "group" \notin dirty[d]
    OBVIOUS
  <2> QED BY <2>1, <2>2 DEF Locks
<1>4. Fresh' BY DEF Fresh
<1>5. Redirected' BY DEF Redirected
<1>6. AtMostOnePerKey' BY DEF AtMostOnePerKey
<1>7. AllOrNothing' BY DEF AllOrNothing
<1>8. AnswerNamesPostedGroup' BY DEF AnswerNamesPostedGroup
<1> QED BY <1>1, <1>2, <1>3, <1>4, <1>5, <1>6, <1>7, <1>8

\* The further rows of a transaction change neither locks nor answers.
LEMMA WriteIInv == ASSUME IInv, NEW c \in Calls,
                          WriteAudit(c) \/ WriteEntries(c) \/ CallerWrites(c)
                   PROVE  IInv'
<1> USE CallsAssumption
<1>1. PICK t \in {"audit", "entries", "caller"} : dirty' = [dirty EXCEPT ![c] = @ \cup {t}]
  BY DEF WriteAudit, WriteEntries, CallerWrites
<1>2. PICK l \in {"entries", "caller", "commit"} : pc' = [pc EXCEPT ![c] = l]
  BY DEF WriteAudit, WriteEntries, CallerWrites
<1>3. /\ pc[c] \in {"audit", "entries", "caller"}
      /\ UNCHANGED <<killSwitch, attempt, db, answer>>
  BY DEF WriteAudit, WriteEntries, CallerWrites
<1>4. TypeOK' BY <1>1, <1>2, <1>3 DEF IInv, TypeOK, PCs, Tables
<1>5. TxShape'
  <2> SUFFICES /\ pc'[c] = "entries" => dirty'[c] = {"group", "audit"}
               /\ pc'[c] = "caller" => c \in InCallerTx /\ dirty'[c] \in {{}, Rows}
               /\ pc'[c] = "commit" => dirty'[c] \in IF c \in InCallerTx THEN {{"caller"}, Tables}
                                                                         ELSE {Rows}
    BY <1>1, <1>2 DEF IInv, TypeOK, TxShape
  <2>1. CASE WriteAudit(c) BY <2>1 DEF WriteAudit, IInv, TypeOK, TxShape
  <2>2. CASE WriteEntries(c)
    <3>1. dirty'[c] = Rows BY <2>2 DEF WriteEntries, IInv, TypeOK, TxShape, Rows
    <3> QED BY <2>2, <3>1 DEF WriteEntries, IInv, TypeOK
  <2>3. CASE CallerWrites(c)
    <3>1. dirty'[c] \in {{"caller"}, Tables}
      BY <2>3 DEF CallerWrites, IInv, TypeOK, TxShape, Rows, Tables
    <3>2. c \in InCallerTx /\ pc'[c] = "commit"
      BY <2>3 DEF CallerWrites, IInv, TypeOK, TxShape
    <3> QED BY <3>1, <3>2
  <2> QED BY <2>1, <2>2, <2>3
<1>6. \A d \in Calls : "group" \in dirty'[d] <=> "group" \in dirty[d]
  BY <1>1 DEF IInv, TypeOK
<1>7. Locks' BY <1>3, <1>6 DEF IInv, Locks
<1>8. \A d \in Calls : (pc'[d] = "answered" => pc[d] = "answered") /\ (InFlight(d)' <=> InFlight(d))
  BY <1>2, <1>3 DEF IInv, TypeOK
<1>9. Fresh'
  <2> SUFFICES ASSUME NEW t1 \in Tables, NEW g \in db[t1]
               PROVE  g[2] <= attempt[g[1]] /\ (InFlight(g[1])' => g[2] # attempt[g[1]])
    BY <1>3 DEF Fresh
  <2>1. g[1] \in Calls BY DEF IInv, TypeOK
  <2> QED BY <2>1, <1>8 DEF IInv, Fresh
<1>10. Redirected'
  <2> SUFFICES ASSUME NEW d \in Calls, pc'[d] \in {"caller", "commit"}, "group" \notin dirty'[d]
               PROVE  \E g \in db["group"] : /\ KeyOf[g[1]] = KeyOf[d]
                                             /\ g # Own(d)
                                             /\ answer[d] = Answer(g, TRUE)
    BY <1>3 DEF Redirected
  <2>1. "group" \notin dirty[d] BY <1>6
  <2>2. pc[d] \in {"caller", "commit"} BY <2>1, <1>2, <1>3 DEF IInv, TypeOK, TxShape
  <2> QED BY <2>1, <2>2 DEF IInv, Redirected
<1>11. AtMostOnePerKey' BY <1>3 DEF IInv, AtMostOnePerKey
<1>12. AllOrNothing' BY <1>3 DEF IInv, AllOrNothing
<1>13. AnswerNamesPostedGroup' BY <1>3, <1>8 DEF IInv, AnswerNamesPostedGroup
<1> QED BY <1>4, <1>5, <1>7, <1>9, <1>10, <1>11, <1>12, <1>13 DEF IInv

\* A call that is started again gets a fresh attempt, which owns no row yet.
LEMMA RetryIInv == ASSUME IInv, NEW c \in Calls, Retry(c)
                   PROVE  IInv'
<1> USE CallsAssumption DEF Retry, IInv, TypeOK
<1>1. TypeOK' BY DEF PCs
<1>2. TxShape' BY DEF TxShape
<1>3. Locks' BY DEF Locks, TxShape
<1>4. Fresh' BY DEF Fresh
<1>5. Redirected' BY DEF Redirected
<1>6. AtMostOnePerKey' BY DEF AtMostOnePerKey
<1>7. AllOrNothing' BY DEF AllOrNothing
<1>8. AnswerNamesPostedGroup' BY DEF AnswerNamesPostedGroup
<1> QED BY <1>1, <1>2, <1>3, <1>4, <1>5, <1>6, <1>7, <1>8

\* The kill switch stands apart from the tables and the calls.
LEMMA SwitchOrStutterIInv ==
    ASSUME IInv, UNCHANGED <<pc, attempt, db, dirty, answer>>, killSwitch' \in BOOLEAN
    PROVE  IInv'
<1> USE DEF IInv, TypeOK
<1>1. TypeOK' OBVIOUS
<1>2. TxShape' BY DEF TxShape
<1>3. Locks' BY DEF Locks
<1>4. Fresh' BY DEF Fresh
<1>5. Redirected' BY DEF Redirected
<1>6. AtMostOnePerKey' BY DEF AtMostOnePerKey
<1>7. AllOrNothing' BY DEF AllOrNothing
<1>8. AnswerNamesPostedGroup' BY DEF AnswerNamesPostedGroup
<1> QED BY <1>1, <1>2, <1>3, <1>4, <1>5, <1>6, <1>7, <1>8

-----------------------------------------------------------------------------
\* Every statement of every call preserves the inductive invariant.
LEMMA NextIInv == IInv /\ [Next]_vars => IInv'
<1> HIDE DEF Goto, Existing, Answer
<1> SUFFICES ASSUME IInv, [Next]_vars PROVE IInv' OBVIOUS
<1>1. ASSUME NEW c \in Calls, Reject(c) PROVE IInv'
  BY <1>1, RollbackIInv DEF Reject
<1>2. ASSUME NEW c \in Calls, CheckKillSwitch(c) PROVE IInv'
  <2>1. CASE Rollback(c) BY <1>2, <2>1, RollbackIInv DEF CheckKillSwitch
  <2>2. CASE ~Rollback(c) BY <1>2, <2>2, MoveIInv DEF CheckKillSwitch
  <2> QED BY <2>1, <2>2
<1>3. ASSUME NEW c \in Calls, Precheck(c) PROVE IInv'
  <2>1. CASE Existing(c) = {} 
    <3>1. Goto(c, "header") /\ UNCHANGED <<killSwitch, attempt, db, dirty, answer>>
      BY <1>3, <2>1 DEF Precheck
    <3>2. pc[c] \in {"start", "precheck"} BY <1>3 DEF Precheck
    <3> QED BY <3>1, <3>2, MoveIInv
  <2>2. CASE Existing(c) # {}
    <3>1. PICK g \in Existing(c) : answer' = [answer EXCEPT ![c] = Answer(g, TRUE)]
      BY <1>3, <2>2 DEF Precheck
    <3>2. pc[c] \in {"start", "precheck"} /\ UNCHANGED <<killSwitch, attempt, db, dirty>>
      BY <1>3 DEF Precheck
    <3>3. CASE c \in InCallerTx
      <4>1. Goto(c, "caller") BY <1>3, <2>2, <3>3 DEF Precheck
      <4> QED BY <3>1, <3>2, <3>3, <4>1, RedirectIInv
    <3>4. CASE c \notin InCallerTx
      <4>1. Goto(c, "answered") BY <1>3, <2>2, <3>4 DEF Precheck
      <4> QED BY <3>1, <3>2, <4>1, RedirectIInv
    <3> QED BY <3>3, <3>4
  <2> QED BY <2>1, <2>2
<1>4. ASSUME NEW c \in Calls, InsertHeader(c) PROVE IInv'
  BY <1>4, InsertHeaderIInv
<1>5. ASSUME NEW c \in Calls, LoseRace(c) PROVE IInv'
  <2>1. CASE Rollback(c) BY <1>5, <2>1, RollbackIInv DEF LoseRace
  <2>2. CASE ~Rollback(c) BY <1>5, <2>2, MoveIInv DEF LoseRace
  <2> QED BY <2>1, <2>2
<1>6. ASSUME NEW c \in Calls, Reread(c) PROVE IInv'
  <2>1. CASE Rollback(c) BY <1>6, <2>1, RollbackIInv DEF Reread
  <2>2. CASE ~Rollback(c)
    <3>1. PICK g \in Existing(c) : answer' = [answer EXCEPT ![c] = Answer(g, TRUE)]
      BY <1>6, <2>2 DEF Reread
    <3>2. Goto(c, "answered") /\ UNCHANGED <<killSwitch, attempt, db, dirty>>
      BY <1>6, <2>2 DEF Reread
    <3>3. pc[c] = "reread" BY <1>6 DEF Reread
    <3> QED BY <3>1, <3>2, <3>3, RedirectIInv
  <2> QED BY <2>1, <2>2
<1>7. ASSUME NEW c \in Calls, WriteAudit(c) \/ WriteEntries(c) \/ CallerWrites(c)
      PROVE  IInv'
  BY <1>7, WriteIInv
<1>8. ASSUME NEW c \in Calls, Commit(c) PROVE IInv'
  BY <1>8, CommitIInv
<1>9. ASSUME NEW c \in Calls, Abort(c) PROVE IInv'
  BY <1>9, RollbackIInv DEF Abort
<1>10. ASSUME NEW c \in Calls, Retry(c) PROVE IInv'
  BY <1>10, RetryIInv
<1>11. ASSUME NEW active \in BOOLEAN, setKillSwitch(active) PROVE IInv'
  BY <1>11, SwitchOrStutterIInv DEF setKillSwitch
<1>12. CASE UNCHANGED vars
  BY <1>12, SwitchOrStutterIInv DEF vars, IInv, TypeOK
<1> QED BY <1>1, <1>2, <1>3, <1>4, <1>5, <1>6, <1>7, <1>8, <1>9, <1>10, <1>11, <1>12
        DEF Next, Step

\* The inductive invariant holds in every reachable state.
LEMMA InductiveInvariant == Spec => []IInv
BY InitIInv, NextIInv, PTL DEF Spec

\* The variables keep their types.
THEOREM TypeCorrect == Spec => []TypeOK
BY InductiveInvariant, PTL DEF IInv

\* UNIQUE(referenceId, actionType) and the rollback of lost races keep every
\* key to one group, however the calls of postTransactionGroup interleave.
THEOREM OneGroupPerKey == Spec => []AtMostOnePerKey
BY InductiveInvariant, PTL DEF IInv

\* Header, audit row, entries and the caller's rows of a group stand together.
THEOREM GroupsAreWhole == Spec => []AllOrNothing
BY InductiveInvariant, PTL DEF IInv

\* Every answer names a group that is posted under the key of the call.
THEOREM AnswersAreTrue == Spec => []AnswerNamesPostedGroup
BY InductiveInvariant, PTL DEF IInv

\* While the kill switch is held on, the calls past it only become fewer: no
\* ordinary call and no retry follows those that had read it before.
THEOREM SwitchHolds == Spec => SwitchAdmitsNone
<1>1. IInv /\ [Next]_vars => [killSwitch /\ killSwitch' => PastSwitch' \subseteq PastSwitch]_vars
  <2> SUFFICES ASSUME IInv, Next, killSwitch, killSwitch', NEW d \in PastSwitch', d \notin PastSwitch
               PROVE  FALSE
    OBVIOUS
  <2>1. d \in Calls \ Bypass /\ pc[d] \in {"start", "answered", "failed"}
    BY DEF PastSwitch
  <2>2. pc'[d] \notin {"start", "answered", "failed"}
    BY DEF PastSwitch
  <2>3. PICK c \in Calls : Step(c) \/ Abort(c) \/ Retry(c)
    BY <2>1, <2>2 DEF Next, setKillSwitch
  <2>4. c = d
    BY <2>1, <2>2, <2>3
    DEF Step, Reject, CheckKillSwitch, Precheck, InsertHeader, LoseRace, Reread, WriteAudit,
        WriteEntries, CallerWrites, Commit, Abort, Retry, Rollback, IInv, TypeOK
  <2>5. Reject(d) \/ CheckKillSwitch(d) \/ Abort(d) \/ Retry(d)
    BY <2>1, <2>3, <2>4
    DEF Step, Precheck, InsertHeader, LoseRace, Reread, WriteAudit, WriteEntries,
        CallerWrites, Commit
  <2>6. pc'[d] \in {"start", "failed"}
    BY <2>1, <2>5 DEF Reject, CheckKillSwitch, Abort, Retry, Rollback, IInv, TypeOK
  <2> QED BY <2>2, <2>6
<1> QED BY <1>1, InductiveInvariant, PTL DEF Spec, SwitchAdmitsNone

-----------------------------------------------------------------------------
(* The refinement: what the abstract module calls reply.                     *)
Reply == [c \in Calls |-> IF pc[c] = "answered" THEN answer[c] ELSE <<>>]

\* A step that commits nothing and answers nobody is invisible to the callers.
LEMMA Stutters == ASSUME UNCHANGED db,
                         \A d \in Calls : (pc'[d] = "answered") <=> (pc[d] = "answered"),
                         \A d \in Calls : pc[d] = "answered" => answer'[d] = answer[d]
                  PROVE  UNCHANGED Promise!vars
<1>1. Reply' = Reply BY DEF Reply
<1> QED BY <1>1 DEF Promise!vars, Reply


\* A call that returns an idempotent answer is a Redirect.
LEMMA Redirects == ASSUME IInv, NEW c \in Calls, pc[c] # "answered", UNCHANGED db["group"],
                          NEW g \in db["group"], KeyOfGroup[g] = KeyOf[c],
                          pc' = [pc EXCEPT ![c] = "answered"],
                          answer'[c] = Answer(g, TRUE),
                          \A d \in Calls \ {c} : answer'[d] = answer[d]
                   PROVE  Promise!Next
<1>1. Reply' = [Reply EXCEPT ![c] = Answer(g, TRUE)]
  BY DEF Reply, IInv, TypeOK
<1>2. Reply[c] = <<>> BY DEF Reply
<1>3. g \in Groups BY DEF IInv, TypeOK, Tables
<1>4. Promise!Redirect(c, g)
  BY <1>1 DEF Promise!Redirect, Promise!Told, Reply
<1> QED BY <1>2, <1>3, <1>4 DEF Promise!Next, Promise!Unanswered, Reply

\* Committing a header is a Post, whether or not the caller hears of it;
\* committing the caller's rows alone ends a redirected call.
LEMMA Commits == ASSUME IInv, NEW c \in Calls, Commit(c)
                 PROVE  [Promise!Next]_(Promise!vars)
<1>0. PICK o : o = Own(c) OBVIOUS
<1>1. /\ pc[c] = "commit"
      /\ \A d \in Calls \ {c} : answer'[d] = answer[d]
      /\ \/ pc' = [pc EXCEPT ![c] = "answered"] /\ answer' = answer
         \/ pc' = [pc EXCEPT ![c] = "failed"]
  BY DEF Commit, IInv, TypeOK
<1>2. db'["group"] = IF "group" \in dirty[c] THEN db["group"] \cup {o} ELSE db["group"]
  BY <1>0 DEF Commit, Tables
<1>3. CASE "group" \in dirty[c]
  <2>1. /\ o \in Groups /\ KeyOfGroup[o] = KeyOf[c]
        /\ db'["group"] = db["group"] \cup {o}
    BY <1>0, <1>2, <1>3 DEF IInv, TypeOK
  <2>2. Promise!Free(KeyOf[c])
    <3>1. \A h \in db["group"] : h \in Groups /\ KeyOf[h[1]] # KeyOf[c]
      BY <1>3 DEF IInv, Locks, TypeOK, Tables
    <3> QED BY <3>1 DEF Promise!Free
  <2>3. answer[c] = Answer(o, FALSE) BY <1>0, <1>3 DEF IInv, Locks
  <2>4. Reply[c] = <<>> BY <1>1 DEF Reply
  <2>5. Reply' = [Reply EXCEPT ![c] = Answer(o, FALSE)] \/ Reply' = Reply
    <3>1. CASE pc' = [pc EXCEPT ![c] = "answered"] /\ answer' = answer
      BY <3>1, <1>1, <2>3 DEF Reply, IInv, TypeOK
    <3>2. CASE pc' = [pc EXCEPT ![c] = "failed"]
      BY <3>2, <1>1 DEF Reply, IInv, TypeOK
    <3> QED BY <3>1, <3>2, <1>1
  <2>6. Promise!Post(c, o)
    BY <2>1, <2>2, <2>5 DEF Promise!Post, Promise!Told, Reply
  <2>7. \E g \in Groups : Promise!Post(c, g) \/ Promise!Redirect(c, g)
    BY <2>1, <2>6
  <2>8. Promise!Next
    BY <2>4, <2>7 DEF Promise!Next, Promise!Unanswered, Reply
  <2> QED BY <2>8
<1>4. CASE "group" \notin dirty[c]
  <2>1. PICK g \in db["group"] : KeyOf[g[1]] = KeyOf[c] /\ answer[c] = Answer(g, TRUE)
    BY <1>1, <1>4 DEF IInv, Redirected
  <2>2. KeyOfGroup[g] = KeyOf[c] BY <2>1 DEF IInv, TypeOK, Tables
  <2>3. UNCHANGED db["group"] BY <1>2, <1>4
  <2>4. CASE pc' = [pc EXCEPT ![c] = "answered"] /\ answer' = answer
    BY <1>1, <2>1, <2>2, <2>3, <2>4, Redirects
  <2>5. CASE pc' = [pc EXCEPT ![c] = "failed"]
    <3>1. Reply' = Reply BY <1>1, <2>5 DEF Reply, IInv, TypeOK
    <3> QED BY <2>3, <3>1 DEF Promise!vars, Reply
  <2> QED BY <1>1, <2>4, <2>5
<1> QED BY <1>3, <1>4

\* Every statement is a Post, a Redirect or invisible to the promise.
LEMMA StepRefines == IInv /\ [Next]_vars => [Promise!Next]_(Promise!vars)
<1> SUFFICES ASSUME IInv, [Next]_vars PROVE [Promise!Next]_(Promise!vars) OBVIOUS
<1>1. ASSUME NEW c \in Calls, InFlight(c), Rollback(c) PROVE UNCHANGED Promise!vars
  BY <1>1, Stutters DEF Rollback, IInv, TypeOK
<1>2. ASSUME NEW c \in Calls, Precheck(c) PROVE [Promise!Next]_(Promise!vars)
  <2>1. CASE Existing(c) = {} \/ c \in InCallerTx
    BY <1>2, <2>1, Stutters DEF Precheck, IInv, TypeOK
  <2>2. CASE Existing(c) # {} /\ c \notin InCallerTx
    <3>1. PICK g \in Existing(c) : answer' = [answer EXCEPT ![c] = Answer(g, TRUE)]
      BY <1>2, <2>2 DEF Precheck
    <3>2. pc' = [pc EXCEPT ![c] = "answered"] /\ UNCHANGED db["group"] /\ pc[c] # "answered"
      BY <1>2, <2>2 DEF Precheck
    <3>3. answer'[c] = Answer(g, TRUE) /\ \A d \in Calls \ {c} : answer'[d] = answer[d]
      BY <3>1 DEF IInv, TypeOK
    <3>4. g \in db["group"] /\ KeyOfGroup[g] = KeyOf[c] OBVIOUS
    <3> QED BY <3>2, <3>3, <3>4, Redirects
  <2> QED BY <2>1, <2>2
<1>3. ASSUME NEW c \in Calls, Reread(c), ~Rollback(c) PROVE Promise!Next
  <2>1. PICK g \in Existing(c) : answer' = [answer EXCEPT ![c] = Answer(g, TRUE)]
    BY <1>3 DEF Reread
  <2>2. pc' = [pc EXCEPT ![c] = "answered"] /\ UNCHANGED db["group"] /\ pc[c] # "answered"
    BY <1>3 DEF Reread
  <2>3. answer'[c] = Answer(g, TRUE) /\ \A d \in Calls \ {c} : answer'[d] = answer[d]
    BY <2>1 DEF IInv, TypeOK
  <2>4. g \in db["group"] /\ KeyOfGroup[g] = KeyOf[c] OBVIOUS
  <2> QED BY <2>2, <2>3, <2>4, Redirects
<1>4. ASSUME NEW c \in Calls,
             \/ InsertHeader(c) \/ WriteAudit(c) \/ WriteEntries(c) \/ CallerWrites(c) \/ Retry(c)
             \/ (CheckKillSwitch(c) /\ ~Rollback(c)) \/ (LoseRace(c) /\ ~Rollback(c))
      PROVE  UNCHANGED Promise!vars
  <2>1. UNCHANGED db
    BY <1>4 DEF InsertHeader, WriteAudit, WriteEntries, CallerWrites, Retry, CheckKillSwitch, LoseRace
  <2>2. \A d \in Calls : (pc'[d] = "answered") <=> (pc[d] = "answered")
    BY <1>4 DEF InsertHeader, WriteAudit, WriteEntries, CallerWrites, Retry, CheckKillSwitch,
                LoseRace, IInv, TypeOK
  <2>3. \A d \in Calls : pc[d] = "answered" => answer'[d] = answer[d]
    BY <1>4 DEF InsertHeader, WriteAudit, WriteEntries, CallerWrites, Retry, CheckKillSwitch,
                LoseRace, IInv, TypeOK
  <2> QED BY <2>1, <2>2, <2>3, Stutters
<1>5. ASSUME \/ UNCHANGED vars
             \/ \E active \in BOOLEAN : setKillSwitch(active)
      PROVE  UNCHANGED Promise!vars
  BY <1>5, Stutters DEF vars, setKillSwitch
<1>6. ASSUME NEW c \in Calls, Step(c) \/ Abort(c) \/ Retry(c)
      PROVE  [Promise!Next]_(Promise!vars)
  <2>1. CASE Rollback(c)
    <3>1. InFlight(c)
      BY <1>6, <2>1 DEF Step, Abort, Reject, CheckKillSwitch, Precheck, InsertHeader, LoseRace,
           Reread, WriteAudit, WriteEntries, CallerWrites, Commit, Retry, Rollback, IInv, TypeOK
    <3> QED BY <2>1, <3>1, <1>1
  <2>2. CASE ~Rollback(c)
    BY <1>2, <1>3, <1>4, <1>6, <2>2, Commits DEF Step, Abort, Reject
  <2> QED BY <2>1, <2>2
<1> QED BY <1>5, <1>6 DEF Next

\* postTransactionGroup implements what IdempotentLedger promises its callers.
THEOREM Implements == Spec => ImplementsPromise
<1>1. Init => Promise!Init
  BY DEF Init, Promise!Init, Promise!Unanswered, Tables
<1> QED BY <1>1, StepRefines, InductiveInvariant, PTL DEF Spec, ImplementsPromise, Promise!Spec
=============================================================================
