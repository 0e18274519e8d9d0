------------------------- MODULE BountyEscrow_proofs -------------------------
(* TLAPS proofs about BountyEscrow, for any submissions, refund rows, workers *)
(* and amounts: its type correctness and the safety invariants that hold     *)
(* wherever a handler is cut off.                                            *)
EXTENDS BountyEscrow, SequenceTheorems, TLAPS

HasApproval(s) == \E g \in ledger : g.action = "approved" /\ g.sub = s
RefundPosted(r) == \E g \in ledger : g.action = "refunded" /\ g.ref = r
IsMatured(s) == \E i \in DOMAIN matured : matured[i] = s
Rows == {r \in Refunds : refund[r] # NoRow}
IsBefore(r) == refund[r].scenario = "BEFORE_APPROVAL"

\* What a handler in state x has already brought about, in the ledger or in the
\* refund rows, and relies on in its later steps.
Relied(x) ==
    /\ x.at = "snapshot" => HasApproval(x.sub)
    /\ x.at = "createReversal" => HasApproval(x.sub) /\ x.scenario # "BEFORE_APPROVAL"
    /\ x.at \in {"refundPost", "markRefunded", "completeRefund"} =>
           /\ x.refund \in Rows
           /\ x.sub = NoRef <=> IsBefore(x.refund)
           /\ x.sub # NoRef => HasApproval(x.sub)
    /\ x.at = "markRefunded" => x.sub = NoRef
    /\ x.at \in {"markRefunded", "completeRefund"} => RefundPosted(x.refund)
    /\ x.at = "clear" => \A i \in DOMAIN x.batch : IsMatured(x.batch[i])

Reliable == \A w \in Workers : Relied(worker[w])

\* The unique key of a group, and what its key says about its submission.
UniqueKeys == \A g, h \in ledger : g.action = h.action /\ g.ref = h.ref => g = h
KeysNameSubs ==
    \A g \in ledger :
        /\ g.action \in {"approved", "cleared"} => g.ref = g.sub
        /\ g.action = "refunded" => /\ g.ref \in Rows
                                    /\ g.sub = NoRef <=> IsBefore(g.ref)

\* A snapshot or a matured entry is there only after its approval.
FollowsApproval ==
    /\ \A s \in Subs : snapshot[s] # 0 => HasApproval(s)
    /\ \A s \in Subs : IsMatured(s) => HasApproval(s)

IInv == /\ TypeOK
        /\ UniqueKeys
        /\ KeysNameSubs
        /\ FollowsApproval
        /\ Reliable
        /\ ReversalHasOriginal
        /\ ReleaseMatchesApproval
        /\ RefundSettled

-----------------------------------------------------------------------------
(* Three kinds of step: a handler moves on without a trace, it posts a group, *)
(* or it changes rows outside the ledger.  What handlers rely on survives     *)
(* all three, since groups and maturities stay and refund rows keep their     *)
(* scenario.                                                                  *)
RowsKeep == \A r \in Rows : r \in Rows' /\ refund'[r].scenario = refund[r].scenario
MaturedKeeps == \A s \in Subs : IsMatured(s) => IsMatured(s)'

\* A state of a handler and the fields it has there.
LEMMA Fields ==
    ASSUME NEW x \in WorkerStates
    PROVE  /\ x.at \in {"reviewUpdate", "approvalRead", "payoutRow", "approvalPost", "snapshot",
                        "payoutUpdate", "createReversal"} => x.sub \in Subs
           /\ x.at = "reviewUpdate" => x.to \in Statuses
           /\ x.at = "payoutUpdate" => x.to \in PayoutStatuses
           /\ x.at \in {"approvalPost", "snapshot", "createReversal"} => x.net \in Nets
           /\ x.at = "createReversal" => x.scenario \in Scenarios
           /\ x.at \in {"refundPost", "markRefunded", "completeRefund"} =>
                  /\ x.refund \in Refunds
                  /\ x.sub \in Subs \cup {NoRef}
                  /\ x.net \in Nets \cup {0}
           /\ x.at = "clear" => x.batch \in Seq(Subs) /\ x.batch # <<>>
BY DEF WorkerStates, Idle

\* What a handler relies on is not undone by the steps of others.
LEMMA RelianceKeeps ==
    ASSUME NEW x \in WorkerStates, Relied(x),
           ledger \subseteq ledger', RowsKeep, MaturedKeeps
    PROVE  Relied(x)'
<1>1. \A s : HasApproval(s) => HasApproval(s)'
  BY DEF HasApproval
<1>2. \A r : RefundPosted(r) => RefundPosted(r)'
  BY DEF RefundPosted
<1>3. \A r \in Rows : r \in Rows' /\ (IsBefore(r)' <=> IsBefore(r))
  BY DEF RowsKeep, IsBefore
<1>4. x.at = "clear" => \A i \in DOMAIN x.batch : x.batch[i] \in Subs
  BY Fields
<1>5. x.at = "clear" => \A i \in DOMAIN x.batch : IsMatured(x.batch[i])'
  BY <1>4 DEF MaturedKeeps, Relied
<1> QED BY <1>1, <1>2, <1>3, <1>5 DEF Relied

\* After a step of worker w into a state it may rely on, all can rely on theirs.
LEMMA ReliableKeeps ==
    ASSUME IInv, NEW w \in Workers, NEW x \in WorkerStates, Goto(w, x), Relied(x)',
           ledger \subseteq ledger', RowsKeep, MaturedKeeps
    PROVE  Reliable' /\ worker' \in [Workers -> WorkerStates]
<1>1. worker \in [Workers -> WorkerStates] /\ Reliable
  BY DEF IInv, TypeOK
<1>2. worker' \in [Workers -> WorkerStates] /\ worker'[w] = x
  BY <1>1 DEF Goto
<1>3. \A u \in Workers : u # w => worker'[u] = worker[u]
  BY <1>1 DEF Goto
<1>4. ASSUME NEW u \in Workers PROVE Relied(worker[u])'
  <2>1. CASE u = w
    BY <2>1, <1>2
  <2>2. CASE u # w
    <3>1. PICK y \in WorkerStates : y = worker[u]
      BY <1>1
    <3>2. Relied(y)
      BY <1>1, <3>1 DEF Reliable
    <3>3. Relied(y)'
      BY <3>2, RelianceKeeps
    <3>4. worker'[u] = y
      BY <1>3, <2>2, <3>1
    <3> QED BY <3>3, <3>4
  <2> QED BY <2>1, <2>2
<1> QED BY <1>2, <1>4 DEF Reliable

\* A step that moves a handler on and writes, if anything, columns on which no
\* group and no refund row depends.
LEMMA MoveIInv ==
    ASSUME IInv, NEW w \in Workers, NEW x \in WorkerStates, Goto(w, x), Relied(x),
           status' \in [Subs -> Statuses],
           payout' \in [Subs -> [status : PayoutStatuses, paidAt : BOOLEAN]],
           UNCHANGED <<snapshot, refund, payment, ledger, matured>>
    PROVE  IInv'
<1>1. ledger \subseteq ledger' /\ RowsKeep /\ MaturedKeeps
  BY DEF RowsKeep, MaturedKeeps, Rows, IsMatured
<1>2. Relied(x)'
  BY <1>1, RelianceKeeps
<1>3. Reliable' /\ worker' \in [Workers -> WorkerStates]
  BY <1>1, <1>2, ReliableKeeps
<1>4. TypeOK'
  BY <1>3 DEF IInv, TypeOK
<1>5. UniqueKeys' /\ KeysNameSubs' /\ FollowsApproval'
  BY DEF IInv, UniqueKeys, KeysNameSubs, FollowsApproval, Rows, IsBefore, IsMatured, HasApproval
<1>6. ReversalHasOriginal' /\ ReleaseMatchesApproval' /\ RefundSettled'
  BY DEF IInv, ReversalHasOriginal, ReleaseMatchesApproval, RefundSettled, Groups
<1> QED BY <1>3, <1>4, <1>5, <1>6 DEF IInv

\* What the ledger looks like after postTransactionGroup(g).
LEMMA LedgerGrows ==
    ASSUME NEW g, postTransactionGroup(g)
    PROVE  /\ ledger \subseteq ledger'
           /\ ledger' \subseteq ledger \cup {g}
           /\ \E h \in ledger' : h.action = g.action /\ h.ref = g.ref
           /\ UniqueKeys => UniqueKeys'
<1>1. CASE \E h \in ledger : h.action = g.action /\ h.ref = g.ref
  BY <1>1 DEF postTransactionGroup, UniqueKeys
<1>2. CASE ~ \E h \in ledger : h.action = g.action /\ h.ref = g.ref
  <2>1. ledger' = ledger \cup {g}
    BY <1>2 DEF postTransactionGroup
  <2> QED BY <1>2, <2>1 DEF UniqueKeys
<1> QED BY <1>1, <1>2

GroupType == [action : Actions, ref : Subs \cup Refunds \cup {NoRef},
              sub : Subs \cup {NoRef}, net : Nets \cup {0}]

\* A group whose posting the rows and the ledger justify.
Justified(g) ==
    /\ g.action \in {"approved", "cleared"} => g.ref = g.sub
    /\ g.action = "refunded" => /\ g.ref \in Rows
                                /\ g.sub = NoRef <=> IsBefore(g.ref)
                                /\ g.sub # NoRef => HasApproval(g.sub)
    /\ g.action = "cleared" =>
           /\ IsMatured(g.sub)
           /\ \E h \in Groups("approved") : h.sub = g.sub /\ h.net = g.net

\* A step that posts a justified group.
LEMMA PostIInv ==
    ASSUME IInv, NEW w \in Workers, NEW x \in WorkerStates, Goto(w, x), Relied(x)',
           NEW g \in GroupType, Justified(g), postTransactionGroup(g),
           UNCHANGED <<status, snapshot, payout, refund, payment, matured>>
    PROVE  IInv'
<1>1. /\ ledger \subseteq ledger' /\ ledger' \subseteq ledger \cup {g}
      /\ UniqueKeys'
  BY LedgerGrows DEF IInv
<1>2. RowsKeep /\ MaturedKeeps /\ Rows' = Rows
  BY DEF RowsKeep, MaturedKeeps, Rows, IsMatured
<1>3. Reliable' /\ worker' \in [Workers -> WorkerStates]
  BY <1>1, <1>2, ReliableKeeps
<1>4. TypeOK'
  <2>1. ledger' \subseteq GroupType
    BY <1>1 DEF IInv, TypeOK, GroupType
  <2> QED BY <1>3, <2>1 DEF IInv, TypeOK, GroupType
<1>5. KeysNameSubs'
  BY <1>1, <1>2 DEF IInv, KeysNameSubs, Justified, IsBefore
<1>6. \A s : (HasApproval(s) => HasApproval(s)') /\ (IsMatured(s)' <=> IsMatured(s))
  BY <1>1 DEF HasApproval, IsMatured
<1>7. FollowsApproval'
  BY <1>6 DEF IInv, FollowsApproval
<1>8. ReversalHasOriginal'
  BY <1>1 DEF IInv, ReversalHasOriginal, Groups, Justified, HasApproval
<1>9. ReleaseMatchesApproval'
  BY <1>1 DEF IInv, ReleaseMatchesApproval, Groups, Justified, IsMatured
<1>10. RefundSettled'
  BY <1>1 DEF IInv, RefundSettled, Groups
<1> QED BY <1>1, <1>3, <1>4, <1>5, <1>7, <1>8, <1>9, <1>10 DEF IInv

\* No row, no group and no handler exists before the first request.
LEMMA InitIInv == Init => IInv
<1> SUFFICES ASSUME Init PROVE IInv
  OBVIOUS
<1>1. TypeOK
  <2>1. Idle \in WorkerStates /\ <<>> \in Seq(Subs)
    BY DEF WorkerStates
  <2> QED BY <2>1 DEF Init, TypeOK, NoRow, Statuses, PayoutStatuses
<1>2. Reliable
  BY DEF Init, Reliable, Relied, Idle
<1>3. UniqueKeys /\ KeysNameSubs /\ FollowsApproval
  BY DEF Init, UniqueKeys, KeysNameSubs, FollowsApproval, IsMatured
<1>4. ReversalHasOriginal /\ ReleaseMatchesApproval /\ RefundSettled
  BY DEF Init, ReversalHasOriginal, ReleaseMatchesApproval, RefundSettled, Groups, NoRow
<1> QED BY <1>1, <1>2, <1>3, <1>4 DEF IInv

-----------------------------------------------------------------------------
\* Reviews: the snapshot is written only where the approval has been posted.
LEMMA ReviewIInv == ASSUME IInv, NEW w \in Workers, Review(w) PROVE IInv'
<1> USE DEF At, Starts
<1>t. worker \in [Workers -> WorkerStates] /\ status \in [Subs -> Statuses]
      /\ payout \in [Subs -> [status : PayoutStatuses, paidAt : BOOLEAN]]
  BY DEF IInv, TypeOK
<1>1. ASSUME NEW s \in Subs, NEW to \in Statuses, review(w, s, to) PROVE IInv'
  <2>1. PICK x : x = [at |-> "reviewUpdate", sub |-> s, to |-> to]
    OBVIOUS
  <2>2. x \in WorkerStates
    BY <2>1 DEF WorkerStates
  <2>3. Relied(x)
    BY <2>1 DEF Relied
  <2>4. Goto(w, x) /\ UNCHANGED <<status, snapshot, payout, refund, payment, ledger, matured>>
    BY <1>1, <2>1 DEF review
  <2> QED BY <2>2, <2>3, <2>4, <1>t, MoveIInv
<1>6. ASSUME NEW s \in Subs, updateSubmission(w, s) PROVE IInv'
  <2>1. PICK x : x = [at |-> "reviewUpdate", sub |-> s, to |-> "SUBMITTED"]
    OBVIOUS
  <2>2. x \in WorkerStates
    BY <2>1 DEF WorkerStates, Statuses
  <2>3. Relied(x)
    BY <2>1 DEF Relied
  <2>4. Goto(w, x) /\ UNCHANGED <<status, snapshot, payout, refund, payment, ledger, matured>>
    BY <1>6, <2>1 DEF updateSubmission
  <2> QED BY <2>2, <2>3, <2>4, <1>t, MoveIInv
<1>2. CASE ReviewUpdate(w)
  <2>1. worker[w].sub \in Subs /\ worker[w].to \in Statuses
    BY <1>2, <1>t, Fields DEF ReviewUpdate
  <2>2. PICK x : x = IF worker[w].to = "APPROVED"
                       THEN [at |-> "approvalRead", sub |-> worker[w].sub] ELSE Idle
    OBVIOUS
  <2>3. x \in WorkerStates
    BY <2>1, <2>2 DEF WorkerStates
  <2>4. Relied(x)
    BY <2>2 DEF Relied, Idle
  <2>5. /\ Goto(w, x)
        /\ status' = [status EXCEPT ![worker[w].sub] = worker[w].to]
        /\ UNCHANGED <<snapshot, payout, refund, payment, ledger, matured>>
    BY <1>2, <2>2 DEF ReviewUpdate
  <2>6. status' \in [Subs -> Statuses]
    BY <2>1, <2>5, <1>t
  <2> QED BY <2>3, <2>4, <2>5, <2>6, <1>t, MoveIInv
<1>3. CASE ApprovalRead(w)
  <2>1. worker[w].sub \in Subs
    BY <1>3, <1>t, Fields DEF ApprovalRead
  <2>2. \E x \in WorkerStates : Relied(x) /\ Goto(w, x)
    <3>1. CASE status[worker[w].sub] = "APPROVED"
      <4>1. PICK net \in Nets : Goto(w, [at |-> "approvalPost", sub |-> worker[w].sub, net |-> net])
        BY <1>3, <3>1 DEF ApprovalRead
      <4>2. PICK x : x = [at |-> "approvalPost", sub |-> worker[w].sub, net |-> net]
        OBVIOUS
      <4>3. x \in WorkerStates
        BY <2>1, <4>2 DEF WorkerStates
      <4>4. Relied(x)
        BY <4>2 DEF Relied
      <4> QED BY <4>1, <4>2, <4>3, <4>4
    <3>2. CASE status[worker[w].sub] # "APPROVED"
      <4>1. Goto(w, Idle)
        BY <1>3, <3>2 DEF ApprovalRead
      <4>2. Idle \in WorkerStates /\ Relied(Idle)
        BY DEF WorkerStates, Relied, Idle
      <4> QED BY <4>1, <4>2
    <3> QED BY <3>1, <3>2
  <2>3. UNCHANGED <<status, snapshot, payout, refund, payment, ledger, matured>>
    BY <1>3 DEF ApprovalRead
  <2> QED BY <2>2, <2>3, <1>t, MoveIInv
<1>4. CASE ApprovalPost(w)
  <2>1. /\ worker[w] \in WorkerStates
        /\ worker[w].at = "approvalPost"
        /\ worker[w].sub \in Subs
        /\ worker[w].net \in Nets
    BY <1>4, <1>t, Fields DEF ApprovalPost
  <2>2. PICK g : g = Group("approved", worker[w].sub, worker[w].sub, worker[w].net)
    OBVIOUS
  <2>3. PICK x : x = [worker[w] EXCEPT !.at = "snapshot"]
    OBVIOUS
  <2>4. x \in WorkerStates /\ x.at = "snapshot" /\ x.sub = worker[w].sub
    BY <2>1, <2>3 DEF WorkerStates, Idle
  <2>5. g \in GroupType /\ Justified(g)
    BY <2>1, <2>2 DEF Group, GroupType, Actions, Justified
  <2>6. /\ postTransactionGroup(g)
        /\ Goto(w, x)
        /\ UNCHANGED <<status, snapshot, payout, refund, payment, matured>>
    BY <1>4, <2>2, <2>3 DEF ApprovalPost, ApprovalKey
  <2>7. KeysNameSubs'
    <3>1. ledger' \subseteq ledger \cup {g} /\ Rows' = Rows /\ (\A r : IsBefore(r)' <=> IsBefore(r))
      BY <2>6, LedgerGrows DEF Rows, IsBefore
    <3> QED BY <3>1, <2>5 DEF IInv, KeysNameSubs, Justified
  <2>8. HasApproval(x.sub)'
    <3>1. PICK h \in ledger' : h.action = g.action /\ h.ref = g.ref
      BY <2>6, LedgerGrows
    <3>2. h.action = "approved" /\ h.ref = x.sub
      BY <2>2, <2>4, <3>1 DEF Group
    <3> QED BY <3>1, <3>2, <2>7 DEF KeysNameSubs, HasApproval
  <2>9. Relied(x)'
    BY <2>4, <2>8 DEF Relied
  <2> QED BY <2>4, <2>5, <2>6, <2>9, PostIInv
<1>5. CASE ApprovalSnapshot(w)
  <2>1. worker[w].sub \in Subs /\ worker[w].net \in Nets
    BY <1>5, <1>t, Fields DEF ApprovalSnapshot
  <2>2. HasApproval(worker[w].sub)
    BY <1>5 DEF ApprovalSnapshot, IInv, Reliable, Relied
  <2>3. /\ snapshot' = [snapshot EXCEPT ![worker[w].sub] = worker[w].net]
        /\ Goto(w, Idle)
        /\ UNCHANGED <<status, payout, refund, payment, ledger, matured>>
    BY <1>5 DEF ApprovalSnapshot, SnapshotOf
  <2>4. snapshot \in [Subs -> Nets \cup {0}] /\ snapshot' \in [Subs -> Nets \cup {0}]
    BY <2>1, <2>3 DEF IInv, TypeOK
  <2>5. ledger \subseteq ledger' /\ RowsKeep /\ MaturedKeeps
    BY <2>3 DEF RowsKeep, MaturedKeeps, Rows, IsMatured
  <2>6. Idle \in WorkerStates /\ Relied(Idle)'
    BY DEF WorkerStates, Relied, Idle
  <2>7. Reliable' /\ worker' \in [Workers -> WorkerStates]
    BY <2>3, <2>5, <2>6, ReliableKeeps
  <2>8. TypeOK'
    BY <2>3, <2>4, <2>7 DEF IInv, TypeOK
  <2>9. FollowsApproval'
    <3>1. \A s \in Subs : s # worker[w].sub => snapshot'[s] = snapshot[s]
      BY <2>3, <2>4
    <3> QED BY <2>2, <2>3, <3>1 DEF IInv, FollowsApproval, HasApproval, IsMatured
  <2>10. UniqueKeys' /\ KeysNameSubs'
    BY <2>3 DEF IInv, UniqueKeys, KeysNameSubs, Rows, IsBefore
  <2>11. ReversalHasOriginal' /\ ReleaseMatchesApproval' /\ RefundSettled'
    BY <2>3 DEF IInv, ReversalHasOriginal, ReleaseMatchesApproval, RefundSettled, Groups
  <2> QED BY <2>7, <2>8, <2>9, <2>10, <2>11 DEF IInv
<1> QED BY <1>1, <1>2, <1>3, <1>4, <1>5, <1>6 DEF Review

\* Payouts: no group and no refund row depends on the payout columns.
LEMMA PayoutIInv == ASSUME IInv, NEW w \in Workers, Payout(w) PROVE IInv'
<1> USE DEF At, Starts
<1>t. worker \in [Workers -> WorkerStates] /\ status \in [Subs -> Statuses]
      /\ payout \in [Subs -> [status : PayoutStatuses, paidAt : BOOLEAN]]
  BY DEF IInv, TypeOK
<1>i. Idle \in WorkerStates /\ Relied(Idle)
  BY DEF WorkerStates, Relied, Idle
<1>1. ASSUME NEW s \in Subs, NEW to \in PayoutStatuses, updatePayout(w, s, to) PROVE IInv'
  <2>1. PICK x : x = [at |-> "payoutUpdate", sub |-> s, to |-> to]
    OBVIOUS
  <2>2. x \in WorkerStates
    BY <2>1 DEF WorkerStates
  <2>3. Relied(x)
    BY <2>1 DEF Relied
  <2>4. Goto(w, x) /\ UNCHANGED <<status, snapshot, payout, refund, payment, ledger, matured>>
    BY <1>1, <2>1 DEF updatePayout
  <2> QED BY <2>2, <2>3, <2>4, <1>t, MoveIInv
<1>2. CASE PayoutUpdate(w)
  <2>1. worker[w].sub \in Subs /\ worker[w].to \in PayoutStatuses
    BY <1>2, <1>t, Fields DEF PayoutUpdate
  <2>2. PICK x : x = IF worker[w].to = "PAID" THEN [at |-> "payoutRow", sub |-> worker[w].sub]
                                              ELSE Idle
    OBVIOUS
  <2>3. x \in WorkerStates
    BY <2>1, <2>2 DEF WorkerStates
  <2>4. Relied(x)
    BY <2>2 DEF Relied, Idle
  <2>5. /\ Goto(w, x)
        /\ payout' = [payout EXCEPT ![worker[w].sub].status = worker[w].to]
        /\ UNCHANGED <<status, snapshot, refund, payment, ledger, matured>>
    BY <1>2, <2>2 DEF PayoutUpdate
  <2>6. payout' \in [Subs -> [status : PayoutStatuses, paidAt : BOOLEAN]]
    BY <2>1, <2>5, <1>t
  <2> QED BY <2>3, <2>4, <2>5, <2>6, <1>t, MoveIInv
<1>3. CASE PayoutRow(w)
  <2>1. worker[w].sub \in Subs
    BY <1>3, <1>t, Fields DEF PayoutRow
  <2>2. /\ Goto(w, Idle)
        /\ payout' = [payout EXCEPT ![worker[w].sub].paidAt = TRUE]
        /\ UNCHANGED <<status, snapshot, refund, payment, ledger, matured>>
    BY <1>3 DEF PayoutRow
  <2>3. payout' \in [Subs -> [status : PayoutStatuses, paidAt : BOOLEAN]]
    BY <2>1, <2>2, <1>t
  <2> QED BY <1>i, <2>2, <2>3, <1>t, MoveIInv
<1> QED BY <1>1, <1>2, <1>3 DEF Payout

\* A free refund row is found when there is one.
LEMMA NewRefundIsFree ==
    ASSUME \E r \in Refunds : refund[r] = NoRow
    PROVE  NewRefund \in Refunds /\ refund[NewRefund] = NoRow
BY DEF NewRefund

\* Creating a refund row leaves all other rows and the ledger alone.
LEMMA CreateIInv ==
    ASSUME IInv, NEW w \in Workers, NEW state \in {"REQUESTED", "APPROVED"},
           NEW scenario \in Scenarios, NEW x \in WorkerStates,
           CreateRefund(w, state, scenario, x),
           NewRefund \in Rows' /\ refund'[NewRefund].scenario = scenario => Relied(x)',
           UNCHANGED <<status, snapshot, payout, payment, ledger, matured>>
    PROVE  IInv'
<1>1. PICK n : n = NewRefund
  OBVIOUS
<1>2. n \in Refunds /\ refund[n] = NoRow
  BY <1>1, NewRefundIsFree DEF CreateRefund
<1>3. /\ refund' = [refund EXCEPT ![n] = RefundRow(state, scenario)]
      /\ Goto(w, x)
  BY <1>1 DEF CreateRefund
<1>4. refund \in [Refunds -> {NoRow} \cup [state : {"REQUESTED", "APPROVED", "COMPLETED"},
                                          scenario : Scenarios]]
  BY DEF IInv, TypeOK
<1>5. refund'[n] = RefundRow(state, scenario) /\ \A r \in Refunds : r # n => refund'[r] = refund[r]
  BY <1>2, <1>3, <1>4
<1>6. refund'[n] # NoRow /\ refund'[n].scenario = scenario /\ refund'[n].state # "COMPLETED"
  BY <1>5 DEF RefundRow, NoRow
<1>7. n \notin Rows /\ n \in Rows' /\ \A r \in Rows : r # n
  BY <1>2, <1>6 DEF Rows
<1>8. RowsKeep
  BY <1>5, <1>7 DEF RowsKeep, Rows
<1>9. ledger \subseteq ledger' /\ MaturedKeeps
  BY DEF MaturedKeeps, IsMatured
<1>10. Relied(x)'
  BY <1>1, <1>6, <1>7
<1>11. Reliable' /\ worker' \in [Workers -> WorkerStates]
  BY <1>3, <1>8, <1>9, <1>10, ReliableKeeps
<1>12. RefundRow(state, scenario) \in [state : {"REQUESTED", "APPROVED", "COMPLETED"},
                                       scenario : Scenarios]
  BY DEF RefundRow
<1>13. refund' \in [Refunds -> {NoRow} \cup [state : {"REQUESTED", "APPROVED", "COMPLETED"},
                                            scenario : Scenarios]]
  BY <1>2, <1>3, <1>4, <1>12
<1>14. TypeOK'
  BY <1>11, <1>13 DEF IInv, TypeOK
<1>15. UniqueKeys' /\ FollowsApproval'
  BY DEF IInv, UniqueKeys, FollowsApproval, HasApproval, IsMatured
<1>16. KeysNameSubs'
  BY <1>8 DEF IInv, KeysNameSubs, RowsKeep, IsBefore
<1>17. ReversalHasOriginal' /\ ReleaseMatchesApproval'
  BY DEF IInv, ReversalHasOriginal, ReleaseMatchesApproval, Groups
<1>18. RefundSettled'
  BY <1>5, <1>6 DEF IInv, RefundSettled, Groups
<1> QED BY <1>11, <1>14, <1>15, <1>16, <1>17, <1>18 DEF IInv

\* Refunds, row first or ledger first: what a refund row or the bounty says of
\* the ledger has been posted before, and a reversal starts from a snapshot.
LEMMA RefundIInv == ASSUME IInv, NEW w \in Workers, Refund(w) PROVE IInv'
<1> USE DEF At, Starts
<1>t. worker \in [Workers -> WorkerStates] /\ status \in [Subs -> Statuses]
      /\ payout \in [Subs -> [status : PayoutStatuses, paidAt : BOOLEAN]]
      /\ snapshot \in [Subs -> Nets \cup {0}]
      /\ refund \in [Refunds -> {NoRow} \cup [state : {"REQUESTED", "APPROVED", "COMPLETED"},
                                            scenario : Scenarios]]
  BY DEF IInv, TypeOK
<1>i. Idle \in WorkerStates /\ Relied(Idle) /\ Relied(Idle)'
  BY DEF WorkerStates, Relied, Idle
<1>1. CASE requestBeforeApproval(w)
  <2>1. PICK x : x = [at |-> "requestRefund"]
    OBVIOUS
  <2>2. x \in WorkerStates /\ Relied(x)
    BY <2>1 DEF WorkerStates, Relied
  <2>3. Goto(w, x) /\ UNCHANGED <<status, snapshot, payout, refund, payment, ledger, matured>>
    BY <1>1, <2>1 DEF requestBeforeApproval
  <2> QED BY <2>2, <2>3, <1>t, MoveIInv
<1>2. CASE RequestRefund(w)
  <2>1. /\ CreateRefund(w, "REQUESTED", "BEFORE_APPROVAL", Idle)
        /\ UNCHANGED <<status, snapshot, payout, payment, ledger, matured>>
    BY <1>2 DEF RequestRefund
  <2> QED BY <2>1, <1>i, CreateIInv DEF Scenarios
<1>3. ASSUME NEW r \in Refunds, approveBeforeApproval(w, r) PROVE IInv'
  <2>1. PICK x : x = [at |-> "refundPost", refund |-> r, sub |-> NoRef, net |-> 0]
    OBVIOUS
  <2>2. x \in WorkerStates
    BY <2>1 DEF WorkerStates
  <2>3. refund[r] = RefundRow("REQUESTED", "BEFORE_APPROVAL")
    BY <1>3 DEF approveBeforeApproval
  <2>4. r \in Rows /\ IsBefore(r)
    BY <2>3 DEF Rows, IsBefore, RefundRow, NoRow
  <2>5. Relied(x)
    BY <2>1, <2>4 DEF Relied
  <2>6. Goto(w, x) /\ UNCHANGED <<status, snapshot, payout, refund, payment, ledger, matured>>
    BY <1>3, <2>1 DEF approveBeforeApproval, AfterRefundRead
  <2> QED BY <2>2, <2>5, <2>6, <1>t, MoveIInv
<1>4. ASSUME NEW s \in Subs, requestAfterApproval(w, s) \/ requestAfterPayout(w, s) PROVE IInv'
  <2>1. PICK scenario \in {"AFTER_APPROVAL", "AFTER_PAYOUT"} :
            Goto(w, [at |-> "createReversal", sub |-> s, net |-> snapshot[s], scenario |-> scenario])
    BY <1>4 DEF requestAfterApproval, requestAfterPayout
  <2>2. PICK x : x = [at |-> "createReversal", sub |-> s, net |-> snapshot[s], scenario |-> scenario]
    OBVIOUS
  <2>3. snapshot[s] # 0
    BY <1>4 DEF requestAfterApproval, requestAfterPayout, HasSnapshot
  <2>4. snapshot[s] \in Nets
    BY <2>3, <1>t
  <2>5. x \in WorkerStates
    BY <2>2, <2>4 DEF WorkerStates, Scenarios
  <2>6. HasApproval(s)
    BY <2>3 DEF IInv, FollowsApproval
  <2>7. Relied(x)
    BY <2>2, <2>6 DEF Relied
  <2>8. UNCHANGED <<status, snapshot, payout, refund, payment, ledger, matured>>
    BY <1>4 DEF requestAfterApproval, requestAfterPayout
  <2> QED BY <2>1, <2>2, <2>5, <2>7, <2>8, <1>t, MoveIInv
<1>5. CASE CreateReversal(w)
  <2>1. /\ worker[w].at = "createReversal"
        /\ worker[w].sub \in Subs
        /\ worker[w].net \in Nets
        /\ worker[w].scenario \in Scenarios
    BY <1>5, <1>t, Fields DEF CreateReversal
  <2>2. HasApproval(worker[w].sub) /\ worker[w].scenario # "BEFORE_APPROVAL"
    BY <2>1 DEF IInv, Reliable, Relied
  <2>3. PICK x : x = [at |-> "refundPost", refund |-> NewRefund,
                      sub |-> worker[w].sub, net |-> worker[w].net]
    OBVIOUS
  <2>4. PICK scenario \in Scenarios : scenario = worker[w].scenario
    BY <2>1
  <2>5. /\ CreateRefund(w, "APPROVED", scenario, x)
        /\ UNCHANGED <<status, snapshot, payout, payment, ledger, matured>>
    BY <1>5, <2>3, <2>4 DEF CreateReversal
  <2>6. NewRefund \in Refunds
    BY <2>5, NewRefundIsFree DEF CreateRefund
  <2>7. x \in WorkerStates
    BY <2>1, <2>3, <2>6 DEF WorkerStates
  <2>8. HasApproval(x.sub)'
    BY <2>2, <2>3, <2>5 DEF HasApproval
  <2>9. x.sub # NoRef /\ x.refund = NewRefund /\ x.at = "refundPost"
    BY <2>1, <2>3, EscrowAssumption
  <2>10. ASSUME NewRefund \in Rows', refund'[NewRefund].scenario = scenario
         PROVE  Relied(x)'
    <3>1. x.refund \in Rows' /\ ~IsBefore(x.refund)'
      BY <2>2, <2>4, <2>9, <2>10 DEF IsBefore
    <3> QED BY <2>8, <2>9, <3>1 DEF Relied
  <2> QED BY <2>5, <2>7, <2>10, CreateIInv
<1>6. CASE RefundPost(w)
  <2>1. PICK y \in WorkerStates : y = worker[w]
    BY <1>t
  <2>2. y.at = "refundPost" /\ Relied(y)
    BY <1>6, <2>1 DEF RefundPost, IInv, Reliable
  <2>3. y.refund \in Refunds /\ y.sub \in Subs \cup {NoRef} /\ y.net \in Nets \cup {0}
    BY <2>2, Fields
  <2>4. PICK g : g = Group("refunded", y.refund, y.sub, y.net)
    OBVIOUS
  <2>5. PICK x : x = [y EXCEPT !.at = IF y.sub = NoRef THEN "markRefunded" ELSE "completeRefund"]
    OBVIOUS
  <2>6. y \in [at : {"refundPost", "markRefunded", "completeRefund"},
               refund : Refunds, sub : Subs \cup {NoRef}, net : Nets \cup {0}]
    BY <2>2 DEF WorkerStates, Idle
  <2>7. /\ x \in [at : {"refundPost", "markRefunded", "completeRefund"},
                  refund : Refunds, sub : Subs \cup {NoRef}, net : Nets \cup {0}]
        /\ x.at = IF y.sub = NoRef THEN "markRefunded" ELSE "completeRefund"
        /\ x.refund = y.refund
        /\ x.sub = y.sub
    BY <2>5, <2>6
  <2>8. x \in WorkerStates
    BY <2>7 DEF WorkerStates
  <2>9. /\ postTransactionGroup(g)
        /\ Goto(w, x)
        /\ UNCHANGED <<status, snapshot, payout, refund, payment, matured>>
    BY <1>6, <2>1, <2>4, <2>5 DEF RefundPost
  <2>10. g \in GroupType /\ Justified(g)
    BY <2>2, <2>3, <2>4 DEF Group, GroupType, Actions, Justified, Relied
  <2>11. RefundPosted(x.refund)'
    <3>1. \E h \in ledger' : h.action = g.action /\ h.ref = g.ref
      BY <2>9, LedgerGrows
    <3> QED BY <2>4, <2>7, <3>1 DEF Group, RefundPosted
  <2>12. Relied(y)'
    <3>1. ledger \subseteq ledger'
      BY <2>9, LedgerGrows
    <3>2. RowsKeep /\ MaturedKeeps
      BY <2>9 DEF RowsKeep, MaturedKeeps, Rows, IsMatured
    <3> QED BY <2>2, <3>1, <3>2, RelianceKeeps
  <2>13. Relied(x)'
    BY <2>2, <2>7, <2>11, <2>12 DEF Relied
  <2> QED BY <2>8, <2>9, <2>10, <2>13, PostIInv
<1>7. CASE MarkRefunded(w)
  <2>1. PICK y \in WorkerStates : y = worker[w]
    BY <1>t
  <2>2. y.at = "markRefunded" /\ Relied(y)
    BY <1>7, <2>1 DEF MarkRefunded, IInv, Reliable
  <2>3. PICK x : x = [y EXCEPT !.at = "completeRefund"]
    OBVIOUS
  <2>4. y \in [at : {"refundPost", "markRefunded", "completeRefund"},
               refund : Refunds, sub : Subs \cup {NoRef}, net : Nets \cup {0}]
    BY <2>2 DEF WorkerStates, Idle
  <2>5. /\ x \in [at : {"refundPost", "markRefunded", "completeRefund"},
                  refund : Refunds, sub : Subs \cup {NoRef}, net : Nets \cup {0}]
        /\ x.at = "completeRefund"
        /\ x.refund = y.refund
        /\ x.sub = y.sub
    BY <2>3, <2>4
  <2>6. x \in WorkerStates
    BY <2>5 DEF WorkerStates
  <2>7. /\ payment' = "REFUNDED"
        /\ Goto(w, x)
        /\ UNCHANGED <<status, snapshot, payout, refund, ledger, matured>>
    BY <1>7, <2>1, <2>3 DEF MarkRefunded
  <2>8. ledger \subseteq ledger' /\ RowsKeep /\ MaturedKeeps
    BY <2>7 DEF RowsKeep, MaturedKeeps, Rows, IsMatured
  <2>9. Relied(x)
    BY <2>2, <2>5 DEF Relied
  <2>10. Reliable' /\ worker' \in [Workers -> WorkerStates]
    BY <2>6, <2>7, <2>8, <2>9, RelianceKeeps, ReliableKeeps
  <2>11. TypeOK'
    BY <2>7, <2>10 DEF IInv, TypeOK
  <2>12. UniqueKeys' /\ KeysNameSubs' /\ FollowsApproval'
    BY <2>7 DEF IInv, UniqueKeys, KeysNameSubs, FollowsApproval, Rows, IsBefore, IsMatured, HasApproval
  <2>13. \E g \in Groups("refunded") : g.sub = NoRef
    <3>1. PICK g \in ledger : g.action = "refunded" /\ g.ref = y.refund
      BY <2>2 DEF Relied, RefundPosted
    <3>2. IsBefore(y.refund)
      BY <2>2 DEF Relied
    <3>3. g.sub = NoRef
      BY <3>1, <3>2 DEF IInv, KeysNameSubs
    <3> QED BY <3>1, <3>3 DEF Groups
  <2>14. RefundSettled'
    BY <2>7, <2>13 DEF IInv, RefundSettled, Groups
  <2>15. ReversalHasOriginal' /\ ReleaseMatchesApproval'
    BY <2>7 DEF IInv, ReversalHasOriginal, ReleaseMatchesApproval, Groups
  <2> QED BY <2>10, <2>11, <2>12, <2>14, <2>15 DEF IInv
<1>8. CASE CompleteRefund(w)
  <2>1. PICK y \in WorkerStates : y = worker[w]
    BY <1>t
  <2>2. y.at = "completeRefund" /\ Relied(y)
    BY <1>8, <2>1 DEF CompleteRefund, IInv, Reliable
  <2>3. PICK r \in Refunds : r = y.refund /\ r \in Rows /\ RefundPosted(r)
    BY <2>2, Fields DEF Relied
  <2>4. /\ refund' = [refund EXCEPT ![r].state = "COMPLETED"]
        /\ Goto(w, Idle)
        /\ UNCHANGED <<status, snapshot, payout, payment, ledger, matured>>
    BY <1>8, <2>1, <2>3 DEF CompleteRefund
  <2>5. refund[r] \in [state : {"REQUESTED", "APPROVED", "COMPLETED"}, scenario : Scenarios]
    BY <2>3, <1>t DEF Rows
  <2>6. /\ refund'[r] \in [state : {"REQUESTED", "APPROVED", "COMPLETED"}, scenario : Scenarios]
        /\ refund'[r].state = "COMPLETED"
        /\ refund'[r].scenario = refund[r].scenario
        /\ \A q \in Refunds : q # r => refund'[q] = refund[q]
    BY <2>3, <2>4, <2>5, <1>t
  <2>7. refund' \in [Refunds -> {NoRow} \cup [state : {"REQUESTED", "APPROVED", "COMPLETED"},
                                             scenario : Scenarios]]
    BY <2>3, <2>4, <2>5, <1>t
  <2>8. RowsKeep
    <3>1. refund'[r] # NoRow
      BY <2>6 DEF NoRow
    <3> QED BY <2>6, <3>1 DEF RowsKeep, Rows
  <2>9. ledger \subseteq ledger' /\ MaturedKeeps
    BY <2>4 DEF MaturedKeeps, IsMatured
  <2>10. Reliable' /\ worker' \in [Workers -> WorkerStates]
    BY <2>4, <2>8, <2>9, <1>i, ReliableKeeps
  <2>11. TypeOK'
    BY <2>4, <2>7, <2>10 DEF IInv, TypeOK
  <2>12. UniqueKeys' /\ FollowsApproval'
    BY <2>4 DEF IInv, UniqueKeys, FollowsApproval, HasApproval, IsMatured
  <2>13. KeysNameSubs'
    BY <2>4, <2>8 DEF IInv, KeysNameSubs, RowsKeep, IsBefore
  <2>14. ReversalHasOriginal' /\ ReleaseMatchesApproval'
    BY <2>4 DEF IInv, ReversalHasOriginal, ReleaseMatchesApproval, Groups
  <2>15. RefundSettled'
    BY <2>3, <2>4, <2>6 DEF IInv, RefundSettled, Groups, RefundPosted
  <2> QED BY <2>10, <2>11, <2>12, <2>13, <2>14, <2>15 DEF IInv
<1> QED BY <1>1, <1>2, <1>3, <1>4, <1>5, <1>6, <1>7, <1>8 DEF Refund

-----------------------------------------------------------------------------
\* The first batch consists of matured entries.
LEMMA CandidatesMatured ==
    ASSUME TypeOK, Candidates # <<>>
    PROVE  /\ Candidates \in Seq(Subs)
           /\ \A i \in DOMAIN Candidates : IsMatured(Candidates[i])
<1>1. matured \in Seq(Subs) /\ Len(matured) \in Nat
  BY DEF TypeOK
<1>2. PICK n : n = IF Batch < Len(matured) THEN Batch ELSE Len(matured)
  OBVIOUS
<1>3. n \in 0 .. Len(matured)
  BY <1>1, <1>2, EscrowAssumption
<1>4. \A i \in 1 .. n : matured[i] \in Subs
  BY <1>1, <1>3
<1>5. /\ SubSeq(matured, 1, n) \in Seq(Subs)
      /\ Len(SubSeq(matured, 1, n)) = IF 1 <= n THEN n - 1 + 1 ELSE 0
      /\ \A i \in 1 .. n - 1 + 1 : SubSeq(matured, 1, n)[i] = matured[1 + i - 1]
  BY <1>3, <1>4, SubSeqProperties
<1>6. Candidates = SubSeq(matured, 1, n)
  BY <1>2 DEF Candidates
<1>7. ASSUME NEW i \in DOMAIN Candidates PROVE IsMatured(Candidates[i])
  <2>1. i \in 1 .. n
    BY <1>3, <1>5, <1>6, <1>7
  <2>2. Candidates[i] = matured[i] /\ i \in DOMAIN matured
    BY <1>1, <1>3, <1>5, <1>6, <2>1
  <2> QED BY <2>2 DEF IsMatured
<1> QED BY <1>5, <1>6, <1>7

\* Where the loop goes on with, it has matured entries left.
LEMMA NextIsReliable ==
    ASSUME IInv, NEW w \in Workers, At(w, "clear"), NextCandidate(w)
    PROVE  \E x \in WorkerStates : Goto(w, x) /\ Relied(x)
<1>1. PICK y \in WorkerStates : y = worker[w]
  BY DEF IInv, TypeOK
<1>2. y.at = "clear" /\ Relied(y)
  BY <1>1 DEF At, IInv, Reliable
<1>3. y.batch \in Seq(Subs) /\ y.batch # <<>>
  BY <1>2, Fields
<1>4. CASE Len(y.batch) = 1
  <2>1. Goto(w, Idle)
    BY <1>1, <1>4 DEF NextCandidate
  <2> QED BY <2>1 DEF WorkerStates, Relied, Idle
<1>5. CASE Len(y.batch) # 1
  <2>1. PICK x : x = [at |-> "clear", batch |-> Tail(y.batch)]
    OBVIOUS
  <2>2. Goto(w, x)
    BY <1>1, <1>5, <2>1 DEF NextCandidate
  <2>3. /\ Tail(y.batch) \in Seq(Subs)
        /\ Len(Tail(y.batch)) = Len(y.batch) - 1
        /\ \A i \in 1 .. Len(Tail(y.batch)) : Tail(y.batch)[i] = y.batch[i + 1]
    BY <1>3, HeadTailProperties
  <2>4. Len(y.batch) \in Nat /\ Len(y.batch) > 1
    <3>1. Len(y.batch) \in Nat \ {0}
      BY <1>3, EmptySeq
    <3>2. PICK n \in Nat \ {0} : n = Len(y.batch)
      BY <3>1
    <3>3. n # 1
      BY <1>5, <3>2
    <3>4. n > 1
      BY <3>3
    <3> QED BY <3>2, <3>4
  <2>5. Tail(y.batch) # <<>>
    <3>1. Len(Tail(y.batch)) # 0
      <4>1. PICK n \in Nat : n = Len(y.batch) /\ n > 1
        BY <2>4
      <4>2. Len(Tail(y.batch)) = n - 1
        BY <2>3, <4>1
      <4>3. \A m \in Nat : m > 1 => m - 1 # 0
        OBVIOUS
      <4> QED BY <4>1, <4>2, <4>3
    <3> QED BY <3>1, EmptySeq
  <2>6. x \in WorkerStates
    BY <2>1, <2>3, <2>5 DEF WorkerStates
  <2>7. \A i \in DOMAIN Tail(y.batch) : i + 1 \in DOMAIN y.batch /\ Tail(y.batch)[i] = y.batch[i + 1]
    BY <1>3, <2>3, <2>4
  <2>8. \A i \in DOMAIN Tail(y.batch) : IsMatured(Tail(y.batch)[i])
    BY <1>2, <2>7 DEF Relied
  <2>9. Relied(x)
    BY <2>1, <2>8 DEF Relied
  <2> QED BY <2>2, <2>6, <2>9
<1> QED BY <1>4, <1>5

\* What a release takes from the entry is what an approval put there.
LEMMA AmountOfApproval ==
    ASSUME NEW s, HasApproval(s)
    PROVE  \E h \in Groups("approved") : h.sub = s /\ h.net = EntryAmount(s)
BY DEF HasApproval, Groups, EntryAmount

\* The clearance job: a batch holds matured entries only, and each of them has
\* the approval whose amount is released.
LEMMA ClearIInv == ASSUME IInv, NEW w \in Workers, Clear(w) PROVE IInv'
<1>t. status \in [Subs -> Statuses]
      /\ payout \in [Subs -> [status : PayoutStatuses, paidAt : BOOLEAN]]
  BY DEF IInv, TypeOK
<1>1. CASE clearanceRelease(w)
  <2>1. PICK x : x = [at |-> "clear", batch |-> Candidates]
    OBVIOUS
  <2>2. /\ Candidates # <<>>
        /\ Goto(w, x)
        /\ UNCHANGED <<status, snapshot, payout, refund, payment, ledger, matured>>
    BY <1>1, <2>1 DEF clearanceRelease
  <2>3. Candidates \in Seq(Subs) /\ \A i \in DOMAIN Candidates : IsMatured(Candidates[i])
    BY <2>2, CandidatesMatured DEF IInv
  <2>4. x \in WorkerStates
    BY <2>1, <2>2, <2>3 DEF WorkerStates
  <2>5. Relied(x)
    BY <2>1, <2>3 DEF Relied
  <2> QED BY <2>2, <2>4, <2>5, <1>t, MoveIInv
<1>2. ASSUME NEW s \in Subs, ReleaseEntry(w, s) PROVE IInv'
  <2>1. /\ At(w, "clear")
        /\ NextCandidate(w)
        /\ postTransactionGroup(Group("cleared", s, s, EntryAmount(s)))
        /\ UNCHANGED <<status, snapshot, payout, refund, payment, matured>>
        /\ Head(worker[w].batch) = s
    BY <1>2 DEF ReleaseEntry, ReleaseKey
  <2>2. PICK x \in WorkerStates : Goto(w, x) /\ Relied(x)
    BY <2>1, NextIsReliable
  <2>3. PICK g : g = Group("cleared", s, s, EntryAmount(s))
    OBVIOUS
  <2>4. IsMatured(s)
    <3>1. PICK y \in WorkerStates : y = worker[w]
      BY DEF IInv, TypeOK
    <3>2. y.at = "clear" /\ Relied(y)
      BY <2>1, <3>1 DEF At, IInv, Reliable
    <3>3. y.batch \in Seq(Subs) /\ y.batch # <<>>
      BY <3>2, Fields
    <3>4. 1 \in DOMAIN y.batch /\ y.batch[1] = s
      BY <2>1, <3>1, <3>3
    <3> QED BY <3>2, <3>4 DEF Relied
  <2>5. PICK h \in Groups("approved") : h.sub = s /\ h.net = EntryAmount(s)
    BY <2>4, AmountOfApproval DEF IInv, FollowsApproval
  <2>6. EntryAmount(s) \in Nets \cup {0}
    BY <2>5 DEF Groups, IInv, TypeOK
  <2>7. g \in GroupType
    BY <2>3, <2>6 DEF Group, GroupType, Actions
  <2>8. Justified(g)
    BY <2>3, <2>4, <2>5 DEF Group, Justified
  <2>9. ledger \subseteq ledger'
    BY <2>1, <2>3, LedgerGrows
  <2>10. RowsKeep /\ MaturedKeeps
    BY <2>1 DEF RowsKeep, MaturedKeeps, Rows, IsMatured
  <2>11. Relied(x)'
    BY <2>2, <2>9, <2>10, RelianceKeeps
  <2> QED BY <2>1, <2>2, <2>3, <2>7, <2>8, <2>11, PostIInv
<1>3. CASE ReleaseFails(w)
  <2>1. /\ At(w, "clear")
        /\ NextCandidate(w)
        /\ UNCHANGED <<status, snapshot, payout, refund, payment, ledger, matured>>
    BY <1>3 DEF ReleaseFails
  <2>2. PICK x \in WorkerStates : Goto(w, x) /\ Relied(x)
    BY <2>1, NextIsReliable
  <2> QED BY <2>1, <2>2, <1>t, MoveIInv
<1> QED BY <1>1, <1>2, <1>3 DEF Clear

\* The expired-bounty job posts under a key of its own.
LEMMA ExpireIInv == ASSUME IInv, NEW w \in Workers, Expire(w) PROVE IInv'
<1>t. status \in [Subs -> Statuses]
      /\ payout \in [Subs -> [status : PayoutStatuses, paidAt : BOOLEAN]]
  BY DEF IInv, TypeOK
<1>1. CASE expiredRelease(w)
  <2>1. PICK x : x = [at |-> "expirePost"]
    OBVIOUS
  <2>2. x \in WorkerStates /\ Relied(x)
    BY <2>1 DEF WorkerStates, Relied
  <2>3. Goto(w, x) /\ UNCHANGED <<status, snapshot, payout, refund, payment, ledger, matured>>
    BY <1>1, <2>1 DEF expiredRelease
  <2> QED BY <2>2, <2>3, <1>t, MoveIInv
<1>2. CASE ExpirePost(w)
  <2>1. PICK g : g = Group("expired", NoRef, NoRef, 0)
    OBVIOUS
  <2>2. g \in GroupType /\ Justified(g)
    BY <2>1 DEF Group, GroupType, Actions, Justified
  <2>3. /\ postTransactionGroup(g)
        /\ Goto(w, Idle)
        /\ UNCHANGED <<status, snapshot, payout, refund, payment, matured>>
    BY <1>2, <2>1 DEF ExpirePost
  <2>4. Idle \in WorkerStates /\ Relied(Idle)'
    BY DEF WorkerStates, Relied, Idle
  <2> QED BY <2>2, <2>3, <2>4, PostIInv
<1> QED BY <1>1, <1>2 DEF Expire

\* A handler that is cut off leaves what it has posted and written.
LEMMA AbortIInv == ASSUME IInv, NEW w \in Workers, Abort(w) PROVE IInv'
<1>1. status \in [Subs -> Statuses]
      /\ payout \in [Subs -> [status : PayoutStatuses, paidAt : BOOLEAN]]
  BY DEF IInv, TypeOK
<1>2. Idle \in WorkerStates /\ Relied(Idle)
  BY DEF WorkerStates, Relied, Idle
<1>3. Goto(w, Idle) /\ UNCHANGED <<status, snapshot, payout, refund, payment, ledger, matured>>
  BY DEF Abort
<1> QED BY <1>1, <1>2, <1>3, MoveIInv

\* Time passes: an entry of a posted approval matures.
LEMMA MatureIInv == ASSUME IInv, NEW s \in Subs, Mature(s) PROVE IInv'
<1>1. /\ matured' = Append(matured, s)
      /\ UNCHANGED <<status, snapshot, payout, refund, payment, ledger, worker>>
      /\ HasApproval(s)
  BY DEF Mature, Groups, HasApproval
<1>2. matured \in Seq(Subs) /\ Len(matured) \in Nat
  BY DEF IInv, TypeOK
<1>3. /\ matured' \in Seq(Subs)
      /\ Len(matured') = Len(matured) + 1
      /\ \A i \in 1 .. Len(matured) : matured'[i] = matured[i]
      /\ matured'[Len(matured) + 1] = s
  BY <1>1, <1>2, AppendProperties
<1>4. \A i \in DOMAIN matured : i \in DOMAIN matured' /\ matured'[i] = matured[i]
  BY <1>2, <1>3
<1>5. \A i \in DOMAIN matured' : matured'[i] = s \/ (i \in DOMAIN matured /\ matured'[i] = matured[i])
  BY <1>2, <1>3
<1>6. \A t : IsMatured(t) => IsMatured(t)'
  BY <1>4 DEF IsMatured
<1>7. \A t : IsMatured(t)' => (IsMatured(t) \/ t = s)
  BY <1>5 DEF IsMatured
<1>8. TypeOK'
  BY <1>1, <1>3 DEF IInv, TypeOK
<1>9. UniqueKeys' /\ KeysNameSubs'
  BY <1>1 DEF IInv, UniqueKeys, KeysNameSubs, Rows, IsBefore
<1>10. FollowsApproval'
  BY <1>1, <1>7 DEF IInv, FollowsApproval, HasApproval
<1>11. Reliable'
  <2>1. ledger \subseteq ledger' /\ RowsKeep /\ MaturedKeeps
    BY <1>1, <1>6 DEF RowsKeep, MaturedKeeps, Rows
  <2>2. ASSUME NEW u \in Workers PROVE Relied(worker[u])'
    <3>1. PICK y \in WorkerStates : y = worker[u]
      BY DEF IInv, TypeOK
    <3>2. Relied(y)
      BY <3>1 DEF IInv, Reliable
    <3>3. Relied(y)'
      BY <2>1, <3>2, RelianceKeeps
    <3>4. worker'[u] = y
      BY <1>1, <3>1
    <3> QED BY <3>3, <3>4
  <2> QED BY <2>2 DEF Reliable
<1>12. ReversalHasOriginal' /\ RefundSettled'
  BY <1>1 DEF IInv, ReversalHasOriginal, RefundSettled, Groups
<1>13. ReleaseMatchesApproval'
  BY <1>1, <1>4 DEF IInv, ReleaseMatchesApproval, Groups
<1> QED BY <1>8, <1>9, <1>10, <1>11, <1>12, <1>13 DEF IInv

\* Decisions and auto-payouts write two columns of one submission, on which no
\* group, no refund row and no reliance depends.
LEMMA DecreeIInv ==
    ASSUME IInv, (\E s \in Subs : Decree(s)) \/ UNCHANGED vars
    PROVE  IInv'
<1> DEFINE Goal == /\ status' \in [Subs -> Statuses]
                   /\ payout' \in [Subs -> [status : PayoutStatuses, paidAt : BOOLEAN]]
                   /\ UNCHANGED <<snapshot, refund, payment, ledger, matured, worker>>
<1>1. Goal
  <2>1. /\ status \in [Subs -> Statuses]
        /\ payout \in [Subs -> [status : PayoutStatuses, paidAt : BOOLEAN]]
    BY DEF IInv, TypeOK
  <2>2. ASSUME NEW s \in Subs, resolve(s) PROVE Goal
    <3>1. status' \in [Subs -> Statuses]
      BY <2>1, <2>2 DEF resolve, Statuses
    <3>2. payout' \in [Subs -> [status : PayoutStatuses, paidAt : BOOLEAN]]
      BY <2>1, <2>2 DEF resolve, PayoutStatuses
    <3> QED BY <2>2, <3>1, <3>2 DEF resolve
  <2>3. ASSUME NEW s \in Subs, NEW to \in Statuses, overrideSubmission(s, to) PROVE Goal
    BY <2>1, <2>3 DEF overrideSubmission
  <2>4. ASSUME NEW s \in Subs, processExpiredDeadlines(s) PROVE Goal
    BY <2>1, <2>4 DEF processExpiredDeadlines, PayoutStatuses
  <2> QED BY <2>1, <2>2, <2>3, <2>4 DEF Decree, vars
<1>2. TypeOK'
  BY <1>1 DEF IInv, TypeOK
<1>3. UniqueKeys' /\ KeysNameSubs' /\ FollowsApproval'
  BY <1>1 DEF IInv, UniqueKeys, KeysNameSubs, FollowsApproval, Rows, IsBefore, IsMatured, HasApproval
<1>4. Reliable'
  BY <1>1 DEF IInv, Reliable, Relied, Rows, IsBefore, IsMatured, HasApproval, RefundPosted
<1>5. ReversalHasOriginal' /\ ReleaseMatchesApproval' /\ RefundSettled'
  BY <1>1 DEF IInv, ReversalHasOriginal, ReleaseMatchesApproval, RefundSettled, Groups
<1> QED BY <1>2, <1>3, <1>4, <1>5 DEF IInv

\* Every step preserves the inductive invariant.
LEMMA NextIInv == IInv /\ [Next]_vars => IInv'
<1> SUFFICES ASSUME IInv, [Next]_vars PROVE IInv'
  OBVIOUS
<1>1. CASE (\E s \in Subs : Decree(s)) \/ UNCHANGED vars
  BY <1>1, DecreeIInv
<1>2. ASSUME NEW s \in Subs, Mature(s) PROVE IInv'
  BY <1>2, MatureIInv
<1>3. ASSUME NEW w \in Workers, Review(w) PROVE IInv'
  BY <1>3, ReviewIInv
<1>4. ASSUME NEW w \in Workers, Payout(w) PROVE IInv'
  BY <1>4, PayoutIInv
<1>5. ASSUME NEW w \in Workers, Refund(w) PROVE IInv'
  BY <1>5, RefundIInv
<1>6. ASSUME NEW w \in Workers, Clear(w) PROVE IInv'
  BY <1>6, ClearIInv
<1>7. ASSUME NEW w \in Workers, Expire(w) PROVE IInv'
  BY <1>7, ExpireIInv
<1>8. ASSUME NEW w \in Workers, Abort(w) PROVE IInv'
  BY <1>8, AbortIInv
<1> QED BY <1>1, <1>2, <1>3, <1>4, <1>5, <1>6, <1>7, <1>8 DEF Next

\* The inductive invariant holds in every reachable state.
LEMMA InductiveInvariant == Spec => []IInv
BY InitIInv, NextIInv, PTL DEF Spec

\* The variables keep their types.
THEOREM TypeCorrect == Spec => []TypeOK
BY InductiveInvariant, PTL DEF IInv

\* A refund reverses only what an approval has posted: requestAfterApproval and
\* requestAfterPayout read a snapshot, and postApproval writes it after posting.
THEOREM ReversalsHaveOriginals == Spec => []ReversalHasOriginal
BY InductiveInvariant, PTL DEF IInv

\* releaseEligible makes available just what the approval owes, although the
\* snapshot on the submission may differ from it.
THEOREM ReleasesMatch == Spec => []ReleaseMatchesApproval
BY InductiveInvariant, PTL DEF IInv

\* Every refund handler posts before it writes COMPLETED or REFUNDED, and keys
\* its posting by a row of its own.
THEOREM RefundsAreSettled == Spec => []RefundSettled
BY InductiveInvariant, PTL DEF IInv

\* The (referenceId, actionType) keys that postApproval, releaseEligible and the
\* refunds choose let each event through once, whoever retries or overlaps.
THEOREM EventsPostedOnce == Spec => []EachEventPostedOnce
<1>1. IInv => EachEventPostedOnce
  <2> SUFFICES ASSUME IInv PROVE EachEventPostedOnce
    OBVIOUS
  <2>1. \A g, h \in ledger : g.action = h.action /\ g.ref = h.ref => g = h
    BY DEF IInv, UniqueKeys
  <2>2. \A g \in ledger : g.action \in {"approved", "cleared"} => g.ref = g.sub
    BY DEF IInv, KeysNameSubs
  <2> QED BY <2>1, <2>2 DEF EachEventPostedOnce, Groups
<1> QED BY <1>1, InductiveInvariant, PTL

-----------------------------------------------------------------------------
(* The refinement of HunterEarnings, which sees nothing but the ledger.       *)

\* A step leaves the ledger alone or adds one group; only postApproval adds an
\* approval, with a submission and an amount a hunter can have.
MayEarn(g) == g.action = "approved" => g.sub \in Subs /\ g.net \in Nets
LEMMA LedgerSteps ==
    ASSUME IInv, [Next]_vars
    PROVE  \/ UNCHANGED ledger
           \/ \E g : g \notin ledger /\ ledger' = ledger \cup {g} /\ MayEarn(g)
<1> DEFINE Goal == \/ UNCHANGED ledger
                   \/ \E g : g \notin ledger /\ ledger' = ledger \cup {g} /\ MayEarn(g)
<1> USE DEF At, Starts
<1>p. ASSUME NEW g, postTransactionGroup(g), MayEarn(g) PROVE Goal
  BY <1>p DEF postTransactionGroup
<1>1. ASSUME NEW w \in Workers, ApprovalPost(w) PROVE Goal
  <2>1. worker[w].sub \in Subs /\ worker[w].net \in Nets
    BY <1>1, Fields DEF ApprovalPost, IInv, TypeOK
  <2>2. PICK g : g = Group("approved", worker[w].sub, worker[w].sub, worker[w].net)
    OBVIOUS
  <2>3. postTransactionGroup(g)
    BY <1>1, <2>2 DEF ApprovalPost, ApprovalKey
  <2> QED BY <2>1, <2>2, <2>3, <1>p DEF MayEarn, Group
<1>2. ASSUME NEW w \in Workers, RefundPost(w) PROVE Goal
  <2>1. PICK g : g = Group("refunded", worker[w].refund, worker[w].sub, worker[w].net)
    OBVIOUS
  <2>2. postTransactionGroup(g)
    BY <1>2, <2>1 DEF RefundPost
  <2> QED BY <2>1, <2>2, <1>p DEF MayEarn, Group
<1>3. ASSUME NEW w \in Workers, NEW s \in Subs, ReleaseEntry(w, s) PROVE Goal
  <2>1. PICK g : g = Group("cleared", s, s, EntryAmount(s))
    OBVIOUS
  <2>2. postTransactionGroup(g)
    BY <1>3, <2>1 DEF ReleaseEntry, ReleaseKey
  <2> QED BY <2>1, <2>2, <1>p DEF MayEarn, Group
<1>4. ASSUME NEW w \in Workers, ExpirePost(w) PROVE Goal
  <2>1. PICK g : g = Group("expired", NoRef, NoRef, 0)
    OBVIOUS
  <2>2. postTransactionGroup(g)
    BY <1>4, <2>1 DEF ExpirePost
  <2> QED BY <2>1, <2>2, <1>p DEF MayEarn, Group
<1>5. ASSUME NEW w \in Workers, Review(w) PROVE Goal
  BY <1>1, <1>5 DEF Review, updateSubmission, review, ReviewUpdate, ApprovalRead, ApprovalSnapshot
<1>6. ASSUME NEW w \in Workers, Payout(w) PROVE Goal
  BY <1>6 DEF Payout, updatePayout, PayoutUpdate, PayoutRow
<1>7. ASSUME NEW w \in Workers, Refund(w) PROVE Goal
  BY <1>2, <1>7
     DEF Refund, requestBeforeApproval, RequestRefund, approveBeforeApproval, requestAfterApproval,
         requestAfterPayout, CreateReversal, MarkRefunded, CompleteRefund
<1>8. ASSUME NEW w \in Workers, Clear(w) PROVE Goal
  BY <1>3, <1>8 DEF Clear, clearanceRelease, ReleaseFails
<1>9. ASSUME NEW w \in Workers, Expire(w) PROVE Goal
  BY <1>4, <1>9 DEF Expire, expiredRelease
<1>10. ASSUME NEW w \in Workers, Abort(w) PROVE Goal
  BY <1>10 DEF Abort
<1>11. ASSUME NEW s \in Subs, Mature(s) PROVE Goal
  BY <1>11 DEF Mature
<1>12. CASE (\E s \in Subs : Decree(s)) \/ UNCHANGED vars
  BY <1>12 DEF Decree, resolve, overrideSubmission, processExpiredDeadlines, vars
<1> QED BY <1>5, <1>6, <1>7, <1>8, <1>9, <1>10, <1>11, <1>12 DEF Next

\* A new group is, by its action, one of the three steps of the promise: its key
\* was free, and what an invariant asks of it was in the ledger before.
LEMMA NewGroupRefines ==
    ASSUME IInv, IInv', NEW g, g \notin ledger, ledger' = ledger \cup {g}, MayEarn(g)
    PROVE  [Promise!Next]_Promise!vars
<1>1. g \in ledger' /\ g.action \in Actions /\ g.sub \in Subs \cup {NoRef}
  BY DEF IInv, TypeOK
<1>2. \A h \in ledger : ~(h.action = g.action /\ h.ref = g.ref)
  BY <1>1 DEF IInv, UniqueKeys
<1>3. \A h \in ledger' : h.action \in {"approved", "cleared"} => h.ref = h.sub
  BY DEF IInv, KeysNameSubs
<1>4. \A h \in ledger : h.action \in {"approved", "cleared"} /\ h.action = g.action => h.sub # g.sub
  BY <1>1, <1>2, <1>3
<1> DEFINE Earned == {<<h.sub, h.net>> : h \in Groups("approved")}
           Available == {<<h.sub, h.net>> : h \in Groups("cleared")}
           Undone == {<<h.ref, h.sub>> : h \in Groups("refunded") \ {h \in ledger : h.sub = NoRef}}
<1>5. /\ g.action # "approved" => Earned' = Earned
      /\ g.action # "cleared" => Available' = Available
      /\ g.action # "refunded" \/ g.sub = NoRef => Undone' = Undone
  BY DEF Groups
<1>6. CASE g.action = "approved"
  <2>1. Earned' = Earned \cup {<<g.sub, g.net>>}
    BY <1>6 DEF Groups
  <2>2. \A e \in Earned : e[1] # g.sub
    BY <1>4, <1>6 DEF Groups
  <2>3. g.sub \in Subs /\ g.net \in Nets
    BY <1>6 DEF MayEarn
  <2>4. Promise!Approve(g.sub, g.net)
    BY <1>5, <1>6, <2>1, <2>2 DEF Promise!Approve
  <2> QED BY <2>3, <2>4 DEF Promise!Next
<1>7. CASE g.action = "cleared"
  <2>1. PICK e : e = <<g.sub, g.net>>
    OBVIOUS
  <2>2. Available' = Available \cup {e}
    BY <1>7, <2>1 DEF Groups
  <2>3. PICK h \in ledger' : h.action = "approved" /\ h.sub = g.sub /\ h.net = g.net
    BY <1>1, <1>7 DEF IInv, ReleaseMatchesApproval, Groups
  <2>4. e \in Earned
    BY <1>7, <2>1, <2>3 DEF Groups
  <2>5. e \notin Available
    BY <1>4, <1>7, <2>1 DEF Groups
  <2>6. Promise!Release(e)
    BY <1>5, <1>7, <2>2, <2>4, <2>5 DEF Promise!Release
  <2> QED BY <2>4, <2>6 DEF Promise!Next
<1>8. CASE g.action = "refunded" /\ g.sub # NoRef
  <2>1. Undone' = Undone \cup {<<g.ref, g.sub>>}
    BY <1>8 DEF Groups
  <2>2. PICK h \in ledger' : h.action = "approved" /\ h.sub = g.sub
    BY <1>1, <1>8 DEF IInv, ReversalHasOriginal, Groups
  <2>3. PICK e : e = <<h.sub, h.net>>
    OBVIOUS
  <2>4. e \in Earned /\ e[1] = g.sub
    BY <1>8, <2>2, <2>3 DEF Groups
  <2>5. \A u \in Undone : u[1] # g.ref
    BY <1>2, <1>8 DEF Groups
  <2>6. g.ref \in Refunds
    BY <1>1, <1>8 DEF IInv, KeysNameSubs, Rows
  <2>7. Promise!Reverse(g.ref, e)
    BY <1>5, <1>8, <2>1, <2>4, <2>5 DEF Promise!Reverse
  <2> QED BY <2>4, <2>6, <2>7 DEF Promise!Next
<1>9. CASE g.action = "expired" \/ (g.action = "refunded" /\ g.sub = NoRef)
  BY <1>5, <1>9 DEF Promise!vars
<1> QED BY <1>1, <1>6, <1>7, <1>8, <1>9 DEF Actions

\* postApproval, releaseEligible, the refunds and the expired-bounty job, cut off
\* and repeated anywhere, move the ledger only as HunterEarnings promises.
THEOREM EarningsImplemented == Spec => ImplementsEarnings
<1>1. Init => Promise!Init
  BY DEF Init, Promise!Init, Groups
<1>2. IInv /\ IInv' /\ [Next]_vars => [Promise!Next]_Promise!vars
  <2> SUFFICES ASSUME IInv, IInv', [Next]_vars PROVE [Promise!Next]_Promise!vars
    OBVIOUS
  <2>1. CASE UNCHANGED ledger
    BY <2>1 DEF Promise!vars, Groups
  <2>2. CASE ledger' # ledger
    <3>1. PICK g : g \notin ledger /\ ledger' = ledger \cup {g} /\ MayEarn(g)
      BY <2>2, LedgerSteps
    <3> QED BY <3>1, NewGroupRefines
  <2> QED BY <2>1, <2>2
<1> QED BY <1>1, <1>2, InductiveInvariant, PTL DEF Spec, ImplementsEarnings, Promise!Spec

-----------------------------------------------------------------------------
(* The bridge to LedgerPost.  BountyEscrow takes postTransactionGroup to be   *)
(* one step; that step is what IdempotentLedger allows, with the groups of   *)
(* the bounty and their keys (actionType, referenceId) put in its place.  No *)
(* handler of BountyEscrow acts on the answer, so none is mapped.            *)
Keys == {<<g.action, g.ref>> : g \in GroupType}

Books == INSTANCE IdempotentLedger WITH
    Calls <- Keys,
    GroupIds <- GroupType,
    KeyOf <- [k \in Keys |-> k],
    KeyOfGroup <- [g \in GroupType |-> <<g.action, g.ref>>],
    posted <- ledger,
    reply <- [k \in Keys |-> <<>>]

\* The escrow's ledger is one that postTransactionGroup can bring about: every
\* step of the bounty that shows in it posts one group under a free key, and no
\* group ever leaves or changes.
THEOREM PostsAsPromised == Spec => Books!Spec
<1>1. Init => Books!Init
  BY DEF Init, Books!Init, Books!Unanswered
<1>2. IInv /\ IInv' /\ [Next]_vars => [Books!Next]_Books!vars
  <2> SUFFICES ASSUME IInv, IInv', [Next]_vars, ledger' # ledger PROVE Books!Next
    BY DEF Books!vars
  <2>1. PICK g : g \notin ledger /\ ledger' = ledger \cup {g}
    BY LedgerSteps
  <2>2. ledger \subseteq GroupType /\ g \in GroupType
    BY <2>1 DEF IInv, TypeOK, GroupType
  <2>3. PICK k \in Keys : k = <<g.action, g.ref>>
    BY <2>2 DEF Keys
  <2>4. \A h \in ledger : <<h.action, h.ref>> # k
    BY <2>1, <2>3 DEF IInv, UniqueKeys
  <2>5. Books!Free(k)
    BY <2>2, <2>4 DEF Books!Free
  <2>6. Books!Post(k, g)
    BY <2>1, <2>2, <2>3, <2>5 DEF Books!Post
  <2> QED BY <2>2, <2>6 DEF Books!Next, Books!Unanswered
<1> QED BY <1>1, <1>2, InductiveInvariant, PTL DEF Spec, Books!Spec

-----------------------------------------------------------------------------
(* What one review at a time would buy.  Nothing in the code keeps a review   *)
(* apart from another review or from a resubmission of the same submission,  *)
(* and two of them may leave the amount of one approval in the ledger and    *)
(* that of the other on the submission.  So may a second approval after a    *)
(* dispute or an override has reopened an approved submission, although the  *)
(* reviews follow each other.  With one worker that reviews and resubmits,   *)
(* whatever else runs beside it, the two agree on every other submission.    *)
Reviewing == {"review", "submit"}
OneReviewer ==
    \A u, w \in Workers : Duties[u] \cap Reviewing # {} /\ Duties[w] \cap Reviewing # {} => u = w
Reviews(w) == Duties[w] \cap Reviewing # {}

Kept == Subs \ Reopenable

ApprovedAt(s, net) == \E g \in ledger : g.action = "approved" /\ g.sub = s /\ g.net = net

\* A reversal or clawback takes back just the amount that the approval gave, of
\* every submission that no dispute and no override has reopened.
ReversalMatchesApproval ==
    \A g \in Groups("refunded") :
        g.sub \in Kept => \E h \in Groups("approved") : h.sub = g.sub /\ h.net = g.net

ReviewStates == {"reviewUpdate", "approvalRead", "approvalPost", "snapshot"}

\* What a handler in state x has read is still so.
Current(x) ==
    /\ x.at \in ReviewStates \ {"reviewUpdate"} /\ x.sub \in Kept => status[x.sub] = "APPROVED"
    /\ x.at \in ReviewStates \ {"snapshot"} /\ x.sub \in Kept => ~HasApproval(x.sub)
    /\ x.at \in {"snapshot", "createReversal", "refundPost"} /\ x.sub \in Kept =>
           ApprovedAt(x.sub, x.net)

AllCurrent ==
    \A w \in Workers : /\ Current(worker[w])
                       /\ worker[w].at \in ReviewStates => Reviews(w)

SnapshotsAgree ==
    /\ \A s \in Kept : HasApproval(s) => status[s] = "APPROVED"
    /\ \A s \in Kept : snapshot[s] # 0 => ApprovedAt(s, snapshot[s])

Alone == AllCurrent /\ SnapshotsAgree /\ ReversalMatchesApproval

\* Approvals stay; only a review posts one, and only a review writes a status.
LEMMA ApprovalsStay ==
    ASSUME ledger \subseteq ledger'
    PROVE  \A s, net : ApprovedAt(s, net) => ApprovedAt(s, net)'
BY DEF ApprovedAt

\* A step of worker w into a state that is current: the others, of whom none
\* reviews while w does, stay current.
LEMMA CurrentKeeps ==
    ASSUME OneReviewer, IInv, Alone, NEW w \in Workers, NEW x \in WorkerStates, Goto(w, x),
           Current(x)', x.at \in ReviewStates => Reviews(w),
           ledger \subseteq ledger',
           Reviews(w) \/ (UNCHANGED status /\ \A s \in Subs : HasApproval(s)' => HasApproval(s))
    PROVE  AllCurrent'
<1>1. worker \in [Workers -> WorkerStates] /\ AllCurrent
  BY DEF IInv, TypeOK, Alone
<1>2. worker'[w] = x /\ \A u \in Workers : u # w => worker'[u] = worker[u]
  BY <1>1 DEF Goto
<1> SUFFICES ASSUME NEW u \in Workers
             PROVE  /\ Current(worker[u])'
                    /\ worker'[u].at \in ReviewStates => Reviews(u)
  BY DEF AllCurrent
<1>3. CASE u = w
  BY <1>2, <1>3
<1>4. CASE u # w
  <2>1. PICK y \in WorkerStates : y = worker[u] /\ y = worker'[u]
    BY <1>1, <1>2, <1>4
  <2>2. Current(y) /\ (y.at \in ReviewStates => Reviews(u))
    BY <1>1, <2>1 DEF AllCurrent
  <2>3. \A s, net : ApprovedAt(s, net) => ApprovedAt(s, net)'
    BY ApprovalsStay
  <2>4. CASE y.at \notin ReviewStates
    BY <2>1, <2>2, <2>3, <2>4 DEF Current, ReviewStates
  <2>5. CASE y.at \in ReviewStates
    <3>1. UNCHANGED status /\ \A s \in Subs : HasApproval(s)' => HasApproval(s)
      BY <1>4, <2>2, <2>5 DEF OneReviewer, Reviews
    <3>2. y.sub \in Subs
      BY <2>5, Fields DEF ReviewStates
    <3>3. Current(y)'
      BY <2>2, <2>3, <2>5, <3>1, <3>2 DEF Current, ReviewStates
    <3> QED BY <2>1, <2>2, <3>3
  <2> QED BY <2>4, <2>5
<1> QED BY <1>3, <1>4

\* The same for the three parts, of a step that is no review and posts at most
\* a group that is no approval, a refund of the approved amount if any.
LEMMA OthersAlone ==
    ASSUME OneReviewer, IInv, Alone, NEW w \in Workers, NEW x \in WorkerStates, Goto(w, x),
           Current(x), x.at \notin ReviewStates,
           NEW g, g.action # "approved", ledger' \subseteq ledger \cup {g}, ledger \subseteq ledger',
           g.action = "refunded" /\ g.sub \in Kept => ApprovedAt(g.sub, g.net),
           UNCHANGED <<status, snapshot>>
    PROVE  Alone'
<1>1. \A s, net : ApprovedAt(s, net) => ApprovedAt(s, net)'
  BY ApprovalsStay
<1>2. \A s : HasApproval(s)' => HasApproval(s)
  BY DEF HasApproval
<1>3. Current(x)'
  BY <1>1 DEF Current, ReviewStates
<1>4. AllCurrent'
  BY <1>2, <1>3, CurrentKeeps
<1>5. SnapshotsAgree'
  BY <1>1, <1>2 DEF Alone, SnapshotsAgree
<1>6. ReversalMatchesApproval'
  BY <1>1 DEF Alone, ReversalMatchesApproval, Groups, ApprovedAt
<1> QED BY <1>4, <1>5, <1>6 DEF Alone

\* A review, the only one in progress, approves a submission once, and writes
\* the amount of that approval on it.
LEMMA ReviewAlone ==
    ASSUME OneReviewer, IInv, IInv', Alone, NEW w \in Workers, Review(w)
    PROVE  Alone'
<1> USE DEF At, Starts
<1>t. /\ worker \in [Workers -> WorkerStates] /\ status \in [Subs -> Statuses]
      /\ snapshot \in [Subs -> Nets \cup {0}]
      /\ AllCurrent /\ SnapshotsAgree /\ ReversalMatchesApproval
  BY DEF IInv, TypeOK, Alone
<1>y. PICK y \in WorkerStates : y = worker[w]
  BY <1>t
<1>c. Current(y) /\ (y.at \in ReviewStates => Reviews(w))
  BY <1>t, <1>y DEF AllCurrent
<1>i. Idle \in WorkerStates /\ Current(Idle)' /\ Idle.at \notin ReviewStates
  BY DEF WorkerStates, Idle, Current, ReviewStates
<1>1. ASSUME NEW s \in Subs, NEW to \in Statuses, status[s] # "APPROVED", Reviews(w),
             Goto(w, [at |-> "reviewUpdate", sub |-> s, to |-> to]),
             UNCHANGED <<status, snapshot, ledger>>
      PROVE  Alone'
  <2>1. PICK x : x = [at |-> "reviewUpdate", sub |-> s, to |-> to]
    OBVIOUS
  <2>2. x \in WorkerStates /\ Goto(w, x)
    BY <1>1, <2>1 DEF WorkerStates
  <2>3. s \in Kept => ~HasApproval(s)
    BY <1>t, <1>1 DEF SnapshotsAgree
  <2>4. Current(x)'
    BY <1>1, <2>1, <2>3 DEF Current, ReviewStates, HasApproval
  <2>5. AllCurrent'
    BY <1>1, <2>2, <2>4, CurrentKeeps
  <2>6. SnapshotsAgree' /\ ReversalMatchesApproval'
    BY <1>t, <1>1 DEF SnapshotsAgree, ReversalMatchesApproval, HasApproval, ApprovedAt, Groups
  <2> QED BY <2>5, <2>6 DEF Alone
<1>6. ASSUME NEW s \in Subs, NEW to \in Statuses, review(w, s, to) PROVE Alone'
  <2>1. status[s] # "APPROVED"
    BY <1>6 DEF review, REVIEW_TRANSITIONS
  <2> QED BY <1>1, <1>6, <2>1 DEF review, Reviews, Reviewing
<1>7. ASSUME NEW s \in Subs, updateSubmission(w, s) PROVE Alone'
  <2>1. "SUBMITTED" \in Statuses
    BY DEF Statuses
  <2> QED BY <1>1, <1>7, <2>1 DEF updateSubmission, Reviews, Reviewing
<1>2. CASE ReviewUpdate(w)
  <2>1. PICK s \in Subs, to \in Statuses : s = y.sub /\ to = y.to
    BY <1>2, <1>y, Fields DEF ReviewUpdate
  <2>2. (s \in Kept => ~HasApproval(s)) /\ Reviews(w)
    BY <1>2, <1>y, <1>c, <2>1 DEF ReviewUpdate, Current, ReviewStates
  <2>3. /\ status' = [status EXCEPT ![s] = to]
        /\ UNCHANGED <<snapshot, ledger>>
    BY <1>2, <1>y, <2>1 DEF ReviewUpdate
  <2>4. \A q : HasApproval(q)' <=> HasApproval(q)
    BY <2>3 DEF HasApproval
  <2>5. PICK x \in WorkerStates : /\ Goto(w, x)
                                  /\ Current(x)'
    <3>1. CASE to = "APPROVED"
      <4>1. PICK x : x = [at |-> "approvalRead", sub |-> s]
        OBVIOUS
      <4>2. x \in WorkerStates /\ Goto(w, x)
        BY <1>2, <1>y, <2>1, <3>1, <4>1 DEF ReviewUpdate, WorkerStates
      <4>3. Current(x)'
        BY <1>t, <2>2, <2>3, <2>4, <3>1, <4>1 DEF Current, ReviewStates
      <4> QED BY <4>2, <4>3
    <3>2. CASE to # "APPROVED"
      <4>1. Goto(w, Idle)
        BY <1>2, <1>y, <2>1, <3>2 DEF ReviewUpdate
      <4> QED BY <4>1, <1>i
    <3> QED BY <3>1, <3>2
  <2>6. AllCurrent'
    BY <2>2, <2>3, <2>5, CurrentKeeps
  <2>7. SnapshotsAgree'
    BY <1>t, <2>2, <2>3, <2>4 DEF SnapshotsAgree, ApprovedAt, Kept
  <2>8. ReversalMatchesApproval'
    BY <1>t, <2>3 DEF ReversalMatchesApproval, Groups
  <2> QED BY <2>6, <2>7, <2>8 DEF Alone
<1>3. CASE ApprovalRead(w)
  <2>1. /\ y.sub \in Subs /\ y.at = "approvalRead"
        /\ UNCHANGED <<status, snapshot, ledger>>
    BY <1>3, <1>y, Fields DEF ApprovalRead
  <2>2. PICK x \in WorkerStates : Goto(w, x) /\ Current(x)'
    <3>1. CASE status[y.sub] = "APPROVED"
      <4>1. PICK net \in Nets : Goto(w, [at |-> "approvalPost", sub |-> y.sub, net |-> net])
        BY <1>3, <1>y, <3>1 DEF ApprovalRead
      <4>2. PICK x : x = [at |-> "approvalPost", sub |-> y.sub, net |-> net]
        OBVIOUS
      <4>3. x \in WorkerStates
        BY <2>1, <4>2 DEF WorkerStates
      <4>4. Current(x)'
        BY <1>c, <2>1, <4>2 DEF Current, ReviewStates, HasApproval
      <4> QED BY <4>1, <4>2, <4>3, <4>4
    <3>2. CASE status[y.sub] # "APPROVED"
      BY <1>3, <1>y, <1>i, <3>2 DEF ApprovalRead
    <3> QED BY <3>1, <3>2
  <2>3. Reviews(w)
    BY <1>c, <2>1 DEF ReviewStates
  <2>4. AllCurrent'
    BY <2>1, <2>2, <2>3, CurrentKeeps
  <2>5. SnapshotsAgree' /\ ReversalMatchesApproval'
    BY <1>t, <2>1 DEF SnapshotsAgree, ReversalMatchesApproval, HasApproval, ApprovedAt, Groups
  <2> QED BY <2>1, <2>4, <2>5 DEF Alone
<1>4. CASE ApprovalPost(w)
  <2>1. y.at = "approvalPost" /\ y.sub \in Subs /\ y.net \in Nets
    BY <1>4, <1>y, Fields DEF ApprovalPost
  <2>2. PICK g : g = Group("approved", y.sub, y.sub, y.net)
    OBVIOUS
  <2>3. g.action = "approved" /\ g.ref = y.sub /\ g.sub = y.sub /\ g.net = y.net
    BY <2>2 DEF Group
  <2>4. postTransactionGroup(g) /\ UNCHANGED <<status, snapshot>>
    BY <1>4, <1>y, <2>2 DEF ApprovalPost, ApprovalKey
  <2>5. ledger \subseteq ledger' /\ ledger' \subseteq ledger \cup {g}
    BY <2>4, LedgerGrows
  <2>6. y.sub \in Kept => g \in ledger'
    <3>1. y.sub \in Kept => ~HasApproval(y.sub)
      BY <1>c, <2>1 DEF Current, ReviewStates
    <3>2. \A h \in ledger : h.action = "approved" => h.ref = h.sub
      BY DEF IInv, KeysNameSubs
    <3>3. y.sub \in Kept => \A h \in ledger : ~(h.action = g.action /\ h.ref = g.ref)
      BY <2>3, <3>1, <3>2 DEF HasApproval
    <3> QED BY <2>4, <3>3 DEF postTransactionGroup
  <2>7. \A s, net : ApprovedAt(s, net) => ApprovedAt(s, net)'
    BY <2>5, ApprovalsStay
  <2>8. \A s : HasApproval(s)' => HasApproval(s) \/ s = y.sub
    BY <2>3, <2>5 DEF HasApproval
  <2>9. PICK x : x = [y EXCEPT !.at = "snapshot"]
    OBVIOUS
  <2>10. x \in WorkerStates /\ x.at = "snapshot" /\ x.sub = y.sub /\ x.net = y.net
    BY <2>1, <2>9 DEF WorkerStates, Idle
  <2>11. Goto(w, x)
    BY <1>4, <1>y, <2>9 DEF ApprovalPost
  <2>12. (y.sub \in Kept => status[y.sub] = "APPROVED") /\ Reviews(w)
    BY <1>c, <2>1 DEF Current, ReviewStates
  <2>13. Current(x)'
    BY <2>3, <2>4, <2>6, <2>10, <2>12 DEF Current, ReviewStates, ApprovedAt
  <2>14. AllCurrent'
    BY <2>5, <2>10, <2>11, <2>12, <2>13, CurrentKeeps
  <2>15. SnapshotsAgree'
    BY <1>t, <2>4, <2>7, <2>8, <2>12 DEF SnapshotsAgree
  <2>16. ReversalMatchesApproval'
    BY <1>t, <2>3, <2>5 DEF ReversalMatchesApproval, Groups
  <2> QED BY <2>14, <2>15, <2>16 DEF Alone
<1>5. CASE ApprovalSnapshot(w)
  <2>1. y.at = "snapshot" /\ y.sub \in Subs /\ y.net \in Nets
    BY <1>5, <1>y, Fields DEF ApprovalSnapshot
  <2>2. (y.sub \in Kept => ApprovedAt(y.sub, y.net)) /\ Reviews(w)
    BY <1>c, <2>1 DEF Current, ReviewStates
  <2>3. /\ snapshot' = [snapshot EXCEPT ![y.sub] = y.net]
        /\ Goto(w, Idle)
        /\ UNCHANGED <<status, ledger>>
    BY <1>5, <1>y DEF ApprovalSnapshot, SnapshotOf
  <2>4. AllCurrent'
    BY <1>i, <2>2, <2>3, CurrentKeeps
  <2>5. SnapshotsAgree'
    BY <1>t, <2>1, <2>2, <2>3 DEF SnapshotsAgree, HasApproval, ApprovedAt
  <2>6. ReversalMatchesApproval'
    BY <1>t, <2>3 DEF ReversalMatchesApproval, Groups
  <2> QED BY <2>4, <2>5, <2>6 DEF Alone
<1> QED BY <1>2, <1>3, <1>4, <1>5, <1>6, <1>7 DEF Review

\* Refunds carry the amount of the snapshot they have read.
LEMMA RefundAlone ==
    ASSUME OneReviewer, IInv, Alone, NEW w \in Workers, Refund(w)
    PROVE  Alone' /\ UNCHANGED status
<1> USE DEF At, Starts
<1>t. /\ worker \in [Workers -> WorkerStates]
      /\ AllCurrent /\ SnapshotsAgree
  BY DEF IInv, TypeOK, Alone
<1>y. PICK y \in WorkerStates : y = worker[w] /\ Current(y)
  BY <1>t DEF AllCurrent
<1>g. PICK g : g.action = "none"
  <2>1. [action |-> "none"].action = "none"
    OBVIOUS
  <2> QED BY <2>1
<1>m. ASSUME NEW x \in WorkerStates, Goto(w, x), Current(x), x.at \notin ReviewStates,
             UNCHANGED <<status, snapshot, ledger>>
      PROVE  Alone' /\ UNCHANGED status
  BY <1>m, <1>g, OthersAlone
<1>i. Idle \in WorkerStates /\ Current(Idle) /\ Idle.at \notin ReviewStates
  BY DEF WorkerStates, Idle, Current, ReviewStates
<1>1. CASE requestBeforeApproval(w)
  <2>1. PICK x : x = [at |-> "requestRefund"]
    OBVIOUS
  <2>2. x \in WorkerStates /\ Current(x) /\ x.at \notin ReviewStates
    BY <2>1 DEF WorkerStates, Current, ReviewStates
  <2>3. Goto(w, x) /\ UNCHANGED <<status, snapshot, ledger>>
    BY <1>1, <2>1 DEF requestBeforeApproval
  <2> QED BY <2>2, <2>3, <1>m
<1>2. CASE RequestRefund(w) \/ CompleteRefund(w)
  BY <1>2, <1>i, <1>m DEF RequestRefund, CompleteRefund, CreateRefund
<1>3. ASSUME NEW r \in Refunds, approveBeforeApproval(w, r) PROVE Alone' /\ UNCHANGED status
  <2>1. PICK x : x = [at |-> "refundPost", refund |-> r, sub |-> NoRef, net |-> 0]
    OBVIOUS
  <2>2. x \in WorkerStates
    BY <2>1 DEF WorkerStates
  <2>3. Current(x) /\ x.at \notin ReviewStates
    BY <2>1, EscrowAssumption DEF Current, ReviewStates, Kept
  <2>4. Goto(w, x) /\ UNCHANGED <<status, snapshot, ledger>>
    BY <1>3, <2>1 DEF approveBeforeApproval, AfterRefundRead
  <2> QED BY <2>2, <2>3, <2>4, <1>m
<1>4. ASSUME NEW s \in Subs, requestAfterApproval(w, s) \/ requestAfterPayout(w, s)
      PROVE  Alone' /\ UNCHANGED status
  <2>1. PICK scenario \in Scenarios :
            /\ Goto(w, [at |-> "createReversal", sub |-> s, net |-> snapshot[s], scenario |-> scenario])
            /\ snapshot[s] # 0
            /\ UNCHANGED <<status, snapshot, ledger>>
    BY <1>4 DEF requestAfterApproval, requestAfterPayout, HasSnapshot, Scenarios
  <2>2. PICK x : x = [at |-> "createReversal", sub |-> s, net |-> snapshot[s], scenario |-> scenario]
    OBVIOUS
  <2>3. snapshot[s] \in Nets
    BY <2>1 DEF IInv, TypeOK
  <2>4. x \in WorkerStates
    BY <2>2, <2>3 DEF WorkerStates
  <2>5. Current(x) /\ x.at \notin ReviewStates
    BY <1>t, <2>1, <2>2 DEF Current, ReviewStates, SnapshotsAgree
  <2> QED BY <2>1, <2>2, <2>4, <2>5, <1>m
<1>5. CASE CreateReversal(w)
  <2>1. y.at = "createReversal" /\ y.sub \in Subs /\ y.net \in Nets
    BY <1>5, <1>y, Fields DEF CreateReversal
  <2>2. PICK x : x = [at |-> "refundPost", refund |-> NewRefund, sub |-> y.sub, net |-> y.net]
    OBVIOUS
  <2>3. Goto(w, x) /\ UNCHANGED <<status, snapshot, ledger>>
    BY <1>5, <1>y, <2>2 DEF CreateReversal, CreateRefund
  <2>4. NewRefund \in Refunds
    BY <1>5, NewRefundIsFree DEF CreateReversal, CreateRefund
  <2>5. x \in WorkerStates
    BY <2>1, <2>2, <2>4 DEF WorkerStates
  <2>6. Current(x) /\ x.at \notin ReviewStates
    BY <1>y, <2>1, <2>2 DEF Current, ReviewStates
  <2> QED BY <2>3, <2>5, <2>6, <1>m
<1>6. CASE RefundPost(w)
  <2>1. y.at = "refundPost"
    BY <1>6, <1>y DEF RefundPost
  <2>2. PICK h : h = Group("refunded", y.refund, y.sub, y.net)
    OBVIOUS
  <2>3. h.action = "refunded" /\ h.sub = y.sub /\ h.net = y.net
    BY <2>2 DEF Group
  <2>4. postTransactionGroup(h) /\ UNCHANGED <<status, snapshot>>
    BY <1>6, <1>y, <2>2 DEF RefundPost
  <2>5. ledger \subseteq ledger' /\ ledger' \subseteq ledger \cup {h}
    BY <2>4, LedgerGrows
  <2>6. h.sub \in Kept => ApprovedAt(h.sub, h.net)
    BY <1>y, <2>1, <2>3 DEF Current
  <2>7. PICK to \in {"markRefunded", "completeRefund"} : Goto(w, [y EXCEPT !.at = to])
    BY <1>6, <1>y DEF RefundPost
  <2>8. PICK x : x = [y EXCEPT !.at = to]
    OBVIOUS
  <2>9. x \in WorkerStates /\ x.at = to
    BY <2>1, <2>7, <2>8 DEF WorkerStates, Idle
  <2>10. Current(x) /\ x.at \notin ReviewStates
    BY <2>7, <2>9 DEF Current, ReviewStates
  <2> QED BY <2>3, <2>4, <2>5, <2>6, <2>7, <2>8, <2>9, <2>10, OthersAlone
<1>7. CASE MarkRefunded(w)
  <2>1. y.at = "markRefunded"
    BY <1>7, <1>y DEF MarkRefunded
  <2>2. PICK x : x = [y EXCEPT !.at = "completeRefund"]
    OBVIOUS
  <2>3. x \in WorkerStates /\ x.at = "completeRefund"
    BY <2>1, <2>2 DEF WorkerStates, Idle
  <2>4. Current(x) /\ x.at \notin ReviewStates
    BY <2>3 DEF Current, ReviewStates
  <2>5. Goto(w, x) /\ UNCHANGED <<status, snapshot, ledger>>
    BY <1>7, <1>y, <2>2 DEF MarkRefunded
  <2> QED BY <2>3, <2>4, <2>5, <1>m
<1> QED BY <1>1, <1>2, <1>3, <1>4, <1>5, <1>6, <1>7 DEF Refund

\* The other handlers write no status and no snapshot, and post no refund.
LEMMA RestAlone ==
    ASSUME OneReviewer, IInv, Alone, NEW w \in Workers, Payout(w) \/ Clear(w) \/ Expire(w) \/ Abort(w)
    PROVE  Alone' /\ UNCHANGED status
<1> USE DEF At, Starts
<1>t. worker \in [Workers -> WorkerStates]
  BY DEF IInv, TypeOK
<1>g. PICK g : g.action = "none"
  <2>1. [action |-> "none"].action = "none"
    OBVIOUS
  <2> QED BY <2>1
<1>q. \A x : x.at \in {"idle", "payoutUpdate", "payoutRow", "clear", "expirePost"} =>
                Current(x) /\ x.at \notin ReviewStates
  BY DEF Current, ReviewStates
<1>m. ASSUME NEW x \in WorkerStates, Goto(w, x),
             x.at \in {"idle", "payoutUpdate", "payoutRow", "clear", "expirePost"},
             UNCHANGED <<status, snapshot, ledger>>
      PROVE  Alone' /\ UNCHANGED status
  BY <1>m, <1>g, <1>q, OthersAlone
<1>p. ASSUME NEW x \in WorkerStates, Goto(w, x),
             x.at \in {"idle", "clear"},
             NEW h, h.action \in {"cleared", "expired"}, postTransactionGroup(h),
             UNCHANGED <<status, snapshot>>
      PROVE  Alone' /\ UNCHANGED status
  <2>1. ledger \subseteq ledger' /\ ledger' \subseteq ledger \cup {h}
    BY <1>p, LedgerGrows
  <2> QED BY <1>p, <1>q, <2>1, OthersAlone
<1>i. Idle \in WorkerStates /\ Idle.at = "idle"
  BY DEF WorkerStates, Idle
<1>n. ASSUME At(w, "clear"), NextCandidate(w)
      PROVE  \E x \in WorkerStates : Goto(w, x) /\ x.at \in {"idle", "clear"}
  <2>1. PICK x \in WorkerStates : Goto(w, x)
    BY <1>n, NextIsReliable
  <2>2. worker'[w] = x
    BY <2>1, <1>t DEF Goto
  <2>3. \/ worker' = [worker EXCEPT ![w] = Idle]
        \/ worker' = [worker EXCEPT ![w] = [at |-> "clear", batch |-> Tail(worker[w].batch)]]
    BY <1>n DEF NextCandidate, Goto
  <2>4. x = Idle \/ x = [at |-> "clear", batch |-> Tail(worker[w].batch)]
    BY <2>2, <2>3, <1>t
  <2>5. x.at \in {"idle", "clear"}
    BY <2>4 DEF Idle
  <2> QED BY <2>1, <2>5
<1>1. ASSUME NEW s \in Subs, NEW to \in PayoutStatuses, updatePayout(w, s, to)
      PROVE  Alone' /\ UNCHANGED status
  <2>1. PICK x : x = [at |-> "payoutUpdate", sub |-> s, to |-> to]
    OBVIOUS
  <2>2. x \in WorkerStates /\ x.at = "payoutUpdate"
    BY <2>1 DEF WorkerStates
  <2>3. Goto(w, x) /\ UNCHANGED <<status, snapshot, ledger>>
    BY <1>1, <2>1 DEF updatePayout
  <2> QED BY <2>2, <2>3, <1>m
<1>2. CASE PayoutUpdate(w)
  <2>1. worker[w].sub \in Subs
    BY <1>2, <1>t, Fields DEF PayoutUpdate
  <2>2. PICK x : x = [at |-> "payoutRow", sub |-> worker[w].sub]
    OBVIOUS
  <2>3. x \in WorkerStates /\ x.at = "payoutRow"
    BY <2>1, <2>2 DEF WorkerStates
  <2>4. Goto(w, x) \/ Goto(w, Idle)
    BY <1>2, <2>2 DEF PayoutUpdate
  <2>5. UNCHANGED <<status, snapshot, ledger>>
    BY <1>2 DEF PayoutUpdate
  <2> QED BY <2>3, <2>4, <2>5, <1>i, <1>m
<1>3. CASE PayoutRow(w)
  BY <1>3, <1>i, <1>m DEF PayoutRow
<1>4. CASE clearanceRelease(w)
  <2>1. PICK x : x = [at |-> "clear", batch |-> Candidates]
    OBVIOUS
  <2>2. Candidates # <<>> /\ Candidates \in Seq(Subs)
    BY <1>4, CandidatesMatured DEF clearanceRelease, IInv
  <2>3. x \in WorkerStates /\ x.at = "clear"
    BY <2>1, <2>2 DEF WorkerStates
  <2>4. Goto(w, x) /\ UNCHANGED <<status, snapshot, ledger>>
    BY <1>4, <2>1 DEF clearanceRelease
  <2> QED BY <2>3, <2>4, <1>m
<1>5. ASSUME NEW s \in Subs, ReleaseEntry(w, s) PROVE Alone' /\ UNCHANGED status
  <2>1. PICK x \in WorkerStates : Goto(w, x) /\ x.at \in {"idle", "clear"}
    BY <1>5, <1>n DEF ReleaseEntry
  <2>2. PICK h : h = Group("cleared", s, s, EntryAmount(s))
    OBVIOUS
  <2>3. h.action = "cleared" /\ postTransactionGroup(h) /\ UNCHANGED <<status, snapshot>>
    BY <1>5, <2>2 DEF ReleaseEntry, ReleaseKey, Group
  <2> QED BY <2>1, <2>3, <1>p
<1>6. CASE ReleaseFails(w)
  <2>1. PICK x \in WorkerStates : Goto(w, x) /\ x.at \in {"idle", "clear"}
    BY <1>6, <1>n DEF ReleaseFails
  <2> QED BY <1>6, <2>1, <1>m DEF ReleaseFails
<1>7. CASE expiredRelease(w)
  <2>1. PICK x : x = [at |-> "expirePost"]
    OBVIOUS
  <2>2. x \in WorkerStates /\ x.at = "expirePost"
    BY <2>1 DEF WorkerStates
  <2>3. Goto(w, x) /\ UNCHANGED <<status, snapshot, ledger>>
    BY <1>7, <2>1 DEF expiredRelease
  <2> QED BY <2>2, <2>3, <1>m
<1>8. CASE ExpirePost(w)
  <2>1. PICK h : h = Group("expired", NoRef, NoRef, 0)
    OBVIOUS
  <2>2. h.action = "expired" /\ postTransactionGroup(h) /\ UNCHANGED <<status, snapshot>> /\ Goto(w, Idle)
    BY <1>8, <2>1 DEF ExpirePost, Group
  <2> QED BY <2>2, <1>i, <1>p
<1>9. CASE Abort(w)
  BY <1>9, <1>i, <1>m DEF Abort
<1> QED BY <1>1, <1>2, <1>3, <1>4, <1>5, <1>6, <1>7, <1>8, <1>9 DEF Payout, Clear, Expire

LEMMA NextAlone ==
    ASSUME OneReviewer, IInv, IInv', Alone, [Next]_vars
    PROVE  Alone'
<1>1. CASE \E s \in Subs : Decree(s)
  <2>1. (\A s \in Kept : status'[s] = status[s]) /\ UNCHANGED <<snapshot, ledger, worker>>
    <3>1. status \in [Subs -> Statuses]
      BY DEF IInv, TypeOK
    <3> QED BY <1>1, <3>1 DEF Decree, resolve, overrideSubmission, processExpiredDeadlines, Kept
  <2>2. AllCurrent'
    BY <2>1 DEF Alone, AllCurrent, Current, HasApproval, ApprovedAt
  <2>3. SnapshotsAgree' /\ ReversalMatchesApproval'
    BY <2>1 DEF Alone, SnapshotsAgree, ReversalMatchesApproval, HasApproval, ApprovedAt, Groups
  <2> QED BY <2>2, <2>3 DEF Alone
<1>2. CASE UNCHANGED vars \/ \E s \in Subs : Mature(s)
  <2>1. UNCHANGED <<status, snapshot, ledger, worker>>
    BY <1>2 DEF Mature, vars
  <2> QED BY <2>1 DEF Alone, AllCurrent, Current, SnapshotsAgree, ReversalMatchesApproval,
                      HasApproval, ApprovedAt, Groups
<1>3. ASSUME NEW w \in Workers, Review(w) PROVE Alone'
  BY <1>3, ReviewAlone
<1>4. ASSUME NEW w \in Workers, Refund(w) \/ Payout(w) \/ Clear(w) \/ Expire(w) \/ Abort(w)
      PROVE  Alone'
  BY <1>4, RefundAlone, RestAlone
<1> QED BY <1>1, <1>2, <1>3, <1>4 DEF Next

LEMMA OneReviewerAlone == OneReviewer => (Spec => []Alone)
<1> SUFFICES ASSUME OneReviewer PROVE Spec => []Alone
  OBVIOUS
<1>1. Init => Alone
  <2> SUFFICES ASSUME Init PROVE Alone
    OBVIOUS
  <2>1. AllCurrent
    BY DEF Init, AllCurrent, Current, Idle, ReviewStates
  <2>2. SnapshotsAgree /\ ReversalMatchesApproval
    BY DEF Init, SnapshotsAgree, ReversalMatchesApproval, HasApproval, Groups, Kept
  <2> QED BY <2>1, <2>2 DEF Alone
<1>2. IInv /\ IInv' /\ Alone /\ [Next]_vars => Alone'
  BY NextAlone
<1> QED BY <1>1, <1>2, InductiveInvariant, PTL DEF Spec

\* With one worker that reviews and resubmits, refunds take back exactly what
\* postApproval gave, of every submission that no dispute and no override has
\* reopened, whatever payouts, jobs, crashes, decisions on other submissions and
\* other requests run beside it.  A reopened submission that is approved again is
\* left out: there postApproval writes a new amount beside the old posting.
THEOREM OneReviewerReversesExactly == OneReviewer => (Spec => []ReversalMatchesApproval)
<1>1. Alone => ReversalMatchesApproval
  BY DEF Alone
<1> QED BY <1>1, OneReviewerAlone, PTL
=============================================================================
