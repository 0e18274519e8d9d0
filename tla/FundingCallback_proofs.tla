----------------------- MODULE FundingCallback_proofs -----------------------
(* TLAPS proofs about FundingCallback, for any requests in progress, any     *)
(* transactions at TradeSafe and any callbacks it announces: bounty, row,    *)
(* ledger and provider stay consistent, and a refund is final.               *)
EXTENDS FundingCallback, TLAPS

Funded == {"FUNDS_RECEIVED", "DELIVERED"}
InDispatch == {"refetch", "findRow", "fund"}

\* What a request in state x has read and still relies on.
Relied(x) ==
    /\ x.at = "handOut" => row.txn = x.txn
    /\ x.at \in {"findRow", "fund"} => prov[x.call.txn] \in Funded
    /\ x.at = "fund" => row.txn = x.call.txn /\ (~x.flip => ledger # {})
    /\ x.at = "setStatus" => (x.to # "DRAFT" => ledger # {} \/ overridden)

Reliable == \A w \in Workers : Relied(worker[w])

\* The WebhookEvent admits one delivery per transaction to the dispatch, and
\* only before the transaction has its funding group.
DispatchedOnce ==
    /\ \A w \in Workers : worker[w].at \in InDispatch \cup {"processed"} =>
                              event[worker[w].call.txn] # "none"
    /\ \A w \in Workers : worker[w].at \in InDispatch => worker[w].call.txn \notin ledger
    /\ \A w, u \in Workers :
           /\ worker[w].at \in InDispatch
           /\ worker[u].at \in InDispatch
           /\ worker[w].call.txn = worker[u].call.txn
           => w = u
    /\ \A t \in ledger : event[t] # "none"

IInv == /\ TypeOK
        /\ Reliable
        /\ DispatchedOnce
        /\ PayableIsRecorded
        /\ FundingConsistent
        /\ FundedByProvider

-----------------------------------------------------------------------------
RowKeeps == row.txn \in Txns => row'.txn = row.txn
ProvKeeps == \A t \in Txns : prov[t] \in Funded => prov'[t] \in Funded
EventsKeep == \A t \in Txns : event[t] # "none" => event'[t] # "none"

\* A state of a request and the fields it has there.
LEMMA Fields ==
    ASSUME NEW x \in WorkerStates
    PROVE  /\ x.at \in {"persist", "handOut"} => x.txn \in Txns
           /\ x.at \in InDispatch \cup {"processed", "reply"} => x.call \in Calls /\ x.call.txn \in Txns
           /\ x.at = "fund" => x.flip \in BOOLEAN
           /\ x.at = "setStatus" => x.to \in Statuses
           /\ x.at = "setCapacity" => x.to \in Capacities
BY DEF WorkerStates, Idle, InDispatch, Calls

\* What a request relies on is not undone by the steps of others.
LEMMA RelianceKeeps ==
    ASSUME NEW x \in WorkerStates, Relied(x),
           ledger \subseteq ledger', RowKeeps, ProvKeeps, overridden => overridden'
    PROVE  Relied(x)'
<1>1. x.at = "handOut" => x.txn \in Txns
  BY Fields
<1>2. x.at \in {"findRow", "fund"} => x.call.txn \in Txns
  BY Fields DEF InDispatch
<1> QED BY <1>1, <1>2 DEF Relied, RowKeeps, ProvKeeps

\* After a step of worker w into a state it may rely on, all can rely on theirs.
LEMMA ReliableKeeps ==
    ASSUME IInv, NEW w \in Workers, NEW x \in WorkerStates, Goto(w, x), Relied(x)',
           ledger \subseteq ledger', RowKeeps, ProvKeeps, UNCHANGED overridden
    PROVE  Reliable' /\ worker' \in [Workers -> WorkerStates]
<1>1. worker \in [Workers -> WorkerStates] /\ Reliable
  BY DEF IInv, TypeOK
<1>2. worker' \in [Workers -> WorkerStates] /\ worker'[w] = x
  BY <1>1 DEF Goto
<1>3. \A u \in Workers : u # w => worker'[u] = worker[u]
  BY <1>1 DEF Goto
<1>4. ASSUME NEW u \in Workers PROVE Relied(worker[u])'
  <2>1. CASE u = w
    BY <2>1, <1>2
  <2>2. CASE u # w
    <3>1. PICK y \in WorkerStates : y = worker[u]
      BY <1>1
    <3>2. Relied(y)
      BY <1>1, <3>1 DEF Reliable
    <3>3. Relied(y)'
      BY <3>2, RelianceKeeps
    <3>4. worker'[u] = y
      BY <1>3, <2>2, <3>1
    <3> QED BY <3>3, <3>4
  <2> QED BY <2>1, <2>2
<1> QED BY <1>2, <1>4 DEF Reliable

\* A request may go on with the dispatch of its callback, or leave it.
Continues(w, x) ==
    /\ x.at \in InDispatch => worker[w].at \in InDispatch
    /\ x.at = "processed" => worker[w].at \in InDispatch
    /\ x.at \in InDispatch \cup {"processed"} => x.call = worker[w].call

\* As long as no request enters the dispatch and no group is added, the
\* exclusion of deliveries is kept.
LEMMA DispatchKeeps ==
    ASSUME IInv, NEW w \in Workers, NEW x \in WorkerStates, Goto(w, x), Continues(w, x),
           EventsKeep, UNCHANGED ledger
    PROVE  DispatchedOnce'
<1>1. worker \in [Workers -> WorkerStates] /\ DispatchedOnce /\ ledger \subseteq Txns
  BY DEF IInv, TypeOK
<1>2. worker'[w] = x /\ \A u \in Workers : u # w => worker'[u] = worker[u]
  BY <1>1 DEF Goto
<1>3. \A u \in Workers : worker[u].at \in InDispatch \cup {"processed"} => worker[u].call.txn \in Txns
  BY <1>1, Fields
<1>4. \A u \in Workers :
          /\ worker'[u].at \in InDispatch => worker[u].at \in InDispatch
          /\ worker'[u].at = "processed" => worker[u].at \in InDispatch \cup {"processed"}
          /\ worker'[u].at \in InDispatch \cup {"processed"} => worker'[u].call = worker[u].call
  BY <1>2 DEF Continues
<1>5. \A u \in Workers : worker'[u].at \in InDispatch \cup {"processed"} =>
                             event'[worker'[u].call.txn] # "none"
  BY <1>1, <1>3, <1>4 DEF DispatchedOnce, EventsKeep
<1>6. \A u \in Workers : worker'[u].at \in InDispatch => worker'[u].call.txn \notin ledger'
  BY <1>1, <1>4 DEF DispatchedOnce
<1>7. \A u, v \in Workers :
          worker'[u].at \in InDispatch /\ worker'[v].at \in InDispatch
          /\ worker'[u].call.txn = worker'[v].call.txn => u = v
  BY <1>1, <1>4 DEF DispatchedOnce
<1>8. \A t \in ledger' : event'[t] # "none"
  BY <1>1 DEF DispatchedOnce, EventsKeep
<1> QED BY <1>5, <1>6, <1>7, <1>8 DEF DispatchedOnce

\* A step that moves a request on and changes at most what TradeSafe has seen,
\* the events, and columns of the bounty that the funding does not depend on.
LEMMA MoveIInv ==
    ASSUME IInv, NEW w \in Workers, NEW x \in WorkerStates, Goto(w, x), Relied(x), Continues(w, x),
           prov' \in [Txns -> ProviderStates \cup {"none"}], ProvKeeps, due' \subseteq Calls,
           event' \in [Txns -> {"none", "RECEIVED", "FAILED", "PROCESSED"}], EventsKeep,
           deleted' \in BOOLEAN, capacity' \in Capacities,
           UNCHANGED <<handed, killSwitch, row, status, payment, overridden, ledger>>
    PROVE  IInv'
<1>1. ledger \subseteq ledger' /\ RowKeeps
  BY DEF RowKeeps
<1>2. Relied(x)'
  BY <1>1, RelianceKeeps
<1>3. Reliable' /\ worker' \in [Workers -> WorkerStates]
  BY <1>1, <1>2, ReliableKeeps
<1>4. TypeOK'
  BY <1>3 DEF IInv, TypeOK
<1>5. DispatchedOnce'
  BY DispatchKeeps
<1>6. PayableIsRecorded' /\ FundingConsistent'
  BY DEF IInv, PayableIsRecorded, FundingConsistent
<1>7. FundedByProvider'
  BY DEF IInv, TypeOK, FundedByProvider, ProvKeeps, Funded
<1> QED BY <1>3, <1>4, <1>5, <1>6, <1>7 DEF IInv

\* A step of TradeSafe, of the kill switch, of the refund or of an
\* administrator: no request moves, and what is published unfunded is so by an
\* override.
LEMMA EnvironmentIInv ==
    ASSUME IInv,
           prov' \in [Txns -> ProviderStates \cup {"none"}], ProvKeeps, due' \subseteq Calls,
           killSwitch' \in BOOLEAN,
           payment' = payment \/ (payment = "PAID" /\ payment' = "REFUNDED"),
           status' \in Statuses, overridden' \in BOOLEAN, overridden => overridden',
           status' # "DRAFT" => overridden' \/ status # "DRAFT",
           UNCHANGED <<handed, row, deleted, capacity, ledger, event, worker>>
    PROVE  IInv'
<1>1. TypeOK'
  BY DEF IInv, TypeOK
<1>2. Reliable'
  <2>1. ledger \subseteq ledger' /\ RowKeeps
    BY DEF RowKeeps
  <2>2. ASSUME NEW u \in Workers PROVE Relied(worker[u])'
    <3>1. PICK y \in WorkerStates : y = worker[u]
      BY DEF IInv, TypeOK
    <3>2. Relied(y)
      BY <3>1 DEF IInv, Reliable
    <3>3. Relied(y)'
      BY <2>1, <3>2, RelianceKeeps
    <3>4. worker'[u] = y
      BY <3>1
    <3> QED BY <3>3, <3>4
  <2> QED BY <2>2 DEF Reliable
<1>3. DispatchedOnce'
  BY DEF IInv, DispatchedOnce
<1>4. PayableIsRecorded' /\ FundingConsistent'
  BY DEF IInv, PayableIsRecorded, FundingConsistent
<1>5. FundedByProvider'
  BY DEF IInv, TypeOK, FundedByProvider, ProvKeeps, Funded
<1> QED BY <1>1, <1>2, <1>3, <1>4, <1>5 DEF IInv

\* Nothing is recorded, announced or in progress at first.
LEMMA InitIInv == Init => IInv
<1> SUFFICES ASSUME Init PROVE IInv
  OBVIOUS
<1>1. TypeOK
  <2>1. Idle \in WorkerStates
    BY DEF WorkerStates
  <2> QED BY <2>1 DEF Init, TypeOK, NoRow, Statuses
<1>2. Reliable /\ DispatchedOnce
  BY DEF Init, Reliable, Relied, DispatchedOnce, Idle, InDispatch
<1>3. PayableIsRecorded /\ FundingConsistent /\ FundedByProvider
  BY DEF Init, PayableIsRecorded, FundingConsistent, FundedByProvider
<1> QED BY <1>1, <1>2, <1>3 DEF IInv

-----------------------------------------------------------------------------
\* The types of the variables that most steps leave alone.
LEMMA Types ==
    ASSUME IInv
    PROVE  /\ prov \in [Txns -> ProviderStates \cup {"none"}] /\ due \subseteq Calls
           /\ event \in [Txns -> {"none", "RECEIVED", "FAILED", "PROCESSED"}]
           /\ deleted \in BOOLEAN /\ capacity \in Capacities
           /\ worker \in [Workers -> WorkerStates]
           /\ row \in {NoRow} \cup [txn : Txns, state : {"CREATED", "FUNDS_RECEIVED"}]
BY DEF IInv, TypeOK

\* TradeSafe enters a state and may call back for it.
LEMMA EnterStateTypes ==
    ASSUME IInv, NEW t \in Txns, NEW state \in ProviderStates, EnterState(t, state)
    PROVE  /\ prov' \in [Txns -> ProviderStates \cup {"none"}]
           /\ prov' = [prov EXCEPT ![t] = state]
           /\ due' \subseteq Calls
<1>1. [txn |-> t, state |-> state] \in Calls
  BY DEF Calls
<1>2. due' \subseteq due \cup {[txn |-> t, state |-> state]}
  BY DEF EnterState
<1> QED BY <1>1, <1>2, Types DEF EnterState

\* The checkout: the row is written once, and the URL handed out is the row's.
LEMMA FundRequestIInv == ASSUME IInv, NEW w \in Workers, FundRequest(w) PROVE IInv'
<1> USE DEF At, Starts
<1>t. /\ prov \in [Txns -> ProviderStates \cup {"none"}] /\ due \subseteq Calls
      /\ event \in [Txns -> {"none", "RECEIVED", "FAILED", "PROCESSED"}]
      /\ deleted \in BOOLEAN /\ capacity \in Capacities
      /\ worker \in [Workers -> WorkerStates]
      /\ row \in {NoRow} \cup [txn : Txns, state : {"CREATED", "FUNDS_RECEIVED"}]
  BY Types
<1>k. /\ UNCHANGED prov => ProvKeeps
      /\ UNCHANGED event => EventsKeep
  BY DEF ProvKeeps, EventsKeep
<1>i. Idle \in WorkerStates /\ Relied(Idle) /\ Relied(Idle)' /\ Continues(w, Idle)
  BY DEF WorkerStates, Relied, Idle, Continues, InDispatch
<1>1. CASE resumeFunding(w)
  <2>1. PICK x : x = [at |-> "handOut", txn |-> row.txn]
    OBVIOUS
  <2>2. row.txn \in Txns
    BY <1>1, <1>t DEF resumeFunding, NoRow
  <2>3. x \in WorkerStates
    BY <2>1, <2>2 DEF WorkerStates
  <2>4. Relied(x) /\ Continues(w, x)
    BY <2>1 DEF Relied, Continues, InDispatch
  <2>5. Goto(w, x) /\ UNCHANGED <<prov, due, handed, killSwitch, row, status, payment, deleted, capacity, overridden, ledger, event>>
    BY <1>1, <2>1 DEF resumeFunding, provider, bounty
  <2> QED BY <2>3, <2>4, <2>5, <1>t, <1>k, MoveIInv
<1>2. CASE createBountyFunding(w)
  <2>1. PICK x : x = [at |-> "create"]
    OBVIOUS
  <2>2. x \in WorkerStates /\ Relied(x) /\ Continues(w, x)
    BY <2>1 DEF WorkerStates, Relied, Continues, InDispatch
  <2>3. Goto(w, x) /\ UNCHANGED <<prov, due, handed, killSwitch, row, status, payment, deleted, capacity, overridden, ledger, event>>
    BY <1>2, <2>1 DEF createBountyFunding, provider, bounty
  <2> QED BY <2>2, <2>3, <1>t, <1>k, MoveIInv
<1>3. CASE TransactionCreate(w)
  <2>1. PICK t \in Txns : /\ prov[t] = "none"
                          /\ EnterState(t, "CREATED")
                          /\ Goto(w, [at |-> "persist", txn |-> t])
    BY <1>3 DEF TransactionCreate
  <2>2. PICK x : x = [at |-> "persist", txn |-> t]
    OBVIOUS
  <2>3. x \in WorkerStates /\ Relied(x) /\ Continues(w, x)
    BY <2>2 DEF WorkerStates, Relied, Continues, InDispatch
  <2>4. "CREATED" \in ProviderStates
    BY DEF ProviderStates
  <2>5. /\ prov' \in [Txns -> ProviderStates \cup {"none"}]
        /\ prov' = [prov EXCEPT ![t] = "CREATED"]
        /\ due' \subseteq Calls
    BY <2>1, <2>4, EnterStateTypes
  <2>6. ProvKeeps
    BY <2>1, <2>5, <1>t DEF ProvKeeps, Funded
  <2>7. UNCHANGED <<handed, killSwitch, row, status, payment, deleted, capacity, overridden, ledger, event>>
    BY <1>3 DEF TransactionCreate, bounty
  <2> QED BY <2>1, <2>2, <2>3, <2>5, <2>6, <2>7, <1>t, <1>k, MoveIInv
<1>4. CASE Persist(w) /\ HasTransaction
  <2>1. Goto(w, Idle) /\ UNCHANGED <<prov, due, handed, killSwitch, row, status, payment, deleted, capacity, overridden, ledger, event>>
    BY <1>4 DEF Persist, provider
  <2> QED BY <2>1, <1>t, <1>k, <1>i, MoveIInv
<1>5. CASE Persist(w) /\ ~HasTransaction
  <2>1. PICK t \in Txns : t = worker[w].txn
    BY <1>5, <1>t, Fields DEF Persist
  <2>2. PICK x : x = [at |-> "handOut", txn |-> t]
    OBVIOUS
  <2>3. /\ row = NoRow
        /\ row' = [txn |-> t, state |-> "CREATED"]
        /\ payment' = "PENDING"
        /\ Goto(w, x)
        /\ UNCHANGED <<prov, due, handed, killSwitch, status, deleted, capacity, overridden, ledger, event>>
    BY <1>5, <2>1, <2>2 DEF Persist, HasTransaction, NewRow, provider
  <2>4. row.txn \notin Txns
    BY <2>3, FundingAssumption DEF NoRow
  <2>5. ledger = {} /\ handed = {} /\ (status = "DRAFT" \/ overridden)
    BY <2>4 DEF IInv, TypeOK, FundingConsistent, PayableIsRecorded
  <2>6. ledger \subseteq ledger' /\ RowKeeps /\ ProvKeeps
    BY <2>3, <2>4 DEF RowKeeps, ProvKeeps
  <2>7. x \in WorkerStates /\ Continues(w, x)
    BY <2>2 DEF WorkerStates, Continues, InDispatch
  <2>8. Relied(x)'
    BY <2>2, <2>3 DEF Relied
  <2>9. Reliable' /\ worker' \in [Workers -> WorkerStates]
    BY <2>3, <2>6, <2>7, <2>8, ReliableKeeps
  <2>10. TypeOK'
    BY <2>3, <2>9 DEF IInv, TypeOK
  <2>11. DispatchedOnce'
    BY <2>3, <2>7, <1>k, DispatchKeeps
  <2>12. PayableIsRecorded' /\ FundingConsistent' /\ FundedByProvider'
    BY <2>3, <2>5 DEF PayableIsRecorded, FundingConsistent, FundedByProvider
  <2> QED BY <2>9, <2>10, <2>11, <2>12 DEF IInv
<1>6. CASE HandOut(w)
  <2>1. PICK t \in Txns : t = worker[w].txn
    BY <1>6, <1>t, Fields DEF HandOut
  <2>2. row.txn = t
    BY <1>6, <2>1 DEF HandOut, IInv, Reliable, Relied
  <2>3. /\ handed' = handed \cup {t}
        /\ Goto(w, Idle)
        /\ UNCHANGED <<prov, due, killSwitch, row, status, payment, deleted, capacity, overridden, ledger, event>>
    BY <1>6, <2>1 DEF HandOut, provider, bounty
  <2>4. ledger \subseteq ledger' /\ RowKeeps /\ ProvKeeps /\ EventsKeep
    BY <2>3 DEF RowKeeps, ProvKeeps, EventsKeep
  <2>5. Reliable' /\ worker' \in [Workers -> WorkerStates]
    BY <2>3, <2>4, <1>i, ReliableKeeps
  <2>6. TypeOK'
    BY <2>3, <2>5 DEF IInv, TypeOK
  <2>7. DispatchedOnce'
    BY <2>3, <2>4, <1>i, DispatchKeeps
  <2>8. PayableIsRecorded' /\ FundingConsistent' /\ FundedByProvider'
    BY <2>2, <2>3 DEF IInv, PayableIsRecorded, FundingConsistent, FundedByProvider
  <2> QED BY <2>5, <2>6, <2>7, <2>8 DEF IInv
<1> QED BY <1>1, <1>2, <1>3, <1>4, <1>5, <1>6 DEF FundRequest

\* The first delivery of a transaction's callbacks enters the dispatch.
LEMMA ReceiveIInv == ASSUME IInv, NEW w \in Workers, NEW call \in Calls, receive(w, call)
                     PROVE  IInv'
<1> USE DEF At, Starts
<1>t. /\ prov \in [Txns -> ProviderStates \cup {"none"}] /\ due \subseteq Calls
      /\ event \in [Txns -> {"none", "RECEIVED", "FAILED", "PROCESSED"}]
      /\ deleted \in BOOLEAN /\ capacity \in Capacities
      /\ worker \in [Workers -> WorkerStates]
      /\ row \in {NoRow} \cup [txn : Txns, state : {"CREATED", "FUNDS_RECEIVED"}]
  BY Types
<1>k. /\ UNCHANGED prov => ProvKeeps
      /\ UNCHANGED event => EventsKeep
  BY DEF ProvKeeps, EventsKeep
<1>i. Idle \in WorkerStates /\ Relied(Idle) /\ Relied(Idle)' /\ Continues(w, Idle)
  BY DEF WorkerStates, Relied, Idle, Continues, InDispatch
<1>1. call.txn \in Txns
  BY DEF Calls
<1>2. CASE IsDuplicate(call.txn)
  <2>1. PICK x : x = [at |-> "reply", call |-> call]
    OBVIOUS
  <2>2. x \in WorkerStates /\ Relied(x) /\ Continues(w, x)
    BY <2>1 DEF WorkerStates, Relied, Continues, InDispatch
  <2>3. Goto(w, x) /\ UNCHANGED <<prov, due, handed, killSwitch, row, status, payment, deleted, capacity, overridden, ledger, event>>
    BY <1>2, <2>1 DEF receive, OnDuplicate, provider, bounty
  <2> QED BY <2>2, <2>3, <1>t, <1>k, MoveIInv
<1>3. CASE ~IsDuplicate(call.txn)
  <2>1. PICK x : x = [at |-> "refetch", call |-> call]
    OBVIOUS
  <2>2. /\ event[call.txn] = "none"
        /\ event' = [event EXCEPT ![call.txn] = "RECEIVED"]
        /\ Goto(w, x)
        /\ UNCHANGED <<prov, due, handed, killSwitch, row, status, payment, deleted, capacity, overridden, ledger>>
    BY <1>3, <2>1 DEF receive, IsDuplicate, provider, bounty
  <2>3. /\ event'[call.txn] = "RECEIVED"
        /\ \A t \in Txns : t # call.txn => event'[t] = event[t]
        /\ event' \in [Txns -> {"none", "RECEIVED", "FAILED", "PROCESSED"}]
    BY <1>1, <1>t, <2>2
  <2>4. x \in WorkerStates /\ Relied(x)'
    BY <2>1 DEF WorkerStates, Relied
  <2>5. ledger \subseteq ledger' /\ RowKeeps /\ ProvKeeps
    BY <2>2 DEF RowKeeps, ProvKeeps
  <2>6. Reliable' /\ worker' \in [Workers -> WorkerStates]
    BY <2>2, <2>4, <2>5, ReliableKeeps
  <2>7. TypeOK'
    BY <2>2, <2>3, <2>6 DEF IInv, TypeOK
  <2>8. DispatchedOnce'
    <3>1. worker'[w] = x /\ \A u \in Workers : u # w => worker'[u] = worker[u]
      BY <1>t, <2>2 DEF Goto
    <3>2. \A u \in Workers : worker[u].at \in InDispatch \cup {"processed"} =>
              /\ worker[u].call.txn \in Txns
              /\ worker[u].call.txn # call.txn
      <4>1. \A u \in Workers : worker[u].at \in InDispatch \cup {"processed"} =>
                event[worker[u].call.txn] # "none"
        BY DEF IInv, DispatchedOnce
      <4> QED BY <1>t, <2>2, <4>1, Fields
    <3>3. call.txn \notin ledger
      BY <2>2 DEF IInv, DispatchedOnce
    <3>4. x.call.txn = call.txn
      BY <2>1
    <3>5. \A u \in Workers : worker'[u].at \in InDispatch \cup {"processed"} =>
                                 event'[worker'[u].call.txn] # "none"
      <4>1. ASSUME NEW u \in Workers, worker'[u].at \in InDispatch \cup {"processed"}
            PROVE  event'[worker'[u].call.txn] # "none"
        <5>1. CASE u = w
          BY <3>1, <3>4, <2>3, <5>1
        <5>2. CASE u # w
          <6>1. worker'[u] = worker[u]
            BY <3>1, <5>2
          <6>2. /\ worker[u].call.txn \in Txns
                /\ worker[u].call.txn # call.txn
                /\ event[worker[u].call.txn] # "none"
            BY <4>1, <6>1, <3>2 DEF IInv, DispatchedOnce
          <6> QED BY <6>1, <6>2, <2>3
        <5> QED BY <5>1, <5>2
      <4> QED BY <4>1
    <3>6. \A u \in Workers : worker'[u].at \in InDispatch => worker'[u].call.txn \notin ledger'
      BY <3>1, <3>3, <3>4, <2>2 DEF IInv, DispatchedOnce
    <3>7. \A u, v \in Workers :
              worker'[u].at \in InDispatch /\ worker'[v].at \in InDispatch
              /\ worker'[u].call.txn = worker'[v].call.txn => u = v
      <4>1. \A u, v \in Workers :
                worker[u].at \in InDispatch /\ worker[v].at \in InDispatch
                /\ worker[u].call.txn = worker[v].call.txn => u = v
        BY DEF IInv, DispatchedOnce
      <4> QED BY <3>1, <3>2, <3>4, <4>1
    <3>8. \A t \in ledger' : event'[t] # "none"
      <4>1. ledger \subseteq Txns
        BY DEF IInv, TypeOK
      <4> QED BY <2>2, <2>3, <4>1 DEF IInv, DispatchedOnce
    <3> QED BY <3>5, <3>6, <3>7, <3>8 DEF DispatchedOnce
  <2>9. PayableIsRecorded' /\ FundingConsistent' /\ FundedByProvider'
    BY <2>2 DEF IInv, PayableIsRecorded, FundingConsistent, FundedByProvider
  <2> QED BY <2>6, <2>7, <2>8, <2>9 DEF IInv
<1> QED BY <1>2, <1>3

\* The funding transaction: no other delivery is anywhere near it.
LEMMA FundIInv == ASSUME IInv, NEW w \in Workers, Fund(w) PROVE IInv'
<1> USE DEF At, Starts
<1>t. /\ prov \in [Txns -> ProviderStates \cup {"none"}] /\ due \subseteq Calls
      /\ event \in [Txns -> {"none", "RECEIVED", "FAILED", "PROCESSED"}]
      /\ deleted \in BOOLEAN /\ capacity \in Capacities
      /\ worker \in [Workers -> WorkerStates]
      /\ row \in {NoRow} \cup [txn : Txns, state : {"CREATED", "FUNDS_RECEIVED"}]
  BY Types
<1>k. /\ UNCHANGED prov => ProvKeeps
      /\ UNCHANGED event => EventsKeep
  BY DEF ProvKeeps, EventsKeep
<1>i. Idle \in WorkerStates /\ Relied(Idle) /\ Relied(Idle)' /\ Continues(w, Idle)
  BY DEF WorkerStates, Relied, Idle, Continues, InDispatch
<1>1. PICK y \in WorkerStates : y = worker[w]
  BY <1>t
<1>2. y.at = "fund" /\ Relied(y)
  BY <1>1 DEF Fund, IInv, Reliable
<1>3. PICK t \in Txns : t = y.call.txn
  BY <1>2, Fields DEF InDispatch
<1>4. PICK x : x = [at |-> "processed", call |-> y.call]
  OBVIOUS
<1>5. x \in WorkerStates /\ Relied(x)'
  BY <1>2, <1>4, Fields DEF WorkerStates, Relied, InDispatch
<1>6. /\ ledger' = ledger \cup {t}
      /\ row' = [row EXCEPT !.state = "FUNDS_RECEIVED"]
      /\ status' = IF y.flip THEN "LIVE" ELSE status
      /\ payment' = IF y.flip THEN "PAID" ELSE payment
      /\ Goto(w, x)
      /\ UNCHANGED <<prov, due, handed, killSwitch, deleted, capacity, overridden, event>>
  BY <1>1, <1>3, <1>4 DEF Fund, provider
<1>7. row.txn = t /\ prov[t] \in Funded /\ (~y.flip => ledger # {})
  BY <1>2, <1>3 DEF Relied
<1>8. row' = [txn |-> t, state |-> "FUNDS_RECEIVED"]
  <2>1. row \in [txn : Txns, state : {"CREATED", "FUNDS_RECEIVED"}]
    BY <1>t, <1>7, <1>3, FundingAssumption DEF NoRow
  <2> QED BY <1>6, <1>7, <2>1
<1>9. ledger \subseteq ledger' /\ RowKeeps /\ ProvKeeps
  BY <1>6, <1>7, <1>8 DEF RowKeeps, ProvKeeps
<1>10. Reliable' /\ worker' \in [Workers -> WorkerStates]
  BY <1>5, <1>6, <1>9, ReliableKeeps
<1>11. TypeOK'
  <2>1. status' \in Statuses /\ payment' \in {"UNPAID", "PENDING", "PAID", "REFUNDED"}
    BY <1>6 DEF IInv, TypeOK, Statuses
  <2>2. ledger' \subseteq Txns
    BY <1>3, <1>6 DEF IInv, TypeOK
  <2>3. row' \in {NoRow} \cup [txn : Txns, state : {"CREATED", "FUNDS_RECEIVED"}]
    BY <1>3, <1>8
  <2> QED BY <1>6, <1>10, <2>1, <2>2, <2>3 DEF IInv, TypeOK
<1>12. DispatchedOnce'
  <2>1. worker'[w] = x /\ \A u \in Workers : u # w => worker'[u] = worker[u]
    BY <1>t, <1>6 DEF Goto
  <2>2. x.at = "processed" /\ x.at \notin InDispatch /\ x.call.txn = t
    BY <1>3, <1>4 DEF InDispatch
  <2>3. event[t] # "none"
    BY <1>1, <1>2, <1>3 DEF IInv, DispatchedOnce, InDispatch
  <2>4. \A u \in Workers : worker'[u].at \in InDispatch =>
            u # w /\ worker'[u] = worker[u] /\ worker[u].at \in InDispatch
    BY <2>1, <2>2
  <2>5. \A u \in Workers : u # w /\ worker[u].at \in InDispatch => worker[u].call.txn # t
    BY <1>1, <1>2, <1>3 DEF IInv, DispatchedOnce, InDispatch
  <2>6. \A u \in Workers : worker'[u].at \in InDispatch \cup {"processed"} =>
                               event'[worker'[u].call.txn] # "none"
    BY <2>1, <2>2, <2>3, <1>6 DEF IInv, DispatchedOnce
  <2>7. \A u \in Workers : worker'[u].at \in InDispatch => worker'[u].call.txn \notin ledger'
    BY <2>4, <2>5, <1>6 DEF IInv, DispatchedOnce
  <2>8. \A u, v \in Workers :
            worker'[u].at \in InDispatch /\ worker'[v].at \in InDispatch
            /\ worker'[u].call.txn = worker'[v].call.txn => u = v
    BY <2>4 DEF IInv, DispatchedOnce
  <2>9. \A v \in ledger' : event'[v] # "none"
    BY <2>3, <1>6 DEF IInv, DispatchedOnce
  <2> QED BY <2>6, <2>7, <2>8, <2>9 DEF DispatchedOnce
<1>13. PayableIsRecorded' /\ FundedByProvider'
  BY <1>6, <1>7, <1>8 DEF IInv, PayableIsRecorded, FundedByProvider, Funded
<1>14. FundingConsistent'
  <2>1. \A v \in ledger : v = t
    BY <1>7 DEF IInv, FundingConsistent
  <2>2. ledger' # {} /\ \A v \in ledger' : v = t
    BY <1>6, <2>1
  <2>3. payment' \in {"PAID", "REFUNDED"}
    BY <1>6, <1>7 DEF IInv, FundingConsistent
  <2> QED BY <1>8, <2>2, <2>3 DEF FundingConsistent
<1> QED BY <1>10, <1>11, <1>12, <1>13, <1>14 DEF IInv

\* The other steps of the receiver; the state that counts is TradeSafe's own.
LEMMA HandleIInv == ASSUME IInv, NEW w \in Workers, Handle(w) PROVE IInv'
<1> USE DEF At, Starts
<1>t. /\ prov \in [Txns -> ProviderStates \cup {"none"}] /\ due \subseteq Calls
      /\ event \in [Txns -> {"none", "RECEIVED", "FAILED", "PROCESSED"}]
      /\ deleted \in BOOLEAN /\ capacity \in Capacities
      /\ worker \in [Workers -> WorkerStates]
      /\ row \in {NoRow} \cup [txn : Txns, state : {"CREATED", "FUNDS_RECEIVED"}]
  BY Types
<1>k. /\ UNCHANGED prov => ProvKeeps
      /\ UNCHANGED event => EventsKeep
  BY DEF ProvKeeps, EventsKeep
<1>i. Idle \in WorkerStates /\ Relied(Idle) /\ Relied(Idle)' /\ Continues(w, Idle)
  BY DEF WorkerStates, Relied, Idle, Continues, InDispatch
<1>y. PICK y \in WorkerStates : y = worker[w]
  BY <1>t
<1>f. y.at \in InDispatch \cup {"processed", "reply"} => y.call \in Calls /\ y.call.txn \in Txns
  BY Fields
<1>r. Relied(y)
  BY <1>y DEF IInv, Reliable
<1>1. ASSUME NEW call \in Calls, receive(w, call) PROVE IInv'
  BY <1>1, ReceiveIInv
<1>2. CASE Refetch(w)
  <2>1. PICK x : x = [y EXCEPT !.at = IF CarriesFunds(y.call.txn) THEN "findRow" ELSE "processed"]
    OBVIOUS
  <2>2. y.at = "refetch"
    BY <1>2, <1>y DEF Refetch
  <2>3. y \in [at : {"refetch", "findRow", "processed", "reply"}, call : Calls]
    BY <2>2 DEF WorkerStates, Idle
  <2>4. /\ x \in [at : {"refetch", "findRow", "processed", "reply"}, call : Calls]
        /\ x.at = IF CarriesFunds(y.call.txn) THEN "findRow" ELSE "processed"
        /\ x.call = y.call
    BY <2>1, <2>3
  <2>5. x \in WorkerStates
    BY <2>4 DEF WorkerStates
  <2>6. Relied(x)
    BY <2>4 DEF Relied, CarriesFunds, Funded
  <2>7. Continues(w, x)
    BY <2>2, <2>4, <1>y DEF Continues, InDispatch
  <2>8. Goto(w, x) /\ UNCHANGED <<prov, due, handed, killSwitch, row, status, payment, deleted, capacity, overridden, ledger, event>>
    BY <1>2, <1>y, <2>1 DEF Refetch, provider, bounty
  <2> QED BY <2>5, <2>6, <2>7, <2>8, <1>t, <1>k, MoveIInv
<1>3. CASE FindRow(w)
  <2>1. y.at = "findRow"
    BY <1>3, <1>y DEF FindRow
  <2>2. UNCHANGED <<prov, due, handed, killSwitch, row, status, payment, deleted, capacity, overridden, ledger, event>>
    BY <1>3 DEF FindRow, provider, bounty
  <2>3. prov[y.call.txn] \in Funded /\ y.call \in Calls
    BY <2>1, <1>r, <1>f DEF Relied, InDispatch
  <2>4. CASE row.txn = y.call.txn
    <3>1. PICK x : x = [at |-> "fund", call |-> y.call,
                        flip |-> status = "DRAFT" \/ payment # "PAID"]
      OBVIOUS
    <3>2. Goto(w, x)
      BY <1>3, <1>y, <2>4, <3>1 DEF FindRow
    <3>3. x \in WorkerStates
      BY <2>3, <3>1 DEF WorkerStates
    <3>4. ~x.flip => ledger # {}
      BY <3>1 DEF IInv, FundingConsistent
    <3>5. Relied(x) /\ Continues(w, x)
      BY <2>1, <2>3, <2>4, <3>1, <3>4, <1>y DEF Relied, Continues, InDispatch
    <3> QED BY <2>2, <3>2, <3>3, <3>5, <1>t, <1>k, MoveIInv
  <2>5. CASE row.txn # y.call.txn
    <3>1. PICK x : x = [at |-> "processed", call |-> y.call]
      OBVIOUS
    <3>2. Goto(w, x)
      BY <1>3, <1>y, <2>5, <3>1 DEF FindRow
    <3>3. x \in WorkerStates
      BY <2>3, <3>1 DEF WorkerStates
    <3>4. Relied(x) /\ Continues(w, x)
      BY <2>1, <3>1, <1>y DEF Relied, Continues, InDispatch
    <3> QED BY <2>2, <3>2, <3>3, <3>4, <1>t, <1>k, MoveIInv
  <2> QED BY <2>4, <2>5
<1>4. CASE Fund(w)
  BY <1>4, FundIInv
<1>5. CASE Processed(w)
  <2>1. y.at = "processed" /\ y.call \in Calls /\ y.call.txn \in Txns
    BY <1>5, <1>y, <1>f DEF Processed
  <2>2. PICK x : x = [at |-> "reply", call |-> y.call]
    OBVIOUS
  <2>3. x \in WorkerStates /\ Relied(x) /\ Continues(w, x)
    BY <2>1, <2>2 DEF WorkerStates, Relied, Continues, InDispatch
  <2>4. /\ event' = [event EXCEPT ![y.call.txn] = "PROCESSED"]
        /\ Goto(w, x)
        /\ UNCHANGED <<prov, due, handed, killSwitch, row, status, payment, deleted, capacity, overridden, ledger>>
    BY <1>5, <1>y, <2>2 DEF Processed, provider, bounty
  <2>5. /\ event' \in [Txns -> {"none", "RECEIVED", "FAILED", "PROCESSED"}]
        /\ EventsKeep
    BY <2>1, <2>4, <1>t DEF EventsKeep
  <2> QED BY <2>3, <2>4, <2>5, <1>t, <1>k, MoveIInv
<1>6. CASE Reply(w)
  <2>1. /\ due' \subseteq Calls
        /\ Goto(w, Idle)
        /\ UNCHANGED <<prov, handed, killSwitch, row, status, payment, deleted, capacity, overridden, ledger, event>>
    BY <1>6, <1>t DEF Reply, bounty
  <2> QED BY <2>1, <1>t, <1>k, <1>i, MoveIInv
<1>7. CASE DispatchFails(w)
  <2>1. y.at \in InDispatch \cup {"processed"}
    BY <1>7, <1>y DEF DispatchFails, InDispatch
  <2>2. /\ event' = [event EXCEPT ![y.call.txn] = "FAILED"]
        /\ Goto(w, Idle)
        /\ UNCHANGED <<prov, due, handed, killSwitch, row, status, payment, deleted, capacity, overridden, ledger>>
    BY <1>7, <1>y DEF DispatchFails, provider, bounty
  <2>3. /\ event' \in [Txns -> {"none", "RECEIVED", "FAILED", "PROCESSED"}]
        /\ EventsKeep
    BY <2>1, <2>2, <1>f, <1>t DEF EventsKeep
  <2> QED BY <2>2, <2>3, <1>t, <1>k, <1>i, MoveIInv
<1> QED BY <1>1, <1>2, <1>3, <1>4, <1>5, <1>6, <1>7 DEF Handle

\* Edits: a bounty is published only after its funding group is there.
LEMMA ManageIInv == ASSUME IInv, NEW w \in Workers, Manage(w) PROVE IInv'
<1> USE DEF At, Starts
<1>t. /\ prov \in [Txns -> ProviderStates \cup {"none"}] /\ due \subseteq Calls
      /\ event \in [Txns -> {"none", "RECEIVED", "FAILED", "PROCESSED"}]
      /\ deleted \in BOOLEAN /\ capacity \in Capacities
      /\ worker \in [Workers -> WorkerStates]
      /\ row \in {NoRow} \cup [txn : Txns, state : {"CREATED", "FUNDS_RECEIVED"}]
  BY Types
<1>k. /\ UNCHANGED prov => ProvKeeps
      /\ UNCHANGED event => EventsKeep
  BY DEF ProvKeeps, EventsKeep
<1>i. Idle \in WorkerStates /\ Relied(Idle) /\ Relied(Idle)' /\ Continues(w, Idle)
  BY DEF WorkerStates, Relied, Idle, Continues, InDispatch
<1>1. ASSUME NEW to \in Statuses, updateStatus(w, to) PROVE IInv'
  <2>1. PICK x : x = [at |-> "setStatus", to |-> to]
    OBVIOUS
  <2>2. to # "DRAFT" => ledger # {} \/ overridden
    BY <1>1 DEF updateStatus, MayPublish, IInv, FundingConsistent
  <2>3. x \in WorkerStates /\ Relied(x) /\ Continues(w, x)
    BY <2>1, <2>2 DEF WorkerStates, Relied, Continues, InDispatch
  <2>4. Goto(w, x) /\ UNCHANGED <<prov, due, handed, killSwitch, row, status, payment, deleted, capacity, overridden, ledger, event>>
    BY <1>1, <2>1 DEF updateStatus, provider, bounty
  <2> QED BY <2>3, <2>4, <1>t, <1>k, MoveIInv
<1>2. ASSUME NEW n \in Capacities, update(w, n) PROVE IInv'
  <2>1. PICK x : x = [at |-> "setCapacity", to |-> n]
    OBVIOUS
  <2>2. x \in WorkerStates /\ Relied(x) /\ Continues(w, x)
    BY <2>1 DEF WorkerStates, Relied, Continues, InDispatch
  <2>3. Goto(w, x) /\ UNCHANGED <<prov, due, handed, killSwitch, row, status, payment, deleted, capacity, overridden, ledger, event>>
    BY <1>2, <2>1 DEF update, provider, bounty
  <2> QED BY <2>2, <2>3, <1>t, <1>k, MoveIInv
<1>3. CASE delete(w)
  <2>1. PICK x : x = [at |-> "delete"]
    OBVIOUS
  <2>2. x \in WorkerStates /\ Relied(x) /\ Continues(w, x)
    BY <2>1 DEF WorkerStates, Relied, Continues, InDispatch
  <2>3. Goto(w, x) /\ UNCHANGED <<prov, due, handed, killSwitch, row, status, payment, deleted, capacity, overridden, ledger, event>>
    BY <1>3, <2>1 DEF delete, provider, bounty
  <2> QED BY <2>2, <2>3, <1>t, <1>k, MoveIInv
<1>4. CASE SetStatus(w)
  <2>1. PICK y \in WorkerStates : y = worker[w]
    BY <1>t
  <2>2. y.at = "setStatus" /\ Relied(y) /\ y.to \in Statuses
    BY <1>4, <2>1, Fields DEF SetStatus, IInv, Reliable
  <2>3. /\ status' = y.to
        /\ Goto(w, Idle)
        /\ UNCHANGED <<prov, due, handed, killSwitch, row, payment, deleted, capacity, overridden, ledger, event>>
    BY <1>4, <2>1 DEF SetStatus, provider
  <2>4. ledger \subseteq ledger' /\ RowKeeps /\ ProvKeeps /\ EventsKeep
    BY <2>3 DEF RowKeeps, ProvKeeps, EventsKeep
  <2>5. Reliable' /\ worker' \in [Workers -> WorkerStates]
    BY <2>3, <2>4, <1>i, ReliableKeeps
  <2>6. TypeOK'
    BY <2>2, <2>3, <2>5 DEF IInv, TypeOK
  <2>7. DispatchedOnce'
    BY <2>3, <2>4, <1>i, DispatchKeeps
  <2>8. PayableIsRecorded' /\ FundedByProvider'
    BY <2>3 DEF IInv, PayableIsRecorded, FundedByProvider
  <2>9. FundingConsistent'
    BY <2>2, <2>3 DEF IInv, FundingConsistent, Relied
  <2> QED BY <2>5, <2>6, <2>7, <2>8, <2>9 DEF IInv
<1>5. CASE SetCapacity(w)
  <2>1. worker[w].to \in Capacities
    BY <1>5, <1>t, Fields DEF SetCapacity
  <2>2. /\ capacity' \in Capacities
        /\ Goto(w, Idle)
        /\ UNCHANGED <<prov, due, handed, killSwitch, row, status, payment, deleted, overridden, ledger, event>>
    BY <1>5, <2>1 DEF SetCapacity, provider
  <2> QED BY <2>2, <1>t, <1>k, <1>i, MoveIInv
<1>6. CASE SetDeleted(w)
  <2>1. /\ deleted' \in BOOLEAN
        /\ Goto(w, Idle)
        /\ UNCHANGED <<prov, due, handed, killSwitch, row, status, payment, capacity, overridden, ledger, event>>
    BY <1>6 DEF SetDeleted, provider
  <2> QED BY <2>1, <1>t, <1>k, <1>i, MoveIInv
<1> QED BY <1>1, <1>2, <1>3, <1>4, <1>5, <1>6 DEF Manage

\* TradeSafe never takes back money it has reported.
LEMMA ProviderIInv == ASSUME IInv, NEW t \in Txns, Pay(t) \/ Advance(t) PROVE IInv'
<1>1. PICK state \in ProviderStates :
          /\ EnterState(t, state)
          /\ prov[t] \in Funded => state \in Funded
  BY DEF Pay, Advance, ProviderStates, Later, Funded
<1>2. /\ prov' \in [Txns -> ProviderStates \cup {"none"}]
      /\ prov' = [prov EXCEPT ![t] = state]
      /\ due' \subseteq Calls
  BY <1>1, EnterStateTypes
<1>3. ProvKeeps
  BY <1>1, <1>2, Types DEF ProvKeeps
<1>4. UNCHANGED <<handed, killSwitch, row, status, payment, deleted, capacity, overridden, ledger, event, worker>>
  BY DEF Pay, Advance, bounty
<1>5. killSwitch' \in BOOLEAN /\ status' \in Statuses /\ overridden' \in BOOLEAN
  BY <1>4 DEF IInv, TypeOK
<1> QED BY <1>2, <1>3, <1>4, <1>5, EnvironmentIInv

\* AdminService writes the status alone, and is remembered where it may publish.
LEMMA AdminIInv ==
    ASSUME IInv, suspendBrand \/ \E to \in Overrides : overrideBounty(to)
    PROVE  IInv'
<1>1. UNCHANGED <<prov, due, handed, killSwitch, row, payment, deleted, capacity, ledger, event, worker>>
  BY DEF suspendBrand, overrideBounty, provider
<1>2. status' \in Statuses /\ overridden' \in BOOLEAN /\ (overridden => overridden')
  BY FundingAssumption DEF suspendBrand, overrideBounty, Statuses, IInv, TypeOK
<1>3. status' # "DRAFT" => overridden' \/ status # "DRAFT"
  BY DEF suspendBrand, overrideBounty
<1>4. ProvKeeps /\ killSwitch' \in BOOLEAN
  BY <1>1 DEF ProvKeeps, IInv, TypeOK
<1> QED BY <1>1, <1>2, <1>3, <1>4, Types, EnvironmentIInv

\* Every step preserves the inductive invariant.
LEMMA NextIInv == IInv /\ [Next]_vars => IInv'
<1> SUFFICES ASSUME IInv, [Next]_vars PROVE IInv'
  OBVIOUS
<1>1. ASSUME NEW t \in Txns, Pay(t) \/ Advance(t) PROVE IInv'
  BY <1>1, ProviderIInv
<1>2. ASSUME NEW w \in Workers, FundRequest(w) PROVE IInv'
  BY <1>2, FundRequestIInv
<1>3. ASSUME NEW w \in Workers, Handle(w) PROVE IInv'
  BY <1>3, HandleIInv
<1>4. ASSUME NEW w \in Workers, Manage(w) PROVE IInv'
  BY <1>4, ManageIInv
<1>5. ASSUME NEW w \in Workers, Abort(w) PROVE IInv'
  <2>1. Idle \in WorkerStates /\ Relied(Idle) /\ Continues(w, Idle)
    BY DEF WorkerStates, Relied, Idle, Continues, InDispatch
  <2>2. Goto(w, Idle) /\ UNCHANGED <<prov, due, handed, killSwitch, row, status, payment, deleted, capacity, overridden, ledger, event>>
    BY <1>5 DEF Abort, provider, bounty
  <2>3. ProvKeeps /\ EventsKeep
    BY <2>2 DEF ProvKeeps, EventsKeep
  <2> QED BY <2>1, <2>2, <2>3, Types, MoveIInv
<1>6. CASE MarkRefunded \/ setKillSwitch \/ UNCHANGED vars
  <2>1. /\ payment' = payment \/ (payment = "PAID" /\ payment' = "REFUNDED")
        /\ UNCHANGED <<prov, due, handed, row, status, deleted, capacity, overridden, ledger, event, worker>>
    BY <1>6 DEF MarkRefunded, setKillSwitch, vars, provider, bounty
  <2>2. killSwitch' \in BOOLEAN /\ status' \in Statuses /\ overridden' \in BOOLEAN
    BY <1>6, <2>1 DEF MarkRefunded, setKillSwitch, vars, IInv, TypeOK
  <2>3. ProvKeeps
    BY <2>1 DEF ProvKeeps
  <2> QED BY <2>1, <2>2, <2>3, Types, EnvironmentIInv
<1>7. ASSUME NEW to \in Overrides, overrideBounty(to) PROVE IInv'
  BY <1>7, AdminIInv
<1>8. CASE suspendBrand
  BY <1>8, AdminIInv
<1> QED BY <1>1, <1>2, <1>3, <1>4, <1>5, <1>6, <1>7, <1>8 DEF Next

\* The inductive invariant holds in every reachable state.
LEMMA InductiveInvariant == Spec => []IInv
BY InitIInv, NextIInv, PTL DEF Spec

\* The variables keep their types.
THEOREM TypeCorrect == Spec => []TypeOK
BY InductiveInvariant, PTL DEF IInv

\* createBountyFunding hands out a checkout URL only after it has written, or
\* found, the unique row of that transaction: the brand can pay no other.
THEOREM OnlyRecordedIsPayable == Spec => []PayableIsRecorded
BY InductiveInvariant, PTL DEF IInv

\* However checkouts, callbacks, edits and the refund interleave, bounty, row
\* and ledger agree on the funding.
THEOREM FundingStaysConsistent == Spec => []FundingConsistent
BY InductiveInvariant, PTL DEF IInv

\* receive asks TradeSafe again before it funds: no group without money.
THEOREM NoFundingWithoutMoney == Spec => []FundedByProvider
BY InductiveInvariant, PTL DEF IInv

\* recordOrFetch lets one delivery per transaction through, so none of them is
\* left to turn a refunded bounty into a paid one.
THEOREM RefundsStay == Spec => RefundIsFinal
<1>1. IInv /\ [Next]_vars => [payment = "REFUNDED" => payment' = "REFUNDED"]_vars
  <2> SUFFICES ASSUME IInv, Next, payment = "REFUNDED" PROVE payment' = "REFUNDED"
    OBVIOUS
  <2>1. PICK t \in ledger : row = [txn |-> t, state |-> "FUNDS_RECEIVED"]
    BY DEF IInv, FundingConsistent
  <2>2. t \in Txns /\ row.txn = t
    BY <2>1 DEF IInv, TypeOK
  <2>3. ASSUME NEW w \in Workers, Persist(w) PROVE payment' = payment
    <3>1. HasTransaction
      BY <2>2, FundingAssumption DEF HasTransaction, NoRow
    <3> QED BY <2>3, <3>1 DEF Persist
  <2>4. ASSUME NEW w \in Workers, Fund(w) PROVE FALSE
    <3>1. worker[w].at = "fund" /\ row.txn = worker[w].call.txn
      BY <2>4 DEF Fund, At, IInv, Reliable, Relied
    <3>2. worker[w].call.txn \notin ledger
      BY <3>1 DEF IInv, DispatchedOnce, InDispatch
    <3> QED BY <2>1, <2>2, <3>1, <3>2
  <2>5. ASSUME NEW w \in Workers, FundRequest(w) \/ Handle(w) PROVE payment' = payment
    BY <2>3, <2>4, <2>5
       DEF FundRequest, resumeFunding, createBountyFunding, TransactionCreate, HandOut,
           Handle, receive, Refetch, FindRow, Processed, Reply, DispatchFails, bounty
  <2>6. ASSUME NEW w \in Workers, Manage(w) \/ Abort(w) PROVE payment' = payment
    BY <2>6 DEF Manage, updateStatus, update, delete, SetStatus, SetCapacity, SetDeleted, Abort, bounty
  <2>7. ASSUME NEW t2 \in Txns, Pay(t2) \/ Advance(t2) PROVE payment' = payment
    BY <2>7 DEF Pay, Advance, bounty
  <2>8. CASE MarkRefunded \/ setKillSwitch
    BY <2>8 DEF MarkRefunded, setKillSwitch, bounty
  <2>9. CASE suspendBrand \/ \E to \in Overrides : overrideBounty(to)
    BY <2>9 DEF suspendBrand, overrideBounty
  <2> QED BY <2>5, <2>6, <2>7, <2>8, <2>9 DEF Next
<1> QED BY <1>1, InductiveInvariant, PTL DEF Spec, RefundIsFinal

-----------------------------------------------------------------------------
(* The refinement of BountyFunding.  Six steps show in what it sees; all      *)
(* others leave it alone.                                                    *)
PromiseVars == <<handed, Charged, ledger, Phase, status, overridden>>

\* Until a funding group is there the bounty counts as unfunded, and is a
\* draft unless an administrator has said otherwise.
LEMMA PhaseOfLedger ==
    ASSUME IInv
    PROVE  /\ Phase = "unfunded" <=> ledger = {}
           /\ Phase = "funded" <=> payment = "PAID"
           /\ Phase = "refunded" <=> payment = "REFUNDED"
           /\ ledger = {} => status = "DRAFT" \/ overridden
<1>1. payment \in {"UNPAID", "PENDING", "PAID", "REFUNDED"}
  BY DEF IInv, TypeOK
<1>2. payment = "PAID" => Phase = "funded"
  BY DEF Phase
<1>3. payment = "REFUNDED" => Phase = "refunded"
  BY DEF Phase
<1>4. payment \in {"UNPAID", "PENDING"} => Phase = "unfunded"
  BY DEF Phase
<1> QED BY <1>1, <1>2, <1>3, <1>4 DEF IInv, FundingConsistent

\* A step that changes nothing the promise sees is a stutter.
LEMMA Invisible ==
    ASSUME UNCHANGED PromiseVars
    PROVE  [Promise!Next]_Promise!vars
BY DEF PromiseVars, Promise!vars

\* handOut offers the one transaction of the row.
LEMMA HandOutRefines ==
    ASSUME IInv, NEW w \in Workers, HandOut(w)
    PROVE  [Promise!Next]_Promise!vars
<1>1. PICK t \in Txns : t = worker[w].txn
  BY Fields DEF HandOut, At, IInv, TypeOK
<1>2. row.txn = t
  BY <1>1 DEF HandOut, At, IInv, Reliable, Relied
<1>3. \A u \in handed : u = t
  BY <1>2 DEF IInv, PayableIsRecorded
<1>4. handed' = handed \cup {t}
  BY <1>1 DEF HandOut
<1>5. UNCHANGED <<Charged, ledger, Phase, status, overridden>>
  BY DEF HandOut, Charged, Phase, provider, bounty
<1>6. CASE handed = {}
  <2>1. Promise!Offer(t)
    BY <1>4, <1>5, <1>6 DEF Promise!Offer
  <2> QED BY <2>1 DEF Promise!Next
<1>7. CASE handed # {}
  <2>1. handed' = handed
    BY <1>3, <1>4, <1>7
  <2> QED BY <2>1, <1>5, Invisible DEF PromiseVars
<1> QED BY <1>6, <1>7

\* TradeSafe gets money for what the brand was offered, and keeps it.
LEMMA ProviderRefines ==
    ASSUME IInv, NEW t \in Txns, Pay(t) \/ Advance(t)
    PROVE  [Promise!Next]_Promise!vars
<1>t. prov \in [Txns -> ProviderStates \cup {"none"}]
  BY Types
<1>1. UNCHANGED <<handed, ledger, Phase, status, overridden>>
  BY DEF Pay, Advance, Phase, bounty
<1>2. CASE Pay(t)
  <2>1. prov' = [prov EXCEPT ![t] = "FUNDS_RECEIVED"] /\ t \in handed
    BY <1>2 DEF Pay, EnterState
  <2>2. Charged' = Charged \cup {t}
    BY <2>1, <1>t DEF Charged
  <2>3. Promise!Charge(t)
    BY <1>1, <2>1, <2>2 DEF Promise!Charge
  <2> QED BY <2>3 DEF Promise!Next
<1>3. CASE Advance(t)
  <2>1. \/ prov[t] = "FUNDS_RECEIVED" /\ prov' = [prov EXCEPT ![t] = "DELIVERED"]
        \/ prov[t] = "CREATED" /\ prov' = [prov EXCEPT ![t] = "CANCELLED"]
    BY <1>3 DEF Advance, EnterState
  <2>2. Charged' = Charged
    BY <2>1, <1>t DEF Charged
  <2> QED BY <1>1, <2>2, Invisible DEF PromiseVars
<1> QED BY <1>2, <1>3

\* The checkout calls TradeSafe and writes the row; a row is new only while
\* the bounty is unfunded.
LEMMA FundRequestRefines ==
    ASSUME IInv, NEW w \in Workers, FundRequest(w)
    PROVE  [Promise!Next]_Promise!vars
<1>t. prov \in [Txns -> ProviderStates \cup {"none"}]
  BY Types
<1>1. CASE resumeFunding(w) \/ createBountyFunding(w)
  BY <1>1, Invisible DEF resumeFunding, createBountyFunding, PromiseVars, Charged, Phase, provider, bounty
<1>2. CASE TransactionCreate(w)
  <2>1. PICK t \in Txns : prov[t] = "none" /\ prov' = [prov EXCEPT ![t] = "CREATED"]
    BY <1>2 DEF TransactionCreate, EnterState
  <2>2. Charged' = Charged
    BY <2>1, <1>t DEF Charged
  <2>3. UNCHANGED <<handed, ledger, Phase, status, overridden>>
    BY <1>2 DEF TransactionCreate, Phase, bounty
  <2> QED BY <2>2, <2>3, Invisible DEF PromiseVars
<1>3. CASE Persist(w)
  <2>1. UNCHANGED <<handed, Charged, ledger, status, overridden>>
    BY <1>3 DEF Persist, Charged, provider
  <2>2. CASE HasTransaction
    BY <1>3, <2>1, <2>2, Invisible DEF Persist, PromiseVars, Phase
  <2>3. CASE ~HasTransaction
    <3>1. ledger = {}
      BY <2>3, FundingAssumption DEF HasTransaction, NoRow, IInv, TypeOK, FundingConsistent
    <3>2. Phase = "unfunded"
      BY <3>1, PhaseOfLedger
    <3>3. payment' = "PENDING"
      BY <1>3, <2>3 DEF Persist
    <3>4. Phase' = "unfunded"
      BY <3>3 DEF Phase
    <3> QED BY <2>1, <3>2, <3>4, Invisible DEF PromiseVars
  <2> QED BY <2>2, <2>3
<1>4. CASE HandOut(w)
  BY <1>4, HandOutRefines
<1> QED BY <1>1, <1>2, <1>3, <1>4 DEF FundRequest

\* The first delivery that gets as far as funding finds the bounty unfunded,
\* and there is no second one.
LEMMA FundRefines ==
    ASSUME IInv, NEW w \in Workers, Fund(w)
    PROVE  [Promise!Next]_Promise!vars
<1>1. PICK y \in WorkerStates : y = worker[w]
  BY DEF IInv, TypeOK
<1>2. y.at = "fund" /\ Relied(y)
  BY <1>1 DEF Fund, At, IInv, Reliable
<1>3. PICK t \in Txns : t = y.call.txn
  BY <1>2, Fields DEF InDispatch
<1>4. row.txn = t /\ prov[t] \in Funded
  BY <1>2, <1>3 DEF Relied
<1>5. t \notin ledger
  BY <1>1, <1>2, <1>3 DEF IInv, DispatchedOnce, InDispatch
<1>6. ledger = {}
  BY <1>4, <1>5 DEF IInv, FundingConsistent
<1>7. y.flip \in BOOLEAN /\ (~y.flip => ledger # {})
  BY <1>2, Fields DEF Relied
<1>8. ledger' = ledger \cup {t} /\ status' = "LIVE" /\ payment' = "PAID"
  BY <1>1, <1>3, <1>6, <1>7 DEF Fund
<1>9. Phase = "unfunded" /\ Phase' = "funded"
  BY <1>6, <1>8, PhaseOfLedger DEF Phase
<1>10. t \in Charged /\ UNCHANGED <<handed, Charged, overridden>>
  BY <1>4 DEF Charged, Funded, Fund, provider
<1>11. Promise!GoLive(t)
  BY <1>8, <1>9, <1>10 DEF Promise!GoLive
<1> QED BY <1>11 DEF Promise!Next

\* The status moves between DRAFT and the published ones only once the bounty
\* is funded.
LEMMA ManageRefines ==
    ASSUME IInv, NEW w \in Workers, Manage(w)
    PROVE  [Promise!Next]_Promise!vars
<1>1. CASE SetStatus(w)
  <2>1. PICK y \in WorkerStates : y = worker[w]
    BY DEF IInv, TypeOK
  <2>2. y.at = "setStatus" /\ Relied(y) /\ status' = y.to
    BY <1>1, <2>1 DEF SetStatus, At, IInv, Reliable
  <2>3. status # "DRAFT" \/ status' # "DRAFT" => Phase # "unfunded" \/ overridden
    BY <2>2, PhaseOfLedger DEF Relied
  <2>4. UNCHANGED <<handed, Charged, ledger, Phase, overridden>>
    BY <1>1 DEF SetStatus, Charged, Phase, provider
  <2>5. CASE (status' # "DRAFT") = (status # "DRAFT")
    BY <2>4, <2>5 DEF Promise!vars
  <2>6. CASE (status' # "DRAFT") = ~(status # "DRAFT")
    <3>1. Promise!Publish
      BY <2>3, <2>4, <2>6 DEF Promise!Publish
    <3> QED BY <3>1 DEF Promise!Next
  <2> QED BY <2>5, <2>6
<1>2. CASE ~SetStatus(w)
  BY <1>2, Invisible
     DEF Manage, updateStatus, update, delete, SetCapacity, SetDeleted,
         PromiseVars, Charged, Phase, provider, bounty
<1> QED BY <1>1, <1>2

\* Every step is one of the promise, or changes nothing that it sees.
LEMMA StepRefines == IInv /\ [Next]_vars => [Promise!Next]_Promise!vars
<1> SUFFICES ASSUME IInv, [Next]_vars PROVE [Promise!Next]_Promise!vars
  OBVIOUS
<1>1. ASSUME NEW t \in Txns, Pay(t) \/ Advance(t) PROVE [Promise!Next]_Promise!vars
  BY <1>1, ProviderRefines
<1>2. ASSUME NEW w \in Workers, FundRequest(w) PROVE [Promise!Next]_Promise!vars
  BY <1>2, FundRequestRefines
<1>3. ASSUME NEW w \in Workers, Handle(w) PROVE [Promise!Next]_Promise!vars
  <2>1. CASE Fund(w)
    BY <2>1, FundRefines
  <2>2. CASE ~Fund(w)
    BY <1>3, <2>2, Invisible
       DEF Handle, receive, Refetch, FindRow, Processed, Reply, DispatchFails,
           PromiseVars, Charged, Phase, provider, bounty
  <2> QED BY <2>1, <2>2
<1>4. ASSUME NEW w \in Workers, Manage(w) PROVE [Promise!Next]_Promise!vars
  BY <1>4, ManageRefines
<1>5. CASE MarkRefunded
  <2>1. Phase = "funded" /\ payment' = "REFUNDED"
    BY <1>5, PhaseOfLedger DEF MarkRefunded
  <2>2. Phase' = "refunded"
    BY <2>1 DEF Phase
  <2>3. UNCHANGED <<handed, Charged, ledger, status, overridden>>
    BY <1>5 DEF MarkRefunded, Charged, provider
  <2>4. Promise!PayBack
    BY <2>1, <2>2, <2>3 DEF Promise!PayBack
  <2> QED BY <2>4 DEF Promise!Next
<1>6. ASSUME NEW w \in Workers, Abort(w) PROVE [Promise!Next]_Promise!vars
  BY <1>6, Invisible DEF Abort, PromiseVars, Charged, Phase, provider, bounty
<1>7. CASE setKillSwitch \/ UNCHANGED vars
  BY <1>7, Invisible DEF setKillSwitch, vars, PromiseVars, Charged, Phase, provider, bounty
<1>8. ASSUME NEW to \in Overrides, overrideBounty(to) PROVE [Promise!Next]_Promise!vars
  <2>1. overridden' = TRUE /\ (status' # "DRAFT") \in BOOLEAN
    BY <1>8 DEF overrideBounty
  <2>2. UNCHANGED <<handed, Charged, ledger, Phase>>
    BY <1>8 DEF overrideBounty, Charged, Phase, provider
  <2>3. Promise!Override
    BY <2>1, <2>2 DEF Promise!Override
  <2> QED BY <2>3 DEF Promise!Next
<1>9. CASE suspendBrand
  <2>1. (status # "DRAFT") = (status' # "DRAFT")
    BY <1>9 DEF suspendBrand
  <2>2. UNCHANGED <<handed, Charged, ledger, Phase, overridden>>
    BY <1>9 DEF suspendBrand, Charged, Phase, provider
  <2> QED BY <2>1, <2>2 DEF Promise!vars
<1> QED BY <1>1, <1>2, <1>3, <1>4, <1>5, <1>6, <1>7, <1>8, <1>9 DEF Next

\* createBountyFunding, the callback receiver and handleFundsReceived, with the
\* edits and the refund beside them, implement the funding that BountyFunding
\* promises: one payable transaction, booked once together with the publication.
THEOREM FundingImplements == Spec => ImplementsFunding
<1>1. Init => Promise!Init
  <2> SUFFICES ASSUME Init PROVE Promise!Init
    OBVIOUS
  <2>1. Charged = {} /\ Phase = "unfunded"
    BY DEF Init, Charged, Phase
  <2> QED BY <2>1 DEF Init, Promise!Init
<1> QED BY <1>1, StepRefines, InductiveInvariant, PTL DEF Spec, ImplementsFunding, Promise!Spec
-----------------------------------------------------------------------------
(* Where one request at a time edits the bounty, callbacks, checkouts, the   *)
(* refund and the suspension of the brand beside it, as many as there may be, *)
(* cannot lead its status astray: handleFundsReceived sets LIVE without a     *)
(* look at VALID_TRANSITIONS, but nobody has chosen a status by then.  An     *)
(* administrator can, alone and at any time: overrideBounty asks for nothing. *)
OneEditor ==
    \A v, w \in Workers : "manage" \in Duties[v] \cap Duties[w] => v = w

\* The status only ever follows VALID_TRANSITIONS, up to the first override.
StatusInOrder ==
    [][overridden' \/ status' = status \/ status' \in VALID_TRANSITIONS(status)]_vars

\* The status an edit is about to set follows from the one there is, or is set
\* already, and was chosen for a funded bounty.
Chosen ==
    \A w \in Workers :
        At(w, "setStatus") => /\ "manage" \in Duties[w]
                              /\ ledger # {}
                              /\ worker[w].to \in VALID_TRANSITIONS(status) \cup {status}

\* A step that moves w on, not to setStatus, and leaves status and ledger.
LEMMA ChosenKeeps ==
    ASSUME TypeOK, Chosen, NEW w \in Workers, NEW x, Goto(w, x), x.at # "setStatus",
           UNCHANGED <<status, ledger>>
    PROVE  Chosen'
<1>1. worker'[w] = x /\ \A u \in Workers : u # w => worker'[u] = worker[u]
  BY DEF TypeOK, Goto
<1>2. VALID_TRANSITIONS(status)' = VALID_TRANSITIONS(status)
  BY DEF VALID_TRANSITIONS
<1> QED BY <1>1, <1>2 DEF Chosen, At

\* A funding finds a draft and publishes it; while the ledger is empty nobody
\* has chosen a status.
LEMMA FundKeepsChosen ==
    ASSUME IInv, Chosen, ~overridden, NEW w \in Workers, Fund(w)
    PROVE  Chosen' /\ status = "DRAFT" /\ status' = "LIVE"
<1>1. PICK y \in WorkerStates : y = worker[w]
  BY DEF IInv, TypeOK
<1>2. y.at = "fund" /\ Relied(y)
  BY <1>1 DEF Fund, At, IInv, Reliable
<1>3. row.txn = y.call.txn /\ y.call.txn \notin ledger
  BY <1>1, <1>2 DEF Relied, IInv, DispatchedOnce, InDispatch
<1>4. ledger = {} /\ status = "DRAFT"
  BY <1>3 DEF IInv, FundingConsistent
<1>5. y.flip \in BOOLEAN /\ (~y.flip => ledger # {})
  BY <1>2, Fields DEF Relied
<1>6. status' = "LIVE"
  BY <1>1, <1>4, <1>5 DEF Fund
<1>7. PICK x : Goto(w, x) /\ x.at = "processed"
  BY DEF Fund
<1>8. worker'[w] = x /\ \A u \in Workers : u # w => worker'[u] = worker[u]
  BY <1>7 DEF IInv, TypeOK, Goto
<1>9. \A u \in Workers : ~At(u, "setStatus")
  BY <1>4 DEF Chosen
<1> QED BY <1>4, <1>6, <1>7, <1>8, <1>9 DEF Chosen, At

\* An edit chooses among the transitions, and no other edit gets in between.
LEMMA ManageKeepsChosen ==
    ASSUME IInv, Chosen, ~overridden, OneEditor, NEW w \in Workers, Manage(w)
    PROVE  Chosen' /\ (status' = status \/ status' \in VALID_TRANSITIONS(status))
<1>0. TypeOK
  BY DEF IInv
<1>1. ASSUME NEW to \in Statuses, updateStatus(w, to)
      PROVE  Chosen' /\ status' = status
  <2>1. /\ "manage" \in Duties[w] /\ to \in VALID_TRANSITIONS(status)
        /\ Goto(w, [at |-> "setStatus", to |-> to])
        /\ status' = status /\ ledger' = ledger
    BY <1>1 DEF updateStatus, Starts, bounty
  <2>2. status = "DRAFT" => payment = "PAID"
    BY <1>1 DEF updateStatus, MayPublish
  <2>3. ledger # {}
    BY <2>2 DEF IInv, FundingConsistent
  <2>4. VALID_TRANSITIONS(status)' = VALID_TRANSITIONS(status)
    BY <2>1 DEF VALID_TRANSITIONS
  <2>5. /\ worker'[w] = [at |-> "setStatus", to |-> to]
        /\ \A u \in Workers : u # w => worker'[u] = worker[u]
    BY <1>0, <2>1 DEF TypeOK, Goto
  <2>6. ASSUME NEW u \in Workers, worker'[u].at = "setStatus"
        PROVE  /\ "manage" \in Duties[u]
               /\ worker'[u].to \in VALID_TRANSITIONS(status) \cup {status}
    <3>1. CASE u = w
      BY <2>1, <2>5, <3>1
    <3>2. CASE u # w
      BY <2>5, <2>6, <3>2 DEF Chosen, At
    <3> QED BY <3>1, <3>2
  <2> QED BY <2>1, <2>3, <2>4, <2>6 DEF Chosen, At
<1>2. CASE SetStatus(w)
  <2>1. /\ "manage" \in Duties[w] /\ worker[w].to \in VALID_TRANSITIONS(status) \cup {status}
        /\ status' = worker[w].to /\ Goto(w, Idle)
    BY <1>2 DEF SetStatus, Chosen
  <2>2. worker'[w] = Idle /\ \A u \in Workers : u # w => worker'[u] = worker[u]
    BY <1>0, <2>1 DEF TypeOK, Goto
  <2>3. ASSUME NEW u \in Workers PROVE worker'[u].at # "setStatus"
    <3>1. CASE u = w
      BY <2>2, <3>1 DEF Idle
    <3>2. CASE u # w
      <4>1. "manage" \notin Duties[u]
        BY <2>1, <3>2 DEF OneEditor
      <4> QED BY <2>2, <3>2, <4>1 DEF Chosen, At
    <3> QED BY <3>1, <3>2
  <2>4. Chosen'
    BY <2>3 DEF Chosen, At
  <2> QED BY <2>1, <2>4
<1>3. ASSUME NEW n \in Capacities, update(w, n)
      PROVE  Chosen' /\ status' = status
  BY <1>0, <1>3, ChosenKeeps DEF update, bounty
<1>4. CASE delete(w) \/ SetCapacity(w) \/ SetDeleted(w)
  BY <1>0, <1>4, ChosenKeeps DEF delete, SetCapacity, SetDeleted, Idle, bounty
<1> QED BY <1>1, <1>2, <1>3, <1>4 DEF Manage

\* The brand's suspension takes LIVE to PAUSED, from where all that could be
\* chosen for LIVE is allowed, or is there.  All other steps leave the status
\* and what was chosen for it.
LEMMA NextKeepsChosen ==
    ASSUME IInv, Chosen, ~overridden', OneEditor, [Next]_vars
    PROVE  Chosen' /\ (status' = status \/ status' \in VALID_TRANSITIONS(status))
<1>0. TypeOK
  BY DEF IInv
<1>1. ASSUME UNCHANGED <<status, ledger, worker>> PROVE Chosen'
  <2>1. VALID_TRANSITIONS(status)' = VALID_TRANSITIONS(status)
    BY <1>1 DEF VALID_TRANSITIONS
  <2> QED BY <1>1, <2>1 DEF Chosen, At
<1>2. ASSUME NEW t \in Txns, Pay(t) \/ Advance(t) PROVE Chosen' /\ status' = status
  BY <1>1, <1>2 DEF Pay, Advance, bounty
<1>3. ASSUME NEW w \in Workers, FundRequest(w) PROVE Chosen' /\ status' = status
  <2>1. UNCHANGED <<status, ledger>>
    BY <1>3
       DEF FundRequest, resumeFunding, createBountyFunding, TransactionCreate, Persist, HandOut, bounty
  <2>2. PICK x : Goto(w, x) /\ x.at # "setStatus"
    <3>1. CASE resumeFunding(w) \/ createBountyFunding(w)
      BY <3>1 DEF resumeFunding, createBountyFunding
    <3>2. CASE TransactionCreate(w)
      <4>1. PICK t \in Txns : Goto(w, [at |-> "persist", txn |-> t])
        BY <3>2 DEF TransactionCreate
      <4> QED BY <4>1
    <3>3. CASE Persist(w) \/ HandOut(w)
      BY <3>3 DEF Persist, HandOut, Idle
    <3> QED BY <1>3, <3>1, <3>2, <3>3 DEF FundRequest
  <2> QED BY <1>0, <2>1, <2>2, ChosenKeeps
<1>4. ASSUME NEW w \in Workers, Handle(w), ~Fund(w) PROVE Chosen' /\ status' = status
  <2>1. UNCHANGED <<status, ledger>>
    BY <1>4 DEF Handle, receive, Refetch, FindRow, Processed, Reply, DispatchFails, bounty
  <2>2. PICK x : Goto(w, x) /\ x.at # "setStatus"
    <3>1. ASSUME NEW call \in Calls, receive(w, call)
          PROVE  \E x : Goto(w, x) /\ x.at # "setStatus"
      BY <3>1 DEF receive, OnDuplicate
    <3>2. CASE Refetch(w)
      <4>1. PICK y \in WorkerStates : y = worker[w] /\ y.at = "refetch"
        BY <1>0, <3>2 DEF TypeOK, Refetch, At
      <4>2. \A at : [y EXCEPT !.at = at].at = at
        BY <4>1 DEF WorkerStates
      <4> QED BY <3>2, <4>1, <4>2 DEF Refetch
    <3>3. CASE FindRow(w) \/ Processed(w)
      BY <3>3 DEF FindRow, Processed
    <3>4. CASE Reply(w) \/ DispatchFails(w)
      BY <3>4 DEF Reply, DispatchFails, Idle
    <3> QED BY <1>4, <3>1, <3>2, <3>3, <3>4 DEF Handle
  <2> QED BY <1>0, <2>1, <2>2, ChosenKeeps
<1>5. ASSUME NEW w \in Workers, Abort(w) PROVE Chosen' /\ status' = status
  BY <1>0, <1>5, ChosenKeeps DEF Abort, Idle, bounty
<1>6. CASE MarkRefunded \/ setKillSwitch \/ UNCHANGED vars
  BY <1>1, <1>6 DEF MarkRefunded, setKillSwitch, vars, bounty
<1>7. "LIVE" \in VALID_TRANSITIONS("DRAFT")
  BY DEF VALID_TRANSITIONS
<1>8. CASE suspendBrand
  <2>1. /\ status = "LIVE" /\ status' = "PAUSED"
        /\ UNCHANGED <<ledger, worker>>
    BY <1>8 DEF suspendBrand
  <2>2. /\ VALID_TRANSITIONS(status) \cup {status} \subseteq
             VALID_TRANSITIONS(status)' \cup {status'}
        /\ status' \in VALID_TRANSITIONS(status)
    BY <2>1 DEF VALID_TRANSITIONS
  <2> QED BY <2>1, <2>2 DEF Chosen, At
<1>9. ASSUME NEW to \in Overrides, overrideBounty(to) PROVE FALSE
  BY <1>9 DEF overrideBounty
<1>10. ASSUME NEW w \in Workers, Fund(w) PROVE Chosen' /\ status' \in VALID_TRANSITIONS(status)
  <2>1. ~overridden
    BY <1>10 DEF Fund
  <2> QED BY <1>7, <1>10, <2>1, FundKeepsChosen
<1>11. ASSUME NEW w \in Workers, Manage(w)
       PROVE  Chosen' /\ (status' = status \/ status' \in VALID_TRANSITIONS(status))
  <2>1. ~overridden
    BY <1>11 DEF Manage, updateStatus, update, delete, SetStatus, SetCapacity, SetDeleted, bounty
  <2> QED BY <1>11, <2>1, ManageKeepsChosen
<1> QED BY <1>2, <1>3, <1>4, <1>5, <1>6, <1>8, <1>9, <1>10, <1>11 DEF Next

\* An override, once made, is remembered.
LEMMA OverriddenStays == ASSUME overridden, [Next]_vars PROVE overridden'
BY DEF Next, Pay, Advance, FundRequest, resumeFunding, createBountyFunding, TransactionCreate,
       Persist, HandOut, Handle, receive, Refetch, FindRow, Fund, Processed, Reply, DispatchFails,
       Manage, updateStatus, update, delete, SetStatus, SetCapacity, SetDeleted, Abort,
       overrideBounty, suspendBrand, MarkRefunded, setKillSwitch, bounty, vars

\* Two edits at once can take a status out of VALID_TRANSITIONS, for
\* updateStatus sets what it chose before, and so can an administrator's
\* override; nothing else can.
THEOREM OneEditorInOrder == OneEditor => (Spec => StatusInOrder)
<1> SUFFICES ASSUME OneEditor PROVE Spec => StatusInOrder
  OBVIOUS
<1>1. Init => overridden \/ Chosen
  BY DEF Init, Chosen, At, Idle
<1>2. IInv /\ (overridden \/ Chosen) /\ [Next]_vars =>
          /\ (overridden \/ Chosen)'
          /\ [overridden' \/ status' = status \/ status' \in VALID_TRANSITIONS(status)]_vars
  BY NextKeepsChosen, OverriddenStays
<1> QED BY <1>1, <1>2, InductiveInvariant, PTL DEF Spec, StatusInOrder
=============================================================================
