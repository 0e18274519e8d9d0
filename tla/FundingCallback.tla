--------------------------- MODULE FundingCallback ---------------------------
(* How one bounty gets funded and published: the hosted checkout, TradeSafe  *)
(* as seen from it, the receiver of TradeSafe's callbacks, and the requests  *)
(* that change the bounty meanwhile.  A worker is one request on one API     *)
(* replica; every handler reads first and writes in a later step, and nothing *)
(* locks the rows in between.  A definition named ...Mutant is a planted bug *)
(* that the runs must be able to find; nothing uses it.                      *)
EXTENDS Naturals, FiniteSets

CONSTANTS Txns,       \* bound: the transactions TradeSafe can be asked for
          Workers,    \* requests in progress at once
          Duties,     \* which of the handlers a worker may run
          Announced,  \* the states TradeSafe calls back for
          Capacities, \* the values of maxSubmissions
          Overrides,  \* the statuses an administrator may set
          Faults,     \* whether calls fail, replies get lost and replicas crash
          NoTxn

Later == {"FUNDS_RECEIVED", "DELIVERED", "CANCELLED"}
ProviderStates == {"CREATED"} \cup Later
Statuses == {"DRAFT", "LIVE", "PAUSED", "CLOSED"}

ASSUME FundingAssumption ==
    /\ Duties \in [Workers -> SUBSET {"fund", "receive", "manage"}]
    /\ Announced \subseteq ProviderStates
    /\ Capacities # {}
    /\ Overrides \subseteq Statuses
    /\ Faults \in BOOLEAN
    /\ NoTxn \notin Txns

VARIABLES prov,       \* TradeSafe: the state of each transaction
          due,        \* TradeSafe: callbacks not answered with a 2xx yet
          handed,     \* the transactions whose checkout URL the brand has
          killSwitch, \* the financial kill switch
          row,        \* the TradeSafeTransaction of the bounty
          status,     \* bounty.status
          payment,    \* bounty.paymentStatus
          deleted,    \* bounty.deletedAt is set
          capacity,   \* bounty.maxSubmissions
          overridden, \* history: an administrator has set bounty.status
          ledger,     \* the transactions with a funding group
          event,      \* the WebhookEvent of each transaction
          worker      \* where each request stands, and what it has read

provider == <<prov, due>>
bounty == <<status, payment, deleted, capacity, overridden>>
vars == <<provider, handed, killSwitch, row, bounty, ledger, event, worker>>

-----------------------------------------------------------------------------
VALID_TRANSITIONS(from) ==
    CASE from = "DRAFT" -> {"LIVE"}
      [] from = "LIVE" -> {"PAUSED", "CLOSED"}
      [] from = "PAUSED" -> {"LIVE", "CLOSED", "DRAFT"}
      [] OTHER -> {}

NoRow == [txn |-> NoTxn, state |-> "none"]
NewRowMutant(t) == [txn |-> t, state |-> "PENDING"]
NewRow(t) == [txn |-> t, state |-> "CREATED"]

Idle == [at |-> "idle"]
At(w, at) == worker[w].at = at
Goto(w, state) == worker' = [worker EXCEPT ![w] = state]
Starts(w, duty) == At(w, "idle") /\ duty \in Duties[w]

Init ==
    /\ prov = [t \in Txns |-> "none"]
    /\ due = {}
    /\ handed = {}
    /\ killSwitch = FALSE
    /\ row = NoRow
    /\ status = "DRAFT"
    /\ payment = "UNPAID"
    /\ deleted = FALSE
    /\ capacity \in Capacities
    /\ overridden = FALSE
    /\ ledger = {}
    /\ event = [t \in Txns |-> "none"]
    /\ worker = [w \in Workers |-> Idle]

-----------------------------------------------------------------------------
(* TradeSafe: it moves a transaction on and calls back, again and again      *)
(* until it gets a 2xx, for each state it announces.                         *)
EnterState(t, state) ==
    /\ prov' = [prov EXCEPT ![t] = state]
    /\ due' = due \cup {[txn |-> u, state |-> state] : u \in IF state \in Announced THEN {t} ELSE {}}

\* The brand pays at the hosted checkout.
Pay(t) ==
    /\ t \in handed
    /\ prov[t] = "CREATED"
    /\ EnterState(t, "FUNDS_RECEIVED")
    /\ UNCHANGED <<handed, killSwitch, row, bounty, ledger, event, worker>>

\* Goods accepted, or the buyer backs out before it has paid.
Advance(t) ==
    /\ \/ prov[t] = "FUNDS_RECEIVED" /\ EnterState(t, "DELIVERED")
       \/ prov[t] = "CREATED" /\ EnterState(t, "CANCELLED")
    /\ UNCHANGED <<handed, killSwitch, row, bounty, ledger, event, worker>>

-----------------------------------------------------------------------------
(* TradeSafePaymentsService.createBountyFunding.                             *)
MayFund ==
    /\ ~deleted
    /\ status = "DRAFT"
    /\ payment # "PAID"
    /\ ~killSwitch

\* A checkout that was opened before is handed out again.
resumeFunding(w) ==
    /\ Starts(w, "fund")
    /\ MayFund
    /\ row.state = "CREATED"
    /\ Goto(w, [at |-> "handOut", txn |-> row.txn])
    /\ UNCHANGED <<provider, handed, killSwitch, row, bounty, ledger, event>>

createBountyFunding(w) ==
    /\ Starts(w, "fund")
    /\ MayFund
    /\ row.state # "CREATED"
    /\ \E t \in Txns : prov[t] = "none"
    /\ Goto(w, [at |-> "create"])
    /\ UNCHANGED <<provider, handed, killSwitch, row, bounty, ledger, event>>

TransactionCreate(w) ==
    /\ At(w, "create")
    /\ \E t \in Txns :
           /\ prov[t] = "none"
           /\ EnterState(t, "CREATED")
           /\ Goto(w, [at |-> "persist", txn |-> t])
    /\ UNCHANGED <<handed, killSwitch, row, bounty, ledger, event>>

\* The row is unique per bounty: a second checkout that raced the first fails.
HasTransactionMutant == FALSE
HasTransaction == row # NoRow

Persist(w) ==
    /\ At(w, "persist")
    /\ IF HasTransaction
         THEN Goto(w, Idle) /\ UNCHANGED <<row, payment>>
         ELSE /\ row' = NewRow(worker[w].txn)
              /\ payment' = "PENDING"
              /\ Goto(w, [at |-> "handOut", txn |-> worker[w].txn])
    /\ UNCHANGED <<provider, handed, killSwitch, status, deleted, capacity, overridden, ledger, event>>

HandOut(w) ==
    /\ At(w, "handOut")
    /\ handed' = handed \cup {worker[w].txn}
    /\ Goto(w, Idle)
    /\ UNCHANGED <<provider, killSwitch, row, bounty, ledger, event>>

-----------------------------------------------------------------------------
(* TradeSafeTransactionCallbackController.receive.  The WebhookEvent is      *)
(* unique per transaction, whatever state the callback announces and however *)
(* the first delivery ended.                                                 *)
IsDuplicateMutant(t) == event[t] = "PROCESSED"
IsDuplicate(t) == event[t] # "none"

OnDuplicateMutant(call) == Idle
OnDuplicate(call) == [at |-> "reply", call |-> call]

receive(w, call) ==
    /\ Starts(w, "receive")
    /\ call \in due
    /\ IF IsDuplicate(call.txn)
         THEN Goto(w, OnDuplicate(call)) /\ UNCHANGED event
         ELSE /\ event' = [event EXCEPT ![call.txn] = "RECEIVED"]
              /\ Goto(w, [at |-> "refetch", call |-> call])
    /\ UNCHANGED <<provider, handed, killSwitch, row, bounty, ledger>>

\* The state that counts is TradeSafe's own of now, not the one in the callback.
CarriesFundsMutant(t) == prov[t] # "CANCELLED"
CarriesFunds(t) == prov[t] = "FUNDS_RECEIVED"

Refetch(w) ==
    /\ At(w, "refetch")
    /\ Goto(w, [worker[w] EXCEPT !.at = IF CarriesFunds(worker[w].call.txn) THEN "findRow"
                                                                             ELSE "processed"])
    /\ UNCHANGED <<provider, handed, killSwitch, row, bounty, ledger, event>>

\* TradeSafeWebhookHandler.handleFundsReceived reads the row with its bounty.
FindRow(w) ==
    /\ At(w, "findRow")
    /\ Goto(w, IF row.txn = worker[w].call.txn
                 THEN [at |-> "fund", call |-> worker[w].call,
                       flip |-> status = "DRAFT" \/ payment # "PAID"]
                 ELSE [at |-> "processed", call |-> worker[w].call])
    /\ UNCHANGED <<provider, handed, killSwitch, row, bounty, ledger, event>>

\* One database transaction: the group (see LedgerPost), the row, the bounty.
Fund(w) ==
    /\ At(w, "fund")
    /\ ~killSwitch
    /\ ledger' = ledger \cup {worker[w].call.txn}
    /\ row' = [row EXCEPT !.state = "FUNDS_RECEIVED"]
    /\ status' = IF worker[w].flip THEN "LIVE" ELSE status
    /\ payment' = IF worker[w].flip THEN "PAID" ELSE payment
    /\ Goto(w, [at |-> "processed", call |-> worker[w].call])
    /\ UNCHANGED <<provider, handed, killSwitch, deleted, capacity, overridden, event>>

Processed(w) ==
    /\ At(w, "processed")
    /\ event' = [event EXCEPT ![worker[w].call.txn] = "PROCESSED"]
    /\ Goto(w, [at |-> "reply", call |-> worker[w].call])
    /\ UNCHANGED <<provider, handed, killSwitch, row, bounty, ledger>>

Reply(w) ==
    /\ At(w, "reply")
    /\ due' = due \ {worker[w].call}
    /\ Goto(w, Idle)
    /\ UNCHANGED <<prov, handed, killSwitch, row, bounty, ledger, event>>

\* An error after the event was recorded is noted on it and answered with a 5xx.
DispatchFails(w) ==
    /\ \/ At(w, "fund") /\ killSwitch
       \/ Faults /\ (\E at \in {"refetch", "findRow", "fund", "processed"} : At(w, at))
    /\ event' = [event EXCEPT ![worker[w].call.txn] = "FAILED"]
    /\ Goto(w, Idle)
    /\ UNCHANGED <<provider, handed, killSwitch, row, bounty, ledger>>

-----------------------------------------------------------------------------
(* BountiesService.updateStatus, update and delete.                          *)
MayPublishMutant == payment # "UNPAID"
MayPublish == payment = "PAID"

updateStatus(w, to) ==
    /\ Starts(w, "manage")
    /\ ~deleted
    /\ to \in VALID_TRANSITIONS(status)
    /\ status = "DRAFT" => MayPublish
    /\ Goto(w, [at |-> "setStatus", to |-> to])
    /\ UNCHANGED <<provider, handed, killSwitch, row, bounty, ledger, event>>

SetStatus(w) ==
    /\ At(w, "setStatus")
    /\ status' = worker[w].to
    /\ Goto(w, Idle)
    /\ UNCHANGED <<provider, handed, killSwitch, row, payment, deleted, capacity, overridden, ledger, event>>

\* maxSubmissions is not among the fields a LIVE bounty lets one edit.
update(w, n) ==
    /\ Starts(w, "manage")
    /\ ~deleted
    /\ status \notin {"CLOSED", "LIVE"}
    /\ Goto(w, [at |-> "setCapacity", to |-> n])
    /\ UNCHANGED <<provider, handed, killSwitch, row, bounty, ledger, event>>

SetCapacity(w) ==
    /\ At(w, "setCapacity")
    /\ capacity' = worker[w].to
    /\ Goto(w, Idle)
    /\ UNCHANGED <<provider, handed, killSwitch, row, status, payment, deleted, overridden, ledger, event>>

delete(w) ==
    /\ Starts(w, "manage")
    /\ ~deleted
    /\ status = "DRAFT"
    /\ Goto(w, [at |-> "delete"])
    /\ UNCHANGED <<provider, handed, killSwitch, row, bounty, ledger, event>>

SetDeleted(w) ==
    /\ At(w, "delete")
    /\ deleted' = TRUE
    /\ Goto(w, Idle)
    /\ UNCHANGED <<provider, handed, killSwitch, row, status, payment, capacity, overridden, ledger, event>>

\* The refund of a bounty nobody was approved for; BountyEscrow has its steps.
MarkRefunded ==
    /\ payment = "PAID"
    /\ payment' = "REFUNDED"
    /\ UNCHANGED <<provider, handed, killSwitch, row, status, deleted, capacity, overridden, ledger, event, worker>>

-----------------------------------------------------------------------------
(* AdminService: one write each.  A super admin may set any status, funded or *)
(* not, deleted or not; suspending the brand pauses what is LIVE.            *)
overrideBounty(to) ==
    /\ status' = to
    /\ overridden' = TRUE
    /\ UNCHANGED <<provider, handed, killSwitch, row, payment, deleted, capacity, ledger, event, worker>>

suspendBrand ==
    /\ status = "LIVE"
    /\ status' = "PAUSED"
    /\ UNCHANGED <<provider, handed, killSwitch, row, payment, deleted, capacity, overridden, ledger, event, worker>>

-----------------------------------------------------------------------------
setKillSwitch ==
    /\ killSwitch' = ~killSwitch
    /\ UNCHANGED <<provider, handed, row, bounty, ledger, event, worker>>

\* A failed call, a lost reply or a crash ends a request where it is.
Abort(w) ==
    /\ Faults
    /\ ~At(w, "idle")
    /\ Goto(w, Idle)
    /\ UNCHANGED <<provider, handed, killSwitch, row, bounty, ledger, event>>

-----------------------------------------------------------------------------
Calls == [txn : Txns, state : ProviderStates]

FundRequest(w) ==
    \/ resumeFunding(w) \/ createBountyFunding(w)
    \/ TransactionCreate(w) \/ Persist(w) \/ HandOut(w)

Handle(w) ==
    \/ \E call \in Calls : receive(w, call)
    \/ Refetch(w) \/ FindRow(w) \/ Fund(w) \/ Processed(w) \/ Reply(w) \/ DispatchFails(w)

Manage(w) ==
    \/ \E to \in Statuses : updateStatus(w, to)
    \/ \E n \in Capacities : update(w, n)
    \/ delete(w)
    \/ SetStatus(w) \/ SetCapacity(w) \/ SetDeleted(w)

Next ==
    \/ \E t \in Txns : Pay(t) \/ Advance(t)
    \/ \E w \in Workers : FundRequest(w) \/ Handle(w) \/ Manage(w) \/ Abort(w)
    \/ \E to \in Overrides : overrideBounty(to)
    \/ suspendBrand
    \/ MarkRefunded
    \/ setKillSwitch

Spec == Init /\ [][Next]_vars

\* A request that is under way goes on unless it is cut off, TradeSafe delivers
\* a callback again and again until it is answered, and an answer that is sent
\* again and again gets through.
Continue(w) == (FundRequest(w) \/ Handle(w) \/ Manage(w)) /\ ~At(w, "idle")
FairSpec ==
    /\ Spec
    /\ \A w \in Workers : /\ WF_vars(Continue(w))
                          /\ SF_vars(Reply(w))
                          /\ \A call \in Calls : SF_vars(receive(w, call))

-----------------------------------------------------------------------------
WorkerStates ==
    {Idle}
    \cup [at : {"create", "delete"}]
    \cup [at : {"persist", "handOut"}, txn : Txns]
    \cup [at : {"refetch", "findRow", "processed", "reply"}, call : Calls]
    \cup [at : {"fund"}, call : Calls, flip : BOOLEAN]
    \cup [at : {"setStatus"}, to : Statuses]
    \cup [at : {"setCapacity"}, to : Capacities]

TypeOK ==
    /\ prov \in [Txns -> ProviderStates \cup {"none"}]
    /\ due \subseteq Calls
    /\ handed \subseteq Txns
    /\ killSwitch \in BOOLEAN
    /\ row \in {NoRow} \cup [txn : Txns, state : {"CREATED", "FUNDS_RECEIVED"}]
    /\ status \in Statuses
    /\ payment \in {"UNPAID", "PENDING", "PAID", "REFUNDED"}
    /\ deleted \in BOOLEAN
    /\ capacity \in Capacities
    /\ overridden \in BOOLEAN
    /\ ledger \subseteq Txns
    /\ event \in [Txns -> {"none", "RECEIVED", "FAILED", "PROCESSED"}]
    /\ worker \in [Workers -> WorkerStates]

\* The brand can only ever pay into the one transaction the platform recorded:
\* racing checkouts leave orphans at TradeSafe, but hand out none of them.
PayableIsRecorded == \A t \in handed : row.txn = t

\* bounty, row and ledger agree on the funding (the reconciliation's check 5):
\* paid or refunded exactly when the group is there, for the recorded
\* transaction, whatever an administrator writes; and never published before
\* that but by an administrator, whose override asks for no payment.
FundingConsistent ==
    /\ payment \in {"PAID", "REFUNDED"} <=> ledger # {}
    /\ \A t \in ledger : row = [txn |-> t, state |-> "FUNDS_RECEIVED"]
    /\ status # "DRAFT" /\ ~overridden => ledger # {}

\* No funding group without money: an early, late or repeated callback never
\* funds a bounty whose transaction TradeSafe has not seen paid.
FundedByProvider == \A t \in ledger : prov[t] \in {"FUNDS_RECEIVED", "DELIVERED"}

\* A late or repeated callback never turns a refunded bounty back into a paid
\* one: handleFundsReceived would, its only shield is the WebhookEvent.
RefundIsFinal == [][payment = "REFUNDED" => payment' = "REFUNDED"]_vars

\* What the promise sees of TradeSafe and of the two columns of the bounty.
Charged == {t \in Txns : prov[t] \in {"FUNDS_RECEIVED", "DELIVERED"}}
Phase == CASE payment = "PAID" -> "funded"
           [] payment = "REFUNDED" -> "refunded"
           [] OTHER -> "unfunded"

Promise == INSTANCE BountyFunding WITH
    offered <- handed,
    paid <- Charged,
    booked <- ledger,
    phase <- Phase,
    published <- status # "DRAFT",
    overridden <- overridden

\* Checkout, callbacks, edits, suspension, overrides and the refund keep the
\* promise together: what the brand can pay, what TradeSafe holds, the ledger
\* and the two columns of the bounty never move but as the steps of BountyFunding.
ImplementsFunding == Promise!Spec

\* TradeSafe stops calling back in the end: every callback gets its 2xx, also
\* the one whose processing failed for good.
EveryCallbackAnswered == \A call \in Calls : call \in due ~> call \notin due

\* What the receiver relies on the redelivery for: money that TradeSafe keeps
\* reporting funds the bounty in the end, once the kill switch stays off.
FundsReceivedGoLive ==
    <>[]~killSwitch =>
        \A t \in Txns : prov[t] = "FUNDS_RECEIVED" ~>
                            (t \in ledger \/ prov[t] # "FUNDS_RECEIVED")
=============================================================================
