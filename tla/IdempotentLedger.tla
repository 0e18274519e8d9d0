-------------------------- MODULE IdempotentLedger --------------------------
(* What LedgerService.postTransactionGroup promises its callers: under each  *)
(* (referenceId, actionType) key at most one transaction group is ever       *)
(* posted, posted groups stay, and a call is told either that it posted the  *)
(* group itself or, with idempotent = TRUE, which posted group already       *)
(* stands under its key.  Nothing is said of how tables, transactions and    *)
(* races bring that about: LedgerPost does, and implements this module.      *)

CONSTANTS Calls,        \* the calls of postTransactionGroup
          GroupIds,     \* the identifiers of transaction groups
          KeyOf,        \* the idempotency key of each call
          KeyOfGroup    \* the idempotency key a group is filed under

VARIABLES posted,       \* the groups that stand in the ledger
          reply         \* what each call has been told, <<>> until then

vars == <<posted, reply>>

Unanswered == <<>>
Told(g, idempotent) == [group |-> g, idempotent |-> idempotent]

Free(k) == \A h \in posted : KeyOfGroup[h] # k

Init == /\ posted = {}
        /\ reply = [c \in Calls |-> Unanswered]

\* A new group goes in under a free key; the call that posted it is told so,
\* or never hears of it.
Post(c, g) ==
    /\ KeyOfGroup[g] = KeyOf[c]
    /\ Free(KeyOf[c])
    /\ posted' = posted \cup {g}
    /\ \/ reply' = [reply EXCEPT ![c] = Told(g, FALSE)]
       \/ UNCHANGED reply

\* A call whose key is taken is pointed to the group that took it.
Redirect(c, g) ==
    /\ g \in posted
    /\ KeyOfGroup[g] = KeyOf[c]
    /\ reply' = [reply EXCEPT ![c] = Told(g, TRUE)]
    /\ UNCHANGED posted

Next == \E c \in Calls :
            /\ reply[c] = Unanswered
            /\ \E g \in GroupIds : Post(c, g) \/ Redirect(c, g)

Spec == Init /\ [][Next]_vars
=============================================================================
