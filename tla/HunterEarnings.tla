--------------------------- MODULE HunterEarnings ---------------------------
(* What the ledger of a bounty promises the hunters: a submission is approved *)
(* for an amount once; just that amount becomes available, once and later;    *)
(* and a refund row undoes one approval at most, one that is there.  Nothing  *)
(* is said of requests, retries, crashes and overlapping jobs: BountyEscrow   *)
(* has those, and implements this module.                                    *)

CONSTANTS Subs,       \* the submissions
          Refunds,    \* the refund rows
          Nets        \* the amounts a submission can earn

VARIABLES earned,     \* the submissions that were approved, each with its amount
          available,  \* those whose amount was released to the hunter
          undone      \* the refund rows that reversed one, each with the submission

vars == <<earned, available, undone>>

Init ==
    /\ earned = {}
    /\ available = {}
    /\ undone = {}

Approve(s, net) ==
    /\ \A e \in earned : e[1] # s
    /\ earned' = earned \cup {<<s, net>>}
    /\ UNCHANGED <<available, undone>>

Release(e) ==
    /\ e \in earned \ available
    /\ available' = available \cup {e}
    /\ UNCHANGED <<earned, undone>>

Reverse(r, e) ==
    /\ e \in earned
    /\ \A u \in undone : u[1] # r
    /\ undone' = undone \cup {<<r, e[1]>>}
    /\ UNCHANGED <<earned, available>>

Next ==
    \/ \E s \in Subs, net \in Nets : Approve(s, net)
    \/ \E e \in earned : Release(e) \/ \E r \in Refunds : Reverse(r, e)

Spec == Init /\ [][Next]_vars
=============================================================================
