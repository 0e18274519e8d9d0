---------------------------- MODULE BountyFunding ----------------------------
(* What the funding of one bounty promises the brand and the finance team:   *)
(* one transaction at most is ever offered for payment, its money is booked   *)
(* once, in one step with the publication, and the bounty is visible at no    *)
(* time before that, unless an administrator says so; a refund ends the      *)
(* funding for good.  Nothing is said of rows, callbacks, retries and racing *)
(* requests: FundingCallback has those, and implements this module.          *)

CONSTANT Txns           \* the transactions the payment provider can be asked for

VARIABLES offered,      \* the transactions the brand can pay
          paid,         \* those the provider has the money of
          booked,       \* those the ledger has a funding group of
          phase,        \* whether the bounty counts as funded
          published,    \* whether the bounty has left the state DRAFT
          overridden    \* whether an administrator has decided about that

vars == <<offered, paid, booked, phase, published, overridden>>

Init ==
    /\ offered = {}
    /\ paid = {}
    /\ booked = {}
    /\ phase = "unfunded"
    /\ published = FALSE
    /\ overridden = FALSE

Offer(t) ==
    /\ offered = {}
    /\ offered' = {t}
    /\ UNCHANGED <<paid, booked, phase, published, overridden>>

Charge(t) ==
    /\ t \in offered
    /\ paid' = paid \cup {t}
    /\ UNCHANGED <<offered, booked, phase, published, overridden>>

\* The money that has come in is booked and the bounty published, at one go.
GoLive(t) ==
    /\ phase = "unfunded"
    /\ t \in paid
    /\ booked' = booked \cup {t}
    /\ phase' = "funded"
    /\ published' = TRUE
    /\ UNCHANGED <<offered, paid, overridden>>

PayBack ==
    /\ phase = "funded"
    /\ phase' = "refunded"
    /\ UNCHANGED <<offered, paid, booked, published, overridden>>

\* The brand takes a bounty back to a draft, or publishes it again: a funded
\* one, or one that an administrator has published.
Publish ==
    /\ phase # "unfunded" \/ overridden
    /\ published' = ~published
    /\ UNCHANGED <<offered, paid, booked, phase, overridden>>

\* An administrator publishes or withdraws it, whatever has been paid, and
\* touches no money.
Override ==
    /\ overridden' = TRUE
    /\ published' \in BOOLEAN
    /\ UNCHANGED <<offered, paid, booked, phase>>

Next ==
    \/ \E t \in Txns : Offer(t) \/ Charge(t) \/ GoLive(t)
    \/ PayBack
    \/ Publish
    \/ Override

Spec == Init /\ [][Next]_vars
=============================================================================
