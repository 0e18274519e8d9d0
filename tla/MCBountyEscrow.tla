--------------------------- MODULE MCBountyEscrow ---------------------------
(* Instances of BountyEscrow: two API requests of any kind beside one        *)
(* replica's clearance job, and one reviewer beside two replicas' clearance  *)
(* and expiry jobs.  The net amounts are what FeeMath computes for the face  *)
(* value, and the laws of FeeMath are evaluated for every face up to 10 rand.*)
EXTENDS BountyEscrow, FeeMath, TLC

CONSTANTS api1, api2, cron1, cron2

AllHandlers == [w \in {api1, api2, cron1} |->
                    IF w = cron1 THEN {"clear"} ELSE {"review", "submit", "payout", "refund"}]
ApiSymmetry == Permutations({api1, api2})

ReviewAndJobs == [w \in {api1, cron1, cron2} |->
                      IF w = api1 THEN {"review"} ELSE IF w = cron1 THEN {"clear"} ELSE {"clear", "expire"}]

ReviewOnly == [w \in {api1} |-> {"review"}]

OneClaim == 20

\* ADR 0013: a bounty for two claims escrows sum(rewards) * maxSubmissions.
TwoClaims == OneClaim * 2

MCFaces == 1 .. 1000

ASSUME NetsAreComputed ==
    Nets \subseteq {forHunterApproval(OneClaim, tier).net : tier \in Tiers}

ASSUME RoundingIsHalfEven ==
    \A numerator \in 0 .. 200, denominator \in 1 .. 12 :
        IsRounded(halfEven(numerator, denominator), numerator, denominator)

ASSUME FeeLaws ==
    \A face \in MCFaces, tier \in Tiers :
        /\ SplitIsWhole(face, tier)
        /\ ReversalUndoesApproval(face, tier)
        /\ RefundUndoesFunding(face, tier)
        /\ BookedAgainstQuoted(face, tier)
        /\ BookedBeyondAsked(face, tier)
        /\ SmallestPostable(face, tier)
=============================================================================
