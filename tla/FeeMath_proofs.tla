-------------------------- MODULE FeeMath_proofs --------------------------
(* The laws of FeeMath for every face value and tier.  Every fee is a        *)
(* rounding of face * rate / 10000 with a fixed rate, so each law is linear  *)
(* once the rates are put in and the quotients are bounded.                  *)
EXTENDS FeeMath, TLAPS

\* What halfEven knows of its quotient: it differs from the truncated one by at most 1.
LEMMA HalfEvenNearTruncated ==
    ASSUME NEW n \in Nat
    PROVE  /\ halfEven(n, 10000) \in Nat
           /\ halfEven(n, 10000) \in {n \div 10000, (n \div 10000) + 1}
  BY DEF halfEven

(* The fees are rounded half to even, as Non-Negotiable #4 in the comment of *)
(* fee-calculator.service.ts has it, whatever amount and rate are multiplied.*)
THEOREM FeesAreRounded ==
    ASSUME NEW n \in Nat
    PROVE  IsRounded(halfEven(n, 10000), n, 10000)
  BY DEF IsRounded, halfEven

BasisPoints == {350, 500, 1000, 1500, 2000}

(* A fee and its truncation are whole amounts, at most a cent apart.         *)
LEMMA FeeNearTruncated ==
    ASSUME NEW amount \in Nat, NEW rate \in BasisPoints
    PROVE  /\ feeCents(amount, rate) \in Nat
           /\ truncatedFee(amount, rate) \in Nat
           /\ feeCents(amount, rate) - truncatedFee(amount, rate) \in 0 .. 1
  <1>1. PICK n \in Nat : n = amount * rate
    BY DEF BasisPoints
  <1>2. n \div 10000 \in Nat
    BY <1>1
  <1>3. feeCents(amount, rate) = halfEven(n, 10000) /\ truncatedFee(amount, rate) = n \div 10000
    BY <1>1 DEF feeCents, truncatedFee
  <1>4. \/ halfEven(n, 10000) = n \div 10000
        \/ halfEven(n, 10000) = (n \div 10000) + 1
    BY <1>1, HalfEvenNearTruncated
  <1> QED
    BY <1>2, <1>3, <1>4

(* A fee exceeds its exact share by at most half a cent.                     *)
LEMMA FeeAtMost ==
    ASSUME NEW amount \in Nat, NEW rate \in BasisPoints
    PROVE  20000 * feeCents(amount, rate) <= 2 * (amount * rate) + 10000
  <1>1. PICK n \in Nat : n = amount * rate
    BY DEF BasisPoints
  <1>2. IsRounded(halfEven(n, 10000), n, 10000) /\ halfEven(n, 10000) \in Nat
    BY <1>1, FeesAreRounded, HalfEvenNearTruncated
  <1>3. 2 * (halfEven(n, 10000) * 10000 - n) <= 10000
    BY <1>2 DEF IsRounded
  <1>4. 20000 * halfEven(n, 10000) <= 2 * n + 10000
    BY <1>1, <1>2, <1>3
  <1> QED
    BY <1>1, <1>4 DEF feeCents

LEMMA Rates ==
    ASSUME NEW tier \in Tiers
    PROVE  /\ FEE_RATES_BPS.GLOBAL_FEE = 350
           /\ FEE_RATES_BPS.BRAND_ADMIN[tier] \in {500, 1500}
           /\ FEE_RATES_BPS.HUNTER_COMMISSION[tier] \in {1000, 2000}
           /\ {350} \cup {FEE_RATES_BPS.BRAND_ADMIN[tier], FEE_RATES_BPS.HUNTER_COMMISSION[tier]}
                \subseteq BasisPoints
  BY DEF FEE_RATES_BPS, Tiers, BasisPoints

(* No approval loses or invents a cent, and none leaves the hunter nothing:  *)
(* forHunterApproval never throws, however small the face value.             *)
THEOREM SplitsAreWhole ==
    \A face \in Nat \ {0}, tier \in Tiers : SplitIsWhole(face, tier)
  <1> TAKE face \in Nat \ {0}, tier \in Tiers
  <1>0. face \in Nat
    OBVIOUS
  <1> DEFINE rate == FEE_RATES_BPS.HUNTER_COMMISSION[tier]
             commission == feeCents(face, rate)
             global == feeCents(face, 350)
  <1>1. rate \in {1000, 2000} /\ rate \in BasisPoints /\ 350 \in BasisPoints
    BY Rates
  <1> HIDE DEF rate
  <1>2. commission \in Nat /\ global \in Nat
    BY <1>0, <1>1, FeeNearTruncated
  <1>3. 20000 * commission <= 4000 * face + 10000
    <2>1. 20000 * commission <= 2 * (face * rate) + 10000
      BY <1>0, <1>1, FeeAtMost
    <2>2. PICK share \in Nat : share = face * rate /\ 2 * share <= 4000 * face
      BY <1>1
    <2>3. 20000 * commission <= 2 * share + 10000
      BY <2>1, <2>2
    <2> HIDE DEF commission
    <2> QED
      BY <1>2, <2>2, <2>3
  <1>4. 20000 * global <= 700 * face + 10000
    BY <1>0, <1>1, FeeAtMost
  <1>5. commission + global < face
    BY <1>2, <1>3, <1>4
  <1>6. forHunterApproval(face, tier)
          = [commission |-> commission, global |-> global, net |-> face - commission - global]
    BY Rates DEF forHunterApproval, rate
  <1> HIDE DEF commission, global
  <1> QED
    BY <1>2, <1>3, <1>5, <1>6 DEF SplitIsWhole

(* requestAfterApproval derives the commission from face value, net and      *)
(* global fee; what it reverses is what postApproval posted, to the cent and *)
(* for every tier the hunter may have had.                                   *)
THEOREM ReversalsUndo ==
    \A face \in Nat \ {0}, tier \in Tiers : ReversalUndoesApproval(face, tier)
  <1> TAKE face \in Nat \ {0}, tier \in Tiers
  <1>0. face \in Nat
    OBVIOUS
  <1> DEFINE rate == FEE_RATES_BPS.HUNTER_COMMISSION[tier]
             commission == feeCents(face, rate)
             global == feeCents(face, 350)
  <1>1. commission \in Nat /\ global \in Nat
    <2>1. rate \in BasisPoints /\ 350 \in BasisPoints
      BY Rates
    <2> HIDE DEF rate
    <2> QED
      BY <1>0, <2>1, FeeNearTruncated
  <1>2. ApprovalLegs(face, tier)
          = [reserve |-> -face, commission |-> commission, global |-> global,
             payable |-> face - commission - global]
    BY Rates DEF ApprovalLegs, forHunterApproval
  <1> HIDE DEF commission
  <1>3. AfterApprovalLegs(face, face - commission - global, 350)
          = [reserve |-> face, commission |-> -(face - (face - commission - global) - global),
             global |-> -global, payable |-> -(face - commission - global)]
    BY DEF AfterApprovalLegs
  <1> HIDE DEF global
  <1>4. face - (face - commission - global) - global = commission
    BY <1>1
  <1> QED
    BY <1>1, <1>2, <1>3, <1>4, Rates DEF ReversalUndoesApproval

(* approveBeforeApproval returns the escrow and both fees as handleFundsReceived *)
(* booked them.                                                              *)
THEOREM RefundsUndo ==
    \A face \in Nat \ {0}, tier \in Tiers : RefundUndoesFunding(face, tier)
  <1> TAKE face \in Nat \ {0}, tier \in Tiers
  <1>0. face \in Nat
    OBVIOUS
  <1> DEFINE rate == FEE_RATES_BPS.BRAND_ADMIN[tier]
             globalRate == FEE_RATES_BPS.GLOBAL_FEE
             admin == truncatedFee(face, rate)
             global == truncatedFee(face, globalRate)
  <1>1. admin \in Nat /\ global \in Nat
    <2>1. rate \in BasisPoints /\ globalRate \in BasisPoints
      BY Rates
    <2> HIDE DEF rate, globalRate
    <2> QED
      BY <1>0, <2>1, FeeNearTruncated
  <1>2. FundingLegs(face, tier)
          = [reserve |-> face, admin |-> admin, global |-> global, cash |-> -(face + admin + global)]
    BY DEF FundingLegs
  <1>3. BeforeApprovalLegs(face, tier)
          = [reserve |-> -face, admin |-> -admin, global |-> -global,
             clearing |-> face + admin + global]
    BY DEF BeforeApprovalLegs
  <1> HIDE DEF admin, global
  <1> QED
    BY <1>1, <1>2, <1>3 DEF RefundUndoesFunding

(* The quote of initiateBountyFunding rounds, the booking of                 *)
(* handleFundsReceived truncates: the brand was quoted what is booked or up  *)
(* to two cents more, never less.                                            *)
THEOREM QuoteCoversBooking ==
    \A face \in Nat \ {0}, tier \in Tiers : BookedAgainstQuoted(face, tier)
  <1> TAKE face \in Nat \ {0}, tier \in Tiers
  <1>0. face \in Nat
    OBVIOUS
  <1> DEFINE rate == FEE_RATES_BPS.BRAND_ADMIN[tier]
             admin == truncatedFee(face, rate)
             global == truncatedFee(face, 350)
             adminQuoted == feeCents(face, rate)
             globalQuoted == feeCents(face, 350)
  <1>1. rate \in BasisPoints /\ 350 \in BasisPoints
    BY Rates
  <1> HIDE DEF rate
  <1>2. admin \in Nat /\ adminQuoted \in Nat /\ adminQuoted - admin \in 0 .. 1
    BY <1>0, <1>1, FeeNearTruncated
  <1>3. global \in Nat /\ globalQuoted \in Nat /\ globalQuoted - global \in 0 .. 1
    BY <1>0, <1>1, FeeNearTruncated
  <1>4. /\ forBrandFunding(face, tier).total = face + adminQuoted + globalQuoted
        /\ FundingLegs(face, tier).cash = -(face + admin + global)
    BY Rates DEF forBrandFunding, FundingLegs, rate
  <1> HIDE DEF admin, global, adminQuoted, globalQuoted
  <1>5. (face + adminQuoted + globalQuoted) - (face + admin + global) \in 0 .. 2
    BY <1>2, <1>3
  <1> QED
    BY <1>2, <1>3, <1>4, <1>5 DEF BookedAgainstQuoted

(* A product with a fixed rate, as the linear term the provers reason with.  *)
LEMMA TruncatedFeeIsZero ==
    ASSUME NEW face \in Nat \ {0}
    PROVE  /\ truncatedFee(face, 350) # 0 <=> face >= 29
           /\ truncatedFee(face, 500) # 0 <=> face >= 20
           /\ truncatedFee(face, 1500) # 0 <=> face >= 7
  BY DEF truncatedFee

(* handleFundsReceived books both fees as cash received beside the face      *)
(* value, and the face value is all that initiateBountyFunding asks          *)
(* TradeSafe to collect: the ledger's cash exceeds the transaction by the    *)
(* fees, from 7 cents on for a FREE brand and from 20 on for a PRO one.      *)
THEOREM BooksExceedAsked ==
    \A face \in Nat \ {0}, tier \in Tiers : BookedBeyondAsked(face, tier)
  <1> TAKE face \in Nat \ {0}, tier \in Tiers
  <1>0. face \in Nat
    OBVIOUS
  <1> DEFINE rate == FEE_RATES_BPS.BRAND_ADMIN[tier]
             admin == truncatedFee(face, rate)
             global == truncatedFee(face, 350)
  <1>1. rate = (IF tier = "FREE" THEN 1500 ELSE 500)
    BY DEF Tiers, FEE_RATES_BPS
  <1>2. admin # 0 <=> face >= (IF tier = "FREE" THEN 7 ELSE 20)
    BY <1>1, TruncatedFeeIsZero
  <1>3. global # 0 => face >= 29
    BY TruncatedFeeIsZero
  <1>4. rate \in BasisPoints /\ 350 \in BasisPoints
    BY Rates
  <1>5. FundingLegs(face, tier)
          = [reserve |-> face, admin |-> admin, global |-> global, cash |-> -(face + admin + global)]
    BY Rates DEF FundingLegs
  <1> HIDE DEF rate
  <1>6. admin \in Nat /\ global \in Nat
    BY <1>0, <1>4, FeeNearTruncated
  <1> HIDE DEF admin, global
  <1>7. /\ -(-(face + admin + global)) - face = admin + global
        /\ admin + global > 0 <=> face >= (IF tier = "FREE" THEN 7 ELSE 20)
    BY <1>0, <1>2, <1>3, <1>6
  <1> QED
    BY <1>5, <1>7 DEF BookedBeyondAsked, transactionValue

(* Half a cent rounds to zero, the even neighbour: 5 cents at 10 %.          *)
LEMMA FeeIsZero ==
    ASSUME NEW face \in Nat \ {0}
    PROVE  /\ feeCents(face, 350) # 0 <=> face >= 15
           /\ feeCents(face, 1000) # 0 <=> face >= 6
           /\ feeCents(face, 2000) # 0 <=> face >= 3
  BY DEF feeCents, halfEven

(* A bounty of less than 15 cents cannot be approved and one of less than 29 *)
(* cannot be refunded before approval: a zero leg makes the ledger refuse    *)
(* the whole group; from there on no leg of either is ever zero.             *)
THEOREM SmallestPostables ==
    \A face \in Nat \ {0}, tier \in Tiers : SmallestPostable(face, tier)
  <1> TAKE face \in Nat \ {0}, tier \in Tiers
  <1>0. face \in Nat
    OBVIOUS
  <1>1. Postable(ApprovalLegs(face, tier)) <=> face >= 15
    <2> DEFINE rate == FEE_RATES_BPS.HUNTER_COMMISSION[tier]
               commission == feeCents(face, rate)
               global == feeCents(face, 350)
    <2>1. rate \in {1000, 2000} /\ face - commission - global # 0
      BY SplitsAreWhole, Rates DEF SplitIsWhole, forHunterApproval
    <2>2. commission # 0 <=> face >= (IF rate = 1000 THEN 6 ELSE 3)
      BY <2>1, FeeIsZero
    <2>3. global # 0 <=> face >= 15
      BY FeeIsZero
    <2>4. ApprovalLegs(face, tier)
            = [reserve |-> -face, commission |-> commission, global |-> global,
               payable |-> face - commission - global]
      BY Rates DEF ApprovalLegs, forHunterApproval
    <2> HIDE DEF rate, commission, global
    <2>5. Postable(ApprovalLegs(face, tier))
            <=> -face # 0 /\ commission # 0 /\ global # 0 /\ face - commission - global # 0
      BY <2>4 DEF Postable
    <2> QED
      BY <1>0, <2>1, <2>2, <2>3, <2>5
  <1>2. Postable(BeforeApprovalLegs(face, tier)) <=> face >= 29
    <2> DEFINE rate == FEE_RATES_BPS.BRAND_ADMIN[tier]
               admin == truncatedFee(face, rate)
               global == truncatedFee(face, 350)
    <2>1. rate \in {500, 1500} /\ rate \in BasisPoints /\ 350 \in BasisPoints
      BY Rates
    <2> HIDE DEF rate
    <2>2. admin \in Nat /\ global \in Nat
      BY <1>0, <2>1, FeeNearTruncated
    <2>3. admin # 0 <=> face >= (IF rate = 500 THEN 20 ELSE 7)
      BY <2>1, TruncatedFeeIsZero
    <2>4. global # 0 <=> face >= 29
      BY TruncatedFeeIsZero
    <2>5. BeforeApprovalLegs(face, tier)
            = [reserve |-> -face, admin |-> -admin, global |-> -global,
               clearing |-> face + admin + global]
      BY Rates DEF BeforeApprovalLegs, rate
    <2> HIDE DEF admin, global
    <2>6. Postable(BeforeApprovalLegs(face, tier))
            <=> -face # 0 /\ -admin # 0 /\ -global # 0 /\ face + admin + global # 0
      BY <2>5 DEF Postable
    <2> QED
      BY <1>0, <2>1, <2>2, <2>3, <2>4, <2>6
  <1> QED
    BY <1>1, <1>2 DEF SmallestPostable
=============================================================================
