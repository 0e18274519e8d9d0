------------------------------ MODULE FeeMath ------------------------------
(* The arithmetic of a bounty's money, in whole cents: what the checkout     *)
(* quotes a brand, what it asks TradeSafe to collect, what the funding books *)
(* as received, how an approval splits the face value, and what the two      *)
(* kinds of refund take back.  The operators carry no state; the laws below  *)
(* are stated for every face value and tier.                                 *)
EXTENDS Integers

Tiers == {"FREE", "PRO"}

FEE_RATES_BPS == [BRAND_ADMIN |-> [FREE |-> 1500, PRO |-> 500],
                  HUNTER_COMMISSION |-> [FREE |-> 2000, PRO |-> 1000],
                  GLOBAL_FEE |-> 350]

\* Banker's rounding of numerator / denominator.
halfEven(numerator, denominator) ==
    LET quotient == numerator \div denominator
        remainderX2 == (numerator % denominator) * 2
    IN IF \/ remainderX2 < denominator
          \/ (remainderX2 = denominator /\ quotient % 2 = 0)
         THEN quotient
         ELSE quotient + 1

feeCents(amount, rate) == halfEven(amount * rate, 10000)

\* The funding and the pre-approval refund do not round, they truncate.
truncatedFee(amount, rate) == (amount * rate) \div 10000

\* processingFee and bankCharge are 0 at the checkout, payoutFee at the approval.
forBrandFunding(face, tier) ==
    LET admin == feeCents(face, FEE_RATES_BPS.BRAND_ADMIN[tier])
        global == feeCents(face, FEE_RATES_BPS.GLOBAL_FEE)
    IN [admin |-> admin, global |-> global, total |-> face + admin + global]

\* The value of the transaction the checkout creates at the provider: its one
\* allocation, in rand to the cent, is the face value without the fees.
transactionValue(face) == face

forHunterApproval(face, tier) ==
    LET commission == feeCents(face, FEE_RATES_BPS.HUNTER_COMMISSION[tier])
        global == feeCents(face, FEE_RATES_BPS.GLOBAL_FEE)
    IN [commission |-> commission, global |-> global, net |-> face - commission - global]

(* The legs the handlers post, by account: credits positive, debits negative.*)
(* Both approval and reversal pass the face value through hunter_pending.    *)
FundingLegs(face, tier) ==
    LET admin == truncatedFee(face, FEE_RATES_BPS.BRAND_ADMIN[tier])
        global == truncatedFee(face, FEE_RATES_BPS.GLOBAL_FEE)
    IN [reserve |-> face, admin |-> admin, global |-> global,
        cash |-> -(face + admin + global)]

BeforeApprovalLegs(face, tier) ==
    LET admin == truncatedFee(face, FEE_RATES_BPS.BRAND_ADMIN[tier])
        global == truncatedFee(face, FEE_RATES_BPS.GLOBAL_FEE)
    IN [reserve |-> -face, admin |-> -admin, global |-> -global,
        clearing |-> face + admin + global]

ApprovalLegs(face, tier) ==
    LET split == forHunterApproval(face, tier)
    IN [reserve |-> -face, commission |-> split.commission,
        global |-> split.global, payable |-> split.net]

\* The reversal knows the net of the submission's snapshot and the bounty's
\* rate of the global fee, and derives the commission from them.
AfterApprovalLegs(face, net, globalRate) ==
    LET global == feeCents(face, globalRate)
    IN [reserve |-> face, commission |-> -(face - net - global),
        global |-> -global, payable |-> -net]

\* The ledger refuses a group in which an amount is zero.
Postable(legs) == \A account \in DOMAIN legs : legs[account] # 0

-----------------------------------------------------------------------------
\* The nearest whole number, and of two equally near ones the even one.
IsRounded(q, numerator, denominator) ==
    LET error == 2 * (q * denominator - numerator)
    IN /\ -denominator <= error /\ error <= denominator
       /\ (error = denominator \/ error = -denominator) => q % 2 = 0

\* No cent is lost in the split of an approval, no part of it is negative, and
\* the hunter gets something: the throw in forHunterApproval is never reached.
SplitIsWhole(face, tier) ==
    LET split == forHunterApproval(face, tier)
    IN /\ split.commission + split.global + split.net = face
       /\ split.commission >= 0 /\ split.global >= 0
       /\ split.net \in 1 .. face

\* An after-approval refund takes back, account by account, what the approval
\* posted, although it never reads it: the derived commission is the charged
\* one whatever tier the hunter had.
ReversalUndoesApproval(face, tier) ==
    LET done == ApprovalLegs(face, tier)
        undone == AfterApprovalLegs(face, done.payable, FEE_RATES_BPS.GLOBAL_FEE)
    IN \A account \in DOMAIN done : done[account] + undone[account] = 0

\* A pre-approval refund takes back what the funding credited.
RefundUndoesFunding(face, tier) ==
    LET done == FundingLegs(face, tier)
        undone == BeforeApprovalLegs(face, tier)
    IN /\ \A account \in {"reserve", "admin", "global"} : done[account] + undone[account] = 0
       /\ undone.clearing = -done.cash

\* The checkout quotes the brand, and keeps as totalValueCents, what the funding
\* will book as received, or up to a cent per fee more.
BookedAgainstQuoted(face, tier) ==
    forBrandFunding(face, tier).total + FundingLegs(face, tier).cash \in 0 .. 2

\* What the funding books as received is not what the provider was asked to
\* collect: it is more by both fees, as soon as one of them reaches a cent.
BookedBeyondAsked(face, tier) ==
    LET legs == FundingLegs(face, tier)
        beyond == -legs.cash - transactionValue(face)
    IN /\ beyond = legs.admin + legs.global
       /\ beyond > 0 <=> face >= (IF tier = "FREE" THEN 7 ELSE 20)

\* Below 15 cents the global fee of an approval rounds to zero, below 29 that
\* of a pre-approval refund, and the ledger refuses the whole group.
SmallestPostable(face, tier) ==
    /\ Postable(ApprovalLegs(face, tier)) <=> face >= 15
    /\ Postable(BeforeApprovalLegs(face, tier)) <=> face >= 29
=============================================================================
