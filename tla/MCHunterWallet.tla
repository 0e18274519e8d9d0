--------------------------- MODULE MCHunterWallet ---------------------------
(* An instance of HunterWallet: two requests about withdrawals, of the       *)
(* hunter or an admin, beside one payout or correction.                      *)
EXTENDS HunterWallet, TLC

CONSTANTS api1, api2, payer, r1, r2

AllHandlers == [w \in {api1, api2, payer} |->
                    IF w = payer THEN {"credit", "adjust"} ELSE {"withdraw", "settle"}]
Symmetric == Permutations({api1, api2}) \cup Permutations({r1, r2})

OneMoreOrLess == {-1, 1}
=============================================================================
