---------------------------- MODULE MCLedgerPost ----------------------------
(* Two calls race for one key, one of them inside the caller's transaction;  *)
(* a third posts an override under another key while the switch is on; a     *)
(* fourth is malformed.                                                      *)
EXTENDS LedgerPost

CONSTANTS own, callers, override, malformed, k1, k2

MCCalls == {own, callers, override, malformed}
MCKeys == {k1, k2}
MCKeyOf == [c \in MCCalls |-> IF c \in {own, callers} THEN k1 ELSE k2]
MCInCallerTx == {callers}
MCBypass == {override}
MCMalformed == {malformed}
=============================================================================
