------------------------- MODULE MCPostVerification -------------------------
(* An instance of PostVerification: the requests of the hunter, a reviewer   *)
(* and an administrator, the recovery sweep, and a visibility pass.          *)
EXTENDS PostVerification

CONSTANTS api1, pass1, sweeper, r1, r2

MCDuties == [w \in Workers |->
                CASE w = api1 -> {"submit", "review", "resolve", "override"}
                  [] w = sweeper -> {"sweep"}
                  [] OTHER -> {"recheck"}]

\* The rows are interchangeable, so what holds of one holds of each: a post
\* that waits to be scraped is scraped, whoever is cut off.
PendingGetsScraped == GetsScraped(r1)
=============================================================================
