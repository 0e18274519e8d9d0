-------------------------- MODULE MCSubscriptions --------------------------
(* An instance of Subscriptions: two requests of the owner or an admin       *)
(* beside the jobs of a replica, and a second renewal job.                   *)
EXTENDS Subscriptions

CONSTANTS api1, api2, cron1, cron2

MCDuties == [w \in Workers |->
                CASE w = api1 -> {"owner"}
                  [] w = api2 -> {"owner", "admin"}
                  [] w = cron1 -> {"renew"}
                  [] OTHER -> {"renew", "expire"}]
=============================================================================
