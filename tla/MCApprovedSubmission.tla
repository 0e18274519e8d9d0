------------------------ MODULE MCApprovedSubmission ------------------------
(* An instance of ApprovedSubmission: one submission with one dispute, a     *)
(* request about the submission, one about the dispute, and one replica's    *)
(* cron jobs.                                                                *)
EXTENDS ApprovedSubmission

CONSTANTS api1, api2, cron1, s1, d1

MCDuties == [w \in {api1, api2, cron1} |->
                CASE w = api1 -> {"payout", "submit", "review", "override"}
                  [] w = api2 -> {"dispute", "arbitrate"}
                  [] OTHER -> {"autopay", "disputeJobs"}]
MCDisputeOf == [d \in {d1} |-> s1]
=============================================================================
