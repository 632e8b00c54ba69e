----------------------------- MODULE StatsJobsMC -----------------------------
(* Instances of StatsJobs for TLC *)
EXTENDS StatsJobs, TLC

OneOfEach == {"storage", "statistics"}
JustStorage == {"storage"}
JustStatistics == {"statistics"}
=============================================================================
