----------------------------- MODULE MCDriftRouting -----------------------------
(* Both workflows on one repository, with one call that fails or run that dies, *)
(* and one probe run of each kind that reports differently.                     *)
EXTENDS DriftRouting

MCUnroutable == {}
MCLiveRuns == {"agreed", "failed", "crashed_late"}
MCCanaryRuns == {"agreed", "differed_failed", "no_manifest", "skipped"}
================================================================================
