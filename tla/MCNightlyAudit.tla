----------------------------- MODULE MCNightlyAudit -----------------------------
(* One target, with up to two gates per run that are not clean: two are enough *)
(* for every pair of a gate without an answer and a gate with a defect.        *)
EXTENDS NightlyAudit

MCTokenCosts == {0}
================================================================================
