----------------------------- MODULE MCImproveLoop -----------------------------
(* Two mutants; good and twin detect the first one, so that whichever comes    *)
(* second is redundant in part, twin also the other; a red candidate, a flaky  *)
(* one and one outside promptfoo/.  The window holds one token and a proposal  *)
(* costs one, so a run that enters may overshoot it by its other iterations.   *)
EXTENDS ImproveLoop, TLC

CONSTANTS good, twin, red, flaky, outside

MCCandidates == {good, twin, red, flaky, outside}
MCRed == {red}
MCFlaky == {flaky}
MCOutside == {outside}
MCPool == 1..2
MCProves == (good :> {1}) @@ (twin :> {1, 2}) @@ (red :> {2}) @@ (flaky :> {}) @@ (outside :> {2})
MCModes == {"mutation", "schema-path"}
MCBills == {1}
================================================================================
