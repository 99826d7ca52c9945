----------------------------- MODULE DriftRouting -----------------------------
(***************************************************************************)
(* The two scheduled guards that report through scripts/drift_issue.py:    *)
(* live-probe.yml (live_probe.py and recall_canary.py against the live     *)
(* endpoints) and redteam-regen.yml (generate.sh, the pull request, and    *)
(* regen_guard.py which judges them).  A week's run becomes one answer,    *)
(* and the answer is routed to the guard's one tracking issue (IssueSync). *)
(* The concurrency group of a workflow keeps two of its runs apart; the    *)
(* two workflows do overlap.                                               *)
(***************************************************************************)
EXTENDS IssueSync

CONSTANTS
    LiveRuns,    \* what the live probe may go through, some of ProbeRuns
    CanaryRuns   \* and the canary

VARIABLES
    weeks,      \* the latest run of each workflow: what really happened in it
    committed,  \* the red-team set is part of the repository
    proposed    \* a pull request with a regenerated set is open

driftVars == <<syncVars, weeks, committed, proposed>>

LiveProbe == "live-probe-drift"
Regen == "redteam-regen-stale"
Guards == {LiveProbe, Regen}

\* The marker of a guard is its name, and so is its workflow's concurrency group.
ASSUME GuardsAssumption == Guards \subseteq Keys \cap Syncs
--------------------------------------------------------------------------------
(* live-probe.yml                                                             *)

\* What a probe can go through: comparisons that agree, that differ or that
\* could not be made, a crash before or after its report, no manifest, or a step
\* that was never started.
ProbeRuns == {"agreed", "differed", "failed", "differed_failed", "crashed", "crashed_late",
              "no_manifest", "skipped"}
ASSUME ProbesAssumption ==
    CanaryRuns \subseteq ProbeRuns /\ LiveRuns \subseteq ProbeRuns \ {"no_manifest", "skipped"}

\* Mutant: an incomplete run without a finding is an all-clear.
AlertVerdictLenient(finding, incomplete) == IF finding THEN "true" ELSE "false"

\* alert_verdict
AlertVerdict(finding, incomplete) ==
    IF finding THEN "true" ELSE IF incomplete THEN "" ELSE "false"

\* The three signals a probe leaves in the workflow.
SelfReport(run) ==
    CASE run = "skipped"      -> [outcome |-> "skipped", alert |-> "", report |-> FALSE]
      [] run = "crashed"      -> [outcome |-> "failure", alert |-> "", report |-> FALSE]
      [] run = "crashed_late" -> [outcome |-> "failure", alert |-> "", report |-> TRUE]
      [] run = "no_manifest"  -> [outcome |-> "success", alert |-> "", report |-> FALSE]
      [] OTHER -> [outcome |-> "success", report |-> TRUE,
                   alert |-> AlertVerdict(run \in {"differed", "differed_failed"},
                                          run \in {"failed", "differed_failed"})]

ProbeRan(probe) == probe.outcome = "success" /\ probe.alert \in {"true", "false"} /\ probe.report

\* Mutants: a probe that has not run is left out of the count; it holds back what
\* the other one found.
ClassifyProbesAllOrNothing(probes) ==
    IF probes = {} \/ \E q \in probes : ~ProbeRan(q) THEN "unknown"
    ELSE IF \E q \in probes : q.alert = "true" THEN "finding"
    ELSE "clear"
ClassifyProbesPresent(probes) ==
    IF \E q \in probes : ProbeRan(q) /\ q.alert = "true" THEN "finding"
    ELSE IF \E q \in probes : ProbeRan(q) THEN "clear"
    ELSE "unknown"

\* classify() of drift_issue.py
ClassifyProbes(probes) ==
    IF \E q \in probes : ProbeRan(q) /\ q.alert = "true" THEN "finding"
    ELSE IF probes # {} /\ \A q \in probes : ProbeRan(q) THEN "clear"
    ELSE "unknown"

\* The probe step fails the job; the canary needs the job, and an install that
\* may fail, and leaves its own crash behind as a failed step.
LiveWeeks == {w \in [live : LiveRuns, canary : CanaryRuns] :
                 w.live \in {"crashed", "crashed_late"} => w.canary = "skipped"}
--------------------------------------------------------------------------------
(* redteam-regen.yml                                                          *)

\* A failed step lets the job go on, a cancelled one does not.  "wrote" is
\* whether generate.sh put a new set on disk.
RegenWeeks == {w \in [key : BOOLEAN, generate : {"success", "failure", "cancelled"},
                      wrote : BOOLEAN, pull_request : {"success", "failure", "cancelled", "skipped"}] :
                 /\ w.generate = "cancelled" <=> w.pull_request = "skipped"
                 /\ w.wrote => w.generate = "success"
                 /\ w.generate = "success" => w.key}

\* The guard looks for the set in the working tree, and the checkout brings the
\* committed one along.
Artifact(w) == committed \/ w.wrote

\* Mutant: an unwatched pull request step is no reason to hold the verdict back.
ClassifyRegenUnwatched(w) ==
    IF ~w.key \/ w.generate = "cancelled" THEN "unknown"
    ELSE IF w.generate # "success" \/ ~Artifact(w) THEN "finding"
    ELSE IF w.pull_request = "failure" THEN "finding"
    ELSE "clear"

\* classify() of regen_guard.py
ClassifyRegen(w) ==
    IF ~w.key \/ w.generate \notin {"success", "failure"} THEN "unknown"
    ELSE IF w.generate # "success" \/ ~Artifact(w) THEN "finding"
    ELSE IF w.pull_request \notin {"success", "failure"} THEN "unknown"
    ELSE IF w.pull_request # "success" THEN "finding"
    ELSE "clear"

\* regen_guard's own signals: without an answer it leaves neither verdict nor report.
RegenReport(w) ==
    LET answer == ClassifyRegen(w)
    IN  [outcome |-> "success", report |-> answer # "unknown",
         alert |-> CASE answer = "finding" -> "true"
                     [] answer = "clear"   -> "false"
                     [] OTHER              -> ""]
--------------------------------------------------------------------------------
Answered(guard) ==
    ClassifyProbes(IF guard = LiveProbe
                   THEN {SelfReport(weeks[LiveProbe].live), SelfReport(weeks[LiveProbe].canary)}
                   ELSE {RegenReport(weeks[Regen])})

QuietWeeks == [g \in Guards |->
    IF g = LiveProbe THEN [live |-> "agreed", canary |-> "agreed"]
    ELSE [key |-> FALSE, generate |-> "failure", wrote |-> FALSE,
          pull_request |-> "success"]]

DriftInit ==
    /\ SyncInit
    /\ weeks = QuietWeeks
    /\ committed = FALSE
    /\ proposed = FALSE

\* A workflow run, up to its routing step.
Weekly(guard, week) ==
    /\ ~Working(guard)
    /\ weeks' = [weeks EXCEPT ![guard] = week]
    /\ proposed' = (proposed \/ (guard = Regen /\ week.wrote /\ week.pull_request = "success"))
    /\ UNCHANGED <<syncVars, committed>>

\* Its routing step, which always runs.  A week that goes like the one before
\* leaves "weeks" as it is and is routed again.
RouteWeek(guard) ==
    /\ Answered(guard) # "unknown"
    /\ Begin(guard, <<guard>>, [k \in Keys |-> IF k = guard THEN Answered(guard) ELSE "unknown"])
    /\ UNCHANGED <<weeks, committed, proposed>>

MaintainerMerges ==
    /\ proposed
    /\ committed' = TRUE /\ proposed' = FALSE
    /\ UNCHANGED <<syncVars, weeks>>

DriftNext ==
    \/ \E week \in LiveWeeks : Weekly(LiveProbe, week)
    \/ \E week \in RegenWeeks : Weekly(Regen, week)
    \/ \E guard \in Guards : RouteWeek(guard)
    \/ SyncNext /\ UNCHANGED <<weeks, committed, proposed>>
    \/ MaintainerMerges

DriftSpec == DriftInit /\ [][DriftNext]_driftVars

\* The schedule comes round, and each call of a routing step returns, fails, or hangs
\* until the runner's limit on the job ends it.
DriftFairness ==
    \A guard \in Guards :
        /\ WF_driftVars(RouteWeek(guard))
        /\ WF_driftVars(SyncStep(guard) /\ UNCHANGED <<weeks, committed, proposed>>)
FairDriftSpec == DriftSpec /\ DriftFairness
--------------------------------------------------------------------------------
Closes(guard) ==
    \E i \in Numbers : Call(guard) /\ tracks[i] = guard /\ tracks'[i] = "none"

\* A week that could not look closes nothing: the drift issue is closed only after
\* both probes made every one of their comparisons and all of them agreed, and the
\* regeneration issue only after both steps of the workflow ran to success.
WeeksCloseOnEvidence ==
    [][/\ Closes(LiveProbe) => weeks[LiveProbe] = [live |-> "agreed", canary |-> "agreed"]
       /\ Closes(Regen) => /\ weeks[Regen].key
                           /\ weeks[Regen].generate = "success"
                           /\ weeks[Regen].pull_request = "success"]_driftVars

\* One workflow, one issue: the concurrency group and the marker together leave no
\* room for a second one, whatever calls fail and although the other workflow is
\* at work on the same repository.
OneIssuePerGuard == \A guard \in Guards : Cardinality(OpenIssues(guard)) <= 1

\* A finding is never held back because the rest of the week was incomplete: if
\* every week from some point on has a probe that compared and differed, or an
\* attempted regeneration that failed, there is an issue for it again and again;
\* and an issue does not outlive the weeks that clear it.
WeeksEventuallyTracked ==
    /\ <>[](weeks[LiveProbe].canary \in {"differed", "differed_failed"})
            => []<>(OpenIssues(LiveProbe) # {})
    /\ <>[](weeks[Regen].key /\ weeks[Regen].generate = "failure") => []<>(OpenIssues(Regen) # {})
    /\ \A guard \in Guards : <>[](Answered(guard) = "clear") => <>[](OpenIssues(guard) = {})
================================================================================
