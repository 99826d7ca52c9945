------------------------------ MODULE NightlyAudit ------------------------------
(***************************************************************************)
(* scripts/nightly-audit.sh on one target, night after night: the guard's  *)
(* preflight, the checkout that is kept from the night before, the gates   *)
(* in their order, the classification, the summary file that stays on disk *)
(* for the cron agent, and the record in the guard's state file.  A run    *)
(* may die at any point (the cron job's timeoutSeconds, a reboot).         *)
(*                                                                         *)
(* What a gate really experienced is kept beside its exit code, so that    *)
(* the outcome can be compared with what happened.                         *)
(***************************************************************************)
EXTENDS BudgetGuard, NightlyReport, Sequences, FiniteSets

CONSTANTS
    TokenCosts,     \* what the eval of one run may cost
    MaxDeviations   \* bound: gates that are not clean in one run

ASSUME AuditAssumption == TokenCosts \subseteq Nat /\ MaxDeviations \in Nat

VARIABLES
    guard,     \* the budget state file
    phase,     \* "idle", "admitted", "gates" or "judged"
    pending,   \* the steps still to run, in order
    events,    \* what each gate experienced in this run, "pending" before it ran
    tests,     \* the count read from the pytest log
    summary,   \* the summary file: its outcome, and whether this run wrote it
    last,      \* how the latest run ended, and with which exit code
    ref,       \* TARGET_REF: a "branch", or "pinned" (a tag or a commit)
    upstream,  \* the lockfile the target ships: "none", "agrees" or "drifted"
    lockfile,  \* the lockfile in the checkout
    tracked,   \* the commit checked out there ships one
    ownLock    \* history: that lockfile was written by the harness, not the target

runVars == <<phase, pending, events, tests>>
treeVars == <<ref, upstream, lockfile, tracked, ownLock>>
vars == <<guard, runVars, summary, last, treeVars>>

Locks == {"none", "agrees", "drifted"}

\* Mutant: the lockfile gate runs after uv sync.
PipelineSyncFirst ==
    <<"uv_sync", "lockfile", "ruff", "mypy", "pytest", "schema_drift",
      "transport_boot", "host_allowlist", "shipped_artifact", "promptfoo_rc">>

\* The steps between provisioning and classification; "uv_sync" is not a gate.
Pipeline == <<"lockfile", "uv_sync", "ruff", "mypy", "pytest", "schema_drift",
              "transport_boot", "host_allowlist", "shipped_artifact", "promptfoo_rc">>
--------------------------------------------------------------------------------
(* What can happen to each gate, and the exit code the script takes from it.  *)

\* The gates with a switch (BOOT_GATE=off and its siblings) may be "off" on any
\* night; the schema gate's switch only counts for a target without a generator,
\* which is otherwise "absent".  "exempt" is the third answer of a gate that has
\* one, "moved" that of a probe whose tree changed under it, and "crashed" a tool
\* that could not start (uv run fails) or died of an uncaught error before it had
\* an answer.  The lockfile gate answers for the lockfile it finds in the checkout.
Experiences == [g \in GateNames |->
    CASE g \in Toolchain        -> {"clean", "defect", "hung", "unrunnable", "crashed"}
      [] g = "schema_drift"     -> {"clean", "defect", "hung", "unrunnable", "crashed",
                                    "absent", "off"}
      [] g \in {"transport_boot", "host_allowlist"}
                                -> {"clean", "defect", "exempt", "hung", "crashed", "off"}
      [] g = "shipped_artifact" -> {"clean", "defect", "hung", "unrunnable", "crashed",
                                    "moved", "off"}
      [] g = "lockfile"         -> {"hung", "unrunnable", "crashed", "moved", "off",
                                    CASE lockfile = "none"    -> "exempt"
                                      [] lockfile = "agrees"  -> "clean"
                                      [] lockfile = "drifted" -> "defect"}
      [] g = "promptfoo_rc"     -> {"clean", "redteam", "contract", "other",
                                    "provider", "silent", "unrunnable", "hung"}]

\* The gates whose code is rewritten to 127 when there is no report.
Remapped == {"transport_boot", "host_allowlist"}

\* Mutant: a boot or rebind probe that died without a report keeps its own code.
CodeUnmapped(g, e) ==
    CASE e \in {"pending", "clean", "off", "silent"} -> 0
      [] e = "hung"       -> 124
      [] e = "unrunnable" -> 127
      [] e = "crashed"    -> 1
      [] e = "exempt"     -> 3
      [] e = "moved"      -> 4
      [] e \in {"redteam", "contract", "other", "provider"} -> 100
      [] OTHER            -> IF g \in Toolchain \/ (g = "schema_drift" /\ e = "defect")
                             THEN 1 ELSE 2

\* A boot or rebind probe that died without a report is recorded as 127, any other
\* gate with the code it died with; a missing generator, and a defect seen by a
\* probe of this repository, as 2.
Code(g, e) ==
    CASE e \in {"pending", "clean", "off", "silent"} -> 0
      [] e = "hung"       -> 124
      [] e = "unrunnable" -> 127
      [] e = "crashed"    -> IF g \in Remapped THEN 127 ELSE 1
      [] e = "exempt"     -> 3
      [] e = "moved"      -> 4
      [] e \in {"redteam", "contract", "other", "provider"} -> 100
      [] OTHER            -> IF g \in Toolchain \/ (g = "schema_drift" /\ e = "defect")
                             THEN 1 ELSE 2

Codes == [g \in GateNames |-> Code(g, events[g])]

\* The JSON promptfoo left behind: one case passed, and one that did not.
Passed == [error |-> FALSE, success |-> TRUE, redteam |-> FALSE, contract |-> FALSE]
Output(e) ==
    CASE e \in {"silent", "unrunnable", "hung"} -> NoOutput
      [] e = "clean" -> [written |-> TRUE, results |-> {Passed}]
      [] OTHER -> [written |-> TRUE, results |-> {Passed,
                     [error    |-> e = "provider",
                      success  |-> FALSE,
                      redteam  |-> e = "redteam",
                      contract |-> e \in {"redteam", "contract"}]}]

Summary == BuildSummary(Codes, tests, Output(events.promptfoo_rc), TRUE, FALSE)
--------------------------------------------------------------------------------
NoEvents == [g \in GateNames |-> "pending"]
Deviations == {g \in GateNames : events[g] \notin {"pending", "clean"}}

AllEvents == {"pending", "clean", "off", "defect", "absent", "exempt", "hung", "unrunnable",
              "crashed", "moved", "redteam", "contract", "other", "provider", "silent"}

TypeOK ==
    /\ guard \in GuardStates
    /\ phase \in {"idle", "admitted", "gates", "judged"}
    /\ \E n \in 1..(Len(Pipeline) + 1) : pending = SubSeq(Pipeline, n, Len(Pipeline))
    /\ events \in [GateNames -> AllEvents]
    /\ tests \in {TestsUnknown, 0, 1}
    /\ summary \in [outcome : {"none", "green", "findings", "hard-fail"}, fresh : BOOLEAN]
    /\ last \in [by : {"none", "verdict", "hard_fail", "skip", "killed"}, rc : {0, 1, 2}]
    /\ ref \in {"branch", "pinned"}
    /\ upstream \in Locks /\ lockfile \in Locks
    /\ tracked \in BOOLEAN /\ ownLock \in BOOLEAN

Init ==
    /\ guard = DefaultState
    /\ phase = "idle"
    /\ pending = <<>>
    /\ events = NoEvents
    /\ tests = TestsUnknown
    /\ summary = [outcome |-> "none", fresh |-> FALSE]
    /\ last = [by |-> "none", rc |-> 0]
    /\ ref \in {"branch", "pinned"}
    /\ upstream \in Locks
    /\ lockfile = "none"
    /\ tracked = FALSE /\ ownLock = FALSE

\* The results of a run end with its process, except for what it left on disk.
RunOver ==
    /\ phase' = "idle"
    /\ pending' = <<>> /\ events' = NoEvents /\ tests' = TestsUnknown

\* A new run finds the summary of an earlier one.
Stale == [summary EXCEPT !.fresh = FALSE]

\* The gate flags hard_fail() passes to the report script.
HardFailFlags == GateNames \ {"lockfile"}

\* hard_fail(): the report script is asked for a hard-fail report, its failure is
\* ignored, and the run exits 1.
HardFailWith(before) ==
    /\ summary' = IF AcceptsFlags(HardFailFlags)
                  THEN [outcome |-> "hard-fail", fresh |-> TRUE] ELSE before
    /\ last' = [by |-> "hard_fail", rc |-> 1]
    /\ RunOver

\* git, uv or timeout is missing, the grader is of the writer's family, or the
\* profile is unknown: the script gives up before it asks the guard.
LaunchUnfit ==
    /\ phase = "idle"
    /\ HardFailWith(Stale)
    /\ UNCHANGED <<guard, treeVars>>

\* preflight exits 75: it wrote the hard-fail report itself, the script exits 1.
LaunchSkipped ==
    /\ phase = "idle"
    /\ ~PreflightRuns(guard, 0, 0)
    /\ guard' = PreflightState(guard)
    /\ summary' = [outcome |-> "hard-fail", fresh |-> TRUE]
    /\ last' = [by |-> "skip", rc |-> 1]
    /\ UNCHANGED <<runVars, treeVars>>

LaunchAdmitted ==
    /\ phase = "idle"
    /\ PreflightRuns(guard, 0, 0)
    /\ guard' = PreflightState(guard)
    /\ phase' = "admitted"
    /\ summary' = Stale
    /\ UNCHANGED <<pending, events, tests, last, treeVars>>

\* git fetch, clone, checkout or reset failed or timed out.
ProvisionFails ==
    /\ phase = "admitted"
    /\ HardFailWith(summary)
    /\ UNCHANGED <<guard, treeVars>>

\* Mutant: the checkout of the night before is used as it is.
ProvisionedLockUnreset == IF lockfile # "none" THEN lockfile ELSE upstream

\* origin/<ref> resolves for a branch only; then git reset --hard brings back every
\* file the target ships, removes one it no longer ships, and leaves one alone that
\* it never shipped.
Resets == ref = "branch" /\ (upstream # "none" \/ tracked)

\* Without the reset, git checkout keeps the lockfile of the night before as uv
\* sync left it; only a fresh clone has the target's.
ProvisionedLock == IF Resets \/ lockfile = "none" THEN upstream ELSE lockfile

Provision ==
    /\ phase = "admitted"
    /\ phase' = "gates"
    /\ pending' = Pipeline
    /\ lockfile' = ProvisionedLock
    /\ tracked' = (upstream # "none")
    /\ ownLock' = (ownLock /\ ~Resets)
    /\ UNCHANGED <<guard, events, tests, summary, last, ref, upstream>>

\* One gate runs, to its end or to its timeout.  After pytest the test count is
\* read from its log, and looked at when the suite exited 0 ("clean").
RunGate(g, e) ==
    /\ phase = "gates" /\ pending # <<>> /\ g = Head(pending)
    /\ e \in Experiences[g]
    /\ e = "clean" \/ Cardinality(Deviations) < MaxDeviations
    /\ events' = [events EXCEPT ![g] = e]
    /\ tests' \in IF g = "pytest" /\ e = "clean" THEN {TestsUnknown, 0, 1} ELSE {tests}
    /\ pending' = Tail(pending)
    /\ UNCHANGED <<guard, phase, summary, last, treeVars>>

\* uv sync writes the lockfile anew when there is none or it disagrees.
Sync ==
    /\ phase = "gates" /\ pending # <<>> /\ Head(pending) = "uv_sync"
    /\ lockfile' = "agrees"
    /\ ownLock' = (ownLock \/ lockfile # "agrees")
    /\ pending' = Tail(pending)
    /\ UNCHANGED <<guard, phase, events, tests, summary, last, ref, upstream, tracked>>

\* It may have re-locked before it failed.
SyncFails ==
    /\ phase = "gates" /\ pending # <<>> /\ Head(pending) = "uv_sync"
    /\ HardFailWith(summary)
    /\ \/ UNCHANGED <<lockfile, ownLock>>
       \/ lockfile' = "agrees" /\ ownLock' = (ownLock \/ lockfile # "agrees")
    /\ UNCHANGED <<guard, ref, upstream, tracked>>

\* The report script writes the summary; its exit code is the run's.
Classify ==
    /\ phase = "gates" /\ pending = <<>>
    /\ phase' = "judged"
    /\ summary' = [outcome |-> Summary.outcome, fresh |-> TRUE]
    /\ UNCHANGED <<guard, pending, events, tests, last, treeVars>>

Finish(tokens) ==
    /\ phase = "judged"
    /\ guard' = RecordState(guard, ExitCode(summary.outcome), tokens)
    /\ last' = [by |-> "verdict", rc |-> ExitCode(summary.outcome)]
    /\ RunOver
    /\ UNCHANGED <<summary, treeVars>>

Killed ==
    /\ phase # "idle"
    /\ last' = [by |-> "killed", rc |-> 1]
    /\ RunOver
    /\ UNCHANGED <<guard, summary, treeVars>>

\* Between two runs, time passes and the target's maintainers push to the branch.
\* A push may change the bounds, so that a lockfile which is not theirs drifts.  A
\* tag or a commit stays what it is.
Night ==
    /\ phase = "idle"
    /\ guard' = Aged(guard)
    /\ UNCHANGED <<runVars, summary, last, treeVars>>

Push ==
    /\ phase = "idle" /\ ref = "branch"
    /\ upstream' \in Locks
    /\ lockfile' \in {lockfile, IF lockfile = "none" THEN "none" ELSE "drifted"}
    /\ UNCHANGED <<guard, runVars, summary, last, ref, tracked, ownLock>>

Next ==
    \/ LaunchUnfit \/ LaunchSkipped \/ LaunchAdmitted
    \/ ProvisionFails \/ Provision
    \/ \E g \in GateNames, e \in AllEvents : RunGate(g, e)
    \/ Sync \/ SyncFails
    \/ Classify
    \/ \E tokens \in TokenCosts : Finish(tokens)
    \/ Killed
    \/ Night \/ Push

Spec == Init /\ [][Next]_vars
--------------------------------------------------------------------------------
\* A gate that gave no answer about the target, whatever code it left behind.
NoAnswer(g) ==
    \/ events[g] \in {"hung", "unrunnable", "crashed", "moved", "provider", "silent"}
    \/ g = "pytest" /\ events[g] = "clean" /\ tests <= 0

\* Two ways of giving no answer are not told from a defect: a tool that died with
\* a code of its own in a gate that is not remapped, and a shipped probe that saw
\* its tree move.  The classification charges them to the target.
Charged(g) ==
    \/ events[g] = "crashed" /\ g \notin Remapped
    \/ events[g] = "moved" /\ g # "lockfile"

\* The verdict of a run is that of its worst gate: a gate without an answer makes
\* the run a hard failure, whatever the others found; otherwise a defect that a
\* gate observed, or a missing answer that is charged as one, makes it a run with
\* findings; and only a run in which every gate answered, or was switched off, and
\* none observed a defect is green.  So no hang, no crash and no empty test suite
\* is ever reported as a pass, and a target is never charged for a hang, for a
\* boot or rebind probe that died, or for a lockfile that moved.
VerdictIsTheWorstAnswer ==
    phase = "judged" =>
        summary.outcome =
            IF \E g \in GateNames : NoAnswer(g) /\ ~Charged(g) THEN "hard-fail"
            ELSE IF \E g \in GateNames :
                       \/ Charged(g)
                       \/ events[g] \in {"defect", "absent", "redteam", "contract", "other"}
            THEN "findings" ELSE "green"

\* Broker and Worker agree, and evidence that lost a gate or the test count is
\* never classified better than a hard failure.
EvidenceFailsClosed ==
    phase = "judged" =>
        LET verdict(evidence, counts) ==
              BuildSummary(FromEvidence(evidence), TestsFromEvidence(counts),
                           Output(events.promptfoo_rc), TRUE, FALSE).outcome
        IN  /\ verdict(Codes, {tests}) = summary.outcome
            /\ \A g \in GateNames \ {"promptfoo_rc"} :
                 verdict([h \in GateNames \ {g} |-> Codes[h]], {tests}) = "hard-fail"
            /\ events.pytest = "clean" => verdict(Codes, {}) = "hard-fail"

\* uv sync repairs a lockfile that disagrees.  Neither the repair of this night nor
\* that of an earlier one may hide the disagreement: on a branch, and as long as the
\* target ships a lockfile, the gate's answer is the answer for that one.
RepairNeverHidesDrift ==
    ref = "branch" /\ upstream # "none" =>
        /\ events.lockfile = "clean" => upstream = "agrees"
        /\ events.lockfile = "defect" => upstream = "drifted"
--------------------------------------------------------------------------------
(* What the script says of itself, and does not do.                            *)

\* "write a hard-fail report+summary and exit 1": after a run that was not killed,
\* the summary the cron agent reads is that run's own.
SummaryIsOfThisRun ==
    phase = "idle" /\ last.by \in {"verdict", "skip", "hard_fail"} => summary.fresh

\* The lockfile gate "runs on the checkout as cloned, before anything touches it":
\* the lockfile it judges is one the target ships.
LockfileIsTheTargets ==
    phase = "gates" /\ Len(pending) = Len(Pipeline) => ~ownLock
================================================================================
