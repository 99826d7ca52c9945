----------------------------- MODULE NightlyReport -----------------------------
(***************************************************************************)
(* scripts/nightly_audit_report.py: from the exit codes of the gates, the  *)
(* test count and the output of promptfoo to the summary and its outcome.  *)
(* Both callers use it: nightly-audit.sh with the codes it observed, and   *)
(* the Broker with the codes of an evidence file it does not trust.        *)
(***************************************************************************)
EXTENDS Integers

Toolchain == {"ruff", "mypy", "pytest"}

\* _GATE_NAMES
GateNames == Toolchain \cup
    {"schema_drift", "promptfoo_rc", "transport_boot", "host_allowlist",
     "shipped_artifact", "lockfile"}

\* 124 and 137 come from timeout(1), 126 and 127 from a command that could not
\* be run; 3 and 4 have a meaning of their own for some gates.
ExitCodesOfGates == {0, 1, 2, 3, 4, 100, 124, 126, 127, 137}

Hung(rc) == rc \in {124, 137}
CouldNotRun(rc) == rc \in {126, 127}

TestsUnknown == -1
--------------------------------------------------------------------------------
\* One promptfoo result, as far as the classification looks at it.
Results == [error : BOOLEAN, success : BOOLEAN, redteam : BOOLEAN, contract : BOOLEAN]

\* A result that errored is not a failure, and a red-team case that fails a
\* contract assertion is a red-team hit only.
ResultClass(r) ==
    IF r.error THEN "error"
    ELSE IF r.success THEN "passed"
    ELSE IF r.redteam THEN "redteam"
    ELSE IF r.contract THEN "contract"
    ELSE "other"

NoOutput == [written |-> FALSE, results |-> {}]

\* classify_promptfoo: an eval without output ran nothing, and is an error when
\* promptfoo did not even claim success.
ClassifyPromptfoo(pf, rc) ==
    IF pf.written
    THEN [ran |-> TRUE, classes |-> {ResultClass(r) : r \in pf.results}]
    ELSE [ran |-> FALSE, classes |-> IF rc = 0 THEN {} ELSE {"error"}]
--------------------------------------------------------------------------------
\* The exit codes that are neither a pass nor a defect, gate by gate: "not
\* measured", "not configured", "moved", and for some "could not run".
Excused == [g \in GateNames |->
    CASE g = "transport_boot"   -> {3}
      [] g = "host_allowlist"   -> {3, 126, 127}
      [] g = "shipped_artifact" -> {126, 127}
      [] g = "lockfile"         -> {3, 4, 126, 127}
      [] OTHER                  -> {}]

\* Mutant: a gate killed by its timeout counts as a red gate and no more.
RedHung(gates, g) == gates[g] # 0 /\ gates[g] \notin Excused[g]

\* A gate that came back with a defect.
Red(gates, g) == gates[g] # 0 /\ gates[g] \notin Excused[g] /\ ~Hung(gates[g])

\* The finding flags of the summary.
Findings(gates, pfc) ==
    LET holds == [
          schema_drift          |-> Red(gates, "schema_drift") \/ "contract" \in pfc.classes,
          redteam               |-> "redteam" \in pfc.classes,
          other_findings        |-> "other" \in pfc.classes,
          toolchain_fail        |-> \E g \in Toolchain : Red(gates, g),
          transport_boot_fail   |-> Red(gates, "transport_boot"),
          host_allowlist_fail   |-> Red(gates, "host_allowlist"),
          shipped_artifact_fail |-> Red(gates, "shipped_artifact"),
          lockfile_fail         |-> Red(gates, "lockfile")]
    IN  {flag \in DOMAIN holds : holds[flag]}

\* The flags that report a gate without a verdict and leave the outcome alone.
Unmeasured(gates) ==
    LET holds == [
          transport_boot_unmeasured   |-> gates.transport_boot = 3,
          host_allowlist_unconfigured |-> gates.host_allowlist = 3,
          lockfile_unmeasured         |-> gates.lockfile = 3]
    IN  {flag \in DOMAIN holds : holds[flag]}

\* Mutant: the check for an empty or unreadable test count is dropped.
HardFailUncounted(gates, tests, pfc, metaValid) ==
    \/ ~metaValid
    \/ "error" \in pfc.classes
    \/ ~pfc.ran
    \/ \E g \in GateNames \ {"promptfoo_rc"} : CouldNotRun(gates[g])
    \/ gates.lockfile = 4
    \/ \E g \in GateNames : Hung(gates[g])

\* hard_fail_reasons is not empty: something gave no verdict that can be
\* believed, and that is never reported as a pass.
HardFail(gates, tests, pfc, metaValid) ==
    \/ ~metaValid
    \/ "error" \in pfc.classes
    \/ ~pfc.ran
    \/ \E g \in GateNames \ {"promptfoo_rc"} : CouldNotRun(gates[g])
    \/ gates.lockfile = 4
    \/ \E g \in GateNames : Hung(gates[g])
    \/ gates.pytest = 0 /\ tests <= 0

\* build_summary, as much of it as a consumer acts on.
BuildSummary(gates, tests, pf, metaValid, graded) ==
    LET pfc      == ClassifyPromptfoo(pf, gates.promptfoo_rc)
        findings == Findings(gates, pfc)
    IN  [outcome    |-> IF HardFail(gates, tests, pfc, metaValid) THEN "hard-fail"
                        ELSE IF findings = {} THEN "green" ELSE "findings",
         findings   |-> findings,
         unmeasured |-> Unmeasured(gates),
         graded     |-> graded]

ExitCode(outcome) == CASE outcome = "green" -> 0
                       [] outcome = "findings" -> 2
                       [] OTHER -> 1
--------------------------------------------------------------------------------
\* Mutant: a gate the evidence does not carry counts as clean.
FromEvidenceOptimistic(evidence) ==
    [g \in GateNames |-> IF g \in DOMAIN evidence THEN evidence[g] ELSE 0]

\* --from-evidence: a gate or a count the file does not carry counts as one that
\* could not run, or could not be read.  "evidence" is a function on the gate
\* names the file does carry; "counts" holds the test count, if the file has one.
FromEvidence(evidence) ==
    [g \in GateNames |-> IF g \in DOMAIN evidence THEN evidence[g] ELSE 127]
TestsFromEvidence(counts) ==
    IF counts = {} THEN TestsUnknown ELSE CHOOSE n \in counts : TRUE

\* The direct call: argparse refuses it when a gate flag is missing, and then
\* neither the report nor the summary is written.
AcceptsFlags(given) == GateNames \subseteq given
================================================================================
