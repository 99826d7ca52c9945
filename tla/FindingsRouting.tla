---------------------------- MODULE FindingsRouting ----------------------------
(***************************************************************************)
(* scripts/sync_findings_issues.py: the summary of a nightly run becomes   *)
(* one of three answers per label, and each answer is routed to the        *)
(* label's tracking issue (IssueSync).  The cron agent starts it after     *)
(* every run that reached a verdict, in a turn that ends after             *)
(* timeoutSeconds; an operator may start it as well, and nobody ends that. *)
(***************************************************************************)
EXTENDS IssueSync, NightlyReport

CONSTANTS
    Audits,     \* nightly runs, by name: what the gates returned (0 for one that is off)
    Scheduled   \* the runs of the script that the cron agent starts

VARIABLES
    night,  \* the run whose summary is on disk
    read    \* history: the run whose summary each sync at work has read

vars == <<syncVars, night, read>>

\* The labels, in the order of _CLASSES.
Labels == <<"schema-drift", "redteam", "audit-finding", "dns-rebinding">>
Labelled == {Labels[n] : n \in DOMAIN Labels}

\* _CLASSES: the flags of the summary that make a label a finding.
Classes(label) ==
    CASE label = "schema-drift"  -> {"schema_drift"}
      [] label = "redteam"       -> {"redteam"}
      [] label = "audit-finding" -> {"other_findings", "toolchain_fail", "transport_boot_fail",
                                     "shipped_artifact_fail", "lockfile_fail"}
      [] label = "dns-rebinding" -> {"host_allowlist_fail"}

\* Mutant: a run that concluded counts as having measured everything.
LabelMeasuredAlways(label, s) == s.outcome \in {"green", "findings"}

\* _EVIDENCE: what the summary has to say for the label to be closed.
LabelMeasured(label, s) ==
    CASE label = "redteam" -> s.graded
      [] label = "audit-finding" ->
            s.unmeasured \cap {"transport_boot_unmeasured", "lockfile_unmeasured"} = {}
      [] label = "dns-rebinding" -> "host_allowlist_unconfigured" \notin s.unmeasured
      [] OTHER -> TRUE

LabelState(label, s) ==
    IF s.outcome \notin {"green", "findings"} THEN "unknown"
    ELSE IF Classes(label) \cap s.findings # {} THEN "finding"
    ELSE IF LabelMeasured(label, s) THEN "clear"
    ELSE "unknown"

ASSUME LabelsAssumption == Labelled \subseteq Keys /\ Scheduled \subseteq Syncs

Nights == DOMAIN Audits

\* label_states, for the summary of each night.
LabelStates == [n \in Nights |->
    LET a == Audits[n]
        s == BuildSummary(a.gates, a.tests, a.pf, TRUE, a.graded)
    IN  [k \in Keys |-> IF k \in Labelled THEN LabelState(k, s) ELSE "unknown"]]

Init ==
    /\ SyncInit
    /\ night \in Nights
    /\ read = [p \in Syncs |-> "nothing"]

\* main(): a summary that leaves every label unknown ends the script at once.
Route(p) ==
    /\ \E label \in Keys : LabelStates[night][label] # "unknown"
    /\ Begin(p, Labels, LabelStates[night])
    /\ read' = [read EXCEPT ![p] = night]
    /\ UNCHANGED night

\* The next nightly run replaces the summary, whoever is still reading the last.
NextNight(n) ==
    /\ night' = n
    /\ UNCHANGED <<syncVars, read>>

Forget ==
    /\ read' = [p \in Syncs |-> IF jobs'[p] = Idle THEN "nothing" ELSE read[p]]
    /\ UNCHANGED night

Next ==
    \/ \E p \in Syncs : Route(p)
    \/ SyncNext /\ Forget
    \/ \E n \in Nights : NextNight(n)

Spec == Init /\ [][Next]_vars

\* The cron agent routes every verdict, and a run that it started goes on or ends:
\* each call returns, fails, or hangs until the agent's turn is over.  A run that an
\* operator starts is owed nothing: it need not be started, and its call may hang
\* for ever.
Fairness == \A p \in Scheduled : WF_vars(Route(p)) /\ WF_vars(SyncStep(p) /\ Forget)
FairSpec == Spec /\ Fairness
--------------------------------------------------------------------------------
\* The gates whose silence means the label is clear.
GatesOf(label) ==
    CASE label = "schema-drift"  -> {"schema_drift"}
      [] label = "redteam"       -> {}
      [] label = "audit-finding" -> Toolchain \cup {"transport_boot", "shipped_artifact", "lockfile"}
      [] label = "dns-rebinding" -> {"host_allowlist"}

ClosesFor(p, label) ==
    \E i \in Numbers : Call(p) /\ tracks[i] = label /\ tracks'[i] = "none"

TypeOK == SyncTypeOK /\ night \in Nights /\ read \in [Syncs -> Nights \cup {"nothing"}]

\* An issue is closed on evidence only: the run that the sync has read came to a
\* verdict, each gate behind the label exited 0 in it (not "unmeasured", not
\* hung, not crashed), promptfoo produced results, and for a red-team issue the
\* graded layer had run.
ClosedOnEvidence ==
    [][\A p \in Syncs : \A label \in Labelled : ClosesFor(p, label) =>
         /\ \A g \in GatesOf(label) : Audits[read[p]].gates[g] = 0
         /\ Audits[read[p]].pf.written
         /\ label = "redteam" => Audits[read[p]].graded]_vars

Settled(label, answer) == LabelStates[night][label] = answer

\* The labels whose turn comes in every run: no call hangs up to and including theirs.
Reached == {Labels[n] : n \in {m \in DOMAIN Labels :
                                 \A l \in 1..m : Labels[l] \notin Stalling}}

\* A finding that stays finds its issue, and stays clear when it is gone: if the
\* nights come to agree on a label, then a finding is tracked again and again
\* (a maintainer may close the issue, the next run opens another) and a clear
\* label is left without open issues, duplicates included.  Calls that fail for
\* one label never keep the others from being routed.  Calls that never return do:
\* of the labels after such a one nothing is promised.
EventuallyTracked ==
    \A label \in Reached \ Unroutable :
        /\ <>[]Settled(label, "finding") => []<>(OpenIssues(label) # {})
        /\ <>[]Settled(label, "clear") => <>[](OpenIssues(label) = {})
================================================================================
