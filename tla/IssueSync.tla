------------------------------- MODULE IssueSync -------------------------------
(***************************************************************************)
(* Tracking issues as the two routing scripts keep them                    *)
(* (scripts/sync_findings_issues.py, scripts/drift_issue.py): one issue    *)
(* per key, found again by the hidden marker in its body, opened,          *)
(* commented or closed after a look at the list of open issues.            *)
(*                                                                         *)
(* GitHub is reached by one call at a time.  A call may fail, and a        *)
(* failed call may have taken effect all the same; it has no timeout       *)
(* (urlopen is called without one), so it may also never return, and then  *)
(* the run hangs until whoever started it ends it.  The script may be      *)
(* started again while it is still at work, so the list it looked at can   *)
(* be old when it acts; a maintainer may close an issue at any moment.     *)
(*                                                                         *)
(* A number of a closed issue is used again once no run of a script        *)
(* remembers it: what has been closed is no longer looked at.  A closed    *)
(* issue that a maintainer reopens is left out.                            *)
(***************************************************************************)
EXTENDS Naturals, Sequences, FiniteSets

CONSTANTS
    Keys,        \* the markers
    Syncs,       \* runs of a script that may overlap
    Numbers,     \* issue numbers, 0 is none of them
    Unroutable,  \* keys whose calls never succeed, for want of a permission say
    Stalling,    \* keys whose calls never return
    MaxOutages   \* bound: other calls that fail, and runs that are killed

ASSUME SyncAssumption ==
    /\ IsFiniteSet(Syncs)
    /\ IsFiniteSet(Numbers) /\ Numbers \subseteq Nat \ {0}
    /\ Unroutable \subseteq Keys /\ Stalling \subseteq Keys
    /\ MaxOutages \in Nat
    /\ "none" \notin Keys

VARIABLES
    tracks,     \* the key in the body of an open issue, "none" for a free number
    explained,  \* issues that carry a comment saying why they are closed
    jobs,       \* what each run still has to do
    outages     \* calls that failed and runs that died so far

syncVars == <<tracks, explained, jobs, outages>>

Answers == {"finding", "clear", "unknown"}

\* A run of a script: the answer it has for each key, the keys still to route,
\* the calls planned for the first of them, and the issue those are about.
Jobs == [answers : [Keys -> Answers], queue : Seq(Keys),
         calls : Seq({"create", "comment", "explain", "close"}), issue : Numbers \cup {0}]

Job(answers, queue, calls, issue) ==
    [answers |-> answers, queue |-> queue, calls |-> calls, issue |-> issue]

Idle == Job([k \in Keys |-> "unknown"], <<>>, <<>>, 0)

SyncInit ==
    /\ tracks = [i \in Numbers |-> "none"]
    /\ explained = {}
    /\ jobs = [p \in Syncs |-> Idle]
    /\ outages = 0

OpenIssues(k) == {i \in Numbers : tracks[i] = k}
Working(p) == jobs[p].queue # <<>>
Key(p) == Head(jobs[p].queue)
Answer(p) == jobs[p].answers[Key(p)]

\* The run is done with its first key, whatever came of it.
Routed(p) == [jobs EXCEPT ![p] =
    IF Len(@.queue) = 1 THEN Idle ELSE Job(@.answers, Tail(@.queue), <<>>, 0)]

\* A run starts with its answers, on its keys in their order.
Begin(p, keys, answers) ==
    /\ ~Working(p)
    /\ jobs' = [jobs EXCEPT ![p] = Job(answers, keys, <<>>, 0)]
    /\ UNCHANGED <<tracks, explained, outages>>

\* "unknown" returns before anything is looked up.
LeaveUntouched(p) ==
    /\ Working(p) /\ Answer(p) = "unknown"
    /\ jobs' = Routed(p)
    /\ UNCHANGED <<tracks, explained, outages>>

\* Mutant: the issue is closed first and explained afterwards.
CallsCloseFirst(action) ==
    CASE action = "create"  -> <<"create">>
      [] action = "comment" -> <<"comment">>
      [] action = "close"   -> <<"close", "explain">>

\* The calls of a planned action, in their order.
Calls(action) ==
    CASE action = "create"  -> <<"create">>
      [] action = "comment" -> <<"comment">>
      [] action = "close"   -> <<"explain", "close">>

\* Mutants: the open issues are not searched for the marker; a clear answer
\* closes without one having been found.
PlanUndeduped(answer, tracked) ==
    IF answer = "finding" THEN "create"
    ELSE IF tracked THEN "close" ELSE "noop"
PlanClosesUntracked(answer, tracked) ==
    IF answer = "finding"
    THEN IF tracked THEN "comment" ELSE "create"
    ELSE "close"

\* plan(): what an answer asks for, given whether an issue is open.
Plan(answer, tracked) ==
    IF answer = "finding"
    THEN IF tracked THEN "comment" ELSE "create"
    ELSE IF tracked THEN "close" ELSE "noop"

\* The list of open issues is fetched (after the label was made, if there was
\* none) and the action planned.
Look(p) ==
    /\ Working(p) /\ jobs[p].calls = <<>>
    /\ Answer(p) # "unknown"
    /\ Key(p) \notin Unroutable \cup Stalling
    /\ LET found  == OpenIssues(Key(p))
           action == Plan(Answer(p), found # {})
       IN  IF action = "noop" THEN jobs' = Routed(p)
           ELSE \E i \in IF found = {} THEN {0} ELSE found :
                  jobs' = [jobs EXCEPT ![p] = Job(@.answers, @.queue, Calls(action), i)]
    /\ UNCHANGED <<tracks, explained, outages>>

\* The free numbers that no run remembers; GitHub hands out the next one.
Unused == {i \in Numbers : tracks[i] = "none" /\ \A q \in Syncs : jobs[q].issue # i}
IsNext(n) == n \in Unused /\ \A m \in Unused : n <= m

\* What a call does to the issues.
Effect(p) ==
    LET call == Head(jobs[p].calls)
        i    == jobs[p].issue
    IN  \/ /\ call = "create"
           /\ \E n \in Numbers :
                /\ IsNext(n)
                /\ tracks' = [tracks EXCEPT ![n] = Key(p)]
                /\ explained' = explained \ {n}
        \/ /\ call = "comment"
           /\ UNCHANGED <<tracks, explained>>
        \/ /\ call = "explain"
           /\ explained' = explained \cup {i}
           /\ UNCHANGED tracks
        \/ /\ call = "close"
           /\ tracks' = [tracks EXCEPT ![i] = "none"]
           /\ UNCHANGED explained

Call(p) ==
    /\ Working(p) /\ jobs[p].calls # <<>>
    /\ Effect(p)
    /\ jobs' = IF Len(jobs[p].calls) = 1 THEN Routed(p)
               ELSE [jobs EXCEPT ![p] = Job(@.answers, @.queue, Tail(@.calls), @.issue)]
    /\ UNCHANGED outages

\* Mutant: an error ends the run.
GivesUpEntirely(p) == [jobs EXCEPT ![p] = Idle]

\* An HTTP error is reported and the run goes on with its next key.
GivesUp(p) == Routed(p)

\* A call fails, perhaps after it took effect.
CallFails(p) ==
    /\ Working(p) /\ Answer(p) # "unknown"
    /\ \/ Key(p) \in Unroutable /\ UNCHANGED outages
       \/ outages < MaxOutages /\ outages' = outages + 1
    /\ jobs' = GivesUp(p)
    /\ \/ UNCHANGED <<tracks, explained>>
       \/ jobs[p].calls # <<>> /\ Effect(p)

\* A run whose call never returns is ended from outside, with the keys it had left.
CutOff(p) ==
    /\ Working(p) /\ Answer(p) # "unknown"
    /\ Key(p) \in Stalling
    /\ jobs' = [jobs EXCEPT ![p] = Idle]
    /\ UNCHANGED <<tracks, explained, outages>>

\* A run is killed, while a call hangs that would return another time or at work.
Die(p) ==
    /\ Working(p)
    /\ outages < MaxOutages
    /\ outages' = outages + 1
    /\ jobs' = [jobs EXCEPT ![p] = Idle]
    /\ UNCHANGED <<tracks, explained>>

MaintainerCloses(i) ==
    /\ tracks[i] # "none"
    /\ tracks' = [tracks EXCEPT ![i] = "none"]
    /\ UNCHANGED <<explained, jobs, outages>>

SyncStep(p) == LeaveUntouched(p) \/ Look(p) \/ Call(p) \/ CallFails(p) \/ CutOff(p)

SyncNext ==
    \/ \E p \in Syncs : SyncStep(p) \/ Die(p)
    \/ \E i \in Numbers : MaintainerCloses(i)
--------------------------------------------------------------------------------
SyncTypeOK ==
    /\ tracks \in [Numbers -> Keys \cup {"none"}]
    /\ explained \subseteq Numbers
    /\ jobs \in [Syncs -> Jobs]
    /\ outages \in 0..MaxOutages

\* The runs that have looked, found nothing, and are about to open an issue.
AboutToCreate(k) ==
    {p \in Syncs : Working(p) /\ Key(p) = k /\ jobs[p].calls = <<"create">>}

\* The dedup by marker holds as far as it can without a lock: runs that overlap
\* may open one issue each for the same key, never more, however they interleave
\* and whatever calls fail; a run that is alone keeps one issue per key.
DuplicatesBounded ==
    \A k \in Keys : Cardinality(OpenIssues(k)) <= Cardinality(Syncs)

\* "Comment first, then close": a script never closes an issue that has no reason
\* in it, whichever of its calls failed and whoever else was at work on it.
ClosedWithAReason ==
    [][\A p \in Syncs : \A i \in Numbers :
         Call(p) /\ tracks[i] # "none" /\ tracks'[i] = "none" => i \in explained]_syncVars
================================================================================
