----------------------------- MODULE PortfolioSweep -----------------------------
(***************************************************************************)
(* One probe over every target that the portfolio's manifest names, one    *)
(* after the other, counted against the manifest: scripts/coverage_run.py  *)
(* starts a process for each target, published_probe.py --manifest does    *)
(* the same within its own.  Here the lockfile, shipped and yank probes    *)
(* are driven, and published; the index and the trees change meanwhile.    *)
(***************************************************************************)
EXTENDS LockfileProbe, PublishedProbe, Coverage, SequencesExt

CONSTANTS
    Sweeps,       \* the calls: a probe, a manifest, the skips that are allowed
    Directory,    \* the last part of a repository's name, under --repos-root
    CheckedOut,   \* the directories that are there
    Subjects,     \* for each probe, what its targets may be
    Releases,     \* what may be on the index of them
    StartTrees,   \* how the trees may be found
    Edits         \* bound: for each probe, the files that others write, and what

ASSUME SweepAssumption ==
    /\ StartTrees # {} /\ StartTrees \subseteq Trees
    /\ Edits \in [{"shipped", "lockfile"} -> SUBSET (Paths \X Contents)]
    /\ \A s \in Sweeps :
          /\ s.probe \in {"shipped", "yank", "lockfile", "published"}
          /\ s.block.entries \in Seq(Range(s.block.entries))
    /\ \A probe \in {"shipped", "yank", "published"} : Releases[probe] \subseteq Snapshots
    /\ \A s \in Subjects["shipped"] :
          /\ s.tags \subseteq Versions
          /\ s.work \in [Heads -> SUBSET Kinds] /\ s.past \subseteq Kinds
          /\ s.built \in [Versions -> Contents] /\ s.reached \in BOOLEAN
    /\ \A s \in Subjects["yank"] : s.requires \in [Versions -> Requirements]
    /\ \A s \in Subjects["published"] :
          /\ s.requires \in [Versions -> Requirements]
          /\ \A i \in DOMAIN s.modules :
                s.modules[i].scan \in {"ok", "fails"}
                /\ s.modules[i].warm \in {"ok", "optional", "fails"}
          /\ s.ua \in UserAgents
    /\ KeptErrors \in Nat

VARIABLE sweep    \* the call, which targets are left, the outcomes, the exit code

vars == <<indexVars, treeVars, subject, shipped, yank, lockfile, published, sweep>>

Outcome(entry, status) == [id |-> entry.id, status |-> status]

Section == IF sweep.probe = "lockfile" THEN "repositories" ELSE "servers"

TypeOK ==
    /\ IndexTypeOK /\ TreeTypeOK
    /\ ShippedTypeOK /\ YankTypeOK /\ LockfileTypeOK /\ PublishedTypeOK
    /\ sweep \in [probe : {"shipped", "yank", "lockfile", "published"},
                  block : {s.block : s \in Sweeps}, skips : {s.skips : s \in Sweeps},
                  pc : {"start", "next", "running", "done"},
                  queue : SUBSET UNION {DOMAIN s.block.entries : s \in Sweeps},
                  outcomes : Seq([id : {e.id : e \in UNION {Range(s.block.entries) : s \in Sweeps}},
                                  status : {"green", "findings", "not_measured", "missing"}
                                            \cup Statuses]),
                  rc : {NoCode, 0, 1, 2, 3}]

\* Between two targets nothing of the last one is left.
NoSubject == [none |-> TRUE]
Resting ==
    /\ log' = <<Empty>> /\ at' = [view \in Views |-> 1] /\ major' = 1
    /\ TreeIs(CHOOSE t \in StartTrees : TRUE)
    /\ subject' = NoSubject
    /\ shipped' = ShippedIdle
    /\ yank' = YankIdle
    /\ lockfile' = IdleLockfile
    /\ published' = PublishedIdle

Init ==
    /\ IndexInit
    /\ tree = (CHOOSE t \in StartTrees : TRUE)
    /\ prov = NoProvenance /\ first = tree /\ shown = {Shown(tree)}
    /\ unseen = FALSE /\ moves = 0
    /\ subject = NoSubject
    /\ shipped = ShippedIdle
    /\ yank = YankIdle
    /\ lockfile = IdleLockfile
    /\ published = PublishedIdle
    /\ \E s \in Sweeps :
          sweep = [probe |-> s.probe, block |-> s.block, skips |-> s.skips, pc |-> "start",
                   queue |-> {}, outcomes |-> <<>>, rc |-> NoCode]
--------------------------------------------------------------------------------
(* The arithmetic of a sweep.                                                  *)

\* ProbeSpec.classify: a code that the contract does not know was no measurement.
Classify(rc) ==
    CASE rc = 0 -> "green" [] rc = 2 -> "findings" [] OTHER -> "not_measured"

Some(outcomes, status) == \E o \in Range(outcomes) : o.status = status
Missing(outcomes) == {i \in DOMAIN outcomes : outcomes[i].status = "missing"}

Targets(s) == ManifestTargets(s.block, Section)

\* published_probe knows an entry by the name of its distribution only.
Allowed(s, entry) ==
    IF s.probe = "published" THEN entry.value \in SkipNames(s.skips)
    ELSE AllowedBy(entry, s.skips)

Kept(s) == {i \in Targets(s) : ~Allowed(s, s.block.entries[i])}
Skipped(s) ==
    Cardinality(Omissions(s.block, Section)) + Cardinality(Targets(s) \ Kept(s))

IsComplete(s) ==
    Complete(Len(s.block.entries), Cardinality(DOMAIN s.outcomes \ Missing(s.outcomes)),
             Skipped(s), Cardinality(Missing(s.outcomes)))

\* Mutant: a finding is reported before the gaps are.
FindingsFirst(s) ==
    IF Some(s.outcomes, "findings") THEN 2
    ELSE IF ~IsComplete(s) THEN ExitIncomplete
    ELSE IF Some(s.outcomes, "not_measured") THEN 3
    ELSE 0

\* Sweep.exit_code.
SweepCode(s) ==
    IF ~IsComplete(s) THEN ExitIncomplete
    ELSE IF Some(s.outcomes, "findings") THEN 2
    ELSE IF Some(s.outcomes, "not_measured") THEN 3
    ELSE 0

\* The end of published_probe's main.
PublishedCode(s) ==
    IF ~IsComplete(s) THEN ExitIncomplete
    ELSE IF Some(s.outcomes, "install_failed") THEN 2
    ELSE IF \A o \in Range(s.outcomes) : Ok(o.status) THEN 0
    ELSE 1

\* The manifest or a skip cannot be taken at its word.  published_probe does not ask
\* whether a skip names anything.
Refused(s) ==
    \/ SkipError(s.skips)
    \/ ManifestError(s.block, Section)
    \/ s.probe # "published" /\ UnknownSkips(s.skips, s.block, Section) # {}
--------------------------------------------------------------------------------
(* The driver.                                                                 *)

Elsewhere == UNCHANGED <<indexVars, treeVars, subject, shipped, yank, lockfile, published>>

ReadManifest ==
    /\ sweep.pc = "start"
    /\ sweep' = IF Refused(sweep) THEN [sweep EXCEPT !.rc = 1, !.pc = "done"]
                ELSE [sweep EXCEPT !.queue = Kept(sweep), !.pc = "next"]
    /\ Elsewhere

\* The targets are looked at in the manifest's order.
Turn == Min(sweep.queue)
Entry == sweep.block.entries[Turn]
Book(status) ==
    sweep' = [sweep EXCEPT !.queue = @ \ {Turn}, !.pc = "next",
                           !.outcomes = Append(@, Outcome(Entry, status))]

\* A checkout that is not there is a target nobody looked at.
NoCheckout ==
    /\ sweep.pc = "next" /\ sweep.queue # {} /\ sweep.probe = "lockfile"
    /\ Directory[Entry.value] \notin CheckedOut
    /\ Book("missing")
    /\ Elsewhere

\* run_probe.  A probe of a distribution is not told where its repository is: the tree
\* it reads is the one that the driver was started in.
StartProbe ==
    /\ sweep.pc = "next" /\ sweep.queue # {}
    /\ sweep.probe = "lockfile" => Directory[Entry.value] \in CheckedOut
    /\ sweep' = [sweep EXCEPT !.pc = "running"]
    /\ \E s \in Subjects[sweep.probe] : subject' = s
    /\ IF sweep.probe = "lockfile" THEN UNCHANGED indexVars
       ELSE \E releases \in Releases[sweep.probe],
               newest \in (IF sweep.probe = "shipped" THEN {1} ELSE 1..LastMajor) :
               IndexIs(releases, newest)
    /\ IF sweep.probe = "published" THEN UNCHANGED treeVars
       ELSE \E t \in StartTrees : TreeIs(t)
    /\ CASE sweep.probe = "shipped"  -> ShippedStart /\ UNCHANGED <<yank, lockfile, published>>
         [] sweep.probe = "yank"     -> YankStart /\ UNCHANGED <<shipped, lockfile, published>>
         [] sweep.probe = "lockfile" -> LockfileStart /\ UNCHANGED <<shipped, yank, published>>
         [] OTHER                    -> PublishedStart /\ UNCHANGED <<shipped, yank, lockfile>>

\* The probe has ended with a code, or within published_probe with a result.
Finished ==
    CASE sweep.probe = "shipped"  -> shipped.pc = "done"
      [] sweep.probe = "yank"     -> yank.pc = "done"
      [] sweep.probe = "lockfile" -> lockfile.pc = "done"
      [] OTHER                    -> published.pc = "done"

Collect ==
    /\ sweep.pc = "running" /\ Finished
    /\ Book(CASE sweep.probe = "shipped"  -> Classify(shipped.rc)
              [] sweep.probe = "yank"     -> Classify(yank.rc)
              [] sweep.probe = "lockfile" -> Classify(lockfile.rc)
              [] OTHER                    -> published.status)
    /\ Resting

\* Mutant: only a probe that reads a checkout is given a deadline.
DeadlineForCheckouts(probe) == probe = "lockfile"

HasDeadline(probe) == probe # "published"

\* subprocess.TimeoutExpired: 124, which no contract knows.
TimeOut ==
    /\ sweep.pc = "running" /\ ~Finished /\ HasDeadline(sweep.probe)
    /\ Book(Classify(124))
    /\ Resting

\* An exception that the probe does not catch; shipped_probe catches every one.
Crash ==
    /\ sweep.pc = "running" /\ ~Finished /\ sweep.probe \in {"yank", "lockfile"}
    /\ Book(Classify(1))
    /\ Resting

Finish ==
    /\ sweep.pc = "next" /\ sweep.queue = {}
    /\ sweep' = [sweep EXCEPT !.pc = "done",
                              !.rc = IF sweep.probe = "published" THEN PublishedCode(sweep)
                                     ELSE SweepCode(sweep)]
    /\ Elsewhere

Driver == ReadManifest \/ NoCheckout \/ StartProbe \/ Collect \/ Crash \/ Finish

\* Bounds: within one run of a probe the index changes or the tree does, not both, and
\* published_probe, which reads each part of the index once, finds it as it is.
World ==
    /\ sweep.pc = "running" /\ ~Finished
    /\ \/ /\ sweep.probe \in {"shipped", "yank"} /\ moves = 0
          /\ Change \/ Propagate \/ (sweep.probe = "yank" /\ ReleaseMajor)
          /\ UNCHANGED treeVars
       \/ /\ sweep.probe \in {"lockfile", "shipped"} /\ Len(log) = 1
          /\ CheckOut \/ Edit(Edits[sweep.probe])
          /\ UNCHANGED indexVars
    /\ UNCHANGED <<subject, shipped, yank, lockfile, published, sweep>>

Probe ==
    \/ ShippedStep /\ UNCHANGED <<yank, lockfile, published, sweep>>
    \/ YankStep /\ UNCHANGED <<shipped, lockfile, published, sweep>>
    \/ LockfileStep /\ UNCHANGED <<indexVars, subject, shipped, yank, published, sweep>>
    \/ PublishedStep /\ UNCHANGED <<shipped, yank, lockfile, sweep>>

Next == Driver \/ TimeOut \/ Probe \/ World

Spec == Init /\ [][Next]_vars

\* A page that arrives byte by byte is never late for a socket: only the deadline of the
\* driver ends a probe that waits for one.  The loop of published_probe has none; of its
\* own waits those that HangPublished does not name do.
FairSpec ==
    /\ Spec
    /\ WF_vars(Driver) /\ WF_vars(TimeOut)
    /\ WF_vars(PublishedStep /\ UNCHANGED <<shipped, yank, lockfile, sweep>>)
--------------------------------------------------------------------------------
(* Properties                                                                  *)

\* A sweep that does not end in 1 has accounted for every entry of its manifest: it was
\* looked at, or is left out for a reason that the manifest or the caller gave; and one
\* that ends in 0 was told of no finding.
SweepIsComplete ==
    sweep.pc = "done" /\ sweep.rc # 1 =>
        /\ sweep.block.entries # <<>>
        /\ \A entry \in Range(sweep.block.entries) :
              \/ OmittedBy(entry, Section)
              \/ \E skip \in sweep.skips :
                     skip.reasoned /\ skip.name \in {entry.id, entry.value}
              \/ \E o \in Range(sweep.outcomes) : o.id = entry.id /\ o.status # "missing"
        /\ sweep.rc = 0 =>
              \A o \in Range(sweep.outcomes) : o.status = "green" \/ Ok(o.status)

\* A probe that gives a verdict has read one tree, the one that its report names,
\* whatever was checked out and edited while it was reading: unless the tree belongs to
\* no commit, or a change came back to something that git had shown before.
VerdictIsOfOneTree ==
    prov.head # NoHead /\ ~unseen =>
        /\ lockfile.rc = 0 => ~CertainlyDrifted(first)
        /\ lockfile.rc = 2 => ~CertainlySound(first)
        /\ shipped.rc \in {0, 2} => ShippedOf(first)

\* A sweep ends, though a probe may wait for ever for an answer; unless it is that of
\* published_probe, and there one of the waits that nothing ends.
SweepEnds == <>(sweep.pc = "done" \/ published.pc = "hung")
================================================================================
