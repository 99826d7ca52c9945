------------------------------- MODULE YankProbe -------------------------------
(***************************************************************************)
(* scripts/yank_probe.py: is a release that is known to be broken still    *)
(* there to be installed, though a later one repairs it.  Every release of *)
(* the distribution is looked at, and the one dependency that a server is  *)
(* built on.                                                               *)
(***************************************************************************)
EXTENDS ShippedProbe

CONSTANT MaxVersions     \* --max-versions

VARIABLE yank            \* the run of the probe: its report, and where it is

YankIdle ==
    [pc |-> "idle", releases |-> Empty, audited |-> {}, readable |-> {},
     reference |-> NoVersion, newest |-> 0, unread |-> FALSE, broken |-> {},
     findings |-> {}, harness |-> FALSE, rc |-> NoCode]

YankCodes == {"UNYANKED_BROKEN_RELEASE", "YANK_REASON_MISSING"}

YankTypeOK ==
    yank \in [pc : {"idle", "capture", "page", "metadata", "dependency", "recheck", "done"},
              releases : Snapshots, audited : SUBSET Versions, readable : SUBSET Versions,
              reference : Versions \cup {NoVersion}, newest : 0..LastMajor, unread : BOOLEAN,
              broken : SUBSET Versions, findings : SUBSET YankCodes, harness : BOOLEAN,
              rc : {NoCode, 0, 2, 127}]

\* The newest ones, as many as are to be audited.
NewestOf(versions) ==
    {v \in versions : Cardinality({w \in versions : w > v}) < MaxVersions}

\* choose_reference: the newest release that is not withdrawn.
Reference(releases, audited) == Highest(audited \ Withdrawn(releases))

Requires(v) == subject.requires[v]

\* The dependency is looked up when a release that is not withdrawn may take any later
\* version of it, and the reference declares it as well.
Wanted(y) ==
    /\ Requires(y.reference).declared
    /\ \E v \in y.readable \ Withdrawn(y.releases) :
          Requires(v).declared /\ ~Capped(Requires(v))

\* Mutant: that a later major exists is not asked for.
EveryUncapped(y) ==
    {v \in y.readable \ Withdrawn(y.releases) :
        /\ v < y.reference
        /\ Requires(v).declared /\ ~Capped(Requires(v)) /\ Requires(v).floor # 0
        /\ Requires(y.reference).declared
        /\ ~Admits(Requires(y.reference), Requires(v).floor)}

\* find_boundaries: older than the reference, without any upper bound, on a floor that the
\* reference has ruled out, and the newest release of the dependency is of a later major.
Boundaries(y) ==
    {v \in y.readable \ Withdrawn(y.releases) :
        /\ v < y.reference
        /\ Requires(v).declared /\ ~Capped(Requires(v)) /\ Requires(v).floor # 0
        /\ Requires(y.reference).declared
        /\ ~Admits(Requires(y.reference), Requires(v).floor)
        /\ Admits(Requires(v), y.newest)
        /\ y.newest > Requires(v).floor}

\* build_findings.
YankFindings(y) ==
    {code \in YankCodes :
        CASE code = "UNYANKED_BROKEN_RELEASE" -> Boundaries(y) # {}
          [] OTHER -> (y.audited \cap Withdrawn(y.releases)) \ subject.reasons # {}}

\* Report.exit_code: the verdict comes from the index, a move of the tree leaves it.
YankCode(report) ==
    IF report.harness THEN 127 ELSE IF report.findings # {} THEN 2 ELSE 0
--------------------------------------------------------------------------------
YankStart == yank' = [YankIdle EXCEPT !.pc = "capture"]
YankAlone == UNCHANGED <<indexVars, subject>>

YankCapture ==
    /\ yank.pc = "capture"
    /\ Capture
    /\ yank' = [yank EXCEPT !.pc = "page"]
    /\ YankAlone

\* The Simple API alone.  Without the distribution, or a release to hold the others
\* against, the run ends with nothing to say.
FetchPage ==
    /\ yank.pc = "page"
    /\ \E answer \in Answered("simple") :
          LET releases  == answer.releases
              audited   == NewestOf(Listed(releases))
              reference == Reference(releases, audited)
              read == [yank EXCEPT !.releases = releases, !.audited = audited,
                                   !.reference = reference]
          IN yank' = IF answer.status = "unreachable" THEN
                             [yank EXCEPT !.harness = TRUE, !.pc = "recheck"]
                     ELSE IF answer.status = "not_published" THEN [yank EXCEPT !.pc = "recheck"]
                     ELSE IF reference = NoVersion THEN [read EXCEPT !.pc = "recheck"]
                     ELSE [read EXCEPT !.pc = "metadata"]
    /\ YankAlone /\ UNCHANGED treeVars

\* load_requirements of each release, from either source or not at all.  Without those
\* of the reference there is nothing to compare with.
LoadRequirements ==
    /\ yank.pc = "metadata"
    /\ \E readable \in SUBSET yank.audited :
          LET loaded == [yank EXCEPT !.readable = readable] IN
          yank' = IF yank.reference \notin readable
                    THEN [loaded EXCEPT !.harness = TRUE, !.pc = "recheck"]
                    ELSE [loaded EXCEPT !.pc = "dependency"]
    /\ YankAlone /\ UNCHANGED treeVars

\* fetch_dependency_versions: when that cannot be read there is no newest version, and
\* no release is found to be broken.
FetchDependency ==
    /\ yank.pc = "dependency"
    /\ \E newest \in (IF Wanted(yank) THEN {major, 0} ELSE {0}) :
          LET known == [yank EXCEPT !.newest = newest,
                                    !.unread = Wanted(yank) /\ newest = 0] IN
          yank' = [known EXCEPT !.broken = Boundaries(known),
                                !.findings = YankFindings(known), !.pc = "recheck"]
    /\ YankAlone /\ UNCHANGED treeVars

YankRecheck ==
    /\ yank.pc = "recheck"
    /\ prov' = Rechecked(prov, tree)
    /\ yank' = [yank EXCEPT !.rc = YankCode(yank), !.pc = "done"]
    /\ YankAlone /\ UNCHANGED <<tree, first, shown, unseen, moves>>

YankStep ==
    \/ YankCapture \/ FetchPage \/ LoadRequirements \/ FetchDependency \/ YankRecheck
--------------------------------------------------------------------------------
(* Properties                                                                  *)

\* What a resolver takes of the dependency for a release, of those there are.
Taken(v, newest) == Highest({m \in 1..newest : Admits(Requires(v), m)})

\* A release breaks when it can be installed, would be given a later major of the
\* dependency than it was written for, and the newest release that can be installed, a
\* later one, has ruled out the one it was written for.
Breaks(y, v, newest) ==
    /\ y.releases[v] = "live" /\ Requires(v).declared
    /\ Taken(v, newest) > Requires(v).floor
    /\ LET newer == {w \in y.audited : w > v /\ y.releases[w] = "live"}
           best  == Highest(newer)
       IN /\ newer # {}
          /\ Requires(best).declared
          /\ ~Admits(Requires(best), Requires(v).floor)

\* A release is named as broken only if it breaks, with what there is of the dependency;
\* and a run that names none, among the releases that it was to look at, passes over one
\* that breaks for no other reason than that its metadata could not be read, that it has
\* an upper bound (whatever that lets in), no lower one, or excludes the newest major of
\* the dependency, or that what there is of the dependency could not be read: whatever
\* happens on the index meanwhile.
NamedReleasesBreak ==
    yank.pc = "done" =>
        /\ \A v \in yank.broken : Breaks(yank, v, yank.newest)
        /\ yank.rc = 0 /\ ~yank.unread =>
              \A newest \in (IF yank.newest # 0 THEN {yank.newest} ELSE 1..LastMajor) :
              \A v \in yank.audited :
                  Breaks(yank, v, newest) =>
                      \/ v \notin yank.readable
                      \/ Capped(Requires(v)) \/ Requires(v).floor = 0
                      \/ newest \in Requires(v).excluded
================================================================================
