------------------------------ MODULE PackageIndex ------------------------------
(***************************************************************************)
(* The package index, as the probes meet it: the releases of one           *)
(* distribution change while a probe is at work, and what changed reaches  *)
(* the Simple API, the JSON API and what pip installs each in its own      *)
(* time.  fetch_simple and fetch_json of scripts/shipped_probe.py read the *)
(* first two; every version of the model is a final release.               *)
(***************************************************************************)
EXTENDS Integers, Sequences, FiniteSets

CONSTANTS
    LastVersion,    \* versions are 1..LastVersion, in their order
    LastMajor,      \* the major versions of the dependency are 1..LastMajor
    MaxChanges      \* bound: releases and withdrawals during one probe

ASSUME VersionAssumption == {LastVersion, LastMajor} \subseteq Nat \ {0} /\ MaxChanges \in Nat

VARIABLES
    log,    \* the releases after each change so far
    at,     \* how much of that each surface has seen
    major   \* the newest major version of the dependency that a server is built on

indexVars == <<log, at, major>>

Versions == 1..LastVersion
NoVersion == 0
Views == {"simple", "json", "pip"}
Snapshots == [Versions -> {"absent", "live", "yanked"}]
Empty == [v \in Versions |-> "absent"]

IndexTypeOK ==
    /\ log \in Seq(Snapshots) /\ Len(log) \in 1..(MaxChanges + 1)
    /\ at \in [Views -> 1..Len(log)]
    /\ major \in 1..LastMajor

Listed(releases) == {v \in Versions : releases[v] # "absent"}
Withdrawn(releases) == {v \in Versions : releases[v] = "yanked"}

\* Mutant: no version at all is a version.
HighestOfNone(versions) ==
    IF versions = {} THEN -1 ELSE CHOOSE v \in versions : \A w \in versions : w <= v

Highest(versions) ==
    IF versions = {} THEN NoVersion ELSE CHOOSE v \in versions : \A w \in versions : w <= v
Latest(releases) == Highest(Listed(releases))
Installable(releases) == Highest(Listed(releases) \ Withdrawn(releases))

\* The state of the index when a probe turns to its target.
IndexIs(releases, newest) ==
    log' = <<releases>> /\ at' = [view \in Views |-> 1] /\ major' = newest
IndexInit == log = <<Empty>> /\ at = [view \in Views |-> 1] /\ major = 1

Now == log[Len(log)]
Served(view) == log[at[view]]

\* A release is published, withdrawn, or a withdrawal is taken back.
Change ==
    /\ Len(log) <= MaxChanges
    /\ \E v \in Versions, state \in {"live", "yanked"} :
          /\ Now[v] # state
          /\ state = "yanked" => Now[v] = "live"
          /\ log' = Append(log, [Now EXCEPT ![v] = state])
    /\ UNCHANGED <<at, major>>

Propagate ==
    \E view \in Views :
        /\ at[view] < Len(log)
        /\ at' = [at EXCEPT ![view] = @ + 1]
        /\ UNCHANGED <<log, major>>

ReleaseMajor == major < LastMajor /\ major' = major + 1 /\ UNCHANGED <<log, at>>
--------------------------------------------------------------------------------
(* What a probe is told (IndexView).                                          *)

Silent(status) == [status |-> status, releases |-> Empty, info |-> NoVersion]
Answers == [status : {"ok", "not_published", "unreachable", "unasked", "not_applicable"},
            releases : Snapshots, info : Versions \cup {NoVersion}]

Readable(answer) == answer.status = "ok"

\* fetch_simple and fetch_json through _get: the page, a 404, or no usable answer.
\* info is what the JSON API names as the newest release, which may or may not pass
\* over one that is withdrawn.
Answered(view) ==
    IF Listed(Served(view)) = {}
        THEN {Silent("not_published"), Silent("unreachable")}
        ELSE {Silent("unreachable")} \cup
             [status : {"ok"}, releases : {Served(view)},
              info : {Latest(Served(view))} \cup ({Installable(Served(view))} \ {NoVersion})]

\* IndexView.latest and IndexView.candidates.
ViewLatest(view, answer) == IF view = "json" THEN answer.info ELSE Latest(answer.releases)
Candidates(view, answer) ==
    {ViewLatest(view, answer), Installable(answer.releases)} \ {NoVersion}

\* What pip takes: the newest release that is not withdrawn, or the one it is told to,
\* withdrawn or not; nothing when there is no such release.
Resolved(pin) ==
    IF pin = NoVersion THEN Installable(Served("pip"))
    ELSE IF pin \in Listed(Served("pip")) THEN pin ELSE NoVersion

\* A requirement on the dependency, by majors: a floor or (0) none, the last that an upper
\* bound lets in or (0) no bound, and those that are excluded one by one (Requirement of
\* scripts/yank_probe.py).
Requirements == [declared : BOOLEAN, floor : 0..LastMajor, cap : 0..LastMajor,
                 excluded : SUBSET (1..LastMajor)]
Capped(requirement) == requirement.cap # 0
Admits(requirement, m) ==
    /\ m >= requirement.floor
    /\ Capped(requirement) => m <= requirement.cap
    /\ m \notin requirement.excluded
================================================================================
