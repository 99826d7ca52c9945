----------------------------- MODULE PublishedProbe -----------------------------
(***************************************************************************)
(* scripts/published_probe.py, one distribution: installed from the index  *)
(* into a fresh venv, imported module by module, and started; whatever     *)
(* does not import is tried again in two fresh interpreters before it is   *)
(* held against the package.                                               *)
(***************************************************************************)
EXTENDS YankProbe

CONSTANTS
    NoSmoke,        \* --no-smoke
    KeptErrors      \* how many failed imports of the first pass are kept: 24

VARIABLE published       \* the run over one distribution: what is known, and where it is

PublishedIdle ==
    [pc |-> "idle", installed |-> NoVersion, imports |-> {}, cap |-> "unread",
     smoke |-> "skipped", status |-> "unverified"]

ImportVerdicts ==
    {"unconfirmed", "not-reproduced", "order-artifact", "optional-dep", "real"}
SmokeStates == {"skipped", "error", "no_entrypoint", "crashed", "ok", "no_event"}
Identities == {"ok", "drift", "foreign_user_agent", "unverified", "no_user_agent"}
Statuses == Identities \cup {"install_failed", "broken_import", "smoke_failed",
                             "unbounded_dependency", "smoke_unverified"}

PublishedTypeOK ==
    published \in [pc : {"idle", "install", "scan", "verify", "caps", "smoke", "decide", "hung",
                         "done"},
                   installed : Versions \cup {NoVersion}, imports : SUBSET ImportVerdicts,
                   cap : {"unread", "capped", "armed", "unknown", "major-available"},
                   smoke : SmokeStates, status : Statuses]

\* Mutant: an import that could not be tried again is given the benefit of the doubt.
TrustingImport(cold, warm) ==
    CASE warm = "unanswered" -> "not-reproduced"
      [] warm = "ok" -> IF cold = "ok" THEN "not-reproduced" ELSE "order-artifact"
      [] warm = "optional" -> "optional-dep"
      [] OTHER -> "real"

\* classify_import, of the module alone and after its package.
ClassifyImport(cold, warm) ==
    CASE warm = "unanswered" -> "unconfirmed"
      [] warm = "ok" -> IF cold = "ok" THEN "not-reproduced" ELSE "order-artifact"
      [] warm = "optional" -> "optional-dep"
      [] OTHER -> "real"

\* RUNTIME_SCAN: what lies within a package that did not import is not tried, and of the
\* failures the first so many are kept.
Hidden(i) == \E p \in subject.modules[i].within : subject.modules[p].scan = "fails"
Noted == {i \in DOMAIN subject.modules : subject.modules[i].scan = "fails" /\ ~Hidden(i)}
Before(i) == Cardinality({j \in Noted : j < i})
Retried == {i \in Noted : Before(i) < KeptErrors}

\* watch and classify_smoke: a crash outranks the announcement, silence is no pass.  A
\* script that still runs is told to end, and what it prints then is read as well.
Traced(script) ==
    \/ script.traceback = "own"
    \/ script.traceback = "when-told-to-end" /\ script.exits = "runs"
ClassifySmoke(script) ==
    IF ~script.there THEN "no_entrypoint"
    ELSE IF script.exits = "1" \/ Traced(script) THEN "crashed"
    ELSE IF script.event THEN "ok"
    ELSE "no_event"

\* dependency_caps: an open range is a finding once a later major than its floor is
\* published.  The index is asked of no other range.
Open(requirement) == requirement.declared /\ ~Capped(requirement)
CapVerdict(requirement, known) ==
    IF ~Open(requirement) THEN "capped"
    ELSE IF requirement.floor = 0 THEN "armed"
    ELSE IF known = 0 THEN "unknown"
    ELSE IF known > requirement.floor THEN "major-available"
    ELSE "armed"

\* What the installed code says of itself: its own version, an older one, another name,
\* a version in a text, nothing.
UserAgents == {"own", "stale", "foreign", "mentioned", "none"}

\* identity_status, of the User-Agents that the installed code would send.
IdentityStatus(ua) ==
    CASE ua = "stale"     -> "drift"
      [] ua = "foreign"   -> "foreign_user_agent"
      [] ua = "own"       -> "ok"
      [] ua = "mentioned" -> "unverified"
      [] OTHER            -> "no_user_agent"

\* decide_status, in the order of what a user would meet first.
DecideStatus(p, ua) ==
    LET identity == IdentityStatus(ua) IN
    IF p.imports \cap {"real", "unconfirmed"} # {} THEN "broken_import"
    ELSE IF p.smoke \in {"crashed", "no_entrypoint"} THEN "smoke_failed"
    ELSE IF identity \in {"drift", "foreign_user_agent"} THEN identity
    ELSE IF p.cap = "major-available" THEN "unbounded_dependency"
    ELSE IF p.smoke \in {"no_event", "error"} THEN "smoke_unverified"
    ELSE identity

Ok(status) == status \in {"ok", "no_user_agent"}
--------------------------------------------------------------------------------
PublishedStart == published' = [PublishedIdle EXCEPT !.pc = "install"]
PublishedAlone == UNCHANGED <<indexVars, subject, treeVars>>

\* No venv, pip failed, or a timeout or an exception anywhere else: whatever was known
\* by then, the result is one of a distribution that could not be installed.
FailPublished ==
    /\ published.pc \notin {"idle", "hung", "done"}
    /\ published' = [PublishedIdle EXCEPT !.status = "install_failed", !.pc = "done"]
    /\ PublishedAlone

InstallPublished ==
    /\ published.pc = "install"
    /\ Resolved(NoVersion) # NoVersion
    /\ published' = [published EXCEPT !.installed = Resolved(NoVersion), !.pc = "scan"]
    /\ PublishedAlone

\* Three waits have no deadline: for the venv's own pip, for a page of the index that
\* arrives byte by byte, and for the output of a script that was killed when another
\* process holds on to it.
HangPublished ==
    /\ \/ published.pc = "install"
       \/ /\ published.pc = "caps"
          /\ LET requirement == Requires(published.installed) IN
             Open(requirement) /\ requirement.floor # 0
       \/ published.pc = "smoke" /\ subject.script.there /\ subject.script.exits = "runs"
    /\ published' = [published EXCEPT !.pc = "hung"]
    /\ PublishedAlone

\* The modules, without any __main__, in the order of the scan.
ScanModules ==
    /\ published.pc = "scan"
    /\ published' = [published EXCEPT !.pc = IF Noted = {} THEN "caps" ELSE "verify"]
    /\ PublishedAlone

\* _verify_imports, of every failure that was kept: either interpreter may give no answer
\* in its time, and without the first the second is not started.
VerifyImports ==
    /\ published.pc = "verify"
    /\ \E answered \in SUBSET Retried :
          LET warm(i) == IF i \in answered THEN subject.modules[i].warm ELSE "unanswered" IN
          published' = [published EXCEPT
                           !.imports = {ClassifyImport(subject.modules[i].cold, warm(i)) :
                                           i \in Retried},
                           !.pc = "caps"]
    /\ PublishedAlone

CheckCaps ==
    /\ published.pc = "caps"
    /\ \E known \in {0, major} :
          published' = [published EXCEPT
                           !.cap = CapVerdict(Requires(published.installed), known),
                           !.pc = IF NoSmoke THEN "decide" ELSE "smoke"]
    /\ PublishedAlone

\* smoke_start and watch: the scripts cannot be listed or started, or what happened in
\* the time the script was given.
SmokeStart ==
    /\ published.pc = "smoke"
    /\ \E smoke \in {"error", ClassifySmoke(subject.script)} :
          published' = [published EXCEPT !.smoke = smoke, !.pc = "decide"]
    /\ PublishedAlone

Decide ==
    /\ published.pc = "decide"
    /\ published' = [published EXCEPT !.status = DecideStatus(published, subject.ua),
                                      !.pc = "done"]
    /\ PublishedAlone

PublishedStep ==
    \/ FailPublished \/ HangPublished \/ InstallPublished \/ ScanModules \/ VerifyImports
    \/ CheckCaps \/ SmokeStart \/ Decide
--------------------------------------------------------------------------------
(* Properties                                                                  *)

\* A distribution passes only when it was installed and every module of it imports in
\* the order a user would import them in, or lacks nothing but an optional dependency,
\* among those that were looked at: one within a package that did not import at first, or
\* behind as many failures as are kept, was not; its server announced itself, without a
\* crash; no later major than the floor of an open range was published, or that could not
\* be read; and it sends no version but its own.  It is called broken only if a module of
\* it is, or an interpreter gave no answer; and unable to start only if there is nothing
\* to start, it ended in an error, or it printed a traceback, be it when told to end.
PublishedIsDeserved ==
    published.pc = "done" =>
        /\ Ok(published.status) =>
              /\ published.installed # NoVersion
              /\ \A i \in DOMAIN subject.modules :
                    ~Hidden(i) /\ Before(i) < KeptErrors =>
                       \/ subject.modules[i].scan = "ok"
                       \/ subject.modules[i].warm \in {"ok", "optional"}
              /\ NoSmoke \/ /\ subject.script.there /\ subject.script.event
                            /\ subject.script.exits # "1"
              /\ LET requirement == Requires(published.installed) IN
                 Open(requirement) /\ requirement.floor # 0 =>
                    published.cap = "unknown" \/ major <= requirement.floor
              /\ subject.ua \in {"own", "none"}
        /\ published.status = "smoke_failed" =>
              \/ ~subject.script.there
              \/ subject.script.exits = "1"
              \/ subject.script.traceback # "none"
        /\ published.status = "broken_import" =>
              \/ "unconfirmed" \in published.imports
              \/ \E i \in DOMAIN subject.modules : subject.modules[i].warm = "fails"
================================================================================
