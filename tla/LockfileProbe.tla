----------------------------- MODULE LockfileProbe -----------------------------
(***************************************************************************)
(* scripts/lockfile_probe.py: does the lockfile state the bounds that      *)
(* pyproject.toml states.  Of the dependencies one is looked at: the       *)
(* content n of pyproject.toml requires at least version n of it, the      *)
(* content n of a lock was resolved from that and pins version n.          *)
(***************************************************************************)
EXTENDS Provenance, Integers, Sequences, FiniteSets

CONSTANT NoTools     \* --no-tools among the arguments passed on to the probe

ASSUME LockPathsAssumption == {"pyproject", "uv", "poetry"} \subseteq Paths \ Noise
ASSUME VersionsAreNumbers == Contents \subseteq Int

VARIABLE lockfile    \* the run of the probe: its report, and where it is

LockCodes == {"LOCK_DRIFT", "LOCK_MISSING_DEP", "LOCK_UNSATISFIED", "LOCK_UNDECIDABLE",
              "LOCK_STALE"}

\* The content of a file without the dependency; and of one with a version, or a range, of
\* it that the probe cannot put in order.
Without == -2
Odd == -3

IdleLockfile ==
    [pc |-> "idle", declared |-> NoFile, present |-> {}, findings |-> {},
     status |-> "ok", harness |-> FALSE, rc |-> NoCode]

LockfileTypeOK ==
    lockfile \in [pc : {"idle", "capture", "declare", "look", "read", "tool", "recheck", "done"},
                  declared : Contents, present : SUBSET {"uv", "poetry"},
                  findings : SUBSET LockCodes, status : {"ok", "no_lockfile"},
                  harness : BOOLEAN, rc : {NoCode, 0, 2, 3, ExitMoved, 127}]

\* compare: uv.lock repeats the project's own requirements, poetry.lock does not; what
\* pyproject.toml declares either must pin, and in a version that is admitted.
Compared(declared, kind, content) ==
    {code \in LockCodes \ {"LOCK_STALE"} :
        /\ declared # Without
        /\ CASE code = "LOCK_DRIFT"       -> kind = "uv" /\ content # declared
             [] code = "LOCK_MISSING_DEP" -> content = Without
             [] code = "LOCK_UNDECIDABLE" -> content # Without /\ Odd \in {content, declared}
             [] OTHER -> {content, declared} \cap {Without, Odd} = {} /\ content < declared}

\* Report.exit_code: a move withdraws everything, a failure is no finding.
LockfileCode(report, p) ==
    IF Blocking(p, TRUE) THEN ExitMoved
    ELSE IF report.harness THEN 127
    ELSE IF report.findings # {} THEN 2
    ELSE IF report.status = "no_lockfile" THEN 3
    ELSE 0
--------------------------------------------------------------------------------
LockfileIs(pc) == lockfile' = [lockfile EXCEPT !.pc = pc]

LockfileStart == lockfile' = [IdleLockfile EXCEPT !.pc = "capture"]

LockfileCapture ==
    /\ lockfile.pc = "capture"
    /\ Capture
    /\ LockfileIs("declare")

\* No pyproject.toml, or one that cannot be parsed: the harness failed.
ReadPyproject ==
    /\ lockfile.pc = "declare"
    /\ LET content == tree.files["pyproject"] IN
       lockfile' = IF content \in {NoFile, Broken}
                     THEN [lockfile EXCEPT !.harness = TRUE, !.pc = "recheck"]
                     ELSE [lockfile EXCEPT !.declared = content, !.pc = "look"]
    /\ UNCHANGED treeVars

\* Which locks there are is asked before any of them is read; uv.lock is read first.
LocksOf(t) == {kind \in {"uv", "poetry"} : t.files[kind] # NoFile}
FirstOf(kinds) == IF "uv" \in kinds THEN "uv" ELSE "poetry"

LookForLocks ==
    /\ lockfile.pc = "look"
    /\ LET present == LocksOf(tree) IN
       lockfile' = IF present = {}
                     THEN [lockfile EXCEPT !.status = "no_lockfile", !.pc = "recheck"]
                     ELSE [lockfile EXCEPT !.present = present, !.pc = "read"]
    /\ UNCHANGED treeVars

NextLock(l) ==
    LET rest == l.present \ {FirstOf(l.present)} IN
    [l EXCEPT !.present = rest, !.pc = IF rest = {} THEN "recheck" ELSE "read"]

ReadLock ==
    /\ lockfile.pc = "read"
    /\ LET kind    == FirstOf(lockfile.present)
           content == tree.files[kind]
           read    == [lockfile EXCEPT
                         !.findings = @ \cup Compared(lockfile.declared, kind, content)]
       IN lockfile' = IF content \in {NoFile, Broken}
                        THEN [lockfile EXCEPT !.harness = TRUE, !.pc = "recheck"]
                        ELSE IF NoTools THEN NextLock(read) ELSE [read EXCEPT !.pc = "tool"]
    /\ UNCHANGED treeVars

\* run_tool_check: the resolver reads both files once more.  That it is not installed,
\* or failed, is a note in the report.
AskTool ==
    /\ lockfile.pc = "tool"
    /\ LET kind  == FirstOf(lockfile.present)
           stale == tree.files[kind] # tree.files["pyproject"]
       IN \E answered \in BOOLEAN :
             lockfile' = NextLock([lockfile EXCEPT
                           !.findings = IF answered /\ stale THEN @ \cup {"LOCK_STALE"} ELSE @])
    /\ UNCHANGED treeVars

LockfileRecheck ==
    /\ lockfile.pc = "recheck"
    /\ prov' = Rechecked(prov, tree)
    /\ lockfile' = [lockfile EXCEPT !.rc = LockfileCode(lockfile, prov'), !.pc = "done"]
    /\ UNCHANGED <<tree, first, shown, unseen, moves>>

LockfileStep ==
    \/ LockfileCapture \/ ReadPyproject \/ LookForLocks
    \/ ReadLock \/ AskTool \/ LockfileRecheck

\* What the files of one tree deserve: 2 when a lock of it disagrees with its
\* pyproject.toml in a way that is certain to be seen.
CertainlyDrifted(t) ==
    \E kind \in LocksOf(t) : Compared(t.files["pyproject"], kind, t.files[kind]) # {}
CertainlySound(t) ==
    \A kind \in LocksOf(t) : t.files[kind] = t.files["pyproject"] /\ t.files[kind] # Odd
================================================================================
