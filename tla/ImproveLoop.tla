------------------------------ MODULE ImproveLoop ------------------------------
(***************************************************************************)
(* scripts/improve-loop.sh with its judge, scripts/improve_acceptance.py,  *)
(* and its report and publication, scripts/improve_loop_support.py: a      *)
(* weekly run that lets a writer propose edits of the target's audit       *)
(* suite, commits those that pass D1-D3 on improve/<date>, and publishes   *)
(* the branch as a draft pull request.  A run may be killed anywhere, and  *)
(* the checkout it worked in is kept for the next one.                     *)
(*                                                                         *)
(* An edit is either a candidate, which adds one test to promptfoo/, or a  *)
(* mutant of the pool, which changes the target's source; a tree is a set  *)
(* of edits.  A commit is named by what it holds: the base of the branch   *)
(* keeps its SHA, and so its cached measurements, from run to run, while   *)
(* the SHA of every other commit is new (it carries the time).             *)
(***************************************************************************)
EXTENDS BudgetGuard, FiniteSets

CONSTANTS
    Candidates, \* the edits a writer may propose
    Red,        \* those whose test fails on the target as it is
    Flaky,      \* those whose test passes or fails by chance
    Outside,    \* those that touch a file outside promptfoo/
    Pool,       \* the mutants, numbered in the order of their file names
    Proves,     \* [Candidates -> SUBSET Pool]: mutants (or, in schema-path
                \* mode, schema paths) that a candidate's test detects (names)
    Modes,      \* IMPROVE_COVERAGE_MODE of a run
    MaxIter,    \* IMPROVE_MAX_ITER
    MaxKeeps,   \* IMPROVE_MAX_KEEPS
    Bills,      \* what one call of the writer may cost
    MaxBill,
    MaxMerged   \* bound of the model: merges stop when main holds so many

ASSUME LoopAssumption ==
    /\ IsFiniteSet(Candidates) /\ Red \subseteq Candidates
    /\ Flaky \subseteq Candidates /\ Outside \subseteq Candidates
    /\ Pool \subseteq Nat /\ Candidates \cap Pool = {} /\ Proves \in [Candidates -> SUBSET Pool]
    /\ Modes \subseteq {"mutation", "schema-path", "off"}
    /\ MaxIter \in Nat \ {0} /\ MaxKeeps \in Nat \ {0}
    /\ MaxMerged \in Nat /\ MaxBill \in Nat /\ Bills \subseteq 0..MaxBill

VARIABLES
    guard,    \* improve-budget-state.json
    base,     \* the suite at the target's main
    head,     \* the suite at the checkout's HEAD
    loose,    \* edits applied in the checkout and not committed
    cache,    \* improve-baseline- and improve-mutants-<SHA of base>.json
    run,      \* the run's own variables, and the files only this run reads:
              \* mine - the candidates its journal entries call kept,
              \* here - the measurements of the branch's own last commit,
              \* report - the candidates improve-report.md names
    remote,   \* today's improve/<date> at the target: no tree, or the one pushed
    pr,       \* whether today's branch has its draft pull request
    tainted   \* history: whether a run ever left an edit uncommitted in the checkout

checkout == <<head, loose>>
published == <<remote, pr>>
vars == <<guard, base, checkout, cache, run, published, tainted>>

Edits == Candidates \cup Pool
Unmeasured == [baseline |-> FALSE, reds |-> {}, green |-> {}, map |-> FALSE, killed |-> {}]
Measurements == [baseline : BOOLEAN, reds : SUBSET Candidates,
                 green : SUBSET Candidates, map : BOOLEAN, killed : SUBSET Pool]
Idle == [pc |-> "idle", mode |-> "off", iter |-> 0, keeps |-> 0, cand |-> {}, bill |-> 0,
         mine |-> {}, here |-> Unmeasured, report |-> {}]
Steps == {"idle", "provision", "baseline", "propose", "judge", "keep", "report", "publish", "draft"}

TypeOK ==
    /\ guard \in GuardStates
    /\ base \subseteq Edits /\ head \subseteq Edits /\ loose \subseteq Edits
    /\ cache \in Measurements
    /\ run \in [pc : Steps, mode : {"mutation", "schema-path", "off"}, iter : 0..MaxIter,
                keeps : 0..MaxKeeps, cand : SUBSET Candidates, bill : 0..MaxBill,
                mine : SUBSET Candidates, here : Measurements, report : SUBSET Candidates]
    /\ Cardinality(run.cand) = IF run.pc \in {"judge", "keep"} THEN 1 ELSE 0
    /\ remote \subseteq SUBSET Edits /\ Cardinality(remote) <= 1
    /\ pr \in BOOLEAN /\ tainted \in BOOLEAN

Init ==
    /\ guard = DefaultState
    /\ base = {} /\ head = {} /\ loose = {}
    /\ cache = Unmeasured
    /\ run = Idle
    /\ remote = {} /\ pr = FALSE
    /\ tainted = FALSE
--------------------------------------------------------------------------------
(* The suite and what the judge measures with it.                              *)

\* The failed tests of one run over a tree; chance is the flaky tests that fail.
Reds(tree, chance) ==
    {c \in tree \cap Candidates : c \in Red \cup chance \/ Proves[c] \cap tree # {}}

\* Mutants already proved dead, or schema paths already referenced.
Proved(tree) == UNION {Proves[c] : c \in tree \cap Candidates}

Tree == head \cup loose
OnBase == head = base
Known == IF OnBase THEN cache ELSE run.here

\* Which flaky tests fail in each run of the suite that one judgement makes:
\* none in the runs that the cache or the mode makes unnecessary.
ChancesIf(needed, tree) == IF needed THEN SUBSET (Flaky \cap tree) ELSE {{}}
Chances(tree) ==
    LET clean == ChancesIf(~Known.baseline, Tree)
        after == ChancesIf(TRUE, tree)
        pool == run.mode = "mutation"
    IN  [before : clean, again : clean, first : after, second : after,
         map : [Pool -> ChancesIf(pool /\ ~Known.map, Tree)], d3 : [Pool -> ChancesIf(pool, tree)]]

Greens(tree, chance) == (tree \cap Candidates) \ Reds(tree, chance)

MutantApplies(m) == m \notin loose

\* The clean suite, twice, unless this SHA has been measured before.
BaselineFails(luck) == ~Known.baseline /\ Reds(Tree, luck.before) # Reds(Tree, luck.again)
WithBaseline(luck) ==
    IF Known.baseline THEN Known
    ELSE [Known EXCEPT !.baseline = TRUE, !.reds = Reds(Tree, luck.before),
                       !.green = Greens(Tree, luck.before)]

\* The mutants the suite without the candidate kills, unless measured before: a
\* test that is green on the clean target is missing or not green on the mutant.
MapFails == ~Known.map /\ (Pool = {} \/ \E m \in Pool : ~MutantApplies(m))
KillMap(luck) ==
    IF Known.map THEN Known.killed
    ELSE {m \in Pool : ~ WithBaseline(luck).green \subseteq Greens(Tree \cup {m}, luck.map[m])}

WithMap(luck) == [WithBaseline(luck) EXCEPT !.map = TRUE, !.killed = KillMap(luck)]

\* Mutant: the measurements are named after the branch instead of the commit.
AfterCommitByBranch == Known

\* No measurement carries the SHA of a commit that has just been made.
AfterCommit == Unmeasured

\* D3 against the pool: it ends at the first surviving mutant that the
\* candidate kills, or that cannot be applied.
Survivors(luck) == Pool \ KillMap(luck)
KilledBy(c, luck) ==
    {m \in Survivors(luck) :
        ~ Greens(Tree \cup {c}, luck.first) \subseteq Greens(Tree \cup {c, m}, luck.d3[m])}
Decisive(c, luck) == KilledBy(c, luck) \cup {m \in Survivors(luck) : ~MutantApplies(m)}

D3Fails(c, luck) ==
    /\ run.mode = "mutation"
    /\ \/ MapFails
       \/ Survivors(luck) = {}
       \/ \E m \in Decisive(c, luck) :
             ~MutantApplies(m) /\ \A other \in Decisive(c, luck) : m <= other

AddsValue(c, luck) ==
    CASE run.mode = "off" -> TRUE
      [] run.mode = "schema-path" -> ~ Proves[c] \subseteq Proved(Tree)
      [] run.mode = "mutation" -> KilledBy(c, luck) # {}

\* Scope first, then the baseline, then whether the patch applies, then D1
\* (two runs agree) and D2 (nothing red that was not red before).
Measurable(c, luck) == c \notin Outside /\ ~BaselineFails(luck)

PassesD2(c, luck) ==
    /\ Measurable(c, luck) /\ c \notin Tree
    /\ Reds(Tree \cup {c}, luck.first) = Reds(Tree \cup {c}, luck.second)
    /\ Reds(Tree \cup {c}, luck.first) \subseteq WithBaseline(luck).reds

JudgeFails(c, luck) ==
    \/ c \notin Outside /\ BaselineFails(luck)
    \/ PassesD2(c, luck) /\ D3Fails(c, luck)

JudgeKeeps(c, luck) == PassesD2(c, luck) /\ ~D3Fails(c, luck) /\ AddsValue(c, luck)

\* What a judgement leaves in the cache depends on how far it came.
Learned(c, luck) ==
    CASE ~Measurable(c, luck) -> Known
      [] run.mode = "mutation" /\ PassesD2(c, luck) /\ ~MapFails -> WithMap(luck)
      [] OTHER -> WithBaseline(luck)
--------------------------------------------------------------------------------
(* One run, step by step.                                                      *)

\* hard_fail: the run is over, its summary names no candidate.
HardFail == run' = Idle

\* budget_guard.py record, once for every iteration.
RecordBill(rc) == guard' = RecordState(guard, rc, run.bill)

\* The cache entry of the commit in the checkout.
Cached(known) == cache' = IF OnBase THEN known ELSE cache
Here(known) == IF OnBase THEN run.here ELSE known

\* What most steps of a run leave alone.
Elsewhere == UNCHANGED <<base, published, tainted>>

LaunchSkipped ==
    /\ run.pc = "idle"
    /\ ~PreflightRuns(guard, 0, 0)
    /\ guard' = PreflightState(guard)
    /\ HardFail
    /\ Elsewhere /\ UNCHANGED <<checkout, cache>>

Launch(mode) ==
    /\ run.pc = "idle"
    /\ PreflightRuns(guard, 0, 0)
    /\ guard' = PreflightState(guard)
    /\ run' = [Idle EXCEPT !.pc = "provision", !.mode = mode]
    /\ Elsewhere /\ UNCHANGED <<checkout, cache>>

\* The steps that end a run without a judgement: fetch and checkout, a runner
\* that crashes in the baseline, the report, a push (always refused when the
\* branch was pushed earlier today and has been cut anew), the draft.
StepFails ==
    /\ run.pc \in {"provision", "baseline", "report", "publish", "draft"}
    /\ HardFail
    /\ Elsewhere /\ UNCHANGED <<guard, checkout, cache>>

\* git checkout -B takes uncommitted edits along, and refuses where HEAD and
\* the base differ in the file they touch; all candidates edit one file.
Refused == ~OnBase /\ loose \cap Candidates # {}

\* Mutant: git checkout without -B stays on today's branch.
CutStays == head

Cut == base

Provision ==
    /\ run.pc = "provision"
    /\ ~Refused
    /\ head' = Cut
    /\ run' = [run EXCEPT !.pc = "baseline"]
    /\ Elsewhere /\ UNCHANGED <<guard, loose, cache>>

\* improve_acceptance.py baseline.
MeasureFails(luck) ==
    /\ run.pc = "baseline"
    /\ BaselineFails(luck) \/ (run.mode = "mutation" /\ MapFails)
    /\ cache' = IF BaselineFails(luck) THEN cache ELSE WithBaseline(luck)
    /\ HardFail
    /\ Elsewhere /\ UNCHANGED <<guard, checkout>>

Measure(luck) ==
    /\ run.pc = "baseline"
    /\ ~BaselineFails(luck) /\ ~ (run.mode = "mutation" /\ MapFails)
    /\ cache' = IF run.mode = "mutation" THEN WithMap(luck) ELSE WithBaseline(luck)
    /\ run' = [run EXCEPT !.pc = "propose"]
    /\ Elsewhere /\ UNCHANGED <<guard, checkout>>

MoreToDo == run.iter < MaxIter /\ run.keeps < MaxKeeps

\* The writer exits 0 with a patch and the tokens it cost.
Propose(c, bill) ==
    /\ run.pc = "propose" /\ MoreToDo
    /\ run' = [run EXCEPT !.pc = "judge", !.iter = @ + 1, !.cand = {c}, !.bill = bill]
    /\ Elsewhere /\ UNCHANGED <<guard, checkout, cache>>

\* It exits 10, and the loop ends.  The call was made and paid for, and what it
\* cost is in a .tokens file that nothing records.
NoProposal ==
    /\ run.pc = "propose" /\ MoreToDo
    /\ run' = [run EXCEPT !.pc = "report", !.iter = @ + 1]
    /\ Elsewhere /\ UNCHANGED <<guard, checkout, cache>>

\* It exits 1: recorded as a hard failure that cost nothing.
WriterFails ==
    /\ run.pc = "propose" /\ MoreToDo
    /\ guard' = RecordState(guard, 1, 0)
    /\ HardFail
    /\ Elsewhere /\ UNCHANGED <<checkout, cache>>

LoopEnds ==
    /\ run.pc = "propose" /\ ~MoreToDo
    /\ run' = [run EXCEPT !.pc = "report"]
    /\ Elsewhere /\ UNCHANGED <<guard, checkout, cache>>

JudgeHardFails(c, luck) ==
    /\ run.pc = "judge" /\ run.cand = {c}
    /\ JudgeFails(c, luck)
    /\ Cached(Learned(c, luck))
    /\ RecordBill(1)
    /\ HardFail
    /\ Elsewhere /\ UNCHANGED checkout

\* The runner crashes, or its results cannot be read: the candidate is taken back.
JudgeCrashes(c) ==
    /\ run.pc = "judge" /\ run.cand = {c}
    /\ RecordBill(1)
    /\ HardFail
    /\ Elsewhere /\ UNCHANGED <<checkout, cache>>

Discard(c, luck) ==
    /\ run.pc = "judge" /\ run.cand = {c}
    /\ ~JudgeFails(c, luck) /\ ~JudgeKeeps(c, luck)
    /\ Cached(Learned(c, luck))
    /\ RecordBill(2)
    /\ run' = [run EXCEPT !.pc = "propose", !.cand = {}, !.bill = 0,
                          !.here = Here(Learned(c, luck))]
    /\ Elsewhere /\ UNCHANGED checkout

\* The journal calls the candidate kept before anything is committed.
Keep(c, luck) ==
    /\ run.pc = "judge" /\ run.cand = {c}
    /\ JudgeKeeps(c, luck)
    /\ Cached(Learned(c, luck))
    /\ run' = [run EXCEPT !.pc = "keep", !.mine = @ \cup {c}, !.here = Here(Learned(c, luck))]
    /\ UNCHANGED <<guard, base, checkout, published, tainted>>

\* Mutant: git add -A without the path.
StagedEverything(edits) == edits

\* git add -A -- promptfoo/: everything there, and nothing of the source.
Staged(edits) == edits \cap Candidates

Commit(c) ==
    /\ head' = head \cup Staged(loose \cup {c})
    /\ loose' = loose \ Staged(loose)

CommitKept(c) ==
    /\ run.pc = "keep" /\ run.cand = {c}
    /\ Commit(c)
    /\ RecordBill(0)
    /\ run' = [run EXCEPT !.pc = "propose", !.keeps = @ + 1, !.cand = {}, !.bill = 0,
                          !.here = AfterCommit]
    /\ Elsewhere /\ UNCHANGED cache

\* The patch has been applied and cannot be committed.
CommitFails(c) ==
    /\ run.pc = "keep" /\ run.cand = {c}
    /\ loose' = loose \cup {c}
    /\ tainted' = TRUE
    /\ RecordBill(1)
    /\ HardFail
    /\ UNCHANGED <<base, head, cache, published>>

Report ==
    /\ run.pc = "report"
    /\ run' = IF run.keeps > 0 THEN [run EXCEPT !.pc = "publish", !.report = run.mine] ELSE Idle
    /\ Elsewhere /\ UNCHANGED <<guard, checkout, cache>>

Push ==
    /\ run.pc = "publish" /\ remote = {}
    /\ remote' = {head}
    /\ run' = [run EXCEPT !.pc = "draft"]
    /\ UNCHANGED <<guard, base, checkout, cache, pr, tainted>>

OpenDraft ==
    /\ run.pc = "draft"
    /\ pr' = TRUE
    /\ run' = Idle
    /\ UNCHANGED <<guard, base, checkout, cache, remote, tainted>>
--------------------------------------------------------------------------------
(* The world around the run.                                                   *)

\* What the commands of a step may have applied and not yet taken back: the
\* mutants one at a time, the candidate alone or on top of one of them.
MutantsTried == {{}} \cup {{m} : m \in {p \in Pool : run.mode = "mutation"}}
CandidateTried == IF run.cand \subseteq Outside THEN {{}} ELSE {{}, run.cand}
InTheCheckout ==
    CASE run.pc = "baseline" -> MutantsTried
      [] run.pc = "judge"    -> {m \cup c : m \in MutantsTried, c \in CandidateTried}
      [] run.pc = "keep"     -> CandidateTried
      [] OTHER               -> {{}}

\* The cron job's timeoutSeconds, or a reboot: no finally clause runs.
Kill ==
    /\ run.pc # "idle"
    /\ \E left \in InTheCheckout :
         /\ loose' = loose \cup (left \ Tree)
         /\ tainted' = (tainted \/ loose' # loose)
    /\ run' = Idle
    /\ UNCHANGED <<guard, base, head, cache, published>>

\* The same, between the commit and its record.
KillAfterCommit(c) ==
    /\ run.pc = "keep" /\ run.cand = {c}
    /\ Commit(c)
    /\ run' = Idle
    /\ Elsewhere /\ UNCHANGED <<guard, cache>>

\* The maintainers merge today's pull request; main has a new SHA.  A run fetches
\* main once, so a merge during it is only seen by the next one.
Merge ==
    /\ run.pc = "idle" /\ pr
    /\ Cardinality(base) < MaxMerged
    /\ base' = base \cup UNION remote
    /\ pr' = FALSE
    /\ cache' = Unmeasured
    /\ UNCHANGED <<guard, checkout, run, remote, tainted>>

\* A week later the branch has another name and every limit of time is over.
NextWeek ==
    /\ run.pc = "idle"
    /\ remote' = {} /\ pr' = FALSE
    /\ guard' = [breaker |-> [guard.breaker EXCEPT !.age = IF guard.breaker.state = "closed" THEN @ ELSE CooldownSeconds],
                 window |-> [guard.window EXCEPT !.age = WindowSeconds]]
    /\ UNCHANGED <<base, checkout, cache, run, tainted>>

Next ==
    \/ LaunchSkipped
    \/ \E mode \in Modes : Launch(mode)
    \/ StepFails \/ Provision
    \/ \E luck \in Chances(Tree) : MeasureFails(luck) \/ Measure(luck)
    \/ \E c \in Candidates, bill \in Bills : Propose(c, bill)
    \/ NoProposal \/ WriterFails \/ LoopEnds
    \/ \E c \in run.cand : \E luck \in Chances(Tree \cup {c}) :
         JudgeHardFails(c, luck) \/ Discard(c, luck) \/ Keep(c, luck)
    \/ \E c \in run.cand : JudgeCrashes(c) \/ CommitKept(c) \/ CommitFails(c) \/ KillAfterCommit(c)
    \/ Report
    \/ Push \/ OpenDraft
    \/ Kill
    \/ Merge
    \/ NextWeek

Spec == Init /\ [][Next]_vars
--------------------------------------------------------------------------------
\* Whatever a killed or failed run left in the checkout, nothing but the audit
\* suite is ever committed: no mutant of the target's source, and no candidate
\* that touches a file outside promptfoo/ (invariant 4 of the phase-6 plan).
OnlyTheSuiteIsCommitted == head \cup base \subseteq Candidates \ Outside

\* What D1-D3 ask of a candidate, said of the committed suite alone: no cache,
\* no second run, no mutant applied.
Worthy(c) ==
    /\ c \notin Outside \cup Flaky \cup Red \cup head
    /\ run.mode # "off" => ~ Proves[c] \subseteq Proved(head)

\* As long as no run has left an edit behind and no flaky test has slipped
\* through its two runs, a judgement keeps exactly the worthy candidates, on
\* whatever commit and with whatever was measured in earlier iterations and runs.
VerdictsAreDeserved ==
    [][run.pc = "judge" /\ run'.pc \in {"propose", "keep"} /\ ~tainted
         /\ (head \cup run.cand) \cap Flaky = {}
       => (run'.pc = "keep" <=> \A c \in run.cand : Worthy(c))]_vars

\* The report, which becomes the text of the pull request, names no candidate
\* the branch does not hold; and as long as no run has left an edit behind it
\* names all of them.  The journal also holds other runs' verdicts, and the
\* verdicts of runs that were killed before they committed.
ReportMatchesTheBranch ==
    run.pc = "publish" =>
        /\ run.report \subseteq head \ base
        /\ tainted \/ run.report = head \ base

\* The guard is asked once per run and told once per iteration: the window is
\* overshot by no more than the iterations that are left can cost.
OverspendBounded ==
    LET billsToCome == CASE run.pc = "idle" -> 0
                         [] run.pc \in {"judge", "keep"} -> MaxIter - run.iter + 1
                         [] OTHER -> MaxIter - run.iter
    IN  guard.window.used + billsToCome * MaxBill <= (TokensWindow - 1) + MaxIter * MaxBill
--------------------------------------------------------------------------------
(* What the plan says of the loop, and the code does not do.                   *)

\* The plan's first invariant, "keep/discard only decides what lands in the PR":
\* every candidate that is published was kept by the judge of that run.
PublishedWasJudged == run.pc = "draft" => UNION remote \subseteq base \cup run.mine
================================================================================
