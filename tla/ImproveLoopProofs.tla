--------------------------- MODULE ImproveLoopProofs ---------------------------
(***************************************************************************)
(* Whatever a run of the improve loop leaves in the checkout when it is    *)
(* killed or fails, nothing but the audit suite is ever committed; the     *)
(* window is overshot by no more than one run's calls; the report names    *)
(* what the branch holds; and a judgement on a clean checkout keeps what   *)
(* it should: proved for every pool, writer and setting of the loop.       *)
(*                                                                         *)
(* That commits hold only the suite is not inductive: a commit takes what  *)
(* lies in the checkout and the candidate on the desk, and a merge takes   *)
(* what was pushed.  The invariant says what each of them may hold: in the *)
(* checkout the suite's edits and mutants, on the desk one candidate, and  *)
(* one of the suite as soon as the judge has kept it.                      *)
(*                                                                         *)
(* The rest needs more of a run: Shape, which fields it has at each stage; *)
(* JournalInv, which of its candidates the checkout holds by now; and      *)
(* Measured, that whatever was measured or cached is of the suite it is    *)
(* kept for.                                                               *)
(***************************************************************************)
EXTENDS ImproveLoop, BudgetGuardProofs, FiniteSetTheorems, TLAPS

Suite == Candidates \ Outside

\* The two fields of a run that the argument is about.
Desk == "pc" \in DOMAIN run /\ "cand" \in DOMAIN run

IInv ==
    /\ base \subseteq Suite
    /\ head \subseteq Suite
    /\ \A tree \in remote : tree \subseteq Suite
    /\ loose \subseteq Suite \cup Pool
    /\ Desk
    /\ run.pc = "judge" => \E c \in Candidates : run.cand = {c}
    /\ run.pc = "keep" => \E c \in Suite : run.cand = {c}

\* A run that is not about to judge or commit says nothing of its candidate.
LEMMA IdleDesk ==
    ASSUME run' = Idle
    PROVE  /\ Desk'
           /\ run'.pc # "judge" /\ run'.pc # "keep"
<1>1. "pc" \in DOMAIN Idle /\ "cand" \in DOMAIN Idle
  BY DEF Idle
<1>2. Idle.pc = "idle"
  BY DEF Idle
<1> QED  BY <1>1, <1>2 DEF Desk

\* What a commit takes is suite, whatever lay in the checkout.
LEMMA CommitTakesTheSuite ==
    ASSUME IInv, NEW c \in Suite, Commit(c)
    PROVE  head' \subseteq Suite /\ loose' \subseteq Suite \cup Pool
<1>1. Candidates \cap Pool = {}
  BY LoopAssumption DEF LoopAssumption
<1>2. Staged(loose \cup {c}) \subseteq Suite
  <2>1. (loose \cup {c}) \cap Candidates \subseteq Suite
    BY <1>1 DEF IInv, Suite
  <2> QED  BY <2>1 DEF Staged
<1> QED  BY <1>2 DEF Commit, IInv

\* What a killed run leaves is a mutant, a candidate of the suite, or both.
LEMMA LeftBehind ==
    ASSUME IInv, NEW left \in InTheCheckout
    PROVE  left \subseteq Suite \cup Pool
<1>1. ASSUME NEW m \in MutantsTried  PROVE m \subseteq Pool
  BY <1>1 DEF MutantsTried
<1>2. ASSUME run.pc \in {"judge", "keep"}, NEW c \in CandidateTried  PROVE c \subseteq Suite
  <2>1. PICK d \in Candidates : run.cand = {d}
    BY <1>2 DEF IInv, Suite
  <2>2. CASE run.cand \subseteq Outside
    BY <1>2, <2>2 DEF CandidateTried
  <2>3. CASE ~ run.cand \subseteq Outside
    <3>1. d \in Suite
      BY <2>1, <2>3 DEF Suite
    <3> QED  BY <1>2, <2>1, <2>3, <3>1 DEF CandidateTried
  <2> QED  BY <2>2, <2>3
<1>3. CASE run.pc = "baseline"
  <2>1. left \in MutantsTried
    BY <1>3 DEF InTheCheckout
  <2> QED  BY <2>1, <1>1
<1>4. CASE run.pc = "judge"
  <2>1. left \in {m \cup c : m \in MutantsTried, c \in CandidateTried}
    BY <1>4 DEF InTheCheckout
  <2>2. PICK m \in MutantsTried, c \in CandidateTried : left = m \cup c
    BY <2>1
  <2>3. m \subseteq Pool /\ c \subseteq Suite
    BY <1>1, <1>2, <1>4
  <2> QED  BY <2>2, <2>3
<1>5. CASE run.pc = "keep"
  <2>1. left \in CandidateTried
    BY <1>5 DEF InTheCheckout
  <2> QED  BY <2>1, <1>2, <1>5
<1>6. CASE run.pc \notin {"baseline", "judge", "keep"}
  <2>1. left \in {{}}
    BY <1>6 DEF InTheCheckout
  <2> QED  BY <2>1
<1> QED  BY <1>3, <1>4, <1>5, <1>6

\* In the first checkout only the suite lies.
LEMMA InvInit ==
    ASSUME Init  PROVE IInv
  BY DEF Init, IInv, Desk, Idle

\* The steps that end a run, and those that leave the trees alone and put no
\* candidate on the desk.
LEMMA InvQuiet ==
    ASSUME IInv, UNCHANGED <<base, head, loose, remote>>, Desk',
           run'.pc # "judge", run'.pc # "keep"
    PROVE  IInv'
  BY DEF IInv, Desk

\* Nothing that the loop does brings anything else into a commit.
LEMMA InvNext ==
    ASSUME IInv, [Next]_vars
    PROVE  IInv'
<1>1. CASE LaunchSkipped \/ StepFails \/ WriterFails
  BY <1>1, IdleDesk, InvQuiet DEF LaunchSkipped, StepFails, WriterFails, HardFail, Elsewhere, checkout, published
<1>2. ASSUME NEW mode \in Modes, Launch(mode)  PROVE IInv'
  <2>1. Desk' /\ run'.pc = "provision"
    BY <1>2 DEF Launch, Idle, Desk
  <2> QED  BY <1>2, <2>1, InvQuiet DEF Launch, Elsewhere, checkout, published
<1>3. CASE Provision
  <2>1. Desk' /\ run'.pc = "baseline"
    BY <1>3 DEF Provision, IInv, Desk
  <2>2. head' = base /\ UNCHANGED <<base, loose, remote>>
    BY <1>3 DEF Provision, Cut, Elsewhere, published
  <2> QED  BY <2>1, <2>2 DEF IInv
<1>4. ASSUME NEW luck, MeasureFails(luck) \/ Measure(luck)  PROVE IInv'
  <2>1. CASE MeasureFails(luck)
    BY <2>1, IdleDesk, InvQuiet DEF MeasureFails, HardFail, Elsewhere, checkout, published
  <2>2. CASE Measure(luck)
    <3>1. Desk' /\ run'.pc = "propose"
      BY <2>2 DEF Measure, IInv, Desk
    <3> QED  BY <2>2, <3>1, InvQuiet DEF Measure, Elsewhere, checkout, published
  <2> QED  BY <1>4, <2>1, <2>2
<1>5. ASSUME NEW c \in Candidates, NEW bill \in Bills, Propose(c, bill)  PROVE IInv'
  <2>1. run' = [run EXCEPT !.pc = "judge", !.iter = @ + 1, !.cand = {c}, !.bill = bill]
    BY <1>5 DEF Propose
  <2>2. Desk' /\ run'.pc = "judge" /\ run'.cand = {c}
    BY <2>1 DEF IInv, Desk
  <2>3. UNCHANGED <<base, head, loose, remote>>
    BY <1>5 DEF Propose, Elsewhere, checkout, published
  <2> QED  BY <2>2, <2>3 DEF IInv
<1>6. ASSUME NoProposal  PROVE IInv'
  <2>1. Desk' /\ run'.pc = "report"
    BY <1>6 DEF NoProposal, IInv, Desk
  <2> QED  BY <1>6, <2>1, InvQuiet DEF NoProposal, Elsewhere, checkout, published
<1>7. CASE LoopEnds
  <2>1. Desk' /\ run'.pc = "report"
    BY <1>7 DEF LoopEnds, IInv, Desk
  <2> QED  BY <1>7, <2>1, InvQuiet DEF LoopEnds, Elsewhere, checkout, published
<1>8. ASSUME NEW c \in run.cand, NEW luck, JudgeHardFails(c, luck) \/ Discard(c, luck) \/ Keep(c, luck)
      PROVE IInv'
  <2>1. CASE JudgeHardFails(c, luck)
    BY <2>1, IdleDesk, InvQuiet DEF JudgeHardFails, HardFail, Elsewhere, checkout, published
  <2>2. CASE Discard(c, luck)
    <3>1. Desk' /\ run'.pc = "propose"
      BY <2>2 DEF Discard, IInv, Desk
    <3> QED  BY <2>2, <3>1, InvQuiet DEF Discard, Elsewhere, checkout, published
  <2>3. CASE Keep(c, luck)
    <3>1. run.pc = "judge" /\ run.cand = {c} /\ c \notin Outside
      BY <2>3 DEF Keep, JudgeKeeps, PassesD2, Measurable
    <3>2. c \in Suite
      BY <3>1 DEF IInv, Suite
    <3>3. Desk' /\ run'.pc = "keep" /\ run'.cand = run.cand
      BY <2>3 DEF Keep, IInv, Desk
    <3>4. UNCHANGED <<base, head, loose, remote>>
      BY <2>3 DEF Keep, checkout, published
    <3> QED  BY <3>1, <3>2, <3>3, <3>4 DEF IInv
  <2> QED  BY <1>8, <2>1, <2>2, <2>3
<1>9. ASSUME NEW c \in run.cand, JudgeCrashes(c) \/ CommitKept(c) \/ CommitFails(c) \/ KillAfterCommit(c)
      PROVE IInv'
  <2>1. CASE JudgeCrashes(c)
    BY <2>1, IdleDesk, InvQuiet DEF JudgeCrashes, HardFail, Elsewhere, checkout, published
  <2> SUFFICES ASSUME CommitKept(c) \/ CommitFails(c) \/ KillAfterCommit(c)  PROVE IInv'
    BY <1>9, <2>1
  <2>2. c \in Suite
    BY DEF IInv, CommitKept, CommitFails, KillAfterCommit
  <2>3. CASE CommitKept(c)
    <3>1. head' \subseteq Suite /\ loose' \subseteq Suite \cup Pool
      BY <2>2, <2>3, CommitTakesTheSuite DEF CommitKept
    <3>2. Desk' /\ run'.pc = "propose"
      BY <2>3 DEF CommitKept, IInv, Desk
    <3> QED  BY <2>3, <3>1, <3>2 DEF CommitKept, Elsewhere, published, IInv
  <2>4. CASE CommitFails(c)
    BY <2>2, <2>4, IdleDesk DEF CommitFails, HardFail, published, IInv
  <2>5. CASE KillAfterCommit(c)
    <3>1. head' \subseteq Suite /\ loose' \subseteq Suite \cup Pool
      BY <2>2, <2>5, CommitTakesTheSuite DEF KillAfterCommit
    <3> QED  BY <2>5, <3>1, IdleDesk DEF KillAfterCommit, Elsewhere, published, IInv
  <2> QED  BY <2>3, <2>4, <2>5
<1>10. CASE Report
  <2>1. Desk' /\ run'.pc # "judge" /\ run'.pc # "keep"
    BY <1>10 DEF Report, Idle, IInv, Desk
  <2> QED  BY <1>10, <2>1, InvQuiet DEF Report, Elsewhere, checkout, published
<1>11. CASE Push
  <2>1. Desk' /\ run'.pc = "draft"
    BY <1>11 DEF Push, IInv, Desk
  <2> QED  BY <1>11, <2>1 DEF Push, checkout, IInv
<1>12. CASE OpenDraft
  BY <1>12, IdleDesk, InvQuiet DEF OpenDraft, checkout
<1>13. CASE Kill
  <2>1. PICK left \in InTheCheckout : loose' = loose \cup (left \ Tree)
    BY <1>13 DEF Kill
  <2>2. left \subseteq Suite \cup Pool
    BY LeftBehind
  <2> QED  BY <1>13, <2>1, <2>2, IdleDesk DEF Kill, published, IInv
<1>14. CASE Merge
  BY <1>14 DEF Merge, checkout, IInv, Desk
<1>15. CASE NextWeek
  BY <1>15 DEF NextWeek, checkout, IInv, Desk
<1>16. CASE UNCHANGED vars
  BY <1>16 DEF vars, checkout, published, IInv, Desk
<1> QED  BY <1>1, <1>2, <1>3, <1>4, <1>5, <1>6, <1>7, <1>8, <1>9, <1>10, <1>11, <1>12, <1>13,
            <1>14, <1>15, <1>16 DEF Next

\* However runs of the improve loop are killed, fail, repeat and are merged, the
\* commits they make and the commits that reach main change nothing but the
\* audit suite: never the target's source, never a file outside promptfoo/.
THEOREM OnlyTheSuiteIsEverCommitted == Spec => []OnlyTheSuiteIsCommitted
<1>1. Init => IInv
  BY InvInit
<1>2. IInv /\ [Next]_vars => IInv'
  BY InvNext
<1>3. IInv => OnlyTheSuiteIsCommitted
  BY DEF IInv, OnlyTheSuiteIsCommitted, Suite
<1> QED  BY <1>1, <1>2, <1>3, PTL DEF Spec
--------------------------------------------------------------------------------
(* The shape of the state.                                                     *)

Runs == [pc : Steps, mode : {"mutation", "schema-path", "off"}, iter : 0..MaxIter,
         keeps : 0..MaxKeeps, cand : SUBSET Candidates, bill : 0..MaxBill,
         mine : SUBSET Candidates, here : Measurements, report : SUBSET Candidates]

AtTheJudge == run.pc \in {"judge", "keep"}

\* What TypeOK says of the run, and what it does not: a candidate is on the desk
\* just while it is judged, and the loop only proposes with a keep left to give.
RunShape ==
    /\ run \in Runs
    /\ ~AtTheJudge => run.cand = {}
    /\ AtTheJudge => \E c \in Candidates : run.cand = {c}
    /\ AtTheJudge => run.keeps < MaxKeeps

TreeShape ==
    /\ base \subseteq Edits /\ head \subseteq Edits /\ loose \subseteq Edits
    /\ remote = {} \/ \E tree \in SUBSET Edits : remote = {tree}
    /\ pr \in BOOLEAN /\ tainted \in BOOLEAN

Shape == RunShape /\ TreeShape /\ guard \in GuardStates /\ cache \in Measurements

\* The invariant is stronger than the type invariant.
LEMMA ShapeIsTyped ==
    ASSUME Shape  PROVE TypeOK
<1>1. /\ Cardinality({}) = 0
      /\ \A c : Cardinality({c}) = 1
  BY FS_EmptySet, FS_Singleton
<1>2. Cardinality(run.cand) = IF run.pc \in {"judge", "keep"} THEN 1 ELSE 0
  BY <1>1 DEF Shape, RunShape, AtTheJudge
<1>3. remote \subseteq SUBSET Edits /\ Cardinality(remote) <= 1
  <2>1. CASE remote = {}
    BY <1>1, <2>1
  <2>2. ASSUME NEW tree \in SUBSET Edits, remote = {tree}
        PROVE  remote \subseteq SUBSET Edits /\ Cardinality(remote) <= 1
    BY <1>1, <2>2
  <2> QED  BY <2>1, <2>2 DEF Shape, TreeShape
<1> QED  BY <1>2, <1>3 DEF TypeOK, Shape, RunShape, Runs, TreeShape

\* A run that is over says nothing.
LEMMA IdleShape ==
    ASSUME run' = Idle  PROVE RunShape'
  BY LoopAssumption DEF LoopAssumption, Idle, RunShape, AtTheJudge, Runs, Steps, Measurements, Unmeasured

\* Whatever chance does to a measurement, it is one.
LEMMA MeasuredShape ==
    ASSUME Shape, NEW c, NEW luck
    PROVE  /\ Known \in Measurements
           /\ WithBaseline(luck) \in Measurements
           /\ WithMap(luck) \in Measurements
           /\ Learned(c, luck) \in Measurements
<1>1. Known \in Measurements
  BY DEF Known, Shape, RunShape, Runs
<1>2. Reds(Tree, luck.before) \subseteq Candidates /\ Greens(Tree, luck.before) \subseteq Candidates
  BY DEF Reds, Greens
<1>3. KillMap(luck) \subseteq Pool
  BY <1>1 DEF KillMap, Measurements
<1>4. WithBaseline(luck) \in Measurements
  <2> HIDE DEF Known, Reds, Greens
  <2> QED  BY <1>1, <1>2 DEF WithBaseline, Measurements
<1>5. WithMap(luck) \in Measurements
  BY <1>3, <1>4 DEF WithMap, Measurements
<1> QED  BY <1>1, <1>4, <1>5 DEF Learned

\* The guard's file keeps its shape whatever the loop records.
LEMMA BillShape ==
    ASSUME Shape, NEW rc
    PROVE  /\ PreflightState(guard) \in GuardStates
           /\ RecordState(guard, rc, 0) \in GuardStates
           /\ RecordState(guard, rc, run.bill) \in GuardStates
<1>1. run.bill \in Nat /\ 0 \in Nat /\ guard \in GuardStates
  BY LoopAssumption DEF LoopAssumption, Shape, RunShape, Runs
<1> QED  BY <1>1, PreflightFacts, RecordFacts

\* The first run has its shape before it starts.
LEMMA ShapeInit ==
    ASSUME Init  PROVE Shape
<1>1. RunShape
  BY LoopAssumption DEF LoopAssumption, Init, Idle, RunShape, AtTheJudge, Runs, Steps, Measurements, Unmeasured
<1>2. cache \in Measurements
  BY DEF Init, Measurements, Unmeasured
<1> QED  BY <1>1, <1>2, ResetFacts DEF Init, Shape, TreeShape

\* The commands before and after the iterations: nothing is on the desk.
LEMMA ShapeQuiet ==
    ASSUME Shape,
           \/ LaunchSkipped \/ \E mode \in Modes : Launch(mode)
           \/ StepFails \/ Provision
           \/ \E luck \in Chances(Tree) : MeasureFails(luck) \/ Measure(luck)
           \/ NoProposal \/ WriterFails \/ LoopEnds
           \/ Report \/ Push \/ OpenDraft
    PROVE  Shape'
<1>1. ASSUME HardFail, TreeShape', guard' \in GuardStates, cache' \in Measurements  PROVE Shape'
  BY <1>1, IdleShape DEF HardFail, Shape
<1>2. CASE LaunchSkipped
  BY <1>1, <1>2, BillShape DEF LaunchSkipped, Elsewhere, checkout, published, Shape, TreeShape
<1>3. ASSUME NEW mode \in Modes, Launch(mode)  PROVE Shape'
  <2>1. mode \in {"mutation", "schema-path", "off"}
    BY LoopAssumption DEF LoopAssumption
  <2>2. Idle \in Runs
    BY LoopAssumption DEF LoopAssumption, Idle, Runs, Steps, Measurements, Unmeasured
  <2>3. run' = [Idle EXCEPT !.pc = "provision", !.mode = mode]
    BY <1>3 DEF Launch
  <2>4. Idle.cand = {}
    BY DEF Idle
  <2>5. RunShape'
    <3> HIDE DEF Idle
    <3> QED  BY <2>1, <2>2, <2>3, <2>4 DEF RunShape, AtTheJudge, Runs, Steps
  <2> QED  BY <1>3, <2>5, BillShape DEF Launch, Elsewhere, checkout, published, Shape, TreeShape
<1>4. CASE StepFails
  BY <1>1, <1>4 DEF StepFails, Elsewhere, checkout, published, Shape, TreeShape
<1>5. CASE Provision
  <2>1. RunShape'
    BY <1>5 DEF Provision, Shape, RunShape, AtTheJudge, Runs, Steps
  <2> QED  BY <1>5, <2>1 DEF Provision, Cut, Elsewhere, published, Shape, TreeShape
<1>6. ASSUME NEW luck \in Chances(Tree), MeasureFails(luck)  PROVE Shape'
  <2>1. cache' \in Measurements
    BY <1>6, MeasuredShape DEF MeasureFails, Shape
  <2> QED  BY <1>1, <1>6, <2>1 DEF MeasureFails, Elsewhere, checkout, published, Shape, TreeShape
<1>7. ASSUME NEW luck \in Chances(Tree), Measure(luck)  PROVE Shape'
  <2>1. cache' \in Measurements
    BY <1>7, MeasuredShape DEF Measure
  <2>2. RunShape'
    BY <1>7 DEF Measure, Shape, RunShape, AtTheJudge, Runs, Steps
  <2> QED  BY <1>7, <2>1, <2>2 DEF Measure, Elsewhere, checkout, published, Shape, TreeShape
<1>8. CASE NoProposal
  <2>1. run.iter + 1 \in 0..MaxIter
    BY <1>8, LoopAssumption DEF LoopAssumption, NoProposal, MoreToDo, Shape, RunShape, Runs
  <2>2. RunShape'
    BY <1>8, <2>1 DEF NoProposal, Shape, RunShape, AtTheJudge, Runs, Steps
  <2> QED  BY <1>8, <2>2 DEF NoProposal, Elsewhere, checkout, published, Shape, TreeShape
<1>9. CASE WriterFails
  BY <1>1, <1>9, BillShape DEF WriterFails, Elsewhere, checkout, published, Shape, TreeShape
<1>10. CASE LoopEnds
  <2>1. RunShape'
    BY <1>10 DEF LoopEnds, Shape, RunShape, AtTheJudge, Runs, Steps
  <2> QED  BY <1>10, <2>1 DEF LoopEnds, Elsewhere, checkout, published, Shape, TreeShape
<1>11. CASE Report
  <2>1. CASE run' = Idle
    BY <1>1, <1>11, <2>1 DEF HardFail, Report, Elsewhere, checkout, published, Shape, TreeShape
  <2>2. CASE run' = [run EXCEPT !.pc = "publish", !.report = run.mine]
    <3>1. RunShape'
      BY <1>11, <2>2 DEF Report, Shape, RunShape, AtTheJudge, Runs, Steps
    <3> QED  BY <1>11, <3>1 DEF Report, Elsewhere, checkout, published, Shape, TreeShape
  <2> QED  BY <1>11, <2>1, <2>2 DEF Report
<1>12. CASE Push
  <2>1. RunShape'
    BY <1>12 DEF Push, Shape, RunShape, AtTheJudge, Runs, Steps
  <2> QED  BY <1>12, <2>1 DEF Push, checkout, Shape, TreeShape
<1>13. CASE OpenDraft
  BY <1>1, <1>13 DEF OpenDraft, HardFail, checkout, Shape, TreeShape
<1> QED  BY <1>2, <1>3, <1>4, <1>5, <1>6, <1>7, <1>8, <1>9, <1>10, <1>11, <1>12, <1>13

\* One iteration: proposal, judgement and commit.
LEMMA ShapeIteration ==
    ASSUME Shape, NEW c \in Candidates, c \in run.cand \/ run.pc = "propose",
           \/ \E bill \in Bills : Propose(c, bill)
           \/ \E luck : JudgeHardFails(c, luck) \/ Discard(c, luck) \/ Keep(c, luck)
           \/ JudgeCrashes(c) \/ CommitKept(c) \/ CommitFails(c) \/ KillAfterCommit(c)
    PROVE  Shape'
<1>1. ASSUME HardFail, TreeShape', guard' \in GuardStates, cache' \in Measurements  PROVE Shape'
  BY <1>1, IdleShape DEF HardFail, Shape
<1>2. ASSUME NEW bill \in Bills, Propose(c, bill)  PROVE Shape'
  <2>1. run.iter \in 0..MaxIter /\ run.iter < MaxIter
    BY <1>2 DEF Propose, MoreToDo, Shape, RunShape, Runs
  <2>4. bill \in 0..MaxBill /\ MaxIter \in Nat
    BY LoopAssumption DEF LoopAssumption
  <2>5. run.iter + 1 \in 0..MaxIter
    BY <2>1, <2>4
  <2>2. run.keeps < MaxKeeps /\ run.pc = "propose"
    BY <1>2 DEF Propose, MoreToDo
  <2>3. RunShape'
    BY <1>2, <2>2, <2>4, <2>5 DEF Propose, Shape, RunShape, AtTheJudge, Runs, Steps
  <2> QED  BY <1>2, <2>3 DEF Propose, Elsewhere, checkout, published, Shape, TreeShape
<1>3. ASSUME NEW luck, Cached(Learned(c, luck))
      PROVE  cache' \in Measurements /\ Here(Learned(c, luck)) \in Measurements
  BY <1>3, MeasuredShape DEF Cached, Here, Shape, RunShape, Runs
<1>4. ASSUME NEW luck, JudgeHardFails(c, luck)  PROVE Shape'
  BY <1>1, <1>3, <1>4, BillShape
  DEF JudgeHardFails, RecordBill, Elsewhere, checkout, published, Shape, TreeShape
<1>5. ASSUME NEW luck, Discard(c, luck)  PROVE Shape'
  <2>1. cache' \in Measurements /\ Here(Learned(c, luck)) \in Measurements
    BY <1>3, <1>5 DEF Discard
  <2>2. RunShape'
    <3>1. 0 \in 0..MaxBill
      BY LoopAssumption DEF LoopAssumption
    <3> HIDE DEF Here, Learned
    <3> QED  BY <1>5, <2>1, <3>1 DEF Discard, Shape, RunShape, AtTheJudge, Runs, Steps
  <2> QED  BY <1>5, <2>1, <2>2, BillShape DEF Discard, RecordBill, Elsewhere, checkout, published, Shape, TreeShape
<1>6. ASSUME NEW luck, Keep(c, luck)  PROVE Shape'
  <2>1. cache' \in Measurements /\ Here(Learned(c, luck)) \in Measurements
    BY <1>3, <1>6 DEF Keep
  <2>2. RunShape'
    <3> HIDE DEF Here, Learned
    <3> QED  BY <1>6, <2>1 DEF Keep, Shape, RunShape, AtTheJudge, Runs, Steps
  <2> QED  BY <1>6, <2>1, <2>2 DEF Keep, checkout, published, Shape, TreeShape
<1>7. CASE JudgeCrashes(c)
  BY <1>1, <1>7, BillShape DEF JudgeCrashes, RecordBill, Elsewhere, checkout, published, Shape, TreeShape
<1>8. ASSUME Commit(c), UNCHANGED <<base, published, tainted>>  PROVE TreeShape'
  BY <1>8 DEF Commit, Staged, published, Shape, TreeShape, Edits
<1>9. CASE CommitKept(c)
  <2>1. run.keeps + 1 \in 0..MaxKeeps
    BY <1>9, LoopAssumption DEF LoopAssumption, CommitKept, Shape, RunShape, AtTheJudge, Runs
  <2>2. AfterCommit \in Measurements
    BY DEF AfterCommit, Unmeasured, Measurements
  <2>3. RunShape'
    <3>1. 0 \in 0..MaxBill
      BY LoopAssumption DEF LoopAssumption
    <3> HIDE DEF AfterCommit
    <3> QED  BY <1>9, <2>1, <2>2, <3>1 DEF CommitKept, Shape, RunShape, AtTheJudge, Runs, Steps
  <2> QED  BY <1>8, <1>9, <2>3, BillShape DEF CommitKept, RecordBill, Elsewhere, Shape
<1>10. CASE CommitFails(c)
  BY <1>1, <1>10, BillShape DEF CommitFails, RecordBill, published, Shape, TreeShape, Edits
<1>11. CASE KillAfterCommit(c)
  BY <1>8, <1>11, IdleShape DEF KillAfterCommit, Elsewhere, Shape
<1> QED  BY <1>2, <1>4, <1>5, <1>6, <1>7, <1>9, <1>10, <1>11

\* Kills, merges and the passing of a week.
LEMMA ShapeWorld ==
    ASSUME Shape, Kill \/ Merge \/ NextWeek
    PROVE  Shape'
<1>1. CASE Kill
  <2>1. PICK left \in InTheCheckout :
          loose' = loose \cup (left \ Tree) /\ tainted' = (tainted \/ loose' # loose)
    BY <1>1 DEF Kill
  <2>2. run.cand \subseteq Edits
    BY DEF Shape, RunShape, Runs, Edits
  <2>3. left \subseteq Edits
    BY <2>2 DEF InTheCheckout, MutantsTried, CandidateTried, Edits
  <2> QED  BY <1>1, <2>1, <2>3, IdleShape DEF Kill, published, Shape, TreeShape
<1>2. CASE Merge
  BY <1>2 DEF Merge, checkout, Shape, TreeShape, RunShape, AtTheJudge, Runs, Measurements, Unmeasured
<1>3. CASE NextWeek
  <2>1. guard' \in GuardStates
    BY <1>3, LimitsAssumption DEF LimitsAssumption, NextWeek, Shape, GuardStates, Breakers, Windows
  <2> QED  BY <1>3, <2>1 DEF NextWeek, checkout, Shape, TreeShape, RunShape, AtTheJudge
<1> QED  BY <1>1, <1>2, <1>3

\* Every stage of a run hands the next one a run of that shape.
LEMMA ShapeNext ==
    ASSUME Shape, [Next]_vars
    PROVE  Shape'
<1>1. CASE UNCHANGED vars
  BY <1>1 DEF vars, checkout, published, Shape, TreeShape, RunShape, AtTheJudge
<1>2. \A c \in run.cand : c \in Candidates
  BY DEF Shape, RunShape, Runs
<1>3. \A c, bill : Propose(c, bill) => run.pc = "propose"
  BY DEF Propose
<1> QED  BY <1>1, <1>2, <1>3, ShapeQuiet, ShapeIteration, ShapeWorld DEF Next

\* The loop's own state, the guard's file and the measurements keep their shape,
\* one candidate is on the desk just while it is judged, and a day has one branch.
THEOREM LoopTyped == Spec => []TypeOK
<1>1. Init => Shape
  BY ShapeInit
<1>2. Shape /\ [Next]_vars => Shape'
  BY ShapeNext
<1>3. Shape => TypeOK
  BY ShapeIsTyped
<1> QED  BY <1>1, <1>2, <1>3, PTL DEF Spec
--------------------------------------------------------------------------------
(* What a run may overshoot the window by.                                     *)

\* The calls of the writer that a run has made or may make and not yet recorded.
CallsToCome == CASE run.pc = "idle" -> 0
                 [] run.pc \in {"judge", "keep"} -> MaxIter - run.iter + 1
                 [] OTHER -> MaxIter - run.iter

Cap == (TokensWindow - 1) + MaxIter * MaxBill

\* What CallsToCome and the bound come to in a state of the right shape.
CallsFacts ==
    /\ CallsToCome \in Nat
    /\ run.pc = "idle" => CallsToCome = 0
    /\ AtTheJudge => CallsToCome = MaxIter - run.iter + 1
    /\ run.pc # "idle" /\ ~AtTheJudge => CallsToCome = MaxIter - run.iter
    /\ MaxIter \in Nat /\ run.iter \in Nat /\ run.iter <= MaxIter
    /\ guard.window.used \in Nat
    /\ OverspendBounded <=> guard.window.used + CallsToCome * MaxBill <= Cap

\* No count is negative, and the bound is about these calls.
LEMMA ToComeFacts == Shape => CallsFacts
<1> SUFFICES ASSUME Shape  PROVE CallsFacts
  OBVIOUS
<1>1. MaxIter \in Nat /\ run.iter \in 0..MaxIter
  BY LoopAssumption DEF LoopAssumption, Shape, RunShape, Runs
<1>2. guard.window.used \in Nat
  BY DEF Shape, GuardStates, Windows
<1>3. /\ run.pc = "idle" => CallsToCome = 0
      /\ AtTheJudge => CallsToCome = MaxIter - run.iter + 1
      /\ run.pc # "idle" /\ ~AtTheJudge => CallsToCome = MaxIter - run.iter
  BY DEF CallsToCome, AtTheJudge
<1>4. OverspendBounded <=> guard.window.used + CallsToCome * MaxBill <= Cap
  BY DEF OverspendBounded, CallsToCome, Cap
<1> QED  BY <1>1, <1>2, <1>3, <1>4 DEF CallsFacts

\* Fewer calls cost no more, and the call recorded takes its share along.
LEMMA BillsOf ==
    ASSUME NEW few \in Nat, NEW many \in Nat
    PROVE  /\ few * MaxBill \in Nat /\ many * MaxBill \in Nat
           /\ few <= many => few * MaxBill <= many * MaxBill
           /\ few < many => few * MaxBill + MaxBill <= many * MaxBill
<1>1. MaxBill \in Nat
  BY LoopAssumption DEF LoopAssumption
<1>2. ASSUME few <= many  PROVE few * MaxBill <= many * MaxBill
  <2>1. PICK rest \in Nat : many = few + rest
    BY <1>2
  <2>2. many * MaxBill = few * MaxBill + rest * MaxBill
    BY <1>1, <2>1
  <2>3. few * MaxBill \in Nat /\ rest * MaxBill \in Nat
    BY <1>1
  <2> QED  BY <2>2, <2>3
<1>3. ASSUME few < many  PROVE few * MaxBill + MaxBill <= many * MaxBill
  <2>1. PICK rest \in Nat : many = (few + 1) + rest
    BY <1>3
  <2>2. many * MaxBill = (few * MaxBill + MaxBill) + rest * MaxBill
    BY <1>1, <2>1
  <2>3. few * MaxBill \in Nat /\ rest * MaxBill \in Nat
    BY <1>1
  <2> QED  BY <1>1, <2>2, <2>3
<1> QED  BY <1>1, <1>2, <1>3

\* The bound is kept where no call is added, where a run is let in with the
\* window below its cap, and where a bill moves from the run into the window.
LEMMA BoundKept ==
    ASSUME Shape, Shape', OverspendBounded,
           \/ guard'.window.used \in {guard.window.used, 0} /\ CallsToCome' <= CallsToCome
           \/ guard'.window.used < TokensWindow /\ CallsToCome' <= MaxIter
           \/ guard'.window.used <= guard.window.used + MaxBill /\ CallsToCome' < CallsToCome
    PROVE  OverspendBounded'
<1>1. /\ CallsToCome \in Nat /\ guard.window.used \in Nat /\ MaxIter \in Nat
      /\ guard.window.used + CallsToCome * MaxBill <= Cap
  BY ToComeFacts DEF CallsFacts
<1>5. CallsFacts'
  BY ToComeFacts, PTL
<1>2. /\ CallsToCome' \in Nat /\ guard'.window.used \in Nat
      /\ OverspendBounded' <=> guard'.window.used + CallsToCome' * MaxBill <= Cap
  BY <1>5 DEF CallsFacts, Cap
<1>3. MaxBill \in Nat /\ TokensWindow \in Nat \ {0}
  BY LoopAssumption, LimitsAssumption DEF LoopAssumption, LimitsAssumption
<1>4. /\ CallsToCome * MaxBill \in Nat /\ CallsToCome' * MaxBill \in Nat /\ MaxIter * MaxBill \in Nat
      /\ CallsToCome' <= CallsToCome => CallsToCome' * MaxBill <= CallsToCome * MaxBill
      /\ CallsToCome' < CallsToCome => CallsToCome' * MaxBill + MaxBill <= CallsToCome * MaxBill
      /\ CallsToCome' <= MaxIter => CallsToCome' * MaxBill <= MaxIter * MaxBill
  BY <1>1, <1>2, BillsOf
<1> HIDE DEF CallsToCome
<1> QED  BY <1>1, <1>2, <1>3, <1>4 DEF Cap

\* A call is paid for by an iteration, and a run has so many of them.
LEMMA BoundNext ==
    ASSUME Shape, OverspendBounded, [Next]_vars
    PROVE  OverspendBounded'
<1> Shape'
  BY ShapeNext
<1>1. CallsFacts /\ CallsFacts'
  BY ToComeFacts, PTL
<1>2. /\ run.bill \in Nat /\ run.bill <= MaxBill /\ MaxBill \in Nat
      /\ guard \in GuardStates
  BY LoopAssumption DEF LoopAssumption, Shape, RunShape, Runs
<1>3. PreflightState(guard).window.used \in {guard.window.used, 0}
  BY <1>2, PreflightFacts
<1>4. ASSUME NEW rc, RecordBill(rc)
      PROVE  guard'.window.used <= guard.window.used + MaxBill
  <2>1. guard'.window.used \in {guard.window.used + run.bill, run.bill}
    BY <1>2, <1>4, RecordFacts DEF RecordBill
  <2>2. guard.window.used \in Nat
    BY <1>1 DEF CallsFacts
  <2> QED  BY <1>2, <2>1, <2>2
<1>5. ASSUME run' = Idle  PROVE CallsToCome' = 0
  BY <1>1, <1>5 DEF Idle, CallsFacts
<1> USE DEF CallsFacts
<1>6. ASSUME run' = Idle, guard' = guard  PROVE OverspendBounded'
  <2>1. CallsToCome' <= CallsToCome
    BY <1>1, <1>5, <1>6
  <2> QED  BY <1>6, <2>1, BoundKept
<1>7. CASE LaunchSkipped
  <2>1. CallsToCome' <= CallsToCome
    BY <1>1, <1>5, <1>7 DEF LaunchSkipped, HardFail
  <2> QED  BY <1>3, <1>7, <2>1, BoundKept DEF LaunchSkipped
<1>8. ASSUME NEW mode \in Modes, Launch(mode)  PROVE OverspendBounded'
  <2>1. guard'.window.used < TokensWindow
    BY <1>8 DEF Launch, PreflightRuns
  <2>2. CallsToCome' <= MaxIter
    BY <1>1, <1>8 DEF Launch, Idle, AtTheJudge
  <2> QED  BY <2>1, <2>2, BoundKept
<1>9. CASE StepFails \/ OpenDraft \/ Kill \/ \E luck \in Chances(Tree) : MeasureFails(luck)
  BY <1>6, <1>9 DEF StepFails, OpenDraft, Kill, MeasureFails, HardFail
<1>10. ASSUME run'.pc # "idle", ~AtTheJudge, ~AtTheJudge', run.pc # "idle",
              run'.iter \in {run.iter, run.iter + 1}, guard' = guard
       PROVE  OverspendBounded'
  <2>1. CallsToCome' <= CallsToCome
    BY <1>1, <1>10
  <2> QED  BY <1>10, <2>1, BoundKept
<1>11. CASE Provision \/ (\E luck \in Chances(Tree) : Measure(luck)) \/ NoProposal \/ LoopEnds \/ Push
  BY <1>10, <1>11 DEF Provision, Measure, NoProposal, LoopEnds, Push, AtTheJudge, Shape, RunShape, Runs
<1>12. CASE Report
  <2>1. CASE run' = Idle
    BY <1>6, <1>12, <2>1 DEF Report
  <2>2. CASE run' = [run EXCEPT !.pc = "publish", !.report = run.mine]
    BY <1>10, <1>12, <2>2 DEF Report, AtTheJudge, Shape, RunShape, Runs
  <2> QED  BY <1>12, <2>1, <2>2 DEF Report
<1>13. ASSUME NEW c \in Candidates, NEW bill \in Bills, Propose(c, bill)  PROVE OverspendBounded'
  <2>1. /\ run.pc = "propose" /\ run'.pc = "judge" /\ run'.iter = run.iter + 1 /\ guard' = guard
    BY <1>13 DEF Propose, Shape, RunShape, Runs
  <2>2. CallsToCome' <= CallsToCome
    BY <1>1, <2>1 DEF AtTheJudge
  <2> QED  BY <2>1, <2>2, BoundKept
<1>14. CASE WriterFails
  <2>1. guard'.window.used \in {guard.window.used, 0}
    <3>1. RecordState(guard, 1, 0).window.used \in {guard.window.used + 0, 0}
      BY <1>2, RecordFacts
    <3> QED  BY <1>1, <1>14, <3>1 DEF WriterFails
  <2>2. CallsToCome' <= CallsToCome
    BY <1>1, <1>5, <1>14 DEF WriterFails, HardFail
  <2> QED  BY <2>1, <2>2, BoundKept
<1>15. ASSUME AtTheJudge, ~AtTheJudge', run'.pc = "idle" \/ run'.iter = run.iter,
              NEW rc, RecordBill(rc)
       PROVE  OverspendBounded'
  <2>1. CallsToCome' < CallsToCome
    BY <1>1, <1>15
  <2> QED  BY <1>4, <1>15, <2>1, BoundKept
<1>16. ASSUME NEW c \in run.cand, NEW luck, JudgeHardFails(c, luck) \/ Discard(c, luck)
       PROVE  OverspendBounded'
  <2>1. PICK rc : RecordBill(rc)
    BY <1>16 DEF JudgeHardFails, Discard
  <2>2. run.pc = "judge"
    BY <1>16 DEF JudgeHardFails, Discard
  <2>3. run'.pc = "idle" \/ (run'.pc = "propose" /\ run'.iter = run.iter)
    <3>1. CASE JudgeHardFails(c, luck)
      BY <3>1 DEF JudgeHardFails, HardFail, Idle
    <3>2. CASE Discard(c, luck)
      BY <3>2 DEF Discard, Shape, RunShape, Runs
    <3> QED  BY <1>16, <3>1, <3>2
  <2> QED  BY <1>15, <2>1, <2>2, <2>3 DEF AtTheJudge
<1>17. ASSUME NEW c \in run.cand, NEW luck, Keep(c, luck)  PROVE OverspendBounded'
  <2>1. run.pc = "judge" /\ run'.pc = "keep" /\ run'.iter = run.iter /\ guard' = guard
    BY <1>17 DEF Keep, Shape, RunShape, Runs
  <2>2. CallsToCome' <= CallsToCome
    BY <1>1, <2>1 DEF AtTheJudge
  <2> QED  BY <2>1, <2>2, BoundKept
<1>18. ASSUME NEW c \in run.cand, JudgeCrashes(c) \/ CommitKept(c) \/ CommitFails(c)
       PROVE  OverspendBounded'
  <2>1. PICK rc : RecordBill(rc)
    BY <1>18 DEF JudgeCrashes, CommitKept, CommitFails
  <2>2. AtTheJudge
    BY <1>18 DEF JudgeCrashes, CommitKept, CommitFails, AtTheJudge
  <2>3. run'.pc = "idle" \/ (run'.pc = "propose" /\ run'.iter = run.iter)
    <3>1. CASE JudgeCrashes(c) \/ CommitFails(c)
      BY <3>1 DEF JudgeCrashes, CommitFails, HardFail, Idle
    <3>2. CASE CommitKept(c)
      BY <3>2 DEF CommitKept, Shape, RunShape, Runs
    <3> QED  BY <1>18, <3>1, <3>2
  <2> QED  BY <1>15, <2>1, <2>2, <2>3 DEF AtTheJudge
<1>19. ASSUME NEW c \in run.cand, KillAfterCommit(c)  PROVE OverspendBounded'
  BY <1>6, <1>19 DEF KillAfterCommit
<1>20. ASSUME run' = run, guard'.window.used = guard.window.used  PROVE OverspendBounded'
  <2>1. CallsToCome' = CallsToCome
    BY <1>20 DEF CallsToCome
  <2>2. CallsToCome' <= CallsToCome
    BY <1>1, <2>1
  <2> QED  BY <1>20, <2>2, BoundKept
<1>21. CASE Merge \/ UNCHANGED vars
  BY <1>20, <1>21 DEF Merge, vars
<1>22. CASE NextWeek
  BY <1>2, <1>20, <1>22 DEF NextWeek, GuardStates, Windows
<1> QED  BY <1>7, <1>8, <1>9, <1>11, <1>12, <1>13, <1>14, <1>16, <1>17, <1>18, <1>19, <1>21, <1>22
         DEF Next, Shape, RunShape, Runs

\* However the runs of many weeks are killed or fail, and whatever their calls
\* cost, the window is overshot by no more than the iterations of one run.
THEOREM OverspendAlwaysBounded == Spec => []OverspendBounded
<1>1. Init => Shape /\ OverspendBounded
  <2> SUFFICES ASSUME Init  PROVE Shape /\ OverspendBounded
    OBVIOUS
  <2>1. Shape
    BY ShapeInit
  <2>2. CallsToCome = 0 /\ guard.window.used = 0
    BY ResetFacts DEF Init, Idle, CallsToCome
  <2>3. MaxIter * MaxBill \in Nat /\ 0 * MaxBill = 0
    BY LoopAssumption DEF LoopAssumption
  <2>4. OverspendBounded <=> guard.window.used + CallsToCome * MaxBill <= Cap
    BY <2>1, ToComeFacts DEF CallsFacts
  <2> QED  BY <2>1, <2>2, <2>3, <2>4, LimitsAssumption DEF LimitsAssumption, Cap
<1>2. Shape /\ OverspendBounded /\ [Next]_vars => (Shape /\ OverspendBounded)'
  BY ShapeNext, BoundNext
<1> QED  BY <1>1, <1>2, PTL DEF Spec
--------------------------------------------------------------------------------
(* The journal of a run, and the branch it stands for.                         *)

\* The candidates a run has committed: one is called kept a step before that.
Committed == IF run.pc = "keep" THEN run.mine \ run.cand ELSE run.mine

\* The run has not cut its branch yet.
Starting == run.pc \in {"idle", "provision"}

JournalInv ==
    /\ Starting => run.mine = {}
    /\ run.pc = "baseline" => head = base
    /\ ~Starting => /\ base \subseteq head
                    /\ Committed \subseteq head \ base
                    /\ tainted \/ Committed = head \ base
    /\ run.pc = "keep" => run.cand \subseteq run.mine \ Tree
    /\ run.pc = "publish" => run.report = run.mine
    /\ tainted \/ loose = {}

\* A run that is over has no branch.
LEMMA IdleJournal ==
    ASSUME run' = Idle, tainted' \/ loose' = {}  PROVE JournalInv'
  BY DEF JournalInv, Idle, Starting, Committed

\* A step that keeps nothing and moves no tree.
LEMMA QuietJournal ==
    ASSUME JournalInv, UNCHANGED <<base, head, loose, tainted>>,
           ~Starting, ~Starting', run.pc # "keep", run'.pc \notin {"baseline", "keep", "publish"},
           run'.mine = run.mine
    PROVE  JournalInv'
  BY DEF JournalInv, Starting, Committed

\* The report is written from what was committed; every other step leaves both alone.
LEMMA JournalNext ==
    ASSUME IInv, Shape, JournalInv, [Next]_vars
    PROVE  JournalInv'
<1>1. CASE LaunchSkipped \/ StepFails \/ WriterFails \/ OpenDraft \/ \E luck \in Chances(Tree) : MeasureFails(luck)
  <2>1. run' = Idle /\ UNCHANGED <<loose, tainted>>
    BY <1>1 DEF LaunchSkipped, StepFails, WriterFails, OpenDraft, MeasureFails, HardFail, Elsewhere, checkout
  <2> QED  BY <2>1, IdleJournal DEF JournalInv
<1>2. ASSUME NEW mode \in Modes, Launch(mode)  PROVE JournalInv'
  <2>1. run'.pc = "provision" /\ run'.mine = {} /\ UNCHANGED <<loose, tainted>>
    BY <1>2 DEF Launch, Idle, Elsewhere, checkout
  <2> QED  BY <2>1 DEF JournalInv, Starting
<1>3. CASE Provision
  <2>1. run.pc = "provision" /\ run'.pc = "baseline" /\ run'.mine = run.mine
    BY <1>3 DEF Provision, Shape, RunShape, Runs
  <2>2. head' = base /\ UNCHANGED <<base, loose, tainted>>
    BY <1>3 DEF Provision, Cut, Elsewhere
  <2> QED  BY <2>1, <2>2 DEF JournalInv, Starting, Committed
<1>4. CASE (\E luck \in Chances(Tree) : Measure(luck)) \/ NoProposal \/ LoopEnds
  <2>1. /\ run.pc \in {"baseline", "propose"} /\ run'.pc \in {"propose", "report"}
        /\ run'.mine = run.mine
    BY <1>4 DEF Measure, NoProposal, LoopEnds, Shape, RunShape, Runs
  <2>2. UNCHANGED <<base, head, loose, tainted>>
    BY <1>4 DEF Measure, NoProposal, LoopEnds, Elsewhere, checkout
  <2> QED  BY <2>1, <2>2, QuietJournal DEF Starting
<1>5. ASSUME NEW c \in Candidates, NEW bill \in Bills, Propose(c, bill)  PROVE JournalInv'
  <2>1. run.pc = "propose" /\ run'.pc = "judge" /\ run'.mine = run.mine
    BY <1>5 DEF Propose, Shape, RunShape, Runs
  <2>2. UNCHANGED <<base, head, loose, tainted>>
    BY <1>5 DEF Propose, Elsewhere, checkout
  <2> QED  BY <2>1, <2>2, QuietJournal DEF Starting
<1>6. ASSUME NEW c \in run.cand, NEW luck, JudgeHardFails(c, luck) \/ JudgeCrashes(c)  PROVE JournalInv'
  BY <1>6, IdleJournal DEF JudgeHardFails, JudgeCrashes, HardFail, Elsewhere, checkout, JournalInv
<1>7. ASSUME NEW c \in run.cand, NEW luck, Discard(c, luck)  PROVE JournalInv'
  <2>1. run.pc = "judge" /\ run'.pc = "propose" /\ run'.mine = run.mine
    BY <1>7 DEF Discard, Shape, RunShape, Runs
  <2>2. UNCHANGED <<base, head, loose, tainted>>
    BY <1>7 DEF Discard, Elsewhere, checkout
  <2> QED  BY <2>1, <2>2, QuietJournal DEF Starting
<1>8. ASSUME NEW c \in run.cand, NEW luck, Keep(c, luck)  PROVE JournalInv'
  <2>1. /\ run.pc = "judge" /\ run'.pc = "keep" /\ run'.mine = run.mine \cup {c}
        /\ run.cand = {c} /\ run'.cand = {c}
    BY <1>8 DEF Keep, Shape, RunShape, Runs
  <2>2. UNCHANGED <<base, head, loose, tainted>>
    BY <1>8 DEF Keep, checkout
  <2>3. c \notin Tree
    BY <1>8 DEF Keep, JudgeKeeps, PassesD2
  <2>4. c \notin run.mine
    BY <2>1, <2>3 DEF JournalInv, Starting, Committed, Tree
  <2>5. Committed' = Committed
    BY <2>1, <2>4 DEF Committed
  <2>6. Tree' = Tree
    BY <2>2 DEF Tree
  <2> QED  BY <2>1, <2>2, <2>3, <2>5, <2>6 DEF JournalInv, Starting
<1>9. ASSUME NEW c \in run.cand, CommitKept(c)  PROVE JournalInv'
  <2>1. /\ run.pc = "keep" /\ run'.pc = "propose" /\ run'.mine = run.mine
        /\ run.cand = {c} /\ c \in Suite /\ c \notin Tree /\ c \in run.mine
    BY <1>9 DEF CommitKept, Shape, RunShape, Runs, IInv, JournalInv
  <2>2. /\ head' = head \cup Staged(loose \cup {c}) /\ loose' = loose \ Staged(loose)
        /\ UNCHANGED <<base, tainted>>
    BY <1>9 DEF CommitKept, Commit, Elsewhere
  <2>3. c \in Staged(loose \cup {c}) /\ (loose = {} => Staged(loose \cup {c}) = {c} /\ Staged(loose) = {})
    BY <2>1 DEF Staged, Suite
  <2>4. c \notin head /\ base \subseteq head /\ run.mine \ {c} \subseteq head \ base
    BY <2>1 DEF JournalInv, Starting, Committed, Tree
  <2>5. run.mine \subseteq head' \ base /\ base \subseteq head'
    BY <2>2, <2>3, <2>4
  <2>6. ASSUME ~tainted  PROVE run.mine = head' \ base /\ loose' = {}
    <3>1. loose = {} /\ run.mine \ {c} = head \ base
      BY <2>1, <2>6 DEF JournalInv, Starting, Committed
    <3>2. head' = head \cup {c} /\ loose' = {}
      BY <2>2, <2>3, <3>1
    <3> QED  BY <2>1, <2>4, <3>1, <3>2
  <2> QED  BY <2>1, <2>2, <2>5, <2>6 DEF JournalInv, Starting, Committed
<1>10. ASSUME NEW c \in run.cand, CommitFails(c)  PROVE JournalInv'
  BY <1>10, IdleJournal DEF CommitFails, HardFail
<1>11. ASSUME NEW c \in run.cand, KillAfterCommit(c)  PROVE JournalInv'
  <2>1. run' = Idle /\ loose' \subseteq loose /\ tainted' = tainted
    BY <1>11 DEF KillAfterCommit, Commit, Elsewhere
  <2> QED  BY <2>1, IdleJournal DEF JournalInv
<1>12. CASE Report
  <2>1. CASE run' = Idle
    BY <1>12, <2>1, IdleJournal DEF Report, Elsewhere, checkout, JournalInv
  <2>2. CASE run' = [run EXCEPT !.pc = "publish", !.report = run.mine]
    <3>1. run.pc = "report" /\ run'.pc = "publish" /\ run'.mine = run.mine /\ run'.report = run.mine
      BY <1>12, <2>2 DEF Report, Shape, RunShape, Runs
    <3>2. UNCHANGED <<base, head, loose, tainted>>
      BY <1>12 DEF Report, Elsewhere, checkout
    <3> QED  BY <3>1, <3>2 DEF JournalInv, Starting, Committed
  <2> QED  BY <1>12, <2>1, <2>2 DEF Report
<1>13. CASE Push
  <2>1. run.pc = "publish" /\ run'.pc = "draft" /\ run'.mine = run.mine
    BY <1>13 DEF Push, Shape, RunShape, Runs
  <2>2. UNCHANGED <<base, head, loose, tainted>>
    BY <1>13 DEF Push, checkout
  <2> QED  BY <2>1, <2>2, QuietJournal DEF Starting
<1>14. CASE Kill
  <2>1. PICK left \in InTheCheckout :
          loose' = loose \cup (left \ Tree) /\ tainted' = (tainted \/ loose' # loose)
    BY <1>14 DEF Kill
  <2>2. CASE tainted
    BY <2>1, <2>2, <1>14, IdleJournal DEF Kill
  <2>3. CASE loose' # loose
    BY <2>1, <2>3, <1>14, IdleJournal DEF Kill
  <2>4. CASE loose' = loose /\ loose = {}
    BY <2>4, <1>14, IdleJournal DEF Kill
  <2> QED  BY <2>2, <2>3, <2>4 DEF JournalInv
<1>15. CASE Merge \/ NextWeek
  BY <1>15 DEF Merge, NextWeek, checkout, JournalInv, Starting, Committed, Tree
<1>16. CASE UNCHANGED vars
  BY <1>16 DEF vars, checkout, JournalInv, Starting, Committed, Tree
<1> QED  BY <1>1, <1>2, <1>3, <1>4, <1>5, <1>6, <1>7, <1>8, <1>9, <1>10, <1>11, <1>12, <1>13,
            <1>14, <1>15, <1>16 DEF Next

\* What the pull request will say is on the branch is on it; and as long as no
\* run has left an edit in the checkout, it is all that is on it.
THEOREM ReportAlwaysMatches == Spec => []ReportMatchesTheBranch
<1>1. Init => IInv /\ Shape /\ JournalInv
  <2> SUFFICES ASSUME Init  PROVE JournalInv
    BY InvInit, ShapeInit
  <2>1. run.pc = "idle" /\ run.mine = {} /\ loose = {}
    BY DEF Init, Idle
  <2> QED  BY <2>1 DEF JournalInv, Starting
<1>2. IInv /\ Shape /\ JournalInv /\ [Next]_vars => (IInv /\ Shape /\ JournalInv)'
  BY InvNext, ShapeNext, JournalNext
<1>3. JournalInv => ReportMatchesTheBranch
  BY DEF JournalInv, ReportMatchesTheBranch, Starting, Committed
<1> QED  BY <1>1, <1>2, <1>3, PTL DEF Spec
--------------------------------------------------------------------------------
(* What the judge measures, and what it makes of that.                         *)

\* What a measurement of a tree has to say to be one: only the tree's tests are
\* red; and without a flaky one in it, all are green and kill what they prove.
Sound(known, tree) ==
    /\ known.reds \subseteq tree
    /\ tree \cap Flaky = {} => /\ known.baseline => known.green = tree
                               /\ known.map => known.killed = Proved(tree)

\* While no run has left an edit behind, no red test is committed, and what is
\* cached for the base or held for the head of the branch is about that tree.
Measured ==
    \/ tainted
    \/ /\ head \cap Red = {} /\ base \cap Red = {} /\ \A tree \in remote : tree \cap Red = {}
       /\ run.pc = "keep" => run.cand \cap Red = {}
       /\ Sound(cache, base)
       /\ Starting => run.here = Unmeasured
       /\ ~Starting /\ ~OnBase => Sound(run.here, head)

LoopInv == IInv /\ Shape /\ JournalInv /\ Measured

\* A tree of candidates and mutants: a test fails on chance, on the target as it
\* is, or because it detects one of the mutants.
LEMMA RedTests ==
    ASSUME NEW S, NEW M, NEW chance, S \subseteq Candidates, M \subseteq Pool
    PROVE  \A c : c \in Reds(S \cup M, chance) <=>
             (c \in S /\ (c \in Red \cup chance \/ Proves[c] \cap M # {}))
<1>1. /\ Candidates \cap Pool = {} /\ \A c \in Candidates : Proves[c] \subseteq Pool
  BY LoopAssumption DEF LoopAssumption
<1>2. (S \cup M) \cap Candidates = S
  BY <1>1
<1>3. \A c \in S : Proves[c] \cap (S \cup M) = Proves[c] \cap M
  BY <1>1
<1> QED  BY <1>2, <1>3 DEF Reds

\* The others are green.
LEMMA GreenTests ==
    ASSUME NEW S, NEW M, NEW chance, S \subseteq Candidates, M \subseteq Pool
    PROVE  \A c : c \in Greens(S \cup M, chance) <=>
             (c \in S /\ c \notin Red \cup chance /\ Proves[c] \cap M = {})
<1>1. (S \cup M) \cap Candidates = S
  BY LoopAssumption DEF LoopAssumption
<1>2. Greens(S \cup M, chance) = S \ Reds(S \cup M, chance)
  BY <1>1 DEF Greens
<1>3. \A c : c \in Reds(S \cup M, chance) <=>
        (c \in S /\ (c \in Red \cup chance \/ Proves[c] \cap M # {}))
  BY RedTests
<1> QED  BY <1>2, <1>3

\* What a tree of candidates proves.
LEMMA ProvedBy ==
    ASSUME NEW S, S \subseteq Candidates
    PROVE  \A m : m \in Proved(S) <=> \E c \in S : m \in Proves[c]
<1>1. S \cap Candidates = S
  OBVIOUS
<1> QED  BY <1>1 DEF Proved

\* Chance decides nothing but the flaky tests.
LEMMA LuckFacts ==
    ASSUME NEW tree, NEW luck \in Chances(tree)
    PROVE  /\ luck.before \subseteq Flaky \cap Tree /\ luck.again \subseteq Flaky \cap Tree
           /\ luck.first \subseteq Flaky \cap tree /\ luck.second \subseteq Flaky \cap tree
           /\ \A m \in Pool : luck.map[m] \subseteq Flaky \cap Tree
           /\ \A m \in Pool : luck.d3[m] \subseteq Flaky \cap tree
<1>1. /\ luck.before \in ChancesIf(~Known.baseline, Tree)
      /\ luck.again \in ChancesIf(~Known.baseline, Tree)
      /\ luck.first \in ChancesIf(TRUE, tree) /\ luck.second \in ChancesIf(TRUE, tree)
      /\ luck.map \in [Pool -> ChancesIf(run.mode = "mutation" /\ ~Known.map, Tree)]
      /\ luck.d3 \in [Pool -> ChancesIf(run.mode = "mutation", tree)]
  BY DEF Chances
<1>2. /\ \A m \in Pool : luck.map[m] \in ChancesIf(run.mode = "mutation" /\ ~Known.map, Tree)
      /\ \A m \in Pool : luck.d3[m] \in ChancesIf(run.mode = "mutation", tree)
  <2> HIDE DEF ChancesIf
  <2> QED  BY <1>1
<1>3. luck.before \subseteq Flaky \cap Tree /\ luck.again \subseteq Flaky \cap Tree
  BY <1>1 DEF ChancesIf
<1>4. luck.first \subseteq Flaky \cap tree /\ luck.second \subseteq Flaky \cap tree
  BY <1>1 DEF ChancesIf
<1>5. ASSUME NEW m \in Pool
      PROVE  luck.map[m] \subseteq Flaky \cap Tree /\ luck.d3[m] \subseteq Flaky \cap tree
  BY <1>2 DEF ChancesIf
<1> QED  BY <1>3, <1>4, <1>5

\* The checkout of a run that has cut its branch, as long as nothing was left
\* behind: the committed suite, none of it red.
LEMMA CleanCheckout ==
    ASSUME LoopInv, ~tainted, ~Starting
    PROVE  /\ loose = {} /\ Tree = head /\ head \in SUBSET Candidates /\ head \cap Red = {}
           /\ Sound(Known, head) /\ Known \in Measurements
<1>1. loose = {} /\ head \in SUBSET Candidates /\ head \cap Red = {}
  BY DEF LoopInv, JournalInv, IInv, Suite, Measured
<1>2. Sound(Known, head)
  BY DEF LoopInv, Measured, Known, OnBase
<1>3. Known \in Measurements
  BY MeasuredShape DEF LoopInv
<1> QED  BY <1>1, <1>2, <1>3 DEF Tree

\* A measurement that is made is sound whatever chance did, and so is one that
\* an earlier run or iteration has left.
LEMMA Learns ==
    ASSUME LoopInv, ~tainted, ~Starting, NEW tree, NEW luck \in Chances(tree)
    PROVE  /\ Sound(WithBaseline(luck), head)
           /\ WithBaseline(luck).baseline
           /\ Sound(WithMap(luck), head)
           /\ head \cap Flaky = {} => KillMap(luck) = Proved(head)
           /\ \A c : Sound(Learned(c, luck), head)
<1>1. /\ loose = {} /\ Tree = head /\ head \in SUBSET Candidates /\ head \cap Red = {}
      /\ Sound(Known, head) /\ Known \in Measurements
  BY CleanCheckout
<1>2. luck.before \subseteq Flaky \cap head /\ \A m \in Pool : luck.map[m] \subseteq Flaky \cap head
  BY <1>1, LuckFacts
<1>3. Reds(head, luck.before) \subseteq head
  BY DEF Reds
<1>4. ASSUME head \cap Flaky = {}  PROVE Greens(head, luck.before) = head
  <2>1. luck.before = {}
    BY <1>2, <1>4
  <2> DEFINE none == {}
             chance == luck.before
  <2>2. none \subseteq Pool /\ head \cup none = head /\ head \subseteq Candidates
    BY <1>1
  <2> HIDE DEF none, chance
  <2>3. \A c : c \in Greens(head \cup none, chance) <=>
          c \in head /\ c \notin Red \cup chance /\ Proves[c] \cap none = {}
    BY <2>2, GreenTests
  <2>4. \A c : c \in Greens(head, chance) <=> c \in head
    BY <1>1, <2>1, <2>2, <2>3 DEF none, chance
  <2>5. \A c \in Greens(head, chance) : c \in head
    BY <2>4
  <2> QED  BY <2>4, <2>5 DEF chance
<1>5. Sound(WithBaseline(luck), head) /\ WithBaseline(luck).baseline
  <2>1. CASE Known.baseline
    BY <1>1, <2>1 DEF WithBaseline
  <2>2. CASE ~Known.baseline
    <3> DEFINE made == [Known EXCEPT !.baseline = TRUE, !.reds = Reds(head, luck.before),
                                     !.green = Greens(head, luck.before)]
    <3>1. WithBaseline(luck) = made
      BY <1>1, <2>2 DEF WithBaseline
    <3>2. /\ made.baseline = TRUE /\ made.reds = Reds(head, luck.before)
          /\ made.green = Greens(head, luck.before)
          /\ made.map = Known.map /\ made.killed = Known.killed
      <4> HIDE DEF Known, Reds, Greens
      <4> QED  BY <1>1 DEF Measurements
    <3> HIDE DEF made
    <3> QED  BY <1>1, <1>3, <1>4, <3>1, <3>2 DEF Sound
  <2> QED  BY <2>1, <2>2
<1>6. ASSUME head \cap Flaky = {}  PROVE KillMap(luck) = Proved(head)
  <2>1. CASE Known.map
    BY <1>1, <1>6, <2>1 DEF KillMap, Sound
  <2>2. CASE ~Known.map
    <3>1. WithBaseline(luck).green = head
      BY <1>5, <1>6 DEF Sound
    <3>2. \A m \in Pool : luck.map[m] = {}
      BY <1>2, <1>6
    <3>3. ASSUME NEW m \in Pool
          PROVE  Greens(head \cup {m}, luck.map[m]) = {c \in head : m \notin Proves[c]}
      <4> DEFINE only == {m}
                 chance == luck.map[m]
      <4>1. only \subseteq Pool /\ head \subseteq Candidates
        BY <1>1
      <4> HIDE DEF only, chance
      <4>2. \A c : c \in Greens(head \cup only, chance) <=>
              c \in head /\ c \notin Red \cup chance /\ Proves[c] \cap only = {}
        BY <4>1, GreenTests
      <4>3. chance = {}
        BY <3>2 DEF chance
      <4>4. \A c : c \in Greens(head \cup only, chance) <=> c \in head /\ m \notin Proves[c]
        BY <1>1, <4>2, <4>3 DEF only
      <4> QED  BY <4>4 DEF only, chance
    <3>4. KillMap(luck) = {m \in Pool : ~ head \subseteq Greens(head \cup {m}, luck.map[m])}
      BY <1>1, <2>2, <3>1 DEF KillMap
    <3>5. KillMap(luck) = {m \in Pool : \E c \in head : m \in Proves[c]}
      BY <3>3, <3>4
    <3>6. \A m : m \in Proved(head) <=> \E c \in head : m \in Proves[c]
      <4>1. head \subseteq Candidates
        BY <1>1
      <4> QED  BY <4>1, ProvedBy
    <3>7. \A c \in head : Proves[c] \subseteq Pool
      BY <1>1, LoopAssumption DEF LoopAssumption
    <3> QED  BY <3>5, <3>6, <3>7
  <2> QED  BY <2>1, <2>2
<1>7. Sound(WithMap(luck), head)
  <2>1. WithBaseline(luck) \in Measurements
    BY MeasuredShape DEF LoopInv
  <2>2. /\ WithMap(luck).baseline = WithBaseline(luck).baseline
        /\ WithMap(luck).reds = WithBaseline(luck).reds
        /\ WithMap(luck).green = WithBaseline(luck).green
        /\ WithMap(luck).killed = KillMap(luck)
    <3> HIDE DEF WithBaseline, KillMap
    <3> QED  BY <2>1 DEF WithMap, Measurements
  <2> QED  BY <1>5, <1>6, <2>2 DEF Sound
<1> QED  BY <1>1, <1>5, <1>6, <1>7 DEF Learned

\* Nothing has been said of a tree that has not been measured.
LEMMA UnmeasuredIsSound ==
    ASSUME NEW tree  PROVE Sound(Unmeasured, tree)
  BY DEF Sound, Unmeasured

\* A run that is over holds no measurement.
LEMMA IdleMeasured ==
    ASSUME ~tainted, Measured, run' = Idle, UNCHANGED <<base, remote>>,
           head' \cap Red = {}, Sound(cache', base)
    PROVE  Measured'
<1>1. run'.pc = "idle" /\ run'.here = Unmeasured
  BY DEF Idle
<1> QED  BY <1>1 DEF Measured, Starting

\* A candidate the judge keeps was not red before, and is not now.
LEMMA KeptIsNotRed ==
    ASSUME LoopInv, ~tainted, ~Starting, NEW c \in Candidates, NEW luck \in Chances(Tree \cup {c}),
           PassesD2(c, luck)
    PROVE  c \notin Red
<1>1. Tree = head /\ head \subseteq Candidates
  BY CleanCheckout
<1>2. c \notin head /\ Reds(head \cup {c}, luck.first) \subseteq WithBaseline(luck).reds
  BY <1>1 DEF PassesD2
<1>3. WithBaseline(luck).reds \subseteq head
  BY Learns DEF Sound
<1>4. c \notin Reds(head \cup {c}, luck.first)
  BY <1>2, <1>3
<1> QED  BY <1>4 DEF Reds

\* Judging leaves measurements that are about the trees they are named after.
LEMMA JudgingIsSound ==
    ASSUME LoopInv, ~tainted, run.pc = "judge", NEW c, NEW luck \in Chances(Tree \cup {c}),
           Cached(Learned(c, luck)), UNCHANGED <<base, head>>
    PROVE  /\ Sound(cache', base)
           /\ ~OnBase => Sound(Here(Learned(c, luck)), head)
<1>1. Sound(Learned(c, luck), head)
  BY Learns DEF Starting
<1>2. Sound(cache, base)
  BY DEF LoopInv, Measured
<1> HIDE DEF Learned
<1> QED  BY <1>1, <1>2 DEF Cached, Here, OnBase

\* A measurement is of the suite it is kept for, cached or not.
LEMMA MeasuredNext ==
    ASSUME LoopInv, [Next]_vars
    PROVE  Measured'
<1>19. tainted => tainted'
  BY DEF Next, LaunchSkipped, Launch, StepFails, Provision, MeasureFails, Measure, Propose,
         NoProposal, WriterFails, LoopEnds, JudgeHardFails, Discard, Keep, JudgeCrashes, CommitKept,
         CommitFails, KillAfterCommit, Report, Push, OpenDraft, Kill, Merge, NextWeek, Elsewhere, vars
<1> SUFFICES ASSUME ~tainted'  PROVE Measured'
  BY DEF Measured
<1> ~tainted
  BY <1>19
<1>1. /\ head \cap Red = {} /\ base \cap Red = {} /\ \A tree \in remote : tree \cap Red = {}
      /\ run.pc = "keep" => run.cand \cap Red = {}
      /\ Sound(cache, base) /\ loose = {}
      /\ Starting => run.here = Unmeasured
      /\ ~Starting /\ ~OnBase => Sound(run.here, head)
      /\ Measured /\ run \in Runs
  BY DEF LoopInv, Measured, JournalInv, Shape, RunShape
<1>2. CASE LaunchSkipped \/ StepFails \/ WriterFails \/ OpenDraft \/ Kill
  BY <1>1, <1>2, IdleMeasured
  DEF LaunchSkipped, StepFails, WriterFails, OpenDraft, Kill, HardFail, Elsewhere, checkout, published
<1>3. ASSUME NEW mode \in Modes, Launch(mode)  PROVE Measured'
  <2>1. run'.pc = "provision" /\ run'.here = Unmeasured
    BY <1>3 DEF Launch, Idle
  <2> QED  BY <1>1, <1>3, <2>1 DEF Launch, Elsewhere, checkout, published, Measured, Starting
<1>4. CASE Provision
  <2>1. run.pc = "provision" /\ run'.pc = "baseline"
    BY <1>1, <1>4 DEF Provision, Runs
  <2>2. head' = base /\ UNCHANGED <<base, remote, cache>>
    BY <1>4 DEF Provision, Cut, Elsewhere, published
  <2> QED  BY <1>1, <2>1, <2>2 DEF Measured, Starting, OnBase
<1>5. ASSUME NEW luck \in Chances(Tree), MeasureFails(luck) \/ Measure(luck)  PROVE Measured'
  <2>1. run.pc = "baseline" /\ ~Starting
    BY <1>5 DEF MeasureFails, Measure, Starting
  <2>2. head = base
    BY <2>1 DEF LoopInv, JournalInv
  <2>3. Sound(WithBaseline(luck), base) /\ Sound(WithMap(luck), base)
    BY <2>1, <2>2, Learns
  <2>4. UNCHANGED <<base, head, remote>>
    BY <1>5 DEF MeasureFails, Measure, Elsewhere, checkout, published
  <2>5. CASE MeasureFails(luck)
    <3>1. Sound(cache', base)
      BY <1>1, <2>3, <2>5 DEF MeasureFails
    <3> QED  BY <1>1, <2>4, <2>5, <3>1, IdleMeasured DEF MeasureFails, HardFail
  <2>6. CASE Measure(luck)
    <3>1. Sound(cache', base)
      BY <2>3, <2>6 DEF Measure
    <3>2. run'.pc = "propose"
      BY <1>1, <2>6 DEF Measure, Runs
    <3> QED  BY <1>1, <2>2, <2>4, <3>1, <3>2 DEF Measured, Starting, OnBase
  <2> QED  BY <1>5, <2>5, <2>6
<1>6. ASSUME UNCHANGED <<base, head, remote, cache>>, ~Starting, ~Starting', run'.pc # "keep",
             run'.here = run.here
      PROVE  Measured'
  BY <1>1, <1>6 DEF Measured, OnBase
<1>7. ASSUME NEW c \in Candidates, NEW bill \in Bills, Propose(c, bill)  PROVE Measured'
  <2>1. run.pc = "propose" /\ run'.pc = "judge" /\ run'.here = run.here
    BY <1>1, <1>7 DEF Propose, Runs
  <2> QED  BY <1>6, <1>7, <2>1 DEF Propose, Elsewhere, checkout, published, Starting
<1>8. CASE NoProposal \/ LoopEnds
  <2>1. run.pc = "propose" /\ run'.pc = "report" /\ run'.here = run.here
    BY <1>1, <1>8 DEF NoProposal, LoopEnds, Runs
  <2> QED  BY <1>6, <1>8, <2>1 DEF NoProposal, LoopEnds, Elsewhere, checkout, published, Starting
<1>9. ASSUME NEW c \in run.cand, NEW luck \in Chances(Tree \cup {c}), JudgeHardFails(c, luck)  PROVE Measured'
  <2>1. Sound(cache', base)
    BY <1>9, JudgingIsSound DEF JudgeHardFails, Elsewhere, checkout
  <2> QED  BY <1>1, <1>9, <2>1, IdleMeasured DEF JudgeHardFails, HardFail, Elsewhere, checkout, published
<1>10. ASSUME NEW c \in run.cand, NEW luck \in Chances(Tree \cup {c}), Discard(c, luck) \/ Keep(c, luck)
       PROVE  Measured'
  <2>1. run.pc = "judge" /\ run.cand = {c} /\ c \in Candidates
    BY <1>1, <1>10 DEF Discard, Keep, Runs
  <2>2. UNCHANGED <<base, head, remote>> /\ Cached(Learned(c, luck))
    BY <1>10 DEF Discard, Keep, Elsewhere, checkout, published
  <2>3. Sound(cache', base) /\ (~OnBase => Sound(Here(Learned(c, luck)), head))
    BY <2>1, <2>2, JudgingIsSound
  <2>4. run'.here = Here(Learned(c, luck)) /\ run'.pc \in {"propose", "keep"}
    <3> HIDE DEF Here, Learned
    <3> QED  BY <1>1, <1>10 DEF Discard, Keep, Runs
  <2>5. run'.pc = "keep" => run'.cand \cap Red = {}
    <3>1. CASE Discard(c, luck)
      BY <1>1, <3>1 DEF Discard, Runs
    <3>2. CASE Keep(c, luck)
      <4>1. c \notin Red
        BY <2>1, <3>2, KeptIsNotRed DEF Keep, JudgeKeeps, Starting
      <4>2. run'.cand = {c}
        BY <1>1, <2>1, <3>2 DEF Keep, Runs
      <4> QED  BY <4>1, <4>2
    <3> QED  BY <1>10, <3>1, <3>2
  <2> QED  BY <1>1, <2>2, <2>3, <2>4, <2>5 DEF Measured, Starting, OnBase
<1>11. ASSUME NEW c \in run.cand, JudgeCrashes(c)  PROVE Measured'
  BY <1>1, <1>11, IdleMeasured DEF JudgeCrashes, HardFail, Elsewhere, checkout, published
<1>12. ASSUME NEW c \in run.cand, CommitKept(c) \/ KillAfterCommit(c)  PROVE Measured'
  <2>1. run.pc = "keep" /\ run.cand = {c} /\ c \notin Red /\ Commit(c)
    BY <1>1, <1>12 DEF CommitKept, KillAfterCommit
  <2>2. head' \cap Red = {}
    BY <1>1, <2>1 DEF Commit, Staged
  <2>3. UNCHANGED <<base, remote, cache>>
    BY <1>12 DEF CommitKept, KillAfterCommit, Elsewhere, published
  <2>4. CASE CommitKept(c)
    <3>1. run'.pc = "propose" /\ run'.here = Unmeasured
      BY <1>1, <2>4 DEF CommitKept, AfterCommit, Runs
    <3> QED  BY <1>1, <2>2, <2>3, <3>1, UnmeasuredIsSound DEF Measured, Starting
  <2>5. CASE KillAfterCommit(c)
    BY <1>1, <2>2, <2>3, <2>5, IdleMeasured DEF KillAfterCommit
  <2> QED  BY <1>12, <2>4, <2>5
<1>13. ASSUME NEW c \in run.cand, CommitFails(c)  PROVE FALSE
  BY <1>13 DEF CommitFails
<1>14. CASE Report
  <2>1. CASE run' = Idle
    BY <1>1, <1>14, <2>1, IdleMeasured DEF Report, Elsewhere, checkout, published
  <2>2. CASE run' = [run EXCEPT !.pc = "publish", !.report = run.mine]
    <3>1. run.pc = "report" /\ run'.pc = "publish" /\ run'.here = run.here
      BY <1>1, <1>14, <2>2 DEF Report, Runs
    <3> QED  BY <1>6, <1>14, <3>1 DEF Report, Elsewhere, checkout, published, Starting
  <2> QED  BY <1>14, <2>1, <2>2 DEF Report
<1>15. CASE Push
  <2>1. run.pc = "publish" /\ run'.pc = "draft" /\ run'.here = run.here
    BY <1>1, <1>15 DEF Push, Runs
  <2>2. remote' = {head} /\ UNCHANGED <<base, head, cache>>
    BY <1>15 DEF Push, checkout
  <2> QED  BY <1>1, <2>1, <2>2 DEF Measured, Starting, OnBase
<1>16. CASE Merge
  <2>1. run.pc = "idle" /\ base' = base \cup UNION remote /\ cache' = Unmeasured
        /\ UNCHANGED <<head, run, remote>>
    BY <1>16 DEF Merge, checkout
  <2>2. base' \cap Red = {}
    BY <1>1, <2>1
  <2> QED  BY <1>1, <2>1, <2>2, UnmeasuredIsSound DEF Measured, Starting
<1>17. CASE NextWeek
  BY <1>1, <1>17 DEF NextWeek, checkout, Measured, Starting
<1>18. CASE UNCHANGED vars
  BY <1>1, <1>18 DEF vars, checkout, published, Measured, Starting, OnBase
<1> QED  BY <1>2, <1>3, <1>4, <1>5, <1>7, <1>8, <1>9, <1>10, <1>11, <1>12, <1>13, <1>14, <1>15,
            <1>16, <1>17, <1>18 DEF Next
\* On a clean checkout without flaky tests D1 and D2 come to what they ask for.
LEMMA D2IsDeserved ==
    ASSUME LoopInv, ~tainted, ~Starting, NEW c \in Candidates, NEW luck \in Chances(Tree \cup {c}),
           (head \cup {c}) \cap Flaky = {}
    PROVE  PassesD2(c, luck) <=> c \notin Outside \cup Red \cup head
<1>1. Tree = head /\ head \subseteq Candidates /\ head \cap Red = {}
  BY CleanCheckout
<1>2. luck.before = {} /\ luck.again = {} /\ luck.first = {} /\ luck.second = {}
  BY <1>1, LuckFacts
<1>3. ~BaselineFails(luck)
  BY <1>2 DEF BaselineFails
<1>4. WithBaseline(luck).reds \subseteq head
  BY Learns DEF Sound
<1>5. \A d : d \in Reds(head \cup {c}, luck.first) <=> (d \in head \cup {c} /\ d \in Red)
  <2> DEFINE none == {}
             tree == head \cup {c}
             chance == luck.first
  <2>1. tree \subseteq Candidates /\ none \subseteq Pool /\ tree \cup none = tree
    BY <1>1
  <2> HIDE DEF none, tree, chance
  <2>2. \A d : d \in Reds(tree \cup none, chance) <=>
          (d \in tree /\ (d \in Red \cup chance \/ Proves[d] \cap none # {}))
    BY <2>1, RedTests
  <2>3. \A d : d \in Reds(tree, chance) <=> (d \in tree /\ d \in Red)
    BY <1>2, <2>1, <2>2 DEF none, chance
  <2> QED  BY <2>3 DEF tree, chance
<1>6. Reds(head \cup {c}, luck.first) \subseteq WithBaseline(luck).reds <=> c \notin Red \/ c \in head
  <2> HIDE DEF Reds, WithBaseline
  <2>1. ASSUME c \in Red, c \notin head  PROVE ~ Reds(head \cup {c}, luck.first) \subseteq WithBaseline(luck).reds
    BY <1>4, <1>5, <2>1
  <2>2. ASSUME c \notin Red \/ c \in head  PROVE \A d : d \notin Reds(head \cup {c}, luck.first)
    BY <1>1, <1>5, <2>2
  <2> QED  BY <2>1, <2>2
<1> HIDE DEF Reds, WithBaseline, BaselineFails
<1> QED  BY <1>1, <1>2, <1>3, <1>6 DEF PassesD2, Measurable

\* And D3 finds the mutants that the candidate detects and the suite does not.
LEMMA D3IsDeserved ==
    ASSUME LoopInv, ~tainted, ~Starting, NEW c \in Candidates \ Red, NEW luck \in Chances(Tree \cup {c}),
           (head \cup {c}) \cap Flaky = {}
    PROVE  /\ Survivors(luck) = Pool \ Proved(head)
           /\ \A m : m \in KilledBy(c, luck) <=> (m \in Proves[c] /\ m \notin Proved(head))
<1>1. Tree = head /\ head \subseteq Candidates /\ head \cap Red = {}
  BY CleanCheckout
<1>2. luck.first = {} /\ \A m \in Pool : luck.d3[m] = {}
  BY <1>1, LuckFacts
<1>3. head \cap Flaky = {}
  OBVIOUS
<1>4. KillMap(luck) = Proved(head)
  BY <1>3, Learns
<1>5. Survivors(luck) = Pool \ Proved(head)
  BY <1>4 DEF Survivors
<1>6. \A m : m \in Proved(head) <=> \E d \in head : m \in Proves[d]
  BY <1>1, ProvedBy
<1> DEFINE tree == head \cup {c}
<1>7. tree \subseteq Candidates /\ tree \cap Red = {}
  BY <1>1
<1>8. \A d : d \in Greens(tree, luck.first) <=> d \in tree
  <2> DEFINE none == {}
             chance == luck.first
  <2>1. none \subseteq Pool /\ tree \cup none = tree
    OBVIOUS
  <2> HIDE DEF none, tree, chance
  <2>2. \A d : d \in Greens(tree \cup none, chance) <=>
          (d \in tree /\ d \notin Red \cup chance /\ Proves[d] \cap none = {})
    BY <1>7, <2>1, GreenTests
  <2> QED  BY <1>2, <1>7, <2>1, <2>2 DEF none, chance
<1>9. ASSUME NEW m \in Pool
      PROVE  \A d : d \in Greens(tree \cup {m}, luck.d3[m]) <=> (d \in tree /\ m \notin Proves[d])
  <2> DEFINE only == {m}
             chance == luck.d3[m]
  <2>1. only \subseteq Pool
    OBVIOUS
  <2> HIDE DEF only, tree, chance
  <2>2. \A d : d \in Greens(tree \cup only, chance) <=>
          (d \in tree /\ d \notin Red \cup chance /\ Proves[d] \cap only = {})
    BY <1>7, <2>1, GreenTests
  <2>3. chance = {}
    BY <1>2 DEF chance
  <2>4. \A d : d \in Greens(tree \cup only, chance) <=> (d \in tree /\ m \notin Proves[d])
    BY <1>7, <2>2, <2>3 DEF only
  <2> QED  BY <2>4 DEF only, chance
<1>10. \A m : tree \cup {m} = head \cup {c, m}
  OBVIOUS
<1>11. ASSUME NEW m \in Pool, m \notin Proved(head)
       PROVE  (~ Greens(tree, luck.first) \subseteq Greens(head \cup {c, m}, luck.d3[m])) <=> m \in Proves[c]
  <2>1. \A d : d \in Greens(head \cup {c, m}, luck.d3[m]) <=> (d \in tree /\ m \notin Proves[d])
    BY <1>9, <1>10
  <2>2. \A d \in head : m \notin Proves[d]
    BY <1>6, <1>11
  <2> HIDE DEF Greens
  <2> QED  BY <1>8, <2>1, <2>2
<1>12. KilledBy(c, luck) = {m \in Pool \ Proved(head) :
                             ~ Greens(tree, luck.first) \subseteq Greens(head \cup {c, m}, luck.d3[m])}
  BY <1>1, <1>5 DEF KilledBy
<1>13. Proves[c] \subseteq Pool
  BY LoopAssumption DEF LoopAssumption
<1> HIDE DEF tree, Greens
<1> QED  BY <1>5, <1>11, <1>12, <1>13

\* A judgement on a clean checkout keeps the worthy and discards the others.
LEMMA JudgedRight ==
    ASSUME LoopInv, ~tainted, run.pc = "judge", NEW c \in Candidates, NEW luck \in Chances(Tree \cup {c}),
           (head \cup {c}) \cap Flaky = {}
    PROVE  /\ JudgeKeeps(c, luck) => Worthy(c)
           /\ Worthy(c) /\ ~JudgeFails(c, luck) => JudgeKeeps(c, luck)
<1>1. ~Starting /\ Tree = head /\ run.mode \in {"mutation", "schema-path", "off"}
  BY CleanCheckout DEF Starting, LoopInv, Shape, RunShape, Runs
<1>2. PassesD2(c, luck) <=> c \notin Outside \cup Red \cup head
  BY <1>1, D2IsDeserved
<1>3. ASSUME c \notin Red
      PROVE  AddsValue(c, luck) <=> (run.mode # "off" => ~ Proves[c] \subseteq Proved(head))
  <2>1. \A m : m \in KilledBy(c, luck) <=> (m \in Proves[c] /\ m \notin Proved(head))
    BY <1>1, <1>3, D3IsDeserved
  <2>2. KilledBy(c, luck) # {} <=> ~ Proves[c] \subseteq Proved(head)
    BY <2>1
  <2>3. CASE run.mode = "mutation"
    BY <2>2, <2>3 DEF AddsValue
  <2>4. CASE run.mode = "schema-path"
    BY <1>1, <2>4 DEF AddsValue
  <2>5. CASE run.mode = "off"
    BY <2>5 DEF AddsValue
  <2> QED  BY <1>1, <2>3, <2>4, <2>5
<1>4. Worthy(c) <=> (c \notin Outside \cup Red \cup head
                      /\ (run.mode # "off" => ~ Proves[c] \subseteq Proved(head)))
  BY DEF Worthy
<1> HIDE DEF PassesD2, AddsValue, D3Fails, Worthy
<1>5. JudgeKeeps(c, luck) => Worthy(c)
  BY <1>2, <1>3, <1>4 DEF JudgeKeeps
<1>6. Worthy(c) /\ ~JudgeFails(c, luck) => JudgeKeeps(c, luck)
  BY <1>2, <1>3, <1>4 DEF JudgeKeeps, JudgeFails
<1> QED  BY <1>5, <1>6

\* Neither the cache of earlier runs nor what earlier iterations measured changes
\* a verdict: while no run has left an edit in the checkout and no flaky test is
\* in play, a judgement keeps exactly the candidates that D1-D3 are meant to keep.
THEOREM VerdictsAlwaysDeserved == Spec => VerdictsAreDeserved
<1>1. Init => LoopInv
  <2> SUFFICES ASSUME Init  PROVE JournalInv /\ Measured
    BY InvInit, ShapeInit DEF LoopInv
  <2>1. run.pc = "idle" /\ run.mine = {} /\ run.here = Unmeasured /\ loose = {}
    BY DEF Init, Idle
  <2>2. JournalInv
    BY <2>1 DEF JournalInv, Starting
  <2>3. Measured
    BY <2>1, UnmeasuredIsSound DEF Init, Measured, Starting
  <2> QED  BY <2>2, <2>3
<1>2. LoopInv /\ [Next]_vars => LoopInv'
  BY InvNext, ShapeNext, JournalNext, MeasuredNext DEF LoopInv
<1>3. ASSUME LoopInv, [Next]_vars, run.pc = "judge", run'.pc \in {"propose", "keep"}, ~tainted,
             (head \cup run.cand) \cap Flaky = {}
      PROVE  run'.pc = "keep" <=> \A c \in run.cand : Worthy(c)
  <2>1. Idle.pc = "idle"
    BY DEF Idle
  <2>2. PICK c \in run.cand : \E luck \in Chances(Tree \cup {c}) : Discard(c, luck) \/ Keep(c, luck)
    <3> HIDE DEF Idle
    <3> QED  BY <1>3, <2>1
             DEF Next, LaunchSkipped, Launch, StepFails, Provision, MeasureFails, Measure, Propose,
                 NoProposal, WriterFails, LoopEnds, JudgeHardFails, JudgeCrashes, CommitKept,
                 CommitFails, KillAfterCommit, Report, Push, OpenDraft, Kill, Merge, NextWeek,
                 HardFail, vars
  <2>8. PICK luck \in Chances(Tree \cup {c}) : Discard(c, luck) \/ Keep(c, luck)
    BY <2>2
  <2>3. run \in Runs /\ run.cand = {c} /\ c \in Candidates
    BY <2>8, <1>3 DEF Discard, Keep, LoopInv, Shape, RunShape, Runs
  <2>4. (head \cup {c}) \cap Flaky = {}
    BY <1>3, <2>3
  <2>5. /\ JudgeKeeps(c, luck) => Worthy(c)
        /\ Worthy(c) /\ ~JudgeFails(c, luck) => JudgeKeeps(c, luck)
    BY <1>3, <2>8, <2>3, <2>4, JudgedRight
  <2>6. CASE Discard(c, luck)
    <3>1. run'.pc = "propose" /\ ~JudgeFails(c, luck) /\ ~JudgeKeeps(c, luck)
      BY <2>3, <2>6 DEF Discard, Runs
    <3> QED  BY <2>3, <2>5, <3>1
  <2>7. CASE Keep(c, luck)
    <3>1. run'.pc = "keep" /\ JudgeKeeps(c, luck)
      BY <2>3, <2>7 DEF Keep, Runs
    <3> QED  BY <2>3, <2>5, <3>1
  <2> QED  BY <2>8, <2>6, <2>7
<1> QED  BY <1>1, <1>2, <1>3, PTL DEF Spec, VerdictsAreDeserved
================================================================================
