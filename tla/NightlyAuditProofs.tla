--------------------------- MODULE NightlyAuditProofs ---------------------------
(***************************************************************************)
(* The verdict of a night, and the exit codes of two of its gates, which   *)
(* boot the target and are modelled step by step.                          *)
(*                                                                         *)
(* The night: proved for every combination of what the nine gates may      *)
(* experience, where the runs of TLC let a few of them deviate.  Two facts *)
(* carry the argument.  The classifier, applied to the exit codes that the *)
(* script takes from what its gates experienced, answers as the worst of   *)
(* them did; that is a fact about operators.  And when a run is            *)
(* classified, every gate has come to its turn, and each experienced only  *)
(* what a gate of its kind can; that is an invariant of the run.           *)
(*                                                                         *)
(* The gates that boot the target: proved for every set of targets and     *)
(* number of guessed flags.  While an attempt is at work, whoever listens  *)
(* on its port was started for it, unless a stranger came; what its own    *)
(* command line did is remembered for the verdict; and the answers so far  *)
(* leave open only what the server deserves.  Of the rebinding gate it is  *)
(* enough that nothing is heard but what the target says, or silence.      *)
(***************************************************************************)
EXTENDS NightlyAudit, RebindProbe, BudgetGuardProofs, SequenceTheorems, TLAPS

\* What a gate can have experienced once it ran, whatever lockfile it found.
Possible == [g \in GateNames |->
    IF g \in Toolchain THEN {"clean", "defect", "hung", "unrunnable", "crashed"}
    ELSE IF g = "schema_drift"
         THEN {"clean", "defect", "hung", "unrunnable", "crashed", "absent", "off"}
    ELSE IF g \in {"transport_boot", "host_allowlist"}
         THEN {"clean", "defect", "exempt", "hung", "crashed", "off"}
    ELSE IF g = "shipped_artifact"
         THEN {"clean", "defect", "hung", "unrunnable", "crashed", "moved", "off"}
    ELSE IF g = "lockfile"
         THEN {"clean", "defect", "exempt", "hung", "unrunnable", "crashed", "moved", "off"}
    ELSE {"clean", "redteam", "contract", "other", "provider", "silent", "unrunnable", "hung"}]

\* Every gate has come to its turn.
AllRan == \A g \in GateNames : events[g] \in Possible[g]

EventsShape == events = [g \in GateNames |-> events[g]] /\ tests \in {TestsUnknown, 0, 1}
--------------------------------------------------------------------------------
(* The classifier on what happened.                                            *)

\* The gates by kind, so that a fact about each can be looked up.
LEMMA Gates ==
    GateNames = {"ruff", "mypy", "pytest", "schema_drift", "promptfoo_rc", "transport_boot",
                 "host_allowlist", "shipped_artifact", "lockfile"}
  BY DEF GateNames, Toolchain

\* What a gate can experience, kind by kind.
LEMMA PossibleFacts ==
    /\ \A g \in Toolchain : Possible[g] = {"clean", "defect", "hung", "unrunnable", "crashed"}
    /\ Possible["schema_drift"] =
          {"clean", "defect", "hung", "unrunnable", "crashed", "absent", "off"}
    /\ \A g \in {"transport_boot", "host_allowlist"} :
          Possible[g] = {"clean", "defect", "exempt", "hung", "crashed", "off"}
    /\ Possible["shipped_artifact"] =
          {"clean", "defect", "hung", "unrunnable", "crashed", "moved", "off"}
    /\ Possible["lockfile"] =
          {"clean", "defect", "exempt", "hung", "unrunnable", "crashed", "moved", "off"}
    /\ Possible["promptfoo_rc"] = {"clean", "redteam", "contract", "other",
                                   "provider", "silent", "unrunnable", "hung"}
  BY Gates DEF Possible, Toolchain

\* No answer that the exit code tells from a defect.
NeverRan(g) ==
    \/ events[g] = "unrunnable"
    \/ events[g] = "crashed" /\ g \in Remapped

\* What the exit code is taken for when it is neither a hang nor a 126 or 127.
Blamed(g) == events[g] \in {"defect", "absent"} \/ Charged(g)

\* The exit code tells what a gate went through, as far as the classifier asks.
LEMMA CodeFacts ==
    ASSUME EventsShape, AllRan
    PROVE  /\ \A g \in GateNames : Hung(Codes[g]) <=> events[g] = "hung"
           /\ \A g \in GateNames \ {"promptfoo_rc"} : CouldNotRun(Codes[g]) <=> NeverRan(g)
           /\ Codes["lockfile"] = 4 <=> events["lockfile"] = "moved"
           /\ Codes["pytest"] = 0 <=> events["pytest"] = "clean"
           /\ Codes["promptfoo_rc"] = 0 <=> events["promptfoo_rc"] \in {"clean", "silent"}
           /\ \A g \in GateNames \ {"promptfoo_rc"} :
                 ~Hung(Codes[g]) /\ ~CouldNotRun(Codes[g]) => (Red(Codes, g) <=> Blamed(g))
<1>1. \A g \in GateNames : Codes[g] = Code(g, events[g])
  BY DEF Codes
<1>2. \A g \in GateNames : events[g] \in Possible[g]
  BY DEF AllRan
<1>3. ASSUME NEW g \in Toolchain
      PROVE  /\ Hung(Codes[g]) <=> events[g] = "hung"
             /\ CouldNotRun(Codes[g]) <=> NeverRan(g)
             /\ Codes[g] = 0 <=> events[g] = "clean"
             /\ ~Hung(Codes[g]) /\ ~CouldNotRun(Codes[g]) => (Red(Codes, g) <=> Blamed(g))
  <2>1. g \in GateNames /\ Excused[g] = {} /\ g \notin Remapped /\ g # "lockfile"
    BY Gates DEF Toolchain, Excused, Remapped
  <2>2. events[g] \in {"clean", "defect", "hung", "unrunnable", "crashed"}
    BY <1>2, <2>1, PossibleFacts
  <2>3. Codes[g] = CASE events[g] = "clean" -> 0 [] events[g] = "hung" -> 124
                     [] events[g] = "unrunnable" -> 127
                     [] events[g] \in {"crashed", "defect"} -> 1
    BY <1>1, <2>1, <2>2 DEF Code
  <2> QED  BY <2>1, <2>2, <2>3 DEF Hung, CouldNotRun, Red, NeverRan, Blamed, Charged
<1>4. LET g == "schema_drift"
      IN  /\ Hung(Codes[g]) <=> events[g] = "hung"
          /\ CouldNotRun(Codes[g]) <=> NeverRan(g)
          /\ ~Hung(Codes[g]) /\ ~CouldNotRun(Codes[g]) => (Red(Codes, g) <=> Blamed(g))
  <2> DEFINE g == "schema_drift"
  <2>1. /\ g \in GateNames /\ g \notin Toolchain /\ Excused[g] = {} /\ g \notin Remapped
        /\ g # "lockfile"
    BY Gates DEF Toolchain, Excused, Remapped
  <2>2. events[g] \in {"clean", "defect", "hung", "unrunnable", "crashed", "absent", "off"}
    BY <1>2, <2>1, PossibleFacts
  <2> QED  BY <1>1, <2>1, <2>2 DEF Code, Hung, CouldNotRun, Red, NeverRan, Blamed, Charged
<1>5. ASSUME NEW g \in {"transport_boot", "host_allowlist"}
      PROVE  /\ Hung(Codes[g]) <=> events[g] = "hung"
             /\ CouldNotRun(Codes[g]) <=> NeverRan(g)
             /\ ~Hung(Codes[g]) /\ ~CouldNotRun(Codes[g]) => (Red(Codes, g) <=> Blamed(g))
  <2>1. g \in GateNames /\ g \notin Toolchain /\ g # "schema_drift" /\ g \in Remapped
        /\ Excused[g] \in {{3}, {3, 126, 127}}
    BY Gates DEF Toolchain, Excused, Remapped
  <2>2. events[g] \in {"clean", "defect", "exempt", "hung", "crashed", "off"}
    BY <1>2, <2>1, PossibleFacts
  <2> QED  BY <1>1, <2>1, <2>2 DEF Code, Hung, CouldNotRun, Red, NeverRan, Blamed, Charged
<1>6. LET g == "shipped_artifact"
      IN  /\ Hung(Codes[g]) <=> events[g] = "hung"
          /\ CouldNotRun(Codes[g]) <=> NeverRan(g)
          /\ ~Hung(Codes[g]) /\ ~CouldNotRun(Codes[g]) => (Red(Codes, g) <=> Blamed(g))
  <2> DEFINE g == "shipped_artifact"
  <2>1. /\ g \in GateNames /\ g \notin Toolchain /\ g # "schema_drift" /\ g # "lockfile"
        /\ Excused[g] = {126, 127} /\ g \notin Remapped
    BY Gates DEF Toolchain, Excused, Remapped
  <2>2. events[g] \in {"clean", "defect", "hung", "unrunnable", "crashed", "moved", "off"}
    BY <1>2, <2>1, PossibleFacts
  <2> QED  BY <1>1, <2>1, <2>2 DEF Code, Hung, CouldNotRun, Red, NeverRan, Blamed, Charged
<1>7. LET g == "lockfile"
      IN  /\ Hung(Codes[g]) <=> events[g] = "hung"
          /\ CouldNotRun(Codes[g]) <=> NeverRan(g)
          /\ Codes[g] = 4 <=> events[g] = "moved"
          /\ ~Hung(Codes[g]) /\ ~CouldNotRun(Codes[g]) => (Red(Codes, g) <=> Blamed(g))
  <2> DEFINE g == "lockfile"
  <2>1. /\ g \in GateNames /\ g \notin Toolchain /\ g # "schema_drift"
        /\ Excused[g] = {3, 4, 126, 127} /\ g \notin Remapped
    BY Gates DEF Toolchain, Excused, Remapped
  <2>2. events[g] \in {"clean", "defect", "exempt", "hung", "unrunnable", "crashed", "moved", "off"}
    BY <1>2, <2>1, PossibleFacts
  <2> QED  BY <1>1, <2>1, <2>2 DEF Code, Hung, CouldNotRun, Red, NeverRan, Blamed, Charged
<1>8. /\ Hung(Codes["promptfoo_rc"]) <=> events["promptfoo_rc"] = "hung"
      /\ Codes["promptfoo_rc"] = 0 <=> events["promptfoo_rc"] \in {"clean", "silent"}
  <2> DEFINE g == "promptfoo_rc"
  <2>1. g \in GateNames
    BY Gates
  <2>2. events[g] \in {"clean", "redteam", "contract", "other",
                       "provider", "silent", "unrunnable", "hung"}
    BY <1>2, <2>1, PossibleFacts
  <2> QED  BY <1>1, <2>1, <2>2 DEF Code, Hung
<1>9. /\ \A g \in GateNames : \/ g \in Toolchain \/ g \in {"transport_boot", "host_allowlist"}
                             \/ g \in {"schema_drift", "shipped_artifact", "lockfile", "promptfoo_rc"}
      /\ "pytest" \in Toolchain
  BY Gates DEF Toolchain
<1> QED  BY <1>3, <1>4, <1>5, <1>6, <1>7, <1>8, <1>9

\* What the output of promptfoo shows of the eval.
LEMMA OutputFacts ==
    ASSUME EventsShape, AllRan
    PROVE  LET e   == events["promptfoo_rc"]
               pfc == ClassifyPromptfoo(Output(e), Codes["promptfoo_rc"])
           IN /\ pfc.ran <=> e \notin {"silent", "unrunnable", "hung"}
              /\ "error" \in pfc.classes <=> e \in {"provider", "unrunnable", "hung"}
              /\ pfc.ran /\ "error" \notin pfc.classes =>
                    /\ "redteam" \in pfc.classes <=> e = "redteam"
                    /\ "contract" \in pfc.classes <=> e = "contract"
                    /\ "other" \in pfc.classes <=> e = "other"
<1> DEFINE e   == events["promptfoo_rc"]
           code == Codes["promptfoo_rc"]
           pfc == ClassifyPromptfoo(Output(e), code)
<1>1. e \in {"clean", "redteam", "contract", "other", "provider", "silent", "unrunnable", "hung"}
  BY Gates, PossibleFacts DEF AllRan
<1>2. code = 0 <=> e \in {"clean", "silent"}
  BY CodeFacts
<1>3. CASE e \in {"silent", "unrunnable", "hung"}
  <2>1. Output(e) = NoOutput
    BY <1>3 DEF Output
  <2>2. ~pfc.ran /\ pfc.classes = IF code = 0 THEN {} ELSE {"error"}
    BY <2>1 DEF ClassifyPromptfoo, NoOutput
  <2> QED  BY <1>2, <1>3, <2>2
<1>4. CASE e = "clean"
  <2>1. Output(e) = [written |-> TRUE, results |-> {Passed}]
    BY <1>4 DEF Output
  <2>2. pfc.ran /\ pfc.classes = {"passed"}
    BY <2>1 DEF ClassifyPromptfoo, ResultClass, Passed
  <2> QED  BY <1>4, <2>2
<1>5. CASE e \in {"redteam", "contract", "other", "provider"}
  <2> DEFINE failed == [error    |-> e = "provider", success |-> FALSE,
                        redteam  |-> e = "redteam", contract |-> e \in {"redteam", "contract"}]
  <2>1. Output(e) = [written |-> TRUE, results |-> {Passed, failed}]
    BY <1>5 DEF Output
  <2>2. ResultClass(failed) = IF e = "provider" THEN "error" ELSE e
    BY <1>5 DEF ResultClass
  <2>3. ResultClass(Passed) = "passed"
    BY DEF ResultClass, Passed
  <2> HIDE DEF failed
  <2>4. pfc.ran /\ pfc.classes = {"passed", IF e = "provider" THEN "error" ELSE e}
    BY <2>1, <2>2, <2>3 DEF ClassifyPromptfoo
  <2> QED  BY <1>5, <2>4
<1> QED  BY <1>1, <1>3, <1>4, <1>5

Unanswered == \E g \in GateNames : NoAnswer(g) /\ ~Charged(g)
Defective ==
    \E g \in GateNames :
        \/ Charged(g)
        \/ events[g] \in {"defect", "absent", "redteam", "contract", "other"}

\* Something is a reason for a hard failure exactly when a gate gave no answer, and
\* was not charged for it.
LEMMA HardFailMeansUnanswered ==
    ASSUME EventsShape, AllRan
    PROVE  HardFail(Codes, tests, ClassifyPromptfoo(Output(events["promptfoo_rc"]),
                                                    Codes["promptfoo_rc"]), TRUE)
             <=> Unanswered
<1> DEFINE pfc == ClassifyPromptfoo(Output(events["promptfoo_rc"]), Codes["promptfoo_rc"])
<1>1. \A g \in GateNames : events[g] \in Possible[g]
  BY DEF AllRan
<1>2. {"pytest", "lockfile", "promptfoo_rc"} \subseteq GateNames
  BY Gates
<1>3. HardFail(Codes, tests, pfc, TRUE) <=>
        \/ events["promptfoo_rc"] \in {"provider", "unrunnable", "hung", "silent"}
        \/ \E g \in GateNames \ {"promptfoo_rc"} : NeverRan(g)
        \/ events["lockfile"] = "moved"
        \/ \E g \in GateNames : events[g] = "hung"
        \/ events["pytest"] = "clean" /\ tests <= 0
  <2> HIDE DEF pfc
  <2>1. /\ pfc.ran <=> events["promptfoo_rc"] \notin {"silent", "unrunnable", "hung"}
        /\ "error" \in pfc.classes <=> events["promptfoo_rc"] \in {"provider", "unrunnable", "hung"}
    BY OutputFacts DEF pfc
  <2>2. (\E g \in GateNames \ {"promptfoo_rc"} : CouldNotRun(Codes[g]))
          <=> \E g \in GateNames \ {"promptfoo_rc"} : NeverRan(g)
    BY CodeFacts
  <2>3. (\E g \in GateNames : Hung(Codes[g])) <=> \E g \in GateNames : events[g] = "hung"
    BY CodeFacts
  <2>4. /\ Codes["lockfile"] = 4 <=> events["lockfile"] = "moved"
        /\ Codes["pytest"] = 0 <=> events["pytest"] = "clean"
    BY CodeFacts
  <2> QED  BY <2>1, <2>2, <2>3, <2>4 DEF HardFail
<1>4. \A g \in GateNames :
        /\ events[g] \in {"provider", "silent"} => g = "promptfoo_rc"
        /\ g = "promptfoo_rc" => events[g] \notin {"crashed", "moved"}
  BY <1>1, Gates, PossibleFacts DEF Toolchain
<1>5. Unanswered <=>
        \/ events["promptfoo_rc"] \in {"provider", "unrunnable", "hung", "silent"}
        \/ \E g \in GateNames \ {"promptfoo_rc"} : NeverRan(g)
        \/ events["lockfile"] = "moved"
        \/ \E g \in GateNames : events[g] = "hung"
        \/ events["pytest"] = "clean" /\ tests <= 0
  BY <1>2, <1>4 DEF Unanswered, NoAnswer, Charged, NeverRan
<1> QED  BY <1>3, <1>5

\* Where every gate answered or is charged, a flag is raised exactly when one of them
\* saw a defect, or is charged.
LEMMA FindingsMeanDefective ==
    ASSUME EventsShape, AllRan, ~Unanswered
    PROVE  Findings(Codes, ClassifyPromptfoo(Output(events["promptfoo_rc"]),
                                             Codes["promptfoo_rc"])) = {} <=> ~Defective
<1> DEFINE pfc == ClassifyPromptfoo(Output(events["promptfoo_rc"]), Codes["promptfoo_rc"])
<1>1. \A g \in GateNames : events[g] \in Possible[g]
  BY DEF AllRan
<1>2. \A g \in GateNames : /\ events[g] \notin {"hung", "unrunnable", "provider", "silent"}
                           /\ ~NeverRan(g)
  BY DEF Unanswered, NoAnswer, Charged, NeverRan
<1>3. \A g \in GateNames \ {"promptfoo_rc"} : Red(Codes, g) <=> Blamed(g)
  BY <1>2, CodeFacts
<1>4. LET e == events["promptfoo_rc"]
      IN /\ "redteam" \in pfc.classes <=> e = "redteam"
         /\ "contract" \in pfc.classes <=> e = "contract"
         /\ "other" \in pfc.classes <=> e = "other"
  <2>1. "promptfoo_rc" \in GateNames
    BY Gates
  <2> QED  BY <1>2, <2>1, OutputFacts
<1>5. Findings(Codes, pfc) = {} <=>
        /\ "redteam" \notin pfc.classes /\ "contract" \notin pfc.classes
        /\ "other" \notin pfc.classes
        /\ \A g \in GateNames \ {"promptfoo_rc"} : ~Red(Codes, g)
  <2> HIDE DEF pfc
  <2> DEFINE holds == [
          schema_drift          |-> Red(Codes, "schema_drift") \/ "contract" \in pfc.classes,
          redteam               |-> "redteam" \in pfc.classes,
          other_findings        |-> "other" \in pfc.classes,
          toolchain_fail        |-> \E g \in Toolchain : Red(Codes, g),
          transport_boot_fail   |-> Red(Codes, "transport_boot"),
          host_allowlist_fail   |-> Red(Codes, "host_allowlist"),
          shipped_artifact_fail |-> Red(Codes, "shipped_artifact"),
          lockfile_fail         |-> Red(Codes, "lockfile")]
  <2>1. Findings(Codes, pfc) = {flag \in DOMAIN holds : holds[flag]}
    BY DEF Findings
  <2>2. /\ DOMAIN holds = {"schema_drift", "redteam", "other_findings", "toolchain_fail",
                           "transport_boot_fail", "host_allowlist_fail",
                           "shipped_artifact_fail", "lockfile_fail"}
        /\ holds["schema_drift"] = (Red(Codes, "schema_drift") \/ "contract" \in pfc.classes)
        /\ holds["redteam"] = ("redteam" \in pfc.classes)
        /\ holds["other_findings"] = ("other" \in pfc.classes)
        /\ holds["toolchain_fail"] = (\E g \in Toolchain : Red(Codes, g))
        /\ holds["transport_boot_fail"] = Red(Codes, "transport_boot")
        /\ holds["host_allowlist_fail"] = Red(Codes, "host_allowlist")
        /\ holds["shipped_artifact_fail"] = Red(Codes, "shipped_artifact")
        /\ holds["lockfile_fail"] = Red(Codes, "lockfile")
    OBVIOUS
  <2> HIDE DEF holds
  <2>3. GateNames \ {"promptfoo_rc"} = Toolchain \cup {"schema_drift", "transport_boot",
                                       "host_allowlist", "shipped_artifact", "lockfile"}
    BY DEF GateNames, Toolchain
  <2> QED  BY <2>1, <2>2, <2>3
<1>6. \A g \in GateNames : events[g] \in {"redteam", "contract", "other"} => g = "promptfoo_rc"
  BY <1>1, Gates, PossibleFacts DEF Toolchain
<1>7. /\ "promptfoo_rc" \in GateNames
      /\ events["promptfoo_rc"] \notin {"defect", "absent", "crashed", "moved"}
  BY <1>1, Gates, PossibleFacts
<1>8. Defective <=>
        \/ events["promptfoo_rc"] \in {"redteam", "contract", "other"}
        \/ \E g \in GateNames \ {"promptfoo_rc"} : Blamed(g)
  BY <1>6, <1>7 DEF Defective, Blamed, Charged
<1> QED  BY <1>3, <1>4, <1>5, <1>8

\* What the classifier says of a run in which every gate came to its turn.
LEMMA WorstAnswer ==
    ASSUME EventsShape, AllRan
    PROVE  Summary.outcome = IF Unanswered THEN "hard-fail"
                             ELSE IF Defective THEN "findings" ELSE "green"
<1>1. /\ events.promptfoo_rc = events["promptfoo_rc"]
      /\ Codes.promptfoo_rc = Codes["promptfoo_rc"]
  OBVIOUS
<1> QED  BY <1>1, HardFailMeansUnanswered, FindingsMeanDefective DEF Summary, BuildSummary

\* Evidence that lost a gate or the count is a hard failure, and evidence that
\* lost nothing is classified as the codes themselves.
LEMMA EvidenceClassified ==
    ASSUME EventsShape, AllRan, summary.outcome = Summary.outcome
    PROVE  LET verdict(evidence, counts) ==
                 BuildSummary(FromEvidence(evidence), TestsFromEvidence(counts),
                              Output(events.promptfoo_rc), TRUE, FALSE).outcome
           IN  /\ verdict(Codes, {tests}) = summary.outcome
               /\ \A g \in GateNames \ {"promptfoo_rc"} :
                    verdict([h \in GateNames \ {g} |-> Codes[h]], {tests}) = "hard-fail"
               /\ events.pytest = "clean" => verdict(Codes, {}) = "hard-fail"
<1> DEFINE output == Output(events.promptfoo_rc)
<1>1. FromEvidence(Codes) = Codes /\ TestsFromEvidence({tests}) = tests
  BY DEF FromEvidence, TestsFromEvidence, Codes
<1>2. BuildSummary(Codes, tests, output, TRUE, FALSE).outcome = summary.outcome
  BY DEF Summary
<1>3. ASSUME NEW gates, NEW count,
             HardFail(gates, count, ClassifyPromptfoo(output, gates.promptfoo_rc), TRUE)
      PROVE  BuildSummary(gates, count, output, TRUE, FALSE).outcome = "hard-fail"
  BY <1>3 DEF BuildSummary
<1>4. ASSUME NEW g \in GateNames \ {"promptfoo_rc"}
      PROVE  BuildSummary(FromEvidence([h \in GateNames \ {g} |-> Codes[h]]),
                          TestsFromEvidence({tests}), output, TRUE, FALSE).outcome = "hard-fail"
  <2> DEFINE gates == FromEvidence([h \in GateNames \ {g} |-> Codes[h]])
  <2>1. gates[g] = 127
    BY DEF FromEvidence
  <2> HIDE DEF gates
  <2>2. HardFail(gates, TestsFromEvidence({tests}),
                 ClassifyPromptfoo(output, gates.promptfoo_rc), TRUE)
    BY <2>1 DEF HardFail, CouldNotRun
  <2>3. BuildSummary(gates, TestsFromEvidence({tests}), output, TRUE, FALSE).outcome = "hard-fail"
    BY <1>3, <2>2
  <2> QED  BY <2>3 DEF gates
<1>5. ASSUME events.pytest = "clean"
      PROVE  BuildSummary(FromEvidence(Codes), TestsFromEvidence({}),
                          output, TRUE, FALSE).outcome = "hard-fail"
  <2>1. Codes.pytest = 0 /\ TestsFromEvidence({}) <= 0
    BY <1>5, CodeFacts DEF TestsFromEvidence, TestsUnknown
  <2> QED  BY <1>1, <1>3, <2>1 DEF HardFail
<1> HIDE DEF output
<1>6. BuildSummary(FromEvidence(Codes), TestsFromEvidence({tests}),
                   output, TRUE, FALSE).outcome = summary.outcome
  BY <1>1, <1>2
<1> QED  BY <1>4, <1>5, <1>6 DEF output
--------------------------------------------------------------------------------
(* The run: the steps in their order, and what is known at each.               *)

Steps == Len(Pipeline)

\* The number of the step that is next.
Turn == Steps + 1 - Len(pending)

\* The gates that had their turn experienced what a gate of their kind can.
Progress ==
    phase = "gates" =>
        \A i \in 1..Steps : i < Turn /\ Pipeline[i] \in GateNames =>
            events[Pipeline[i]] \in Possible[Pipeline[i]]

\* On a branch, a lockfile that the target ships is the one the first gate looks at,
\* and its answer stands until the run ends.
Cloned ==
    /\ phase \in {"idle", "admitted"} => events.lockfile = "pending"
    /\ ref = "branch" /\ upstream # "none" =>
          /\ phase = "gates" /\ Turn = 1 => lockfile = upstream
          /\ events.lockfile = "clean" => upstream = "agrees"
          /\ events.lockfile = "defect" => upstream = "drifted"

VerdictStands == phase = "judged" => AllRan /\ summary.outcome = Summary.outcome

\* Inductive: the verdict is what the classifier made of a run that was complete.
RunInv == TypeOK /\ Progress /\ Cloned /\ VerdictStands

\* The pipeline from its n-th step on.
Rest(n) == SubSeq(Pipeline, n, Steps)

\* The steps by number: every gate is one of them.
LEMMA PipelineFacts ==
    /\ Pipeline \in Seq(GateNames \cup {"uv_sync"})
    /\ Steps = 10
    /\ Pipeline[1] = "lockfile"
    /\ \A i \in 2..Steps : Pipeline[i] # "lockfile"
    /\ \A g \in GateNames : \E i \in 1..Steps : Pipeline[i] = g
    /\ "uv_sync" \notin GateNames
<1>1. /\ Pipeline \in Seq(GateNames \cup {"uv_sync"}) /\ Steps = 10
      /\ "uv_sync" \notin GateNames
  <2>1. {"lockfile", "uv_sync", "ruff", "mypy", "pytest", "schema_drift", "transport_boot",
         "host_allowlist", "shipped_artifact", "promptfoo_rc"} = GateNames \cup {"uv_sync"}
    BY Gates
  <2>2. Steps = 10
    BY DEF Pipeline, Steps
  <2>3. \A StepNames : "lockfile" \in StepNames /\ "uv_sync" \in StepNames /\ "ruff" \in StepNames
          /\ "mypy" \in StepNames /\ "pytest" \in StepNames /\ "schema_drift" \in StepNames
          /\ "transport_boot" \in StepNames /\ "host_allowlist" \in StepNames
          /\ "shipped_artifact" \in StepNames /\ "promptfoo_rc" \in StepNames
          => Pipeline \in Seq(StepNames)
    BY DEF Pipeline
  <2>4. "uv_sync" \notin GateNames
    BY Gates
  <2> QED  BY <2>1, <2>2, <2>3, <2>4
<1>2. /\ Pipeline[1] = "lockfile" /\ Pipeline[2] = "uv_sync" /\ Pipeline[3] = "ruff"
      /\ Pipeline[4] = "mypy" /\ Pipeline[5] = "pytest" /\ Pipeline[6] = "schema_drift"
      /\ Pipeline[7] = "transport_boot" /\ Pipeline[8] = "host_allowlist"
      /\ Pipeline[9] = "shipped_artifact" /\ Pipeline[10] = "promptfoo_rc"
  BY DEF Pipeline
<1>3. \A i \in 2..10 : i \in {2, 3, 4, 5, 6, 7, 8, 9, 10}
  OBVIOUS
<1>4. \A i \in 2..Steps : Pipeline[i] # "lockfile"
  BY <1>1, <1>2, <1>3
<1>5. {1, 2, 3, 4, 5, 6, 7, 8, 9, 10} \subseteq 1..Steps
  BY <1>1
<1>6. \A g \in GateNames : \E i \in {1, 2, 3, 4, 5, 6, 7, 8, 9, 10} : Pipeline[i] = g
  BY <1>2, Gates
<1> QED  BY <1>1, <1>2, <1>4, <1>5, <1>6

\* What is left of the pipeline, and what is left after the next step.
LEMMA RestFacts ==
    ASSUME NEW n \in 1..(Steps + 1)
    PROVE  /\ Len(Rest(n)) = Steps + 1 - n
           /\ Rest(1) = Pipeline
           /\ Rest(n) = <<>> <=> n = Steps + 1
           /\ n <= Steps => Head(Rest(n)) = Pipeline[n] /\ Tail(Rest(n)) = Rest(n + 1)
<1> DEFINE StepNames == GateNames \cup {"uv_sync"}
<1>1. /\ Pipeline \in Seq(StepNames) /\ Steps = 10 /\ Len(Pipeline) = 10
      /\ n \in Nat /\ 1 <= n /\ n <= 11
  <2>1. Steps = Len(Pipeline)
    BY DEF Steps
  <2> QED  BY <2>1, PipelineFacts
<1> HIDE DEF StepNames
<1>2. ASSUME NEW i \in n..Steps  PROVE Pipeline[i] \in StepNames
  <2>1. i \in 1..Len(Pipeline)
    BY <1>1
  <2> QED  BY <1>1, <2>1, ElementOfSeq
<1>3. /\ Rest(n) \in Seq(StepNames)
      /\ Len(Rest(n)) = IF n <= Steps THEN Steps - n + 1 ELSE 0
  <2>1. n \in Int /\ Steps \in Int
    BY <1>1
  <2>2. \A i \in n..Steps : Pipeline[i] \in StepNames
    BY <1>2
  <2>3. /\ SubSeq(Pipeline, n, Steps) \in Seq(StepNames)
        /\ Len(SubSeq(Pipeline, n, Steps)) = IF n <= Steps THEN Steps - n + 1 ELSE 0
    BY <2>1, <2>2, SubSeqProperties
  <2> QED  BY <2>3 DEF Rest
<1>4. Rest(n) = <<>> <=> Len(Rest(n)) = 0
  BY <1>3, EmptySeq
<1>6. Rest(1) = Pipeline
  BY <1>1, SubSeqFull DEF Rest
<1>5. n <= Steps => Head(Rest(n)) = Pipeline[n] /\ Tail(Rest(n)) = Rest(n + 1)
  <2>1. CASE n <= Steps
    <3>1. n \in 1..Len(Pipeline) /\ Steps \in n..Len(Pipeline)
      BY <1>1, <2>1
    <3>2. /\ Head(SubSeq(Pipeline, n, Steps)) = Pipeline[n]
          /\ Tail(SubSeq(Pipeline, n, Steps)) = SubSeq(Pipeline, n + 1, Steps)
      BY <1>1, <3>1, HeadTailOfSubSeq
    <3> QED  BY <3>2 DEF Rest
  <2> QED  BY <2>1
<1> QED  BY <1>1, <1>3, <1>4, <1>5, <1>6

\* What is left, by the number of the step that is next.
LEMMA TurnFacts ==
    ASSUME TypeOK
    PROVE  /\ Turn \in 1..(Steps + 1)
           /\ pending = Rest(Turn)
           /\ pending = <<>> <=> Turn = Steps + 1
           /\ pending # <<>> => Head(pending) = Pipeline[Turn] /\ Tail(pending) = Rest(Turn + 1)
<1>1. PICK n \in 1..(Steps + 1) : pending = Rest(n)
  BY DEF TypeOK, Rest, Steps
<1>2. Steps = 10
  BY PipelineFacts
<1>3. Len(Rest(n)) = Steps + 1 - n
  BY RestFacts
<1>4. Turn = n
  BY <1>1, <1>2, <1>3 DEF Turn
<1>5. /\ Rest(n) = <<>> <=> n = Steps + 1
      /\ n <= Steps => Head(Rest(n)) = Pipeline[n] /\ Tail(Rest(n)) = Rest(n + 1)
  BY RestFacts
<1> QED  BY <1>1, <1>2, <1>4, <1>5

\* The type invariant says what the lemmas on the classifier ask for.
LEMMA TypedShape == TypeOK => EventsShape
  BY DEF TypeOK, EventsShape
--------------------------------------------------------------------------------
\* A run that ends leaves nothing of itself but the files.
LEMMA RunOverFacts ==
    ASSUME RunOver
    PROVE  /\ Progress' /\ Cloned' /\ VerdictStands'
           /\ phase' = "idle"
           /\ \E n \in 1..(Len(Pipeline) + 1) : pending' = SubSeq(Pipeline, n, Len(Pipeline))
           /\ events' \in [GateNames -> AllEvents]
           /\ tests' \in {TestsUnknown, 0, 1}
<1>1. Steps = Len(Pipeline) /\ Steps = 10
  BY PipelineFacts DEF Steps
<1>2. Rest(11) = <<>>
  BY <1>1, RestFacts
<1>3. \E n \in 1..(Len(Pipeline) + 1) : pending' = SubSeq(Pipeline, n, Len(Pipeline))
  BY <1>1, <1>2 DEF RunOver, Rest
<1>4. Progress' /\ Cloned' /\ VerdictStands'
  BY Gates DEF RunOver, NoEvents, Progress, Cloned, VerdictStands
<1>5. "pending" \in AllEvents
  BY DEF AllEvents
<1> QED  BY <1>3, <1>4, <1>5 DEF RunOver, NoEvents

\* A run given up writes a hard failure or leaves the summary that was there.
LEMMA HardFailFacts ==
    ASSUME TypeOK, NEW before \in {summary, Stale}, HardFailWith(before)
    PROVE  /\ RunOver
           /\ summary' \in [outcome : {"none", "green", "findings", "hard-fail"}, fresh : BOOLEAN]
           /\ last' \in [by : {"none", "verdict", "hard_fail", "skip", "killed"}, rc : {0, 1, 2}]
<1>1. before \in [outcome : {"none", "green", "findings", "hard-fail"}, fresh : BOOLEAN]
  BY DEF TypeOK, Stale
<1> QED  BY <1>1 DEF HardFailWith

\* A run that is not in its gates and not judged has nothing to show for itself.
LEMMA OutsideGates ==
    ASSUME phase' \in {"idle", "admitted"}, events'.lockfile = "pending"
    PROVE  Progress' /\ Cloned' /\ VerdictStands'
  BY DEF Progress, Cloned, VerdictStands

\* At first there is no run, and nothing but the state file of a fresh guard.
LEMMA RunInit == Init => RunInv
<1> SUFFICES ASSUME Init  PROVE RunInv
  OBVIOUS
<1>1. Steps = Len(Pipeline) /\ Steps = 10
  BY PipelineFacts DEF Steps
<1>2. Rest(11) = <<>>
  BY <1>1, RestFacts
<1>3. \E n \in 1..(Len(Pipeline) + 1) : pending = SubSeq(Pipeline, n, Len(Pipeline))
  BY <1>1, <1>2 DEF Init, Rest
<1>4. "pending" \in AllEvents
  BY DEF AllEvents
<1>5. TypeOK
  BY <1>3, <1>4, ResetFacts DEF Init, TypeOK, NoEvents, Locks
<1> QED  BY <1>5, Gates DEF Init, NoEvents, RunInv, Progress, Cloned, VerdictStands

\* The next step is taken from the pipeline: the turn moves on by one.
LEMMA TurnMoves ==
    ASSUME TypeOK, pending # <<>>, pending' = Tail(pending)
    PROVE  /\ Turn \in 1..Steps /\ Turn' = Turn + 1
           /\ Head(pending) = Pipeline[Turn]
           /\ \E n \in 1..(Len(Pipeline) + 1) : pending' = SubSeq(Pipeline, n, Len(Pipeline))
<1>1. Steps = Len(Pipeline) /\ Steps = 10
  BY PipelineFacts DEF Steps
<1>2. Turn \in 1..10 /\ pending' = Rest(Turn + 1) /\ Head(pending) = Pipeline[Turn]
  BY <1>1, TurnFacts
<1>3. PICK n \in 1..(Steps + 1) : n = Turn + 1
  BY <1>1, <1>2
<1>4. pending' = Rest(n) /\ Len(Rest(n)) = Steps + 1 - n
  BY <1>2, <1>3, RestFacts
<1>5. Turn' = n
  BY <1>1, <1>4 DEF Turn
<1>6. pending' = SubSeq(Pipeline, n, Len(Pipeline)) /\ n \in 1..(Len(Pipeline) + 1)
  BY <1>1, <1>4 DEF Rest
<1> QED  BY <1>1, <1>2, <1>3, <1>5, <1>6

\* A gate only experiences what a gate of its kind can.
LEMMA ExperiencesPossible ==
    ASSUME lockfile \in Locks, NEW g \in GateNames
    PROVE  /\ Experiences[g] \subseteq Possible[g]
           /\ g = "lockfile" /\ "clean" \in Experiences[g] => lockfile = "agrees"
           /\ g = "lockfile" /\ "defect" \in Experiences[g] => lockfile = "drifted"
<1>1. CASE g = "lockfile"
  <2> DEFINE answer == CASE lockfile = "none"    -> "exempt"
                         [] lockfile = "agrees"  -> "clean"
                         [] lockfile = "drifted" -> "defect"
  <2>1. /\ answer \in {"exempt", "clean", "defect"}
        /\ answer = "clean" => lockfile = "agrees"
        /\ answer = "defect" => lockfile = "drifted"
    <3>1. lockfile \in {"none", "agrees", "drifted"}
      BY DEF Locks
    <3>2. CASE lockfile = "none"
      BY <3>2
    <3>3. CASE lockfile = "agrees"
      BY <3>3
    <3>4. CASE lockfile = "drifted"
      BY <3>4
    <3> QED  BY <3>1, <3>2, <3>3, <3>4
  <2>2. Experiences["lockfile"] = {"hung", "unrunnable", "crashed", "moved", "off", answer}
    BY Gates, Zenon DEF Experiences, Toolchain
  <2> HIDE DEF answer
  <2> QED  BY <1>1, <2>1, <2>2, PossibleFacts
<1>2. CASE g \in Toolchain
  BY <1>2, PossibleFacts DEF Experiences, Toolchain
<1>3. CASE g = "schema_drift"
  BY <1>3, PossibleFacts DEF Experiences, Toolchain
<1>4. CASE g \in {"transport_boot", "host_allowlist"}
  BY <1>4, PossibleFacts DEF Experiences, Toolchain
<1>5. CASE g = "shipped_artifact"
  BY <1>5, PossibleFacts DEF Experiences, Toolchain
<1>6. CASE g = "promptfoo_rc"
  BY <1>6, PossibleFacts DEF Experiences, Toolchain
<1> QED  BY <1>1, <1>2, <1>3, <1>4, <1>5, <1>6, Gates DEF Toolchain

\* Every step of the run keeps the invariant: a gate adds its own answer, and the
\* report is written when the last of them is in.
LEMMA RunNext == RunInv /\ [Next]_vars => RunInv'
<1> SUFFICES ASSUME RunInv, [Next]_vars  PROVE RunInv'
  OBVIOUS
<1>1. TypeOK /\ Progress /\ Cloned /\ VerdictStands
  BY DEF RunInv
<1>2. Steps = 10 /\ Len(Pipeline) = 10
  BY PipelineFacts DEF Steps
<1>3. guard \in GuardStates
  BY <1>1 DEF TypeOK
<1>4. ASSUME LaunchUnfit  PROVE RunInv'
  <2>1. HardFailWith(Stale) /\ guard' = guard /\ UNCHANGED treeVars
    BY <1>4 DEF LaunchUnfit
  <2>2. RunOver
    BY <2>1 DEF HardFailWith
  <2> QED  BY <1>1, <2>1, <2>2, HardFailFacts, RunOverFacts DEF RunInv, TypeOK, treeVars
<1>5. ASSUME LaunchSkipped  PROVE RunInv'
  <2>1. guard' \in GuardStates
    BY <1>3, <1>5, PreflightFacts DEF LaunchSkipped
  <2>2. TypeOK'
    BY <1>1, <1>5, <2>1 DEF LaunchSkipped, TypeOK, runVars, treeVars
  <2>3. phase' \in {"idle", "admitted"} /\ events'.lockfile = "pending"
    BY <1>1, <1>5 DEF LaunchSkipped, runVars, Cloned
  <2> QED  BY <2>2, <2>3, OutsideGates DEF RunInv
<1>6. ASSUME LaunchAdmitted  PROVE RunInv'
  <2>1. guard' \in GuardStates
    BY <1>3, <1>6, PreflightFacts DEF LaunchAdmitted
  <2>2. TypeOK'
    BY <1>1, <1>6, <2>1 DEF LaunchAdmitted, TypeOK, Stale, treeVars
  <2>3. phase' \in {"idle", "admitted"} /\ events'.lockfile = "pending"
    BY <1>1, <1>6 DEF LaunchAdmitted, Cloned
  <2> QED  BY <2>2, <2>3, OutsideGates DEF RunInv
<1>7. ASSUME ProvisionFails  PROVE RunInv'
  <2>1. HardFailWith(summary) /\ guard' = guard /\ UNCHANGED treeVars
    BY <1>7 DEF ProvisionFails
  <2>2. RunOver
    BY <2>1 DEF HardFailWith
  <2> QED  BY <1>1, <2>1, <2>2, HardFailFacts, RunOverFacts DEF RunInv, TypeOK, treeVars
<1>8. ASSUME Provision  PROVE RunInv'
  <2>1. pending' = Pipeline /\ phase' = "gates" /\ upstream' = upstream
    BY <1>8 DEF Provision
  <2>2. Turn' = 1
    <3>1. Len(pending') = 10
      BY <1>2, <2>1
    <3>2. Turn' = Steps + 1 - Len(pending')
      BY DEF Turn
    <3> QED  BY <1>2, <3>1, <3>2
  <2>3. Pipeline = SubSeq(Pipeline, 1, Len(Pipeline))
    BY <1>2, RestFacts DEF Rest
  <2>4. TypeOK'
    BY <1>1, <1>2, <1>8, <2>3 DEF Provision, ProvisionedLock, TypeOK
  <2>5. Progress'
    BY <1>2, <2>2 DEF Progress
  <2>6. Cloned'
    BY <1>1, <1>8, <2>1, <2>2 DEF Cloned, Provision, ProvisionedLock, Resets
  <2>7. VerdictStands'
    BY <2>1 DEF VerdictStands
  <2> QED  BY <2>4, <2>5, <2>6, <2>7 DEF RunInv
<1>9. ASSUME NEW g \in GateNames, NEW e \in AllEvents, RunGate(g, e)  PROVE RunInv'
  <2>1. /\ pending # <<>> /\ pending' = Tail(pending) /\ g = Head(pending)
        /\ phase = "gates" /\ phase' = "gates" /\ e \in Experiences[g]
    BY <1>9 DEF RunGate
  <2>2. /\ Turn \in 1..Steps /\ Turn' = Turn + 1 /\ g = Pipeline[Turn]
        /\ \E n \in 1..(Len(Pipeline) + 1) : pending' = SubSeq(Pipeline, n, Len(Pipeline))
    BY <1>1, <2>1, TurnMoves
  <2>3. /\ upstream' = upstream /\ lockfile' = lockfile /\ ref' = ref /\ lockfile \in Locks
        /\ events \in [GateNames -> AllEvents]
    BY <1>1, <1>9 DEF RunGate, treeVars, TypeOK
  <2>4. events' = [h \in GateNames |-> IF h = g THEN e ELSE events[h]]
    BY <1>9, <2>3 DEF RunGate
  <2>5. /\ e \in Possible[g] /\ (g = "lockfile" /\ e = "clean" => lockfile = "agrees")
        /\ g = "lockfile" /\ e = "defect" => lockfile = "drifted"
    BY <2>1, <2>3, ExperiencesPossible
  <2>6. tests' \in {TestsUnknown, 0, 1}
    BY <1>1, <1>9 DEF RunGate, TypeOK
  <2>7. TypeOK'
    <3>1. events' \in [GateNames -> AllEvents]
      BY <2>3, <2>4
    <3> QED  BY <1>1, <1>9, <2>2, <2>6, <3>1 DEF RunGate, treeVars, TypeOK
  <2>8. Progress'
    <3>1. ASSUME NEW i \in 1..Steps, i < Turn', Pipeline[i] \in GateNames
          PROVE  events'[Pipeline[i]] \in Possible[Pipeline[i]]
      <4>1. i < Turn \/ i = Turn
        BY <1>2, <2>2, <3>1
      <4>2. CASE Pipeline[i] = g
        BY <2>4, <2>5, <3>1, <4>2
      <4>3. CASE Pipeline[i] # g
        <5>1. i < Turn
          BY <2>2, <4>1, <4>3
        <5> QED  BY <1>1, <2>1, <2>4, <3>1, <4>3, <5>1 DEF Progress
      <4> QED  BY <4>2, <4>3
    <3> QED  BY <3>1 DEF Progress
  <2>9. Cloned'
    <3>1. Turn' # 1 /\ (g = "lockfile" => Turn = 1)
      <4>1. Turn \in 2..Steps => Pipeline[Turn] # "lockfile"
        BY PipelineFacts
      <4> QED  BY <1>2, <2>2, <4>1
    <3>2. events'.lockfile = IF g = "lockfile" THEN e ELSE events.lockfile
      BY <2>4, Gates
    <3> QED  BY <1>1, <2>1, <2>3, <2>5, <3>1, <3>2 DEF Cloned
  <2>10. VerdictStands'
    BY <2>1 DEF VerdictStands
  <2> QED  BY <2>7, <2>8, <2>9, <2>10 DEF RunInv
<1>10. ASSUME Sync  PROVE RunInv'
  <2>1. /\ pending # <<>> /\ pending' = Tail(pending) /\ Head(pending) = "uv_sync"
        /\ phase = "gates" /\ phase' = "gates" /\ events' = events
    BY <1>10 DEF Sync
  <2>2. /\ Turn \in 1..Steps /\ Turn' = Turn + 1 /\ "uv_sync" = Pipeline[Turn]
        /\ \E n \in 1..(Len(Pipeline) + 1) : pending' = SubSeq(Pipeline, n, Len(Pipeline))
    BY <1>1, <2>1, TurnMoves
  <2>3. TypeOK'
    <3>1. /\ guard' = guard /\ phase' = phase /\ events' = events /\ tests' = tests
          /\ summary' = summary /\ last' = last /\ ref' = ref /\ upstream' = upstream
          /\ tracked' = tracked /\ lockfile' = "agrees"
      BY <1>10 DEF Sync
    <3>2. ownLock' \in BOOLEAN
      BY <1>1, <1>10 DEF Sync, TypeOK
    <3>3. tracked' \in BOOLEAN
      BY <1>1, <3>1 DEF TypeOK
    <3>4. /\ guard' \in GuardStates /\ phase' \in {"idle", "admitted", "gates", "judged"}
          /\ events' \in [GateNames -> AllEvents] /\ tests' \in {TestsUnknown, 0, 1}
      BY <1>1, <3>1 DEF TypeOK
    <3>5. /\ summary' \in [outcome : {"none", "green", "findings", "hard-fail"}, fresh : BOOLEAN]
          /\ last' \in [by : {"none", "verdict", "hard_fail", "skip", "killed"}, rc : {0, 1, 2}]
      BY <1>1, <3>1 DEF TypeOK
    <3>6. ref' \in {"branch", "pinned"} /\ upstream' \in Locks /\ lockfile' \in Locks
      BY <1>1, <3>1 DEF TypeOK, Locks
    <3> QED  BY <2>2, <3>2, <3>3, <3>4, <3>5, <3>6 DEF TypeOK
  <2>4. Progress'
    <3>1. ASSUME NEW i \in 1..Steps, i < Turn', Pipeline[i] \in GateNames
          PROVE  events'[Pipeline[i]] \in Possible[Pipeline[i]]
      <4>1. i < Turn
        BY <1>2, <2>2, <3>1, PipelineFacts
      <4> QED  BY <1>1, <2>1, <3>1, <4>1 DEF Progress
    <3> QED  BY <3>1 DEF Progress
  <2>5. Cloned'
    <3>1. Turn # 1
      BY <2>2, PipelineFacts
    <3>2. Turn' # 1
      BY <1>2, <2>2, <3>1
    <3>3. ref' = ref /\ upstream' = upstream
      BY <1>10 DEF Sync
    <3> QED  BY <1>1, <2>1, <3>2, <3>3 DEF Cloned
  <2>6. VerdictStands'
    BY <2>1 DEF VerdictStands
  <2> QED  BY <2>3, <2>4, <2>5, <2>6 DEF RunInv
<1>11. ASSUME SyncFails  PROVE RunInv'
  <2>1. /\ HardFailWith(summary) /\ guard' = guard /\ upstream' = upstream
        /\ ref' = ref /\ tracked' = tracked
    BY <1>11 DEF SyncFails
  <2>2. RunOver
    BY <2>1 DEF HardFailWith
  <2>3. lockfile' \in Locks /\ ownLock' \in BOOLEAN
    BY <1>1, <1>11 DEF SyncFails, TypeOK, Locks
  <2> QED  BY <1>1, <2>1, <2>2, <2>3, HardFailFacts, RunOverFacts DEF RunInv, TypeOK
<1>12. ASSUME Classify  PROVE RunInv'
  <2>1. /\ pending = <<>> /\ phase = "gates" /\ phase' = "judged"
        /\ events' = events /\ tests' = tests /\ summary'.outcome = Summary.outcome
    BY <1>12 DEF Classify
  <2>2. AllRan
    <3>1. Turn = 11
      BY <1>1, <1>2, <2>1, TurnFacts
    <3>2. ASSUME NEW g \in GateNames  PROVE events[g] \in Possible[g]
      <4>1. PICK i \in 1..Steps : Pipeline[i] = g
        BY PipelineFacts
      <4> QED  BY <1>1, <1>2, <2>1, <3>1, <4>1 DEF Progress
    <3> QED  BY <3>2 DEF AllRan
  <2>3. Summary.outcome \in {"hard-fail", "findings", "green"}
    BY <1>1, <2>2, TypedShape, WorstAnswer
  <2>4. TypeOK'
    BY <1>1, <1>12, <2>3 DEF Classify, TypeOK, treeVars
  <2>5. AllRan' /\ Summary'.outcome = Summary.outcome
    BY <2>1, <2>2 DEF AllRan, Summary, Codes
  <2>6. Cloned'
    <3>1. ref' = ref /\ upstream' = upstream
      BY <1>12 DEF Classify, treeVars
    <3> QED  BY <1>1, <2>1, <3>1 DEF Cloned
  <2> QED  BY <2>1, <2>4, <2>5, <2>6 DEF RunInv, Progress, VerdictStands
<1>13. ASSUME NEW tokens \in TokenCosts, Finish(tokens)  PROVE RunInv'
  <2>1. tokens \in Nat
    BY AuditAssumption DEF AuditAssumption
  <2>2. guard' \in GuardStates
    BY <1>3, <1>13, <2>1, RecordFacts DEF Finish
  <2>3. last' \in [by : {"none", "verdict", "hard_fail", "skip", "killed"}, rc : {0, 1, 2}]
    BY <1>13 DEF Finish, ExitCode
  <2>4. RunOver /\ summary' = summary /\ UNCHANGED treeVars
    BY <1>13 DEF Finish
  <2> QED  BY <1>1, <2>2, <2>3, <2>4, RunOverFacts DEF RunInv, TypeOK, treeVars
<1>14. ASSUME Killed  PROVE RunInv'
  <2>1. /\ RunOver /\ summary' = summary /\ guard' = guard /\ UNCHANGED treeVars
        /\ last' \in [by : {"none", "verdict", "hard_fail", "skip", "killed"}, rc : {0, 1, 2}]
    BY <1>14 DEF Killed
  <2> QED  BY <1>1, <2>1, RunOverFacts DEF RunInv, TypeOK, treeVars
<1>15. ASSUME Night  PROVE RunInv'
  <2>1. guard' \in GuardStates
    BY <1>3, <1>15, AgedFacts DEF Night
  <2>2. TypeOK' /\ phase' = "idle" /\ events'.lockfile = "pending"
    BY <1>1, <1>15, <2>1 DEF Night, TypeOK, runVars, treeVars, Cloned
  <2> QED  BY <2>2, OutsideGates DEF RunInv
<1>16. ASSUME Push  PROVE RunInv'
  <2>1. TypeOK' /\ phase' = "idle" /\ events'.lockfile = "pending"
    BY <1>1, <1>16 DEF Push, TypeOK, runVars, Locks, Cloned
  <2> QED  BY <2>1, OutsideGates DEF RunInv
<1>17. CASE UNCHANGED vars
  <2>1. /\ TypeOK' /\ phase' = phase /\ pending' = pending /\ events' = events /\ tests' = tests
        /\ summary' = summary /\ lockfile' = lockfile /\ upstream' = upstream /\ ref' = ref
    BY <1>1, <1>17 DEF vars, runVars, treeVars, TypeOK
  <2>2. Progress' /\ Cloned'
    BY <1>1, <2>1 DEF Progress, Cloned, Turn
  <2>3. VerdictStands'
    BY <1>1, <2>1 DEF VerdictStands, AllRan, Summary, Codes
  <2> QED  BY <2>1, <2>2, <2>3 DEF RunInv
<1> QED
  BY <1>4, <1>5, <1>6, <1>7, <1>8, <1>9, <1>10, <1>11, <1>12, <1>13, <1>14, <1>15, <1>16, <1>17
  DEF Next

\* What is known of every state of every run.
LEMMA RunInvariant == Spec => []RunInv
  BY RunInit, RunNext, PTL DEF Spec

\* The state of the run and the files it leaves keep their shape, whatever the
\* gates cost and however many of them deviate.
THEOREM NightTyped == Spec => []TypeOK
<1>1. RunInv => TypeOK
  BY DEF RunInv
<1> QED  BY RunInvariant, <1>1, PTL

\* The verdict of a night is that of its worst gate, for every combination of
\* what the nine gates and the test count may come to; the missing answers that are
\* charged to the target are those the property names, and no others.
THEOREM VerdictAlwaysTheWorst == Spec => []VerdictIsTheWorstAnswer
<1>1. RunInv => VerdictIsTheWorstAnswer
  <2> SUFFICES ASSUME RunInv, phase = "judged"
      PROVE  summary.outcome = IF Unanswered THEN "hard-fail"
                               ELSE IF Defective THEN "findings" ELSE "green"
    BY DEF VerdictIsTheWorstAnswer, Unanswered, Defective
  <2>1. EventsShape /\ AllRan /\ summary.outcome = Summary.outcome
    BY TypedShape DEF RunInv, VerdictStands
  <2> QED  BY <2>1, WorstAnswer
<1> QED  BY RunInvariant, <1>1, PTL

\* The Broker, which classifies the evidence again, comes to the same verdict,
\* and evidence that lost a gate or the count is never more than a hard failure.
THEOREM EvidenceAlwaysFailsClosed == Spec => []EvidenceFailsClosed
<1>1. RunInv => EvidenceFailsClosed
  <2> SUFFICES ASSUME RunInv, phase = "judged"  PROVE EvidenceFailsClosed
    BY DEF EvidenceFailsClosed
  <2>1. EventsShape /\ AllRan /\ summary.outcome = Summary.outcome
    BY TypedShape DEF RunInv, VerdictStands
  <2> QED  BY <2>1, EvidenceClassified DEF EvidenceFailsClosed
<1> QED  BY RunInvariant, <1>1, PTL

\* On a branch the lockfile gate answers for the lockfile the target ships, whatever
\* the syncs of this night and of earlier ones wrote into the checkout.
THEOREM RepairNeverHides == Spec => []RepairNeverHidesDrift
<1>1. RunInv => RepairNeverHidesDrift
  BY DEF RunInv, Cloned, RepairNeverHidesDrift
<1> QED  BY RunInvariant, <1>1, PTL
--------------------------------------------------------------------------------
(* The gates that boot the target: what their operators and the machine do.    *)

\* A target is what it should be.
LEMMA TargetFacts ==
    ASSUME NEW t \in Targets
    PROVE  /\ t.own \in [Transports -> Ways] /\ t.flagged \in Ways
           /\ t.wire \in [Asked -> Answers \cup {Endless}]
           /\ t.inbound \in [Network -> [Passes -> [Names -> Outcomes \cup {Endless}]]]
           /\ Derived(t) \subseteq Transports
           /\ Derived(t) = Wanted(t)
<1>1. /\ t.own \in [Transports -> Ways] /\ t.flagged \in Ways
      /\ t.wire \in [Asked -> Answers \cup {Endless}]
      /\ t.listed \subseteq Transports /\ t.declared \subseteq Transports
      /\ t.override \subseteq Transports \cup {"unknown"}
  BY BootAssumption DEF BootAssumption
<1>2. t.inbound \in [Network -> [Passes -> [Names -> Outcomes \cup {Endless}]]]
  BY RebindAssumption DEF RebindAssumption
<1>3. FloorTransports \subseteq Transports
  BY DEF FloorTransports, Transports
<1>4. Derived(t) \subseteq Transports
  BY <1>1, <1>3 DEF Derived
<1>5. Derived(t) = Wanted(t)
  BY <1>1 DEF Derived, Wanted
<1> QED  BY <1>1, <1>2, <1>4, <1>5

\* The first of some transports is one of them.
LEMMA FirstFacts ==
    ASSUME NEW ts \in SUBSET Transports
    PROVE  First(ts) \in Transports /\ (ts # {} => First(ts) \in ts)
  BY DEF First, Transports

\* Every command line that is tried does something that a command line can do.
LEMMA WayFacts ==
    ASSUME NEW t \in Targets, NEW tr \in Transports, NEW k \in Nat
    PROVE  WayOf(t, tr, k) \in Ways /\ Attempts(t, tr) \in 0..Flags
  BY TargetFacts, BootAssumption DEF BootAssumption, WayOf, Attempts

\* An answer leads to another question or to a verdict.
LEMMA AfterFacts ==
    ASSUME NEW tr, NEW step, NEW bare, NEW a
    PROVE  After(tr, step, bare, a) \in Asked \cup Verdicts
  BY DEF After, Asked, Verdicts

\* The machine keeps its shape, and neither a theft nor a disturbance is forgotten.
LEMMA MachineFacts ==
    ASSUME ProcessTypeOK, Machine
    PROVE  /\ ProcessTypeOK'
           /\ stolen => stolen'
           /\ disturbed => disturbed'
           /\ proc'.way = proc.way /\ proc'.wired = proc.wired
<1> USE DEF ProcessTypeOK, Ways, Running
<1>1. CASE Listen
  BY <1>1 DEF Listen
<1>2. CASE Fork
  BY <1>2 DEF Fork
<1>3. CASE ChildListens
  BY <1>3 DEF ChildListens
<1>4. CASE Exit
  BY <1>4 DEF Exit
<1>5. CASE Die
  BY <1>5 DEF Die
<1>6. CASE Steal
  BY <1>6 DEF Steal
<1> QED  BY <1>1, <1>2, <1>3, <1>4, <1>5, <1>6 DEF Machine

\* A stopped process is none, and its port is free or somebody else's.
LEMMA StopFacts ==
    ASSUME ProcessTypeOK, Stopped
    PROVE  /\ proc' = NoProcess /\ strays' \in BOOLEAN
           /\ NoProcess \in [way : Ways, wired : BOOLEAN, rc : {Running, "0", "1"},
                             child : BOOLEAN]
           /\ PortAfterStop => port' \in {"free", "child", "foreign"}
           /\ PortAfterStop /\ port' = "foreign" => port = "foreign"
           /\ PortAfterStop /\ (port' = "child" \/ strays') =>
                 strays \/ proc.child \/ port = "child"
<1>1. strays \in BOOLEAN /\ port \in {"free", "ours", "child", "foreign"}
  BY DEF ProcessTypeOK
<1>2. proc' = NoProcess /\ strays' \in {strays, TRUE} /\ (strays' = strays \/ proc.child)
  BY DEF Stopped
<1>3. NoProcess \in [way : Ways, wired : BOOLEAN, rc : {Running, "0", "1"}, child : BOOLEAN]
  BY DEF NoProcess, Ways
<1>4. ASSUME PortAfterStop
      PROVE  /\ port' \in {"free", "child", "foreign"}
             /\ port' \in {port, "free"}
  BY <1>1, <1>4 DEF PortAfterStop
<1>5. strays' \in BOOLEAN /\ (strays' => strays \/ proc.child)
  BY <1>1, <1>2
<1> QED  BY <1>2, <1>3, <1>4, <1>5
--------------------------------------------------------------------------------
(* The gates keep their shape.                                                 *)

\* A fresh process is one.
LEMMA StartedFacts ==
    ASSUME NEW way \in Ways, NEW wired \in BOOLEAN
    PROVE  Started(way, wired) \in [way : Ways, wired : BOOLEAN, rc : {Running, "0", "1"},
                                    child : BOOLEAN]
  BY DEF Started, Running

\* Going on to the next attempt, or judging a transport, keeps the shape of the gate.
LEMMA JudgedTyped ==
    ASSUME BootTypeOK, NEW verdict \in Verdicts, Judged(verdict)
    PROVE  boot' \in BootStates /\ result' \in [Transports -> Verdicts \cup {None}]
<1>1. Current \in Transports
  BY FirstFacts DEF BootTypeOK, BootStates, Current
<1> QED  BY <1>1 DEF BootTypeOK, BootStates, Judged

\* The same of an attempt that another one may follow.
LEMMA NextAttemptTyped ==
    ASSUME BootTypeOK, NEW first \in {Running, "0", "1", None}, NEW late,
           NextAttempt(first, late)
    PROVE  boot' \in BootStates /\ result' \in [Transports -> Verdicts \cup {None}]
<1>1. Current \in Transports
  BY FirstFacts DEF BootTypeOK, BootStates, Current
<1>2. target \in Targets /\ 0 \in Nat
  BY DEF BootTypeOK
<1>3. Attempts(target, Current) \in 0..Flags /\ Flags \in Nat
  BY <1>1, <1>2, WayFacts, BootAssumption DEF BootAssumption
<1>4. CASE boot.attempt < Attempts(target, Current) /\ ~late
  <2>1. boot \in BootStates /\ boot.attempt \in 0..Flags
    BY DEF BootTypeOK, BootStates
  <2>2. boot.attempt + 1 \in 0..Flags
    BY <1>3, <1>4, <2>1
  <2>3. boot' = [boot EXCEPT !.pc = "spawn", !.attempt = boot.attempt + 1, !.first = first]
    BY <1>4 DEF NextAttempt
  <2>4. boot' \in BootStates
    BY <2>1, <2>2, <2>3 DEF BootStates
  <2> QED  BY <1>4, <2>4 DEF NextAttempt, BootTypeOK
<1>5. CASE ~(boot.attempt < Attempts(target, Current) /\ ~late)
  <2>1. Judged(Unlistening(first)) /\ Unlistening(first) \in Verdicts
    BY <1>5 DEF NextAttempt, Unlistening, Verdicts
  <2> QED  BY <2>1, JudgedTyped
<1> QED  BY <1>4, <1>5

\* And so does whatever an answer leads to.
LEMMA AnsweredTyped ==
    ASSUME BootTypeOK, NEW a, Answered(a)
    PROVE  /\ boot' \in BootStates /\ result' \in [Transports -> Verdicts \cup {None}]
           /\ (Stopped /\ PortAfterStop) \/ UNCHANGED <<proc, port, strays>>
<1> DEFINE next == After(Current, boot.step, boot.bare, a)
<1>1. next \in Asked \cup Verdicts
  BY AfterFacts
<1>2. CASE next \in Verdicts
  <2>1. Judged(next) /\ Stopped /\ PortAfterStop
    BY <1>2 DEF Answered
  <2> HIDE DEF next
  <2> QED  BY <1>2, <2>1, JudgedTyped
<1>3. CASE next \notin Verdicts
  <2>1. /\ boot' = [boot EXCEPT !.step = next, !.bare = (@ \/ boot.step = "bare")]
        /\ UNCHANGED <<result, proc, port, strays>>
    BY <1>3 DEF Answered
  <2>2. boot \in BootStates /\ (boot.bare \/ boot.step = "bare") \in BOOLEAN
    BY DEF BootTypeOK, BootStates
  <2> HIDE DEF next
  <2>3. boot' \in BootStates
    BY <1>1, <1>3, <2>1, <2>2 DEF BootStates
  <2> QED  BY <2>1, <2>3 DEF BootTypeOK
<1> QED  BY <1>2, <1>3

\* Every step of the boot gate, and every one of the machine, keeps the shape.
LEMMA BootTyped ==
    ASSUME BootTypeOK, BootGate \/ BootTimesOut \/ World
    PROVE  BootTypeOK'
<1>1. /\ ProcessTypeOK /\ target \in Targets /\ boot \in BootStates
      /\ result \in [Transports -> Verdicts \cup {None}]
      /\ rc \in {0, 2, 3, 4, 124, 127, NoCode}
  BY DEF BootTypeOK
<1>2. 0 \in 0..Flags
  BY BootAssumption DEF BootAssumption
<1>3. CASE Derive
  <2>1. Derived(target) \subseteq Transports
    BY <1>1, TargetFacts
  <2>2. boot' \in BootStates
    BY <1>1, <1>3, <2>1 DEF Derive, BootStates
  <2> QED  BY <1>1, <1>3, <2>2 DEF Derive, BootTypeOK, ProcessTypeOK, processVars
<1>4. CASE PickPort
  <2>1. boot' \in BootStates
    BY <1>1, <1>2, <1>4 DEF PickPort, BootStates
  <2> QED  BY <1>1, <1>4, <2>1 DEF PickPort, FreePort, BootTypeOK, ProcessTypeOK
<1>5. CASE Spawn
  <2>1. Current \in Transports /\ boot.attempt \in Nat
    BY <1>1, FirstFacts, BootAssumption DEF BootAssumption, BootStates, Current
  <2>2. WayOf(target, Current, boot.attempt) \in Ways /\ (Current # "stdio") \in BOOLEAN
    BY <1>1, <2>1, WayFacts
  <2>3. proc' \in [way : Ways, wired : BOOLEAN, rc : {Running, "0", "1"}, child : BOOLEAN]
    BY <1>5, <2>2, StartedFacts DEF Spawn
  <2>4. FirstStep(Current) \in Asked
    BY DEF FirstStep, Asked
  <2>5. boot' \in BootStates
    BY <1>1, <1>5, <2>4 DEF Spawn, BootStates
  <2> QED  BY <1>1, <1>5, <2>3, <2>5 DEF Spawn, BootTypeOK, ProcessTypeOK
<1>6. CASE SpawnFails
  <2>1. Judged("fail") \/ NextAttempt(boot.first, FALSE)
    BY <1>6 DEF SpawnFails
  <2>2. "fail" \in Verdicts /\ boot.first \in {Running, "0", "1", None}
    BY <1>1 DEF Verdicts, BootStates
  <2>3. boot' \in BootStates /\ result' \in [Transports -> Verdicts \cup {None}]
    BY <2>1, <2>2, JudgedTyped, NextAttemptTyped
  <2> QED  BY <1>1, <1>6, <2>3 DEF SpawnFails, BootTypeOK, ProcessTypeOK, processVars
<1>7. CASE Connected
  <2>1. boot' \in BootStates
    BY <1>1, <1>7 DEF Connected, BootStates
  <2> QED  BY <1>1, <1>7, <2>1 DEF Connected, BootTypeOK, ProcessTypeOK, processVars
<1>8. CASE ExitedUnheard \/ WaitTimesOut
  <2>1. PICK late \in BOOLEAN : GivenUp(late)
    BY <1>8 DEF ExitedUnheard, WaitTimesOut
  <2>2. disturbed' \in BOOLEAN
    <3>1. disturbed \in BOOLEAN
      BY <1>1 DEF ProcessTypeOK
    <3>2. disturbed' = disturbed \/ disturbed' = (disturbed \/ proc.way # "hangs")
      BY <1>8 DEF ExitedUnheard, WaitTimesOut
    <3> QED  BY <3>1, <3>2
  <2>3. FirstCode(proc.rc) \in {Running, "0", "1", None}
    BY <1>1 DEF FirstCode, BootStates, ProcessTypeOK
  <2>4. boot' \in BootStates /\ result' \in [Transports -> Verdicts \cup {None}]
    BY <2>1, <2>3, NextAttemptTyped DEF GivenUp
  <2>5. Stopped /\ PortAfterStop /\ UNCHANGED <<stolen, target, rc>>
    BY <2>1 DEF GivenUp
  <2> QED  BY <1>1, <2>2, <2>4, <2>5, StopFacts DEF BootTypeOK, ProcessTypeOK
<1>9. CASE Ask
  <2>1. PICK a : Answered(a)
    BY <1>9 DEF Ask
  <2>2. disturbed' \in BOOLEAN /\ UNCHANGED <<stolen, target, rc>>
    BY <1>1, <1>9 DEF Ask, Late, ProcessTypeOK
  <2>3. /\ boot' \in BootStates /\ result' \in [Transports -> Verdicts \cup {None}]
        /\ (Stopped /\ PortAfterStop) \/ UNCHANGED <<proc, port, strays>>
    BY <2>1, AnsweredTyped
  <2>4. CASE Stopped /\ PortAfterStop
    BY <1>1, <2>2, <2>3, <2>4, StopFacts DEF BootTypeOK, ProcessTypeOK
  <2>5. CASE UNCHANGED <<proc, port, strays>>
    BY <1>1, <2>2, <2>3, <2>5 DEF BootTypeOK, ProcessTypeOK
  <2> QED  BY <2>3, <2>4, <2>5
<1>10. CASE Conclude
  <2>1. BootCode({result[tr] : tr \in Transports}) \in {0, 2, 3}
    BY DEF BootCode
  <2>2. boot' \in BootStates
    BY <1>1, <1>10 DEF Conclude, BootStates
  <2> QED  BY <1>1, <1>10, <2>1, <2>2 DEF Conclude, BootTypeOK, ProcessTypeOK, processVars
<1>11. CASE Raises
  <2>1. boot' \in BootStates
    BY <1>1, <1>11 DEF Raises, BootStates
  <2>2. Stopped /\ PortAfterStop /\ UNCHANGED <<stolen, disturbed, target, result>> /\ rc' = 127
    BY <1>11 DEF Raises
  <2> QED  BY <1>1, <2>1, <2>2, StopFacts DEF BootTypeOK, ProcessTypeOK
<1>12. CASE World
  <2>1. ProcessTypeOK' /\ UNCHANGED bootVars
    BY <1>1, <1>12, MachineFacts DEF World
  <2> QED  BY <1>1, <2>1 DEF BootTypeOK, bootVars
<1>13. CASE BootTimesOut
  <2>1. boot' \in BootStates
    BY <1>1, <1>13 DEF BootTimesOut, BootStates
  <2> QED  BY <1>1, <1>13, <2>1 DEF BootTimesOut, BootTypeOK, ProcessTypeOK, processVars
<1> QED
  BY <1>3, <1>4, <1>5, <1>6, <1>7, <1>8, <1>9, <1>10, <1>11, <1>12, <1>13 DEF BootGate

\* What is said of both passes is one of the conclusions, and the code one of the codes.
LEMMA ControlFacts ==
    ASSUME NEW h, NEW found, NEW knob
    PROVE  ControlOf(h) \in Controls /\ CodeOf(found, knob) \in {0, 2, 3}
  BY DEF ControlOf, Controls, CodeOf

\* What has been heard of a pass: at most one outcome per name, none before it is asked,
\* and never all of them while it is.
HeardShape ==
    /\ \A p \in Passes : Len(heard[p]) \in 0..4
    /\ rebind.pc \notin {"ask", "done"} => heard[rebind.pass] = <<>>
    /\ rebind.pc # "done" /\ rebind.pass = 1 => heard[2] = <<>>
    /\ rebind.pc = "ask" => Len(heard[rebind.pass]) < 4

\* What is left to test are network transports, and there is one while one is tested.
QueueShape ==
    /\ rebind.queue \subseteq Network
    /\ rebind.pc \notin {"idle", "pick", "done"} => rebind.queue # {}

RebindTyped ==
    /\ rebind \in RebindStates
    /\ heard \in [Passes -> Seq(Outcomes)]
    /\ control \in [Transports -> Controls \cup {None}]
    /\ rebindRc \in {0, 2, 3, 4, 124, 127, NoCode}
    /\ HeardShape /\ QueueShape

\* The end of a pass keeps the shape of what is known.
LEMMA PassEndsTyped ==
    ASSUME RebindTyped, NEW h \in [Passes -> Seq(Outcomes)], PassEnds(h),
           rebind.pc \in {"spawn", "wait", "resolve", "ask"},
           \A p \in Passes : Len(h[p]) \in 0..4,
           rebind.pass = 1 => h[2] = <<>>,
           UNCHANGED rebindRc
    PROVE  RebindTyped'
<1>0. rebind \in RebindStates /\ {1, 2} \subseteq Passes
  BY DEF RebindTyped, Passes
<1>1. Tested \in Transports
  BY <1>0, FirstFacts DEF RebindStates, Tested
<1>2. CASE rebind.pass = 1
  <2>1. heard' = h /\ control' = control /\ rebind' = [rebind EXCEPT !.pc = "pick", !.pass = 2]
    BY <1>2 DEF PassEnds
  <2>2. /\ rebind' \in RebindStates /\ rebind'.pc = "pick" /\ rebind'.pass = 2
        /\ rebind'.queue = rebind.queue
    BY <1>0, <2>1 DEF RebindStates
  <2>3. HeardShape' /\ QueueShape'
    BY <1>2, <2>1, <2>2 DEF HeardShape, QueueShape, RebindTyped
  <2> QED  BY <2>1, <2>2, <2>3 DEF RebindTyped
<1>3. CASE rebind.pass = 2
  <2>1. /\ heard' = Unheard
        /\ rebind' = [rebind EXCEPT !.pc = "pick", !.pass = 1, !.known = FALSE,
                                    !.queue = @ \ {Tested}]
        /\ control' = [control EXCEPT ![Tested] = ControlOf(h)]
    BY <1>3 DEF PassEnds
  <2>2. control' \in [Transports -> Controls \cup {None}]
    BY <1>1, <2>1, ControlFacts DEF RebindTyped
  <2>3. /\ rebind' \in RebindStates /\ rebind'.pc = "pick" /\ rebind'.pass = 1
        /\ rebind'.queue = rebind.queue \ {Tested}
    BY <1>0, <2>1 DEF RebindStates
  <2>4. heard' \in [Passes -> Seq(Outcomes)] /\ \A p \in Passes : heard'[p] = <<>>
    BY <2>1 DEF Unheard
  <2>5. HeardShape' /\ QueueShape'
    BY <2>3, <2>4 DEF HeardShape, QueueShape, RebindTyped, Passes
  <2> QED  BY <2>2, <2>3, <2>4, <2>5 DEF RebindTyped
<1> QED  BY <1>0, <1>2, <1>3 DEF RebindStates, Passes

\* A pass that could not be carried out ends with nothing heard.
LEMMA NothingTyped ==
    ASSUME RebindTyped, PassEnds(Nothing), UNCHANGED rebindRc,
           rebind.pc \in {"spawn", "wait", "resolve"}
    PROVE  RebindTyped'
<1>1. /\ heard \in [Passes -> Seq(Outcomes)] /\ rebind.pass \in Passes
      /\ \A p \in Passes : Len(heard[p]) \in 0..4
      /\ rebind.pass = 1 => heard[2] = <<>>
  BY DEF RebindTyped, HeardShape, RebindStates
<1>2. <<>> \in Seq(Outcomes) /\ Len(<<>>) \in 0..4
  OBVIOUS
<1>3. /\ Nothing \in [Passes -> Seq(Outcomes)]
      /\ \A p \in Passes : Nothing[p] \in {heard[p], <<>>}
  BY <1>1, <1>2 DEF Nothing
<1>4. \A p \in Passes : Len(Nothing[p]) \in 0..4
  BY <1>1, <1>2, <1>3
<1>5. 2 \in Passes
  BY DEF Passes
<1>6. rebind.pass = 1 => Nothing[2] = <<>>
  BY <1>1, <1>3, <1>5
<1> HIDE DEF Nothing
<1> QED  BY <1>3, <1>4, <1>6, PassEndsTyped

\* What is heard beside what was heard before, as the gate counts it.
Heard(outcome) == [heard EXCEPT ![rebind.pass] = Append(@, outcome)]

\* It has the shape of what is heard, and differs in the current pass only.
LEMMA HeardFacts ==
    ASSUME RebindTyped, rebind.pc = "ask", NEW outcome \in Outcomes
    PROVE  /\ Heard(outcome) \in [Passes -> Seq(Outcomes)]
           /\ \A p \in Passes : Len(Heard(outcome)[p]) \in 0..4
           /\ rebind.pass = 1 => Heard(outcome)[2] = <<>>
           /\ Heard(outcome)[rebind.pass] = Append(heard[rebind.pass], outcome)
           /\ \A p \in Passes : p # rebind.pass => Heard(outcome)[p] = heard[p]
<1>1. /\ heard \in [Passes -> Seq(Outcomes)] /\ rebind.pass \in Passes
      /\ \A p \in Passes : Len(heard[p]) \in 0..4
      /\ rebind.pass = 1 => heard[2] = <<>>
      /\ Len(heard[rebind.pass]) < 4
  BY DEF RebindTyped, HeardShape, RebindStates
<1>2. heard[rebind.pass] \in Seq(Outcomes) /\ Len(heard[rebind.pass]) \in Nat
  BY <1>1
<1>3. /\ Append(heard[rebind.pass], outcome) \in Seq(Outcomes)
      /\ Len(Append(heard[rebind.pass], outcome)) = Len(heard[rebind.pass]) + 1
  BY <1>2
<1>4. /\ Heard(outcome) \in [Passes -> Seq(Outcomes)]
      /\ Heard(outcome)[rebind.pass] = Append(heard[rebind.pass], outcome)
      /\ \A p \in Passes : p # rebind.pass => Heard(outcome)[p] = heard[p]
  BY <1>1, <1>3 DEF Heard
<1>5. Len(Append(heard[rebind.pass], outcome)) \in 0..4
  BY <1>1, <1>2, <1>3
<1>6. \A p \in Passes : Len(Heard(outcome)[p]) \in 0..4
  BY <1>1, <1>4, <1>5
<1>7. 2 \in Passes
  BY DEF Passes
<1> QED  BY <1>1, <1>4, <1>6, <1>7

\* Hearing one more outcome keeps the shape.
LEMMA HearTyped ==
    ASSUME RebindTyped, rebind.pc = "ask", NEW outcome \in Outcomes, Hear(outcome),
           UNCHANGED rebindRc
    PROVE  RebindTyped' /\ (StoppedForGood \/ UNCHANGED <<proc, port, strays>>)
<1> DEFINE h == Heard(outcome)
<1>1. /\ h \in [Passes -> Seq(Outcomes)]
      /\ \A p \in Passes : Len(h[p]) \in 0..4
      /\ rebind.pass = 1 => h[2] = <<>>
  BY HeardFacts
<1>2. Len(Cases) = 4
  BY DEF Cases
<1>3. CASE Len(h[rebind.pass]) < 4
  <2>1. heard' = h /\ UNCHANGED <<rebind, control, proc, port, strays>>
    BY <1>2, <1>3 DEF Hear, Heard
  <2> HIDE DEF h
  <2> QED  BY <1>1, <1>3, <2>1 DEF RebindTyped, HeardShape, QueueShape
<1>4. CASE ~(Len(h[rebind.pass]) < 4)
  <2>1. PassEnds(h) /\ StoppedForGood
    BY <1>2, <1>4 DEF Hear, Heard
  <2> HIDE DEF h
  <2> QED  BY <1>1, <2>1, PassEndsTyped
<1> QED  BY <1>3, <1>4

\* What may be heard is an outcome.
LEMMA OutcomeFacts ==
    ASSUME BootTypeOK, RebindTyped, rebind.pc = "ask"
    PROVE  /\ Len(heard[rebind.pass]) \in 0..3
           /\ Cases[Len(heard[rebind.pass]) + 1] \in Names
           /\ Tested \in Network /\ Tested \in rebind.queue
           /\ Told \in Outcomes \cup {Endless}
           /\ Strange \subseteq Outcomes
<1>1. /\ rebind.pass \in Passes /\ heard[rebind.pass] \in Seq(Outcomes)
      /\ Len(heard[rebind.pass]) \in 0..3 /\ target \in Targets
  <2>1. rebind.pass \in Passes /\ target \in Targets /\ heard \in [Passes -> Seq(Outcomes)]
    BY DEF BootTypeOK, RebindTyped, RebindStates
  <2>2. Len(heard[rebind.pass]) \in 0..4 /\ Len(heard[rebind.pass]) < 4
    BY <2>1 DEF RebindTyped, HeardShape
  <2>3. \A n \in 0..4 : n < 4 => n \in 0..3
    OBVIOUS
  <2> QED  BY <2>1, <2>2, <2>3
<1>2. Cases[Len(heard[rebind.pass]) + 1] \in Names
  <2>1. Cases[1] \in Names /\ Cases[2] \in Names /\ Cases[3] \in Names /\ Cases[4] \in Names
    BY DEF Cases, Names, Hostile
  <2>2. \A n \in 0..3 : n + 1 \in {1, 2, 3, 4}
    OBVIOUS
  <2> QED  BY <1>1, <2>1, <2>2
<1>3. target.inbound \in [Network -> [Passes -> [Names -> Outcomes \cup {Endless}]]]
  BY <1>1, TargetFacts
<1>4. heard[rebind.pass] # <<>> => Head(heard[rebind.pass]) \in Outcomes
  BY <1>1
<1>5. Tested \in Network /\ Tested \in rebind.queue
  BY FirstFacts DEF RebindTyped, RebindStates, QueueShape, Tested
<1>6. Told \in Outcomes \cup {Endless}
  BY <1>1, <1>2, <1>3, <1>5 DEF Told
<1> QED  BY <1>1, <1>2, <1>4, <1>5, <1>6 DEF Strange

\* Every step of the rebinding gate keeps the shape of both gates.
LEMMA RebindStepTyped ==
    ASSUME BootTypeOK, RebindTyped, RebindGate \/ RebindTimesOut
    PROVE  BootTypeOK' /\ RebindTyped'
<1>1. /\ ProcessTypeOK /\ target \in Targets /\ boot \in BootStates
      /\ result \in [Transports -> Verdicts \cup {None}]
      /\ rc \in {0, 2, 3, 4, 124, 127, NoCode}
  BY DEF BootTypeOK
<1>2. /\ rebind \in RebindStates /\ heard \in [Passes -> Seq(Outcomes)]
      /\ control \in [Transports -> Controls \cup {None}]
      /\ rebindRc \in {0, 2, 3, 4, 124, 127, NoCode} /\ HeardShape /\ QueueShape
  BY DEF RebindTyped
<1>3. CASE RebindRaises
  <2>1. rebind' \in RebindStates /\ rebind'.pc = "done" /\ rebind'.queue = rebind.queue
    BY <1>2, <1>3 DEF RebindRaises, RebindStates
  <2>2. RebindTyped'
    BY <1>2, <1>3, <2>1 DEF RebindRaises, RebindTyped, HeardShape, QueueShape
  <2>3. Stopped /\ port' = "free" /\ UNCHANGED <<stolen, disturbed>> /\ UNCHANGED bootVars
    BY <1>3 DEF RebindRaises, StoppedForGood, Quiet
  <2> QED  BY <1>1, <2>2, <2>3, StopFacts DEF BootTypeOK, ProcessTypeOK, bootVars
<1>4. CASE StartRebind
  <2>1. Derived(target) \subseteq Transports
    BY <1>1, TargetFacts
  <2>2. /\ rebind' \in RebindStates /\ rebind'.pc = "pick" /\ rebind'.pass = rebind.pass
        /\ rebind.pc = "idle" /\ rebind'.queue \subseteq Network
    BY <1>2, <1>4, <2>1 DEF StartRebind, RebindStates, Network, Transports
  <2>3. RebindTyped'
    BY <1>2, <1>4, <2>2 DEF StartRebind, RebindTyped, HeardShape, QueueShape
  <2>4. proc' \in [way : Ways, wired : BOOLEAN, rc : {Running, "0", "1"}, child : BOOLEAN]
    BY <1>4 DEF StartRebind, NoProcess, Ways
  <2>5. result' \in [Transports -> Verdicts \cup {None}] /\ rc' = NoCode
    BY <1>4 DEF StartRebind
  <2>6. boot' \in BootStates
    BY <1>4, BootAssumption DEF StartRebind, Blank, BootAssumption, BootStates, Asked
  <2> QED  BY <1>1, <1>4, <2>3, <2>4, <2>5, <2>6 DEF StartRebind, BootTypeOK, ProcessTypeOK
<1>5. CASE PickPass
  <2>1. /\ rebind' \in RebindStates /\ rebind'.pc = "spawn" /\ rebind'.pass = rebind.pass
        /\ rebind.pc = "pick" /\ rebind.queue # {} /\ rebind'.queue = rebind.queue
    BY <1>2, <1>5 DEF PickPass, RebindStates
  <2>2. RebindTyped'
    BY <1>2, <1>5, <2>1 DEF PickPass, RebindTyped, HeardShape, QueueShape
  <2> QED  BY <1>1, <1>5, <2>2
           DEF PickPass, FreePort, BootTypeOK, ProcessTypeOK, Quiet, bootVars
<1>6. CASE SpawnPass
  <2>1. Tested \in Transports
    BY <1>2, FirstFacts DEF RebindStates, Tested
  <2>2. target.own[Tested] \in Ways
    BY <1>1, <2>1, TargetFacts
  <2>3. CASE target.own[Tested] = "missing"
    <3>1. PassEnds(Nothing) /\ UNCHANGED proc /\ UNCHANGED rebindRc /\ rebind.pc = "spawn"
      BY <1>6, <2>3 DEF SpawnPass
    <3>2. RebindTyped'
      BY <3>1, NothingTyped
    <3> QED  BY <1>1, <1>6, <3>1, <3>2 DEF SpawnPass, BootTypeOK, ProcessTypeOK, Quiet, bootVars
  <2>4. CASE target.own[Tested] # "missing"
    <3>1. /\ proc' = Started(target.own[Tested], TRUE) /\ rebind.pc = "spawn"
          /\ rebind' = [rebind EXCEPT !.pc = "wait"] /\ UNCHANGED <<heard, control, rebindRc>>
      BY <1>6, <2>4 DEF SpawnPass
    <3>2. /\ rebind' \in RebindStates /\ rebind'.pc = "wait" /\ rebind'.pass = rebind.pass
          /\ rebind'.queue = rebind.queue
      BY <1>2, <3>1 DEF RebindStates
    <3>3. RebindTyped'
      BY <1>2, <3>1, <3>2 DEF RebindTyped, HeardShape, QueueShape
    <3>4. proc' \in [way : Ways, wired : BOOLEAN, rc : {Running, "0", "1"}, child : BOOLEAN]
      BY <2>2, <3>1, StartedFacts
    <3> QED  BY <1>1, <1>6, <3>3, <3>4 DEF SpawnPass, BootTypeOK, ProcessTypeOK, Quiet, bootVars
  <2> QED  BY <2>3, <2>4
<1>7. CASE PassConnected
  <2>1. /\ rebind' \in RebindStates /\ rebind'.pc \in {"resolve", "ask"}
        /\ rebind'.pass = rebind.pass /\ rebind.pc = "wait" /\ rebind'.queue = rebind.queue
    BY <1>2, <1>7 DEF PassConnected, RebindStates
  <2>2. heard[rebind.pass] = <<>> /\ Len(<<>>) = 0
    BY <1>2, <2>1 DEF HeardShape
  <2>3. RebindTyped'
    BY <1>2, <1>7, <2>1, <2>2 DEF PassConnected, RebindTyped, HeardShape, QueueShape
  <2> QED  BY <1>1, <1>7, <2>3
           DEF PassConnected, BootTypeOK, ProcessTypeOK, processVars, Quiet, bootVars
<1>8. CASE NeverUp
  <2>1. RebindTyped'
    BY <1>8, NothingTyped DEF NeverUp
  <2>2. disturbed' \in BOOLEAN /\ UNCHANGED stolen /\ UNCHANGED bootVars
    BY <1>1, <1>8 DEF NeverUp, ProcessTypeOK, Quiet
  <2>3. Stopped /\ port' = "free"
    BY <1>8 DEF NeverUp, StoppedForGood
  <2> QED  BY <1>1, <2>1, <2>2, <2>3, StopFacts DEF BootTypeOK, ProcessTypeOK, bootVars
<1>9. CASE Resolve
  <2>1. CASE /\ rebind' = [rebind EXCEPT !.pc = "ask", !.known = TRUE]
             /\ UNCHANGED <<processVars, heard, control>>
    <3>1. /\ rebind' \in RebindStates /\ rebind'.pc = "ask"
          /\ rebind'.pass = rebind.pass /\ rebind.pc = "resolve"
          /\ rebind'.queue = rebind.queue
      BY <1>2, <1>9, <2>1 DEF Resolve, RebindStates
    <3>2. heard[rebind.pass] = <<>> /\ Len(<<>>) = 0
      BY <1>2, <3>1 DEF HeardShape
    <3>3. RebindTyped'
      BY <1>2, <1>9, <2>1, <3>1, <3>2 DEF Resolve, RebindTyped, HeardShape, QueueShape
    <3> QED  BY <1>1, <1>9, <2>1, <3>3
             DEF Resolve, BootTypeOK, ProcessTypeOK, processVars, Quiet, bootVars
  <2>2. CASE PassEnds(Nothing) /\ StoppedForGood /\ UNCHANGED stolen
             /\ disturbed' = (disturbed \/ port # "free")
    <3>1. RebindTyped'
      BY <1>9, <2>2, NothingTyped DEF Resolve
    <3>2. disturbed' \in BOOLEAN /\ UNCHANGED stolen /\ UNCHANGED bootVars
      BY <1>1, <1>9, <2>2 DEF Resolve, ProcessTypeOK, Quiet
    <3>3. Stopped /\ port' = "free"
      BY <2>2 DEF StoppedForGood
    <3> QED  BY <1>1, <3>1, <3>2, <3>3, StopFacts DEF BootTypeOK, ProcessTypeOK, bootVars
  <2> QED  BY <1>9, <2>1, <2>2 DEF Resolve
<1>10. CASE Probe
  <2>1. rebind.pc = "ask" /\ UNCHANGED <<stolen, rebindRc>> /\ UNCHANGED bootVars
    BY <1>10 DEF Probe, Quiet
  <2>2. PICK outcome \in Outcomes : Hear(outcome)
    <3>1. \/ Told # Endless /\ Hear(Told)
          \/ Hear("errored") \/ \E o \in Strange : Hear(o)
      BY <1>10 DEF Probe
    <3>2. "errored" \in Outcomes
      BY DEF Outcomes
    <3> QED  BY <2>1, <3>1, <3>2, OutcomeFacts
  <2>3. disturbed' \in BOOLEAN
    BY <1>1, <1>10 DEF Probe, Late, ProcessTypeOK
  <2>4. RebindTyped' /\ (StoppedForGood \/ UNCHANGED <<proc, port, strays>>)
    BY <2>1, <2>2, HearTyped
  <2>5. CASE StoppedForGood
    BY <1>1, <2>1, <2>3, <2>4, <2>5, StopFacts
    DEF StoppedForGood, BootTypeOK, ProcessTypeOK, bootVars
  <2>6. CASE UNCHANGED <<proc, port, strays>>
    BY <1>1, <2>1, <2>3, <2>4, <2>6 DEF BootTypeOK, ProcessTypeOK, bootVars
  <2> QED  BY <2>4, <2>5, <2>6
<1>11. CASE ConcludeRebind
  <2>1. CodeOf({control[tr] : tr \in Transports}, target.knob) \in {0, 2, 3}
    BY ControlFacts
  <2>2. rebind' \in RebindStates /\ rebind'.pc = "done" /\ rebind'.queue = rebind.queue
    BY <1>2, <1>11 DEF ConcludeRebind, RebindStates
  <2>3. RebindTyped'
    BY <1>2, <1>11, <2>1, <2>2 DEF ConcludeRebind, RebindTyped, HeardShape, QueueShape
  <2> QED  BY <1>1, <1>11, <2>3
           DEF ConcludeRebind, BootTypeOK, ProcessTypeOK, processVars, Quiet, bootVars
<1>12. CASE RebindTimesOut
  <2>1. rebind' \in RebindStates /\ rebind'.pc = "done" /\ rebind'.queue = rebind.queue
    BY <1>2, <1>12 DEF RebindTimesOut, RebindStates
  <2>2. RebindTyped'
    BY <1>2, <1>12, <2>1 DEF RebindTimesOut, RebindTyped, HeardShape, QueueShape
  <2> QED  BY <1>1, <1>12, <2>2
           DEF RebindTimesOut, BootTypeOK, ProcessTypeOK, processVars, Quiet, bootVars
<1> QED
  BY <1>3, <1>4, <1>5, <1>6, <1>7, <1>8, <1>9, <1>10, <1>11, <1>12 DEF RebindGate

Typed == BootTypeOK /\ RebindTyped

\* In every behaviour, both gates have their shape.
LEMMA TypedInvariant == GatesSpec => []Typed
<1>1. GatesInit => Typed
  <2> SUFFICES ASSUME GatesInit  PROVE Typed
    OBVIOUS
  <2>1. BootInit /\ rebindRc = NoCode
    BY DEF GatesInit
  <2>2. boot \in BootStates
    BY <2>1, BootAssumption DEF BootAssumption, BootInit, Blank, BootStates, Asked
  <2>3. ProcessTypeOK
    BY <2>1 DEF BootInit, ProcessInit, ProcessTypeOK, NoProcess, Ways
  <2>4. result \in [Transports -> Verdicts \cup {None}] /\ target \in Targets /\ rc = NoCode
    BY <2>1 DEF BootInit
  <2>5. rebind \in RebindStates /\ rebind.pc = "idle" /\ rebind.pass = 1 /\ rebind.queue = {}
    BY DEF GatesInit, RebindStates, Passes
  <2>6. heard \in [Passes -> Seq(Outcomes)] /\ \A p \in Passes : heard[p] = <<>>
    BY DEF GatesInit, Unheard
  <2>7. HeardShape /\ QueueShape
    BY <2>5, <2>6 DEF HeardShape, QueueShape, Passes
  <2>8. control \in [Transports -> Controls \cup {None}]
    BY DEF GatesInit
  <2> QED  BY <2>1, <2>2, <2>3, <2>4, <2>5, <2>6, <2>7, <2>8 DEF Typed, BootTypeOK, RebindTyped
<1>2. Typed /\ [GatesNext]_gatesVars => Typed'
  <2> SUFFICES ASSUME Typed, [GatesNext]_gatesVars  PROVE Typed'
    OBVIOUS
  <2>1. CASE (BootGate \/ BootTimesOut \/ World) /\ UNCHANGED rebindVars
    <3>1. BootTypeOK'
      BY <2>1, BootTyped DEF Typed
    <3> QED  BY <2>1, <3>1 DEF Typed, RebindTyped, HeardShape, QueueShape, rebindVars
  <2>2. CASE RebindGate \/ RebindTimesOut
    BY <2>2, RebindStepTyped DEF Typed
  <2>3. CASE UNCHANGED gatesVars
    BY <2>3 DEF Typed, BootTypeOK, ProcessTypeOK, RebindTyped, HeardShape, QueueShape,
                gatesVars, processVars, bootVars, rebindVars
  <2> QED  BY <2>1, <2>2, <2>3 DEF GatesNext
<1> QED  BY <1>1, <1>2, PTL DEF GatesSpec

\* Type correctness of both gates, for every set of targets and number of flags.
THEOREM GatesTyped == GatesSpec => []GatesTypeOK
<1>1. Typed => GatesTypeOK
  BY DEF Typed, RebindTyped, GatesTypeOK
<1> QED  BY <1>1, TypedInvariant, PTL
--------------------------------------------------------------------------------
(* The exit code of the boot gate is about the target.                         *)

\* What a transport is judged by: it answers as it should, or it cannot have served.
AnswersWell(w, tr, late) == Works(w, tr) \/ (late /\ WorksUnshaken(w, tr))
Faulty(t, tr) ==
    \/ t.own[tr] \in {"fails", "hangs", "missing"}
    \/ tr = "stdio" /\ t.own[tr] # "serves"
    \/ ~Works(t.wire, tr)
NeverOwned(t, tr) == tr # "stdio" /\ t.own[tr] \in {"exits", "forks"}

\* What the answers so far say of a server, when none of them was lost (late: when one was).
Reached(w, tr, step, bare, late) ==
    /\ tr = "stdio" =>
          /\ step \in {"initialize", "bare", "list"}
          /\ step = "bare" => w.initialize = "refused"
          /\ step = "list" => w.initialize = "result"
    /\ tr = "streamable-http" =>
          /\ step \in {"initialize", "bare", "hostile", "list"}
          /\ step # "hostile" => ~bare
          /\ step = "bare" \/ bare => w.initialize # "result" \/ late
          /\ bare => w.bare = "result"
          /\ step = "list" \/ (step = "hostile" /\ ~bare) => w.initialize = "result"
          /\ step = "list" => Served(w.hostile)
    /\ tr = "sse" =>
          /\ step \in {"stream", "post", "hostile"}
          /\ step # "stream" => w.stream = "result"
          /\ step = "hostile" => Served(w.post)

\* An answer that is the server's own, or was lost, leads where the server deserves.
LEMMA AnswerFacts ==
    ASSUME NEW w \in [Asked -> Answers \cup {Endless}], NEW tr \in Transports,
           NEW step \in Asked, NEW bare \in BOOLEAN, NEW late \in BOOLEAN,
           Reached(w, tr, step, bare, late), NEW a \in Answers,
           a = w[step] \/ (a = "silence" /\ (late \/ w[step] = Endless))
    PROVE  LET next == After(tr, step, bare, a) IN
           /\ next \in {"ok", "stateless"} => a # "silence" /\ AnswersWell(w, tr, late)
           /\ next = "fail" => late \/ ~Works(w, tr)
           /\ next # "not_selected"
           /\ next \notin Verdicts => Reached(w, tr, next, bare \/ step = "bare", late)
<1>0. \A k \in {"initialize", "bare", "hostile", "list", "stream", "post"} :
          w[k] \in Answers \cup {Endless}
  BY DEF Asked
<1> USE DEF Endless, Reached, After, AnswersWell, Works, WorksUnshaken, Served, Verdicts
<1>1. CASE tr = "stdio"
  <2>1. CASE step = "initialize"
    BY <1>0, <1>1, <2>1
  <2>2. CASE step = "bare"
    BY <1>0, <1>1, <2>2
  <2>3. CASE step = "list"
    BY <1>0, <1>1, <2>3
  <2> QED  BY <1>1, <2>1, <2>2, <2>3
<1>2. CASE tr = "streamable-http"
  <2>1. CASE step = "initialize"
    BY <1>0, <1>2, <2>1
  <2>2. CASE step = "bare"
    BY <1>0, <1>2, <2>2
  <2>3. CASE step = "hostile"
    <3>1. CASE Served(a)
      <4>1. a = w["hostile"]
        BY <2>3, <3>1 DEF Served
      <4>2. CASE bare
        <5>1. After(tr, step, bare, a) = "stateless" /\ a # "silence"
          BY <1>2, <2>3, <3>1, <4>2
        <5>2. AnswersWell(w, tr, late)
          BY <1>2, <2>3, <3>1, <4>1, <4>2
        <5> QED  BY <5>1, <5>2
      <4>3. CASE ~bare
        <5>1. After(tr, step, bare, a) = "list"
          BY <1>2, <2>3, <3>1, <4>3
        <5>2. Reached(w, tr, "list", FALSE, late)
          BY <1>2, <2>3, <3>1, <4>1, <4>3
        <5> QED  BY <2>3, <4>3, <5>1, <5>2
      <4> QED  BY <4>2, <4>3
    <3>2. CASE ~Served(a)
      <4>1. After(tr, step, bare, a) = "fail"
        BY <1>2, <2>3, <3>2
      <4>2. a = w["hostile"] => ~Works(w, tr)
        BY <1>2, <3>2
      <4> QED  BY <2>3, <4>1, <4>2
    <3> QED  BY <3>1, <3>2
  <2>4. CASE step = "list"
    BY <1>0, <1>2, <2>4
  <2> QED  BY <1>2, <2>1, <2>2, <2>3, <2>4
<1>3. CASE tr = "sse"
  <2>1. CASE step = "stream"
    BY <1>0, <1>3, <2>1
  <2>2. CASE step = "post"
    BY <1>0, <1>3, <2>2
  <2>3. CASE step = "hostile"
    BY <1>0, <1>3, <2>3
  <2> QED  BY <1>3, <2>1, <2>2, <2>3
<1> QED  BY <1>1, <1>2, <1>3 DEF Transports

\* Silence is never a verdict in favour of a server.
LEMMA SilenceFacts ==
    ASSUME NEW tr \in Transports, NEW step, NEW bare
    PROVE  After(tr, step, bare, "silence") \notin {"ok", "stateless", "not_selected"}
  BY DEF After, Served

AtWork == boot.pc \in {"spawn", "wait", "ask"}
Own == target.own[Current]

\* A transport has its verdict or waits for it.
Queued ==
    /\ boot.pc = "pick" \/ AtWork =>
          /\ boot.queue \subseteq Wanted(target)
          /\ \A tr \in Wanted(target) : result[tr] # None \/ tr \in boot.queue
    /\ AtWork => boot.queue # {} /\ boot.attempt <= Attempts(target, Current)

\* What a transport is judged to be, it is.
Deserved(t, tr, verdict, late) ==
    /\ tr \in Wanted(t)
    /\ verdict \in {"ok", "stateless"} => Serves(t, tr) /\ AnswersWell(t.wire, tr, late)
    /\ verdict = "fail" => late \/ Faulty(t, tr)
    /\ verdict = "not_selected" => NeverOwned(t, tr)

ResultsDeserved ==
    boot.pc # "done" /\ ~stolen =>
        \A tr \in Transports : result[tr] # None => Deserved(target, tr, result[tr], disturbed)

\* The process is the one of the attempt; there is none between two attempts.
Launched ==
    /\ boot.pc \in {"derive", "pick", "spawn"} => proc = NoProcess
    /\ boot.pc \in {"spawn", "wait"} => ~boot.bare
    /\ boot.pc = "wait" => Current # "stdio" /\ boot.step = FirstStep(Current)
    /\ boot.pc \in {"wait", "ask"} =>
          /\ proc.way = WayOf(target, Current, boot.attempt)
          /\ proc.wired = (Current # "stdio")
          /\ proc.child => proc.way = "forks"
    /\ AtWork /\ boot.attempt = 0 => boot.first = None

\* What is kept of the own command line is what it did.
FirstTells ==
    AtWork /\ ~stolen /\ boot.attempt > 0 =>
        IF boot.first = "0" THEN Own \in {"exits", "forks"}
        ELSE disturbed \/ Own \in {"fails", "hangs", "missing"}

CodeTells ==
    boot.pc \in {"wait", "ask"} /\ ~stolen /\ boot.attempt = 0 =>
        /\ proc.rc = "0" => proc.way \in {"exits", "forks"}
        /\ proc.rc = "1" => disturbed \/ proc.way = "fails"

\* Whoever listens is of the target, and was started for this transport.
PortTells ==
    AtWork /\ ~stolen =>
        /\ port # "foreign"
        /\ strays \/ port = "child" => Serves(target, Current)
        /\ port = "ours" => boot.pc # "spawn" /\ proc.way = "serves"
        /\ boot.attempt = 0 => ~strays /\ (port = "child" => proc.child)
        /\ boot.pc = "ask" /\ Current # "stdio" /\ port = "free" => disturbed

AnswersTell ==
    boot.pc = "ask" /\ ~stolen =>
        Reached(target.wire, Current, boot.step, boot.bare, disturbed)

\* One gate at a time, and a code at the end.
Phases ==
    /\ rc # NoCode => boot.pc = "done"
    /\ rebind.pc # "idle" => boot.pc = "done" /\ rc = NoCode

BootInv == /\ Queued /\ ResultsDeserved /\ Launched /\ FirstTells /\ CodeTells
           /\ PortTells /\ AnswersTell /\ Phases

\* A command line that serves makes its transport one that serves.
LEMMA ServesFacts ==
    ASSUME NEW t \in Targets, NEW tr \in Transports, NEW k \in Nat, k <= Attempts(t, tr),
           WayOf(t, tr, k) \in {"serves", "forks"}
    PROVE  Serves(t, tr)
<1>1. k \in 0..Attempts(t, tr)
  BY WayFacts, BootAssumption DEF BootAssumption
<1> QED  BY <1>1 DEF Serves

\* Nothing that is deserved, or reached, is lost with an answer that comes too late.
LEMMA LateFacts ==
    ASSUME NEW late \in BOOLEAN, NEW later \in BOOLEAN, late => later
    PROVE  /\ \A t, tr, v : Deserved(t, tr, v, late) => Deserved(t, tr, v, later)
           /\ \A w, tr, step, bare :
                 Reached(w, tr, step, bare, late) => Reached(w, tr, step, bare, later)
<1>1. ASSUME NEW t, NEW tr, NEW v, Deserved(t, tr, v, late)  PROVE Deserved(t, tr, v, later)
  BY <1>1 DEF Deserved, AnswersWell
<1>2. ASSUME NEW w, NEW tr, NEW step, NEW bare, Reached(w, tr, step, bare, late)
      PROVE  Reached(w, tr, step, bare, later)
  BY <1>2 DEF Reached
<1> QED  BY <1>1, <1>2

\* The transport at work is one of those that are wanted.
LEMMA CurrentFacts ==
    ASSUME Typed, BootInv, AtWork
    PROVE  /\ Current \in Transports /\ Current \in boot.queue /\ Current \in Wanted(target)
           /\ target \in Targets /\ boot \in BootStates
           /\ boot.attempt \in Nat /\ Flags \in Nat
           /\ Attempts(target, Current) \in 0..Flags /\ boot.attempt <= Attempts(target, Current)
           /\ Current = "stdio" => boot.attempt = 0
           /\ boot.attempt = 0 => WayOf(target, Current, boot.attempt) = Own
           /\ rc = NoCode /\ rebind.pc = "idle"
<1>1. /\ boot \in BootStates /\ boot.queue \in SUBSET Transports /\ target \in Targets
      /\ boot.attempt \in Nat /\ Flags \in Nat
  BY BootAssumption DEF BootAssumption, Typed, BootTypeOK, BootStates
<1>2. boot.queue # {} /\ boot.queue \subseteq Wanted(target)
      /\ boot.attempt <= Attempts(target, Current)
  BY DEF BootInv, Queued
<1>3. Current \in Transports /\ Current \in boot.queue
  BY <1>1, <1>2, FirstFacts DEF Current
<1>4. Attempts(target, Current) \in 0..Flags
  BY <1>1, <1>3, WayFacts
<1>5. Current = "stdio" => boot.attempt = 0
  BY <1>1, <1>2 DEF Attempts
<1>6. rc = NoCode /\ rebind.pc = "idle"
  BY DEF BootInv, Phases, AtWork
<1> QED  BY <1>1, <1>2, <1>3, <1>4, <1>5, <1>6 DEF WayOf, Own

\* A verdict that is deserved keeps everything in order.
LEMMA JudgedKeeps ==
    ASSUME Typed, Typed', BootInv, AtWork, NEW verdict \in Verdicts, Judged(verdict),
           proc' = NoProcess, UNCHANGED <<stolen, target, rc, rebind>>, disturbed => disturbed',
           ~stolen => Deserved(target, Current, verdict, disturbed')
    PROVE  BootInv'
<1>1. /\ Current \in Transports /\ Current \in Wanted(target) /\ boot \in BootStates
      /\ rc = NoCode /\ rebind.pc = "idle"
  BY CurrentFacts
<1>2. boot' = [boot EXCEPT !.pc = "pick", !.queue = @ \ {Current}]
      /\ result' = [result EXCEPT ![Current] = verdict]
  BY DEF Judged
<1>3. boot'.pc = "pick" /\ boot'.queue = boot.queue \ {Current} /\ ~AtWork'
  BY <1>1, <1>2 DEF BootStates, AtWork
<1>4. result \in [Transports -> Verdicts \cup {None}] /\ disturbed \in BOOLEAN
      /\ disturbed' \in BOOLEAN
  BY DEF Typed, BootTypeOK, ProcessTypeOK
<1>5. \A tr \in Transports : result'[tr] = IF tr = Current THEN verdict ELSE result[tr]
  BY <1>2, <1>4
<1>6. Queued'
  <2>1. /\ boot.queue \subseteq Wanted(target)
        /\ \A tr \in Wanted(target) : result[tr] # None \/ tr \in boot.queue
    BY DEF BootInv, Queued
  <2>2. Wanted(target) \subseteq Transports /\ verdict # None
    BY TargetFacts DEF Typed, BootTypeOK, Verdicts, None
  <2> QED  BY <1>3, <1>5, <2>1, <2>2 DEF Queued
<1>7. ResultsDeserved'
  <2> SUFFICES ASSUME ~stolen, NEW tr \in Transports, result'[tr] # None
               PROVE  Deserved(target, tr, result'[tr], disturbed')
    BY DEF ResultsDeserved
  <2>1. CASE tr = Current
    BY <1>5, <2>1
  <2>2. CASE tr # Current
    <3>1. Deserved(target, tr, result[tr], disturbed)
      BY <1>5, <2>2 DEF BootInv, ResultsDeserved, AtWork
    <3> QED  BY <1>4, <1>5, <2>2, <3>1, LateFacts
  <2> QED  BY <2>1, <2>2
<1>8. Launched' /\ FirstTells' /\ CodeTells' /\ PortTells' /\ AnswersTell'
  BY <1>3 DEF Launched, FirstTells, CodeTells, PortTells, AnswersTell, AtWork
<1> QED  BY <1>1, <1>3, <1>6, <1>7, <1>8 DEF BootInv, Phases

\* The next attempt starts with what the earlier ones left.
LEMMA NextKeeps ==
    ASSUME Typed, Typed', BootInv, AtWork, ~boot.bare, NEW first,
           boot.attempt < Attempts(target, Current),
           boot' = [boot EXCEPT !.pc = "spawn", !.attempt = boot.attempt + 1, !.first = first],
           proc' = NoProcess, UNCHANGED <<stolen, target, rc, result, rebind>>,
           disturbed => disturbed',
           ~stolen => IF first = "0" THEN Own \in {"exits", "forks"}
                      ELSE disturbed' \/ Own \in {"fails", "hangs", "missing"},
           ~stolen => /\ port' \in {"free", "child"}
                      /\ strays' \/ port' = "child" => Serves(target, Current)
    PROVE  BootInv'
<1>1. /\ Current \in Transports /\ boot \in BootStates /\ boot.attempt \in Nat
      /\ Attempts(target, Current) \in Nat /\ rc = NoCode /\ rebind.pc = "idle"
  BY CurrentFacts
<1>2. /\ boot'.pc = "spawn" /\ boot'.attempt = boot.attempt + 1 /\ boot'.first = first
      /\ boot'.queue = boot.queue /\ boot'.bare = boot.bare
  BY <1>1 DEF BootStates
<1>3. boot'.attempt <= Attempts(target, Current) /\ boot'.attempt > 0 /\ boot'.attempt # 0
  BY <1>1, <1>2
<1>4. Current' = Current /\ Own' = Own
  BY <1>2 DEF Current, Own
<1>5. Queued'
  BY <1>2, <1>3, <1>4 DEF BootInv, Queued, AtWork
<1>6. ResultsDeserved'
  <2>1. disturbed \in BOOLEAN /\ disturbed' \in BOOLEAN
    BY DEF Typed, BootTypeOK, ProcessTypeOK
  <2>2. ASSUME ~stolen, NEW tr \in Transports, result[tr] # None
        PROVE  Deserved(target, tr, result[tr], disturbed')
    <3>1. Deserved(target, tr, result[tr], disturbed)
      BY <2>2 DEF BootInv, ResultsDeserved, AtWork
    <3> QED  BY <2>1, <3>1, LateFacts
  <2> QED  BY <2>2 DEF ResultsDeserved
<1>7. Launched' /\ FirstTells' /\ CodeTells' /\ PortTells' /\ AnswersTell'
  BY <1>2, <1>3, <1>4
  DEF BootInv, Launched, FirstTells, CodeTells, PortTells, AnswersTell, AtWork
<1> QED  BY <1>1, <1>2, <1>5, <1>6, <1>7 DEF BootInv, Phases

\* An attempt that came to nothing: either way, it is said what the own command line did.
LEMMA AttemptKeeps ==
    ASSUME Typed, Typed', BootInv, AtWork, ~boot.bare, Current # "stdio",
           NEW first, NEW late, NextAttempt(first, late),
           proc' = NoProcess, UNCHANGED <<stolen, target, rc, rebind>>, disturbed => disturbed',
           ~stolen => IF first = "0" THEN Own \in {"exits", "forks"}
                      ELSE disturbed' \/ Own \in {"fails", "hangs", "missing"},
           ~stolen => /\ port' \in {"free", "child"}
                      /\ strays' \/ port' = "child" => Serves(target, Current)
    PROVE  BootInv'
<1>1. CASE boot.attempt < Attempts(target, Current) /\ ~late
  <2>1. /\ boot' = [boot EXCEPT !.pc = "spawn", !.attempt = boot.attempt + 1, !.first = first]
        /\ UNCHANGED result
    BY <1>1 DEF NextAttempt
  <2> QED  BY <1>1, <2>1, NextKeeps
<1>2. CASE ~(boot.attempt < Attempts(target, Current) /\ ~late)
  <2>1. Judged(Unlistening(first)) /\ Unlistening(first) \in Verdicts
    BY <1>2 DEF NextAttempt, Unlistening, Verdicts
  <2>2. Current \in Wanted(target)
    BY CurrentFacts
  <2>3. ~stolen => Deserved(target, Current, Unlistening(first), disturbed')
    BY <2>2 DEF Deserved, Unlistening, NeverOwned, Faulty, Own
  <2> QED  BY <2>1, <2>3, JudgedKeeps
<1> QED  BY <1>1, <1>2

\* Of a process that is stopped only a child of the target goes on.
LEMMA StopKeeps ==
    ASSUME Typed, BootInv, boot.pc \in {"wait", "ask"}, ~stolen, Stopped, PortAfterStop
    PROVE  /\ port' \in {"free", "child"}
           /\ strays' \/ port' = "child" => Serves(target, Current)
<1>1. ProcessTypeOK /\ AtWork
  BY DEF Typed, BootTypeOK, AtWork
<1>2. /\ port' \in {"free", "child", "foreign"} /\ port' # "foreign"
      /\ port' = "child" \/ strays' => strays \/ proc.child \/ port = "child"
  BY <1>1, StopFacts DEF BootInv, PortTells
<1>3. /\ Current \in Transports /\ target \in Targets /\ boot.attempt \in Nat
      /\ boot.attempt <= Attempts(target, Current)
  BY <1>1, CurrentFacts
<1>4. proc.child => Serves(target, Current)
  <2>1. proc.child => WayOf(target, Current, boot.attempt) = "forks"
    BY DEF BootInv, Launched
  <2> QED  BY <1>3, <2>1, ServesFacts
<1> QED  BY <1>1, <1>2, <1>4 DEF BootInv, PortTells

\* A wait that is given up tells no more than what the own command line did.
LEMMA GivenUpKeeps ==
    ASSUME Typed, Typed', BootInv, boot.pc = "wait", NEW late, GivenUp(late), UNCHANGED rebind,
           disturbed => disturbed',
           \/ Exited
           \/ Alive /\ disturbed' = (disturbed \/ proc.way # "hangs")
    PROVE  BootInv'
<1>1. AtWork /\ ~boot.bare /\ Current # "stdio"
  BY DEF AtWork, BootInv, Launched
<1>2. /\ NextAttempt(FirstCode(proc.rc), late) /\ Stopped /\ PortAfterStop
      /\ UNCHANGED <<stolen, target, rc>>
  BY DEF GivenUp
<1>3. ProcessTypeOK /\ proc.rc \in {Running, "0", "1"} /\ boot.attempt \in Nat
      /\ (boot.attempt = 0 => proc.way = Own)
  BY <1>1, CurrentFacts DEF Typed, BootTypeOK, ProcessTypeOK, BootInv, Launched
<1>4. proc' = NoProcess
  BY <1>2 DEF Stopped
<1>5. ASSUME ~stolen
      PROVE  IF FirstCode(proc.rc) = "0" THEN Own \in {"exits", "forks"}
             ELSE disturbed' \/ Own \in {"fails", "hangs", "missing"}
  <2>1. CASE boot.attempt = 0
    <3>1. /\ proc.rc = "0" => proc.way \in {"exits", "forks"}
          /\ proc.rc = "1" => disturbed \/ proc.way = "fails"
      BY <1>5, <2>1 DEF BootInv, CodeTells
    <3> QED  BY <1>3, <2>1, <3>1 DEF FirstCode, Exited, Alive, Running
  <2>2. CASE boot.attempt # 0
    <3>1. boot.attempt > 0
      BY <1>3, <2>2
    <3>2. IF boot.first = "0" THEN Own \in {"exits", "forks"}
          ELSE disturbed \/ Own \in {"fails", "hangs", "missing"}
      BY <1>1, <1>5, <3>1 DEF BootInv, FirstTells
    <3> QED  BY <2>2, <3>2 DEF FirstCode
  <2> QED  BY <2>1, <2>2
<1>6. ~stolen => /\ port' \in {"free", "child"}
                 /\ strays' \/ port' = "child" => Serves(target, Current)
  BY <1>2, StopKeeps
<1> QED  BY <1>1, <1>2, <1>4, <1>5, <1>6, AttemptKeeps

\* An answer of the server's own, or none because it died, was late or never served, leads
\* to another question or to a verdict that is deserved.
LEMMA AnsweredKeeps ==
    ASSUME Typed, Typed', BootInv, boot.pc = "ask", NEW a \in Answers, Answered(a),
           UNCHANGED <<stolen, target, rc, rebind>>, disturbed => disturbed',
           ~stolen => \/ a = Arrived /\ Serves(target, Current)
                      \/ a = "silence" /\ disturbed'
                      \/ a = "silence" /\ Current = "stdio" /\ Faulty(target, Current)
    PROVE  BootInv'
<1> DEFINE next == After(Current, boot.step, boot.bare, a)
<1>1. AtWork
  BY DEF AtWork
<1>2. /\ Current \in Transports /\ Current \in Wanted(target) /\ boot \in BootStates
      /\ target \in Targets /\ rc = NoCode /\ rebind.pc = "idle"
  BY <1>1, CurrentFacts
<1>3. /\ boot.step \in Asked /\ boot.bare \in BOOLEAN
      /\ disturbed \in BOOLEAN /\ disturbed' \in BOOLEAN
  BY <1>2 DEF Typed, BootTypeOK, ProcessTypeOK, BootStates
<1>4. target.wire \in [Asked -> Answers \cup {Endless}]
  BY <1>2, TargetFacts
<1>5. ~stolen => Reached(target.wire, Current, boot.step, boot.bare, disturbed')
  <2>1. ~stolen => Reached(target.wire, Current, boot.step, boot.bare, disturbed)
    BY DEF BootInv, AnswersTell
  <2> QED  BY <1>3, <2>1, LateFacts
<1>6. ASSUME ~stolen
      PROVE  /\ next \in {"ok", "stateless"} =>
                   Serves(target, Current) /\ AnswersWell(target.wire, Current, disturbed')
             /\ next = "fail" => disturbed' \/ Faulty(target, Current)
             /\ next # "not_selected"
             /\ next \notin Verdicts =>
                   Reached(target.wire, Current, next, boot.bare \/ boot.step = "bare", disturbed')
  <2>1. CASE a = "silence" /\ Current = "stdio" /\ Faulty(target, Current)
    <3>1. Current = "stdio" => boot.step \in {"initialize", "bare", "list"}
      BY <1>5, <1>6 DEF Reached
    <3>2. next = "fail"
      BY <2>1, <3>1 DEF After
    <3> QED  BY <2>1, <3>2 DEF Verdicts
  <2>2. CASE \/ a = Arrived /\ Serves(target, Current)
             \/ a = "silence" /\ disturbed'
    <3>1. /\ next \in {"ok", "stateless"} =>
                a # "silence" /\ AnswersWell(target.wire, Current, disturbed')
          /\ next = "fail" => disturbed' \/ ~Works(target.wire, Current)
          /\ next # "not_selected"
          /\ next \notin Verdicts =>
                Reached(target.wire, Current, next, boot.bare \/ boot.step = "bare", disturbed')
      <4>1. \/ a = target.wire[boot.step]
            \/ a = "silence" /\ (disturbed' \/ target.wire[boot.step] = Endless)
        BY <2>2 DEF Arrived
      <4> QED  BY <1>2, <1>3, <1>4, <1>5, <1>6, <4>1, AnswerFacts
    <3> QED  BY <2>2, <3>1 DEF Faulty
  <2> QED  BY <1>6, <2>1, <2>2
<1>7. CASE next \in Verdicts
  <2>1. Judged(next) /\ Stopped
    BY <1>7 DEF Answered
  <2>2. proc' = NoProcess
    BY <2>1 DEF Stopped
  <2>3. ~stolen => Deserved(target, Current, next, disturbed')
    BY <1>2, <1>6 DEF Deserved
  <2> HIDE DEF next
  <2> QED  BY <1>1, <1>7, <2>1, <2>2, <2>3, JudgedKeeps
<1>8. CASE next \notin Verdicts
  <2>1. /\ boot' = [boot EXCEPT !.step = next, !.bare = (@ \/ boot.step = "bare")]
        /\ UNCHANGED <<result, proc, port, strays>>
    BY <1>8 DEF Answered
  <2> HIDE DEF next
  <2>2. /\ boot'.pc = "ask" /\ boot'.queue = boot.queue /\ boot'.attempt = boot.attempt
        /\ boot'.first = boot.first /\ boot'.step = next
        /\ boot'.bare = (boot.bare \/ boot.step = "bare")
    BY <1>2, <2>1 DEF BootStates
  <2>3. Current' = Current /\ Own' = Own /\ AtWork'
    BY <2>2 DEF Current, Own, AtWork
  <2>4. Queued'
    BY <1>1, <2>1, <2>2, <2>3 DEF BootInv, Queued
  <2>5. ResultsDeserved'
    <3>1. ASSUME ~stolen, NEW tr \in Transports, result[tr] # None
          PROVE  Deserved(target, tr, result[tr], disturbed')
      <4>1. Deserved(target, tr, result[tr], disturbed)
        BY <3>1 DEF BootInv, ResultsDeserved
      <4> QED  BY <1>3, <4>1, LateFacts
    <3> QED  BY <2>1, <3>1 DEF ResultsDeserved
  <2>6. Launched'
    BY <1>1, <2>1, <2>2, <2>3 DEF BootInv, Launched
  <2>7. FirstTells' /\ CodeTells' /\ PortTells'
    BY <1>1, <2>1, <2>2, <2>3 DEF BootInv, FirstTells, CodeTells, PortTells
  <2>8. AnswersTell'
    BY <1>6, <1>8, <2>2, <2>3 DEF AnswersTell
  <2> QED  BY <1>2, <2>2, <2>4, <2>5, <2>6, <2>7, <2>8 DEF BootInv, Phases
<1> QED  BY <1>7, <1>8

\* Where there is no process, nothing happens on its own.
LEMMA NothingHappens ==
    ASSUME proc = NoProcess
    PROVE  ~Machine
  BY DEF NoProcess, Running, Alive, Machine, Listen, Fork, ChildListens, Exit, Die, Steal

\* What the process and the machine do on their own keeps everything in order.
LEMMA WorldKeeps ==
    ASSUME Typed, Typed', BootInv, World, UNCHANGED rebindVars
    PROVE  BootInv'
<1>1. /\ Machine /\ UNCHANGED <<target, boot, result, rc, rebind>>
      /\ Current' = Current /\ Own' = Own /\ (AtWork' <=> AtWork)
  BY DEF World, bootVars, rebindVars, Current, Own, AtWork
<1>2. /\ ProcessTypeOK /\ (stolen => stolen') /\ (disturbed => disturbed')
      /\ disturbed \in BOOLEAN /\ disturbed' \in BOOLEAN
      /\ proc'.way = proc.way /\ proc'.wired = proc.wired
  BY <1>1, MachineFacts DEF Typed, BootTypeOK, ProcessTypeOK
<1>3. boot.pc \notin {"derive", "pick", "spawn"}
  BY <1>1, NothingHappens DEF BootInv, Launched
<1>4. Queued' /\ Phases'
  BY <1>1 DEF BootInv, Queued, Phases
<1>5. ResultsDeserved'
  <2>1. ASSUME ~stolen, boot.pc # "done", NEW tr \in Transports, result[tr] # None
        PROVE  Deserved(target, tr, result[tr], disturbed')
    <3>1. Deserved(target, tr, result[tr], disturbed)
      BY <2>1 DEF BootInv, ResultsDeserved
    <3> QED  BY <1>2, <3>1, LateFacts
  <2> QED  BY <1>1, <1>2, <2>1 DEF ResultsDeserved
<1>6. FirstTells'
  BY <1>1, <1>2 DEF BootInv, FirstTells
<1>7. AnswersTell'
  <2>1. ASSUME ~stolen, boot.pc = "ask"
        PROVE  Reached(target.wire, Current, boot.step, boot.bare, disturbed')
    <3>1. Reached(target.wire, Current, boot.step, boot.bare, disturbed)
      BY <2>1 DEF BootInv, AnswersTell
    <3> QED  BY <1>2, <3>1, LateFacts
  <2> QED  BY <1>1, <1>2, <2>1 DEF AnswersTell
<1>8. CASE boot.pc \notin {"wait", "ask"}
  <2>1. ~AtWork /\ boot.pc \notin {"derive", "pick", "spawn", "wait", "ask"}
    BY <1>3, <1>8 DEF AtWork
  <2>2. Launched' /\ CodeTells' /\ PortTells'
    BY <1>1, <2>1 DEF Launched, CodeTells, PortTells
  <2> QED  BY <1>4, <1>5, <1>6, <1>7, <2>2 DEF BootInv
<1>9. CASE boot.pc \in {"wait", "ask"}
  <2>1. /\ AtWork /\ Current \in Transports /\ target \in Targets /\ boot.attempt \in Nat
        /\ boot.attempt <= Attempts(target, Current)
    BY <1>9, CurrentFacts DEF AtWork
  <2>2. /\ proc.way = WayOf(target, Current, boot.attempt)
        /\ proc.wired = (Current # "stdio")
        /\ proc.child => proc.way = "forks"
    BY <1>9 DEF BootInv, Launched
  <2>3. proc.child => Serves(target, Current)
    BY <2>1, <2>2, ServesFacts
  <2>4. ~stolen /\ boot.attempt = 0 => /\ proc.rc = "0" => proc.way \in {"exits", "forks"}
                                       /\ proc.rc = "1" => disturbed \/ proc.way = "fails"
    BY <1>9 DEF BootInv, CodeTells
  <2>5. ~stolen => /\ port # "foreign"
                   /\ strays \/ port = "child" => Serves(target, Current)
                   /\ port = "ours" => proc.way = "serves"
                   /\ boot.attempt = 0 => ~strays /\ (port = "child" => proc.child)
                   /\ boot.pc = "ask" /\ Current # "stdio" /\ port = "free" => disturbed
    BY <2>1 DEF BootInv, PortTells
  <2>6. SUFFICES /\ proc'.child => proc.way = "forks"
                 /\ ~stolen' /\ boot.attempt = 0 =>
                       /\ proc'.rc = "0" => proc.way \in {"exits", "forks"}
                       /\ proc'.rc = "1" => disturbed' \/ proc.way = "fails"
                 /\ ~stolen' =>
                       /\ port' # "foreign"
                       /\ strays' \/ port' = "child" => Serves(target, Current)
                       /\ port' = "ours" => proc.way = "serves"
                       /\ boot.attempt = 0 => ~strays' /\ (port' = "child" => proc'.child)
                       /\ boot.pc = "ask" /\ Current # "stdio" /\ port' = "free" => disturbed'
    <3>1. boot.pc \notin {"derive", "pick", "spawn"}
      BY <1>3
    <3>2. Launched'
      BY <1>1, <1>2, <2>2, <2>6, <3>1 DEF BootInv, Launched
    <3>3. CodeTells' /\ PortTells'
      BY <1>1, <1>2, <2>6, <3>1 DEF CodeTells, PortTells
    <3> QED  BY <1>4, <1>5, <1>6, <1>7, <3>2, <3>3 DEF BootInv
  <2>7. /\ proc \in [way : Ways, wired : BOOLEAN, rc : {Running, "0", "1"}, child : BOOLEAN]
        /\ port \in {"free", "ours", "child", "foreign"}
    BY <1>2 DEF ProcessTypeOK
  <2>8. CASE Listen
    BY <2>2, <2>3, <2>4, <2>5, <2>7, <2>8 DEF Listen, Alive, Running
  <2>9. CASE Fork
    BY <2>2, <2>3, <2>4, <2>5, <2>7, <2>9 DEF Fork, Alive, Running
  <2>10. CASE ChildListens
    BY <2>2, <2>3, <2>4, <2>5, <2>7, <2>10 DEF ChildListens
  <2>11. CASE Exit
    BY <2>2, <2>3, <2>4, <2>5, <2>7, <2>11 DEF Exit, Alive, Running
  <2>12. CASE Die
    BY <2>2, <2>3, <2>4, <2>5, <2>7, <2>12 DEF Die, Alive, Running
  <2>13. CASE Steal
    BY <2>2, <2>3, <2>4, <2>5, <2>7, <2>13 DEF Steal
  <2> QED  BY <1>1, <2>8, <2>9, <2>10, <2>11, <2>12, <2>13 DEF Machine
<1> QED  BY <1>8, <1>9

\* Every step of the boot gate keeps everything in order.
LEMMA BootKeeps ==
    ASSUME Typed, Typed', BootInv, BootGate \/ BootTimesOut, UNCHANGED rebindVars
    PROVE  BootInv'
<1> USE DEF NoCode
<1>1. /\ target \in Targets /\ boot \in BootStates /\ ProcessTypeOK /\ UNCHANGED rebind
      /\ result \in [Transports -> Verdicts \cup {None}]
  BY DEF Typed, BootTypeOK, rebindVars
<1>2. Phases
  BY DEF BootInv
<1>3. CASE Derive
  <2>1. Derived(target) = Wanted(target) /\ rebind.pc = "idle"
    BY <1>1, <1>2, <1>3, TargetFacts DEF Derive, Phases
  <2>2. /\ boot'.queue = Wanted(target)
        /\ boot'.pc = IF Wanted(target) = {} THEN "done" ELSE "pick"
        /\ rc' = IF Wanted(target) = {} THEN 2 ELSE NoCode
        /\ UNCHANGED <<proc, port, strays, stolen, disturbed, target, result>>
    BY <1>1, <1>3, <2>1 DEF Derive, BootStates, processVars
  <2>3. ~AtWork' /\ boot'.pc \notin {"spawn", "wait", "ask"}
    BY <2>2 DEF AtWork
  <2>4. Queued' /\ ResultsDeserved' /\ Launched'
    BY <1>3, <2>2, <2>3 DEF BootInv, Queued, ResultsDeserved, Launched, Derive
  <2>5. FirstTells' /\ CodeTells' /\ PortTells' /\ AnswersTell' /\ Phases'
    BY <1>1, <2>1, <2>2, <2>3
    DEF FirstTells, CodeTells, PortTells, AnswersTell, Phases
  <2> QED  BY <2>4, <2>5 DEF BootInv
<1>4. CASE PickPort
  <2>1. /\ boot'.pc = "spawn" /\ boot'.attempt = 0 /\ boot'.first = None /\ boot'.bare = FALSE
        /\ boot'.queue = boot.queue /\ boot.queue # {} /\ boot.pc = "pick"
        /\ port' = "free" /\ strays' = FALSE
        /\ UNCHANGED <<proc, stolen, disturbed, target, result, rc>>
    BY <1>1, <1>4 DEF PickPort, FreePort, BootStates
  <2>2. Current' = Current /\ Current \in Transports
    BY <1>1, <2>1, FirstFacts DEF Current, BootStates
  <2>3. Attempts(target, Current) \in Nat
    BY <1>1, <2>2, WayFacts, BootAssumption DEF BootAssumption
  <2>4. Queued' /\ ResultsDeserved'
    BY <2>1, <2>2, <2>3 DEF BootInv, Queued, ResultsDeserved, AtWork
  <2>5. Launched' /\ FirstTells' /\ CodeTells' /\ PortTells' /\ AnswersTell'
    BY <2>1, <2>2
    DEF BootInv, Launched, FirstTells, CodeTells, PortTells, AnswersTell, AtWork
  <2>6. Phases'
    BY <1>1, <1>2, <2>1 DEF Phases
  <2> QED  BY <2>4, <2>5, <2>6 DEF BootInv
<1>5. CASE Spawn
  <2>1. AtWork /\ boot.pc = "spawn" /\ proc = NoProcess
    BY <1>5 DEF Spawn, AtWork, BootInv, Launched
  <2>2. /\ boot'.pc = (IF Current = "stdio" THEN "ask" ELSE "wait")
        /\ boot'.step = FirstStep(Current) /\ boot'.bare = boot.bare
        /\ boot'.queue = boot.queue /\ boot'.attempt = boot.attempt /\ boot'.first = boot.first
        /\ proc' = Started(WayOf(target, Current, boot.attempt), Current # "stdio")
        /\ UNCHANGED <<port, strays, stolen, disturbed, target, result, rc>>
    BY <1>1, <1>5 DEF Spawn, BootStates
  <2>3. Current' = Current /\ Own' = Own /\ AtWork' /\ boot'.pc \in {"wait", "ask"}
    BY <2>2 DEF Current, Own, AtWork
  <2>4. /\ proc'.way = WayOf(target, Current, boot.attempt)
        /\ proc'.wired = (Current # "stdio") /\ proc'.child = FALSE /\ proc'.rc = Running
    BY <2>2 DEF Started
  <2>5. Queued' /\ ResultsDeserved'
    BY <2>1, <2>2, <2>3 DEF BootInv, Queued, ResultsDeserved
  <2>6. Launched'
    BY <2>1, <2>2, <2>3, <2>4 DEF BootInv, Launched
  <2>7. FirstTells' /\ CodeTells'
    BY <2>1, <2>2, <2>3, <2>4 DEF BootInv, FirstTells, CodeTells, Running
  <2>8. PortTells'
    <3>1. proc.child = FALSE
      BY <2>1 DEF NoProcess
    <3> QED  BY <2>1, <2>2, <2>3, <2>4, <3>1 DEF BootInv, PortTells
  <2>9. AnswersTell'
    <3>1. ~boot.bare
      BY <2>1 DEF BootInv, Launched
    <3>2. boot'.pc = "ask" => Current = "stdio" /\ boot'.step = "initialize"
      BY <2>2 DEF FirstStep
    <3> QED  BY <2>2, <2>3, <3>1, <3>2 DEF AnswersTell, Reached
  <2>10. Phases'
    BY <1>1, <1>2, <2>1, <2>2 DEF Phases
  <2> QED  BY <2>5, <2>6, <2>7, <2>8, <2>9, <2>10 DEF BootInv
<1>6. CASE SpawnFails
  <2>1. /\ AtWork /\ boot.pc = "spawn" /\ proc = NoProcess /\ ~boot.bare
        /\ UNCHANGED <<proc, port, strays, stolen, disturbed, target, rc>>
        /\ WayOf(target, Current, boot.attempt) = "missing"
    BY <1>6 DEF SpawnFails, AtWork, BootInv, Launched, processVars
  <2>2. /\ Current \in Wanted(target) /\ boot.attempt \in Nat
        /\ Current = "stdio" => boot.attempt = 0
        /\ boot.attempt = 0 => Own = "missing"
    BY <2>1, CurrentFacts
  <2>3. CASE Current = "stdio"
    <3>1. Judged("fail") /\ "fail" \in Verdicts
      BY <1>6, <2>3 DEF SpawnFails, Verdicts
    <3>2. Deserved(target, Current, "fail", disturbed')
      BY <2>2, <2>3 DEF Deserved, Faulty, Own
    <3> QED  BY <1>1, <2>1, <3>1, <3>2, JudgedKeeps
  <2>4. CASE Current # "stdio"
    <3>1. NextAttempt(boot.first, FALSE)
      BY <1>6, <2>4 DEF SpawnFails
    <3>2. ASSUME ~stolen
          PROVE  IF boot.first = "0" THEN Own \in {"exits", "forks"}
                 ELSE disturbed' \/ Own \in {"fails", "hangs", "missing"}
      <4>1. CASE boot.attempt = 0
        <5>1. boot.first = None
          BY <2>1, <4>1 DEF BootInv, Launched
        <5> QED  BY <2>2, <4>1, <5>1 DEF None
      <4>2. CASE boot.attempt # 0
        <5>1. boot.attempt > 0
          BY <2>2, <4>2
        <5> QED  BY <2>1, <3>2, <5>1 DEF BootInv, FirstTells
      <4> QED  BY <4>1, <4>2
    <3>3. ~stolen => /\ port' \in {"free", "child"}
                     /\ strays' \/ port' = "child" => Serves(target, Current)
      BY <1>1, <2>1 DEF BootInv, PortTells, ProcessTypeOK
    <3> QED  BY <1>1, <2>1, <2>4, <3>1, <3>2, <3>3, AttemptKeeps
  <2> QED  BY <2>3, <2>4
<1>7. CASE Connected
  <2>1. /\ boot.pc = "wait" /\ AtWork /\ port # "free"
        /\ boot'.pc = "ask" /\ boot'.step = boot.step /\ boot'.bare = boot.bare
        /\ boot'.queue = boot.queue /\ boot'.attempt = boot.attempt /\ boot'.first = boot.first
        /\ UNCHANGED <<proc, port, strays, stolen, disturbed, target, result, rc>>
    BY <1>1, <1>7 DEF Connected, Connects, BootStates, AtWork, processVars
  <2>2. Current' = Current /\ Own' = Own /\ AtWork'
    BY <2>1 DEF Current, Own, AtWork
  <2>3. Current \in Transports
    BY <2>1, CurrentFacts
  <2>4. Queued' /\ ResultsDeserved' /\ Phases'
    BY <1>1, <1>2, <2>1, <2>2 DEF BootInv, Queued, ResultsDeserved, Phases
  <2>5. Launched' /\ FirstTells' /\ CodeTells' /\ PortTells'
    BY <2>1, <2>2 DEF BootInv, Launched, FirstTells, CodeTells, PortTells
  <2>6. AnswersTell'
    <3>1. boot.step = FirstStep(Current) /\ Current # "stdio" /\ ~boot.bare
      BY <2>1 DEF BootInv, Launched
    <3> QED  BY <2>1, <2>2, <2>3, <3>1 DEF AnswersTell, Reached, FirstStep, Transports
  <2> QED  BY <2>4, <2>5, <2>6 DEF BootInv
<1>8. CASE ExitedUnheard
  <2>1. PICK late \in BOOLEAN : GivenUp(late)
    BY <1>8 DEF ExitedUnheard
  <2>2. boot.pc = "wait" /\ Exited /\ UNCHANGED disturbed
    BY <1>8 DEF ExitedUnheard
  <2> QED  BY <1>1, <2>1, <2>2, GivenUpKeeps
<1>9. CASE WaitTimesOut
  <2>1. PICK late \in BOOLEAN : GivenUp(late)
    BY <1>9 DEF WaitTimesOut
  <2>2. boot.pc = "wait" /\ Alive /\ disturbed' = (disturbed \/ proc.way # "hangs")
    BY <1>9 DEF WaitTimesOut
  <2> QED  BY <1>1, <2>1, <2>2, GivenUpKeeps
<1>10. CASE Ask
  <2>1. /\ boot.pc = "ask" /\ AtWork /\ UNCHANGED <<stolen, target, rc>>
    BY <1>10 DEF Ask, AtWork
  <2>2. /\ Current \in Transports /\ boot.attempt \in Nat
        /\ boot.attempt <= Attempts(target, Current)
        /\ Current = "stdio" => boot.attempt = 0
        /\ boot.attempt = 0 => WayOf(target, Current, boot.attempt) = Own
    BY <2>1, CurrentFacts
  <2>3. proc.way = WayOf(target, Current, boot.attempt)
    BY <2>1 DEF BootInv, Launched
  <2>4. Arrived \in Answers /\ "silence" \in Answers
    BY <1>1, TargetFacts DEF BootStates, Answers, Arrived
  <2>5. proc.way = "serves" => Serves(target, Current)
    BY <1>1, <2>2, <2>3, ServesFacts
  <2>6. ~stolen => /\ port # "foreign"
                   /\ port = "child" => Serves(target, Current)
                   /\ port = "ours" => proc.way = "serves"
                   /\ Current # "stdio" /\ port = "free" => disturbed
    BY <2>1 DEF BootInv, PortTells
  <2>7. CASE Holder \in {"ours", "child"} /\ Answered(Arrived) /\ UNCHANGED disturbed
    <3>1. ~stolen => Serves(target, Current)
      BY <2>5, <2>6, <2>7 DEF Holder
    <3> QED  BY <1>1, <2>1, <2>4, <2>7, <3>1, AnsweredKeeps
  <2>8. CASE Holder \in {"ours", "child"} /\ Late /\ Answered("silence")
    BY <1>1, <2>1, <2>4, <2>8, AnsweredKeeps DEF Late
  <2>9. CASE Holder = "free" /\ Answered("silence") /\ UNCHANGED disturbed
    <3>1. ~stolen => disturbed' \/ (Current = "stdio" /\ Faulty(target, Current))
      <4>1. CASE Current # "stdio"
        BY <2>6, <2>9, <4>1 DEF Holder
      <4>2. CASE Current = "stdio"
        <5>1. ~(Alive /\ proc.way = "serves") /\ proc.way = Own
          BY <2>2, <2>3, <2>9, <4>2 DEF Holder
        <5>2. ~stolen => /\ proc.rc = "0" => proc.way \in {"exits", "forks"}
                         /\ proc.rc = "1" => disturbed \/ proc.way = "fails"
          BY <2>1, <2>2, <4>2 DEF BootInv, CodeTells
        <5>3. proc.rc \in {Running, "0", "1"}
          BY <1>1 DEF ProcessTypeOK
        <5> QED  BY <2>9, <4>2, <5>1, <5>2, <5>3 DEF Alive, Faulty, Own
      <4> QED  BY <4>1, <4>2
    <3> QED  BY <1>1, <2>1, <2>4, <2>9, <3>1, AnsweredKeeps
  <2>10. CASE Holder = "foreign" /\ (\E a \in Answers : Answered(a)) /\ UNCHANGED disturbed
    <3>1. stolen
      BY <2>6, <2>10 DEF Holder
    <3>2. PICK a \in Answers : Answered(a)
      BY <2>10
    <3> QED  BY <1>1, <2>1, <2>10, <3>1, <3>2, AnsweredKeeps
  <2> QED  BY <1>10, <2>7, <2>8, <2>9, <2>10 DEF Ask
<1>11. CASE Conclude \/ Raises \/ BootTimesOut
  <2>1. /\ boot.pc # "done" /\ boot'.pc = "done"
    BY <1>1, <1>11 DEF Conclude, Raises, BootTimesOut, BootStates
  <2>2. ~AtWork' /\ rebind.pc = "idle"
    BY <1>2, <2>1 DEF AtWork, Phases
  <2>3. Queued' /\ ResultsDeserved' /\ Launched' /\ FirstTells'
    BY <2>1, <2>2 DEF Queued, ResultsDeserved, Launched, FirstTells
  <2>4. CodeTells' /\ PortTells' /\ AnswersTell' /\ Phases'
    BY <1>1, <2>1, <2>2 DEF CodeTells, PortTells, AnswersTell, Phases
  <2> QED  BY <2>3, <2>4 DEF BootInv
<1> QED  BY <1>3, <1>4, <1>5, <1>6, <1>7, <1>8, <1>9, <1>10, <1>11 DEF BootGate

\* The code that the boot gate gives is deserved.
LEMMA BootConcludes ==
    ASSUME Typed, BootInv, CodeIsDeserved, BootGate \/ BootTimesOut
    PROVE  CodeIsDeserved'
<1>1. target \in Targets /\ result \in [Transports -> Verdicts \cup {None}]
  BY DEF Typed, BootTypeOK
<1>2. CASE Derive
  <2>1. UNCHANGED <<target, stolen, disturbed>>
    BY <1>2 DEF Derive, processVars
  <2>2. rc' # NoCode => rc' = 2 /\ Wanted(target) = {}
    BY <1>1, <1>2, TargetFacts DEF Derive
  <2> QED  BY <2>1, <2>2 DEF CodeIsDeserved
<1>3. CASE Conclude
  <2>1. /\ boot.pc = "pick" /\ boot.queue = {}
        /\ rc' \in {4, BootCode({result[tr] : tr \in Transports})}
        /\ UNCHANGED <<target, stolen, disturbed>>
    BY <1>3 DEF Conclude, processVars
  <2>2. \A tr \in Wanted(target) : tr \in Transports /\ result[tr] # None
    BY <1>1, <2>1, TargetFacts DEF BootInv, Queued
  <2>3. ~stolen => \A tr \in Transports :
                       result[tr] # None => Deserved(target, tr, result[tr], disturbed)
    BY <2>1 DEF BootInv, ResultsDeserved
  <2>4. ASSUME ~stolen, rc' = 0, NEW tr \in Wanted(target)
        PROVE  /\ Serves(target, tr)
               /\ Works(target.wire, tr) \/ (disturbed /\ WorksUnshaken(target.wire, tr))
    <3>1. result[tr] \notin {"fail", "not_selected"}
      BY <2>1, <2>2, <2>4 DEF BootCode
    <3>2. result[tr] \in {"ok", "stateless"}
      BY <1>1, <2>2, <3>1 DEF Verdicts
    <3> QED  BY <2>2, <2>3, <2>4, <3>2 DEF Deserved, AnswersWell
  <2>5. ASSUME ~stolen, rc' = 2
        PROVE  disturbed \/ \E tr \in Wanted(target) : Faulty(target, tr)
    <3>1. PICK tr \in Transports : result[tr] = "fail"
      BY <2>1, <2>5 DEF BootCode
    <3> QED  BY <2>3, <2>5, <3>1 DEF Deserved, None
  <2>6. ASSUME ~stolen, rc' = 3
        PROVE  \E tr \in Wanted(target) : NeverOwned(target, tr)
    <3>1. PICK tr \in Transports : result[tr] = "not_selected"
      BY <2>1, <2>6 DEF BootCode
    <3> QED  BY <2>3, <2>6, <3>1 DEF Deserved, None
  <2> QED  BY <2>1, <2>4, <2>5, <2>6 DEF CodeIsDeserved, Faulty, NeverOwned
<1>4. CASE Raises \/ BootTimesOut
  BY <1>4 DEF Raises, BootTimesOut, CodeIsDeserved
<1>5. CASE PickPort \/ Spawn \/ SpawnFails \/ Connected \/ ExitedUnheard \/ WaitTimesOut \/ Ask
  <2>1. rc' = rc /\ boot.pc # "done"
    BY <1>5 DEF PickPort, Spawn, SpawnFails, Connected, ExitedUnheard, WaitTimesOut, GivenUp, Ask
  <2> QED  BY <2>1 DEF BootInv, Phases, CodeIsDeserved
<1> QED  BY <1>2, <1>3, <1>4, <1>5 DEF BootGate

\* While the rebinding gate works, nothing of the boot gate is left to be in order.
LEMMA RebindKeeps ==
    ASSUME Typed, BootInv, RebindGate \/ RebindTimesOut
    PROVE  BootInv' /\ CodeIsDeserved'
<1>1. /\ boot.pc = "done" /\ boot'.pc = "done" /\ rc' = NoCode
  <2>1. CASE StartRebind
    BY <2>1 DEF StartRebind, Blank
  <2>2. CASE ~StartRebind
    <3>1. rebind.pc # "idle" /\ UNCHANGED bootVars
      BY <2>2 DEF RebindGate, RebindRaises, PickPass, SpawnPass, PassConnected, NeverUp,
                  Resolve, Probe, ConcludeRebind, RebindTimesOut, Quiet
    <3> QED  BY <3>1 DEF BootInv, Phases, bootVars
  <2> QED  BY <2>1, <2>2
<1>2. ~AtWork'
  BY <1>1 DEF AtWork
<1>3. Queued' /\ ResultsDeserved' /\ Launched' /\ FirstTells'
  BY <1>1, <1>2 DEF Queued, ResultsDeserved, Launched, FirstTells
<1>4. CodeTells' /\ PortTells' /\ AnswersTell' /\ Phases' /\ CodeIsDeserved'
  BY <1>1, <1>2 DEF CodeTells, PortTells, AnswersTell, Phases, CodeIsDeserved
<1> QED  BY <1>3, <1>4 DEF BootInv

\* In every behaviour everything is in order.
LEMMA BootInvariant == GatesSpec => [](BootInv /\ CodeIsDeserved)
<1>1. GatesInit => BootInv /\ CodeIsDeserved
  <2> SUFFICES ASSUME GatesInit  PROVE BootInv /\ CodeIsDeserved
    OBVIOUS
  <2>1. /\ boot.pc = "derive" /\ proc = NoProcess /\ rc = NoCode /\ rebind.pc = "idle"
        /\ result = [tr \in Transports |-> None]
    BY DEF GatesInit, BootInit, Blank, ProcessInit
  <2>2. Queued /\ ResultsDeserved /\ Launched /\ FirstTells
    BY <2>1 DEF Queued, ResultsDeserved, Launched, FirstTells, AtWork
  <2>3. CodeTells /\ PortTells /\ AnswersTell /\ Phases /\ CodeIsDeserved
    BY <2>1 DEF CodeTells, PortTells, AnswersTell, Phases, CodeIsDeserved, AtWork
  <2> QED  BY <2>2, <2>3 DEF BootInv
<1>2. Typed /\ Typed' /\ BootInv /\ CodeIsDeserved /\ [GatesNext]_gatesVars
          => BootInv' /\ CodeIsDeserved'
  <2> SUFFICES ASSUME Typed, Typed', BootInv, CodeIsDeserved, [GatesNext]_gatesVars
               PROVE  BootInv' /\ CodeIsDeserved'
    OBVIOUS
  <2>1. CASE (BootGate \/ BootTimesOut) /\ UNCHANGED rebindVars
    BY <2>1, BootKeeps, BootConcludes
  <2>2. CASE World /\ UNCHANGED rebindVars
    <3>1. BootInv'
      BY <2>2, WorldKeeps
    <3>2. (stolen => stolen') /\ (disturbed => disturbed')
      BY <2>2, MachineFacts DEF World, Typed, BootTypeOK
    <3>3. UNCHANGED <<target, rc>>
      BY <2>2 DEF World, bootVars
    <3> QED  BY <3>1, <3>2, <3>3 DEF CodeIsDeserved
  <2>3. CASE RebindGate \/ RebindTimesOut
    BY <2>3, RebindKeeps
  <2>4. CASE UNCHANGED gatesVars
    <3>1. UNCHANGED <<proc, port, strays, stolen, disturbed, target, boot, result, rc, rebind>>
      BY <2>4 DEF gatesVars, processVars, bootVars, rebindVars
    <3>2. Queued' /\ ResultsDeserved' /\ Launched' /\ FirstTells'
      BY <3>1 DEF BootInv, Queued, ResultsDeserved, Launched, FirstTells, AtWork, Current, Own
    <3>3. CodeTells' /\ PortTells' /\ AnswersTell' /\ Phases' /\ CodeIsDeserved'
      BY <3>1 DEF BootInv, CodeTells, PortTells, AnswersTell, Phases, CodeIsDeserved,
                  AtWork, Current
    <3> QED  BY <3>2, <3>3 DEF BootInv
  <2> QED  BY <2>1, <2>2, <2>3, <2>4 DEF GatesNext
<1> QED  BY <1>1, <1>2, TypedInvariant, PTL DEF GatesSpec

\* In every behaviour the exit code of the boot gate says of the target what is true of it:
\* that every transport it configures comes up and answers, that one does not, or that one
\* was never selected.
THEOREM CodeDeserved == GatesSpec => []CodeIsDeserved
  BY BootInvariant, PTL
--------------------------------------------------------------------------------
(* A refusal is credited to the allow-list only where it is its doing.         *)

\* What was heard is what the target makes of the names, or (late) nothing.
Says(t, tr, h, late) ==
    \A p \in Passes : \A k \in 1..Len(h[p]) :
        \/ h[p][k] = t.inbound[tr][p][Cases[k]]
        \/ late /\ h[p][k] = "errored"

\* What a transport is said to have, it has.
Attributed(t, tr, verdict, late) ==
    /\ verdict = "enforced" => InForce(t, tr)
    /\ verdict = "host-check-absent" => Absent(t, tr) /\ (late \/ ~Misapplied(t, tr))

AtRebind == rebind.pc \in {"spawn", "wait", "resolve", "ask"}

Fresh == /\ rebind.pc = "idle" =>
               /\ \A p \in Passes : heard[p] = <<>>
               /\ \A tr \in Transports : control[tr] = None
         /\ rebindRc # NoCode => rebind.pc = "done"
HeardTells == ~stolen => Says(target, Tested, heard, disturbed)
ControlTells == ~stolen => \A tr \in Transports : Attributed(target, tr, control[tr], disturbed)
Covered == rebind.pc \notin {"idle", "done"} =>
               \A tr \in Inbound(target) : control[tr] # None \/ tr \in rebind.queue
\* Only a transport that is exposed to the network is asked or judged.
Within == /\ rebind.queue \subseteq Inbound(target)
          /\ \A tr \in Transports : control[tr] # None => tr \in Inbound(target)
NoStranger == AtRebind /\ ~stolen => port # "foreign"
Vanished == rebind.pc \in {"resolve", "ask"} /\ ~stolen /\ port = "free" => disturbed

RebindInv == /\ Fresh /\ HeardTells /\ ControlTells /\ Covered /\ Within
             /\ NoStranger /\ Vanished

\* Nothing that was said is lost with an answer that comes too late.
LEMMA LaterFacts ==
    ASSUME NEW late \in BOOLEAN, NEW later \in BOOLEAN, late => later
    PROVE  /\ \A t, tr, h : Says(t, tr, h, late) => Says(t, tr, h, later)
           /\ \A t, tr, v : Attributed(t, tr, v, late) => Attributed(t, tr, v, later)
<1>1. ASSUME NEW t, NEW tr, NEW h, Says(t, tr, h, late)  PROVE Says(t, tr, h, later)
  BY <1>1 DEF Says
<1>2. ASSUME NEW t, NEW tr, NEW v, Attributed(t, tr, v, late)  PROVE Attributed(t, tr, v, later)
  BY <1>2 DEF Attributed
<1> QED  BY <1>1, <1>2

\* A pass that enforces the control has refused every name it must, and served the other;
\* one that does not has served that one too, and a name that it must not.
LEMMA PassFacts ==
    ASSUME NEW o \in Seq(Outcomes), Len(o) \in 0..4
    PROVE  /\ PassVerdict(o) = "enforced" =>
                 /\ Len(o) = 4 /\ o[4] = "let_through"
                 /\ \A k \in 1..3 : o[k] = "rejected"
           /\ PassVerdict(o) = "not-enforced" =>
                 /\ Len(o) = 4 /\ o[4] = "let_through"
                 /\ \A k \in 1..3 : o[k] # "errored" /\ (Refusal(o[k]) \/ Exposed(o[k]))
                 /\ \E k \in 1..3 : ~Refusal(o[k])
<1>1. ~(Len(o) < 4) => Len(o) = 4 /\ \A k \in 1..3 : o[k] \in Outcomes
  <2>1. \A n \in 0..4 : ~(n < 4) => n = 4
    OBVIOUS
  <2>2. ASSUME Len(o) = 4, NEW k \in 1..3  PROVE o[k] \in Outcomes
    <3>1. k \in 1..Len(o)
      BY <2>2
    <3> QED  BY <3>1
  <2> QED  BY <2>1, <2>2
<1>2. ASSUME PassVerdict(o) = "enforced"
      PROVE  /\ Len(o) = 4 /\ o[4] = "let_through"
             /\ \A k \in 1..3 : o[k] = "rejected"
  <2>1. /\ ~(Len(o) < 4) /\ o[4] = "let_through"
        /\ \A k \in 1..3 : o[k] \notin {"errored", "let_through", "hollow", "rejected_auth"}
    BY <1>2 DEF PassVerdict
  <2> QED  BY <1>1, <2>1 DEF Outcomes
<1>3. ASSUME PassVerdict(o) = "not-enforced"
      PROVE  /\ Len(o) = 4 /\ o[4] = "let_through"
             /\ \A k \in 1..3 : o[k] # "errored" /\ (Refusal(o[k]) \/ Exposed(o[k]))
             /\ \E k \in 1..3 : ~Refusal(o[k])
  <2>1. /\ ~(Len(o) < 4) /\ o[4] = "let_through" /\ \A k \in 1..3 : o[k] # "errored"
        /\ \E k \in 1..3 : o[k] \in {"let_through", "hollow"}
    BY <1>3 DEF PassVerdict
  <2> QED  BY <1>1, <2>1 DEF Refusal, Exposed, Outcomes
<1> QED  BY <1>2, <1>3

\* The names of the three probes that must be refused, and of the one that must not.
LEMMA CaseFacts ==
    /\ Hostile = {Cases[1], Cases[2], Cases[3]}
    /\ Cases[4] = "allowed" /\ "allowed" \notin Hostile
  BY DEF Hostile, Cases

\* Both passes of a list that is applied wrongly, heard to the end, add up to a finding.
LEMMA MisappliedTells ==
    ASSUME NEW t, NEW tr, NEW h \in [Passes -> Seq(Outcomes)],
           \A p \in Passes : Len(h[p]) = 4,
           \A p \in Passes : \A k \in 1..4 : h[p][k] = t.inbound[tr][p][Cases[k]],
           Misapplied(t, tr)
    PROVE  ControlOf(h) \in {"token-bypasses-host-check", "partial-enforcement"}
<1>0. \A p \in Passes : ~(Len(h[p]) < 4)
  OBVIOUS
<1>1. \A p \in Passes : /\ h[p][1] = t.inbound[tr][p][Cases[1]]
                        /\ h[p][2] = t.inbound[tr][p][Cases[2]]
                        /\ h[p][3] = t.inbound[tr][p][Cases[3]]
                        /\ h[p][4] = t.inbound[tr][p]["allowed"]
  BY CaseFacts
<1>2. ASSUME NEW p \in Passes, t.inbound[tr][p]["allowed"] = "let_through",
             \A c \in Hostile : Refusal(t.inbound[tr][p][c]) \/ Exposed(t.inbound[tr][p][c]),
             \E c \in Hostile : Refusal(t.inbound[tr][p][c]),
             \E c \in Hostile : Exposed(t.inbound[tr][p][c])
      PROVE  Partial(h[p])
  <2>1. /\ h[p][4] = "let_through" /\ ~(Len(h[p]) < 4)
        /\ \A k \in 1..3 : Refusal(h[p][k]) \/ Exposed(h[p][k])
        /\ \E k \in 1..3 : Refusal(h[p][k])
        /\ \E k \in 1..3 : Exposed(h[p][k])
    BY <1>0, <1>1, <1>2, CaseFacts
  <2>2. \A k \in 1..3 : h[p][k] # "errored"
    BY <2>1 DEF Refusal, Exposed
  <2>3. PassVerdict(h[p]) = "not-enforced"
    BY <2>1, <2>2 DEF PassVerdict, Exposed
  <2>4. \A k \in 1..3 : Exposed(h[p][k]) => ~Refusal(h[p][k])
    BY DEF Exposed, Refusal
  <2> QED  BY <2>1, <2>3, <2>4 DEF Partial
<1>3. ASSUME \A c \in Hostile : t.inbound[tr][1][c] = "rejected",
             \A c \in Hostile : Exposed(t.inbound[tr][2][c]),
             \A p \in Passes : t.inbound[tr][p]["allowed"] = "let_through"
      PROVE  PassVerdict(h[1]) = "enforced" /\ PassVerdict(h[2]) = "not-enforced"
  <2>1. 1 \in Passes /\ 2 \in Passes
    BY DEF Passes
  <2>2. /\ \A k \in 1..3 : h[1][k] = "rejected" /\ Exposed(h[2][k])
        /\ h[1][4] = "let_through" /\ h[2][4] = "let_through"
        /\ ~(Len(h[1]) < 4) /\ ~(Len(h[2]) < 4)
    BY <1>0, <1>1, <1>3, <2>1, CaseFacts
  <2> QED  BY <2>2 DEF PassVerdict, Exposed
<1>4. CASE \E p \in Passes : Partial(h[p])
  BY <1>0, <1>4 DEF ControlOf
<1>5. CASE PassVerdict(h[1]) = "enforced" /\ PassVerdict(h[2]) = "not-enforced"
  BY <1>0, <1>5 DEF ControlOf, Passes
<1> QED  BY <1>2, <1>3, <1>4, <1>5 DEF Misapplied

\* What both passes add up to is attributed rightly.
LEMMA ControlAttributed ==
    ASSUME NEW t, NEW tr, NEW late \in BOOLEAN, NEW h \in [Passes -> Seq(Outcomes)],
           \A p \in Passes : Len(h[p]) \in 0..4, Says(t, tr, h, late)
    PROVE  Attributed(t, tr, ControlOf(h), late)
<1>1. \A p \in Passes : h[p] \in Seq(Outcomes) /\ Len(h[p]) \in 0..4
  OBVIOUS
<1>2. ASSUME NEW p \in Passes, Len(h[p]) = 4, NEW k \in 1..4, h[p][k] # "errored" \/ ~late
      PROVE  h[p][k] = t.inbound[tr][p][Cases[k]]
  <2>1. k \in 1..Len(h[p])
    BY <1>2
  <2> QED  BY <1>2, <2>1 DEF Says
<1>3. ASSUME ControlOf(h) = "enforced"  PROVE InForce(t, tr)
  <2>1. \A p \in Passes : PassVerdict(h[p]) = "enforced"
    <3>1. PassVerdict(h[1]) = "enforced" /\ PassVerdict(h[2]) = "enforced"
      <4>1. \A p \in Passes : PassVerdict(h[p]) \in {"inconclusive", "not-enforced", "enforced"}
        BY DEF PassVerdict
      <4>2. /\ PassVerdict(h[1]) \notin {"not-enforced", "inconclusive"}
            /\ PassVerdict(h[2]) \notin {"not-enforced", "inconclusive"}
        BY <1>3 DEF ControlOf, Passes
      <4> QED  BY <4>1, <4>2 DEF Passes
    <3> QED  BY <3>1 DEF Passes
  <2>2. ASSUME NEW p \in Passes
        PROVE  /\ \A c \in Hostile : t.inbound[tr][p][c] = "rejected"
               /\ t.inbound[tr][p]["allowed"] = "let_through"
    <3>1. /\ Len(h[p]) = 4 /\ h[p][4] = "let_through"
          /\ h[p][1] = "rejected" /\ h[p][2] = "rejected" /\ h[p][3] = "rejected"
      BY <1>1, <2>1, <2>2, PassFacts
    <3>2. /\ t.inbound[tr][p][Cases[1]] = "rejected" /\ t.inbound[tr][p][Cases[2]] = "rejected"
          /\ t.inbound[tr][p][Cases[3]] = "rejected"
          /\ t.inbound[tr][p][Cases[4]] = "let_through"
      BY <1>2, <3>1
    <3> QED  BY <3>2, CaseFacts
  <2> QED  BY <2>2 DEF InForce
<1>4. ASSUME ControlOf(h) = "host-check-absent"
      PROVE  Absent(t, tr)
  <2>1. /\ \A p \in Passes : ~Partial(h[p])
        /\ PassVerdict(h[1]) = "not-enforced" \/ PassVerdict(h[2]) = "not-enforced"
    BY <1>4 DEF ControlOf, Passes
  <2>2. PICK p \in Passes : PassVerdict(h[p]) = "not-enforced"
    BY <2>1 DEF Passes
  <2>3. /\ Len(h[p]) = 4 /\ h[p][4] = "let_through"
        /\ \A k \in 1..3 : h[p][k] # "errored" /\ (Refusal(h[p][k]) \/ Exposed(h[p][k]))
        /\ \E k \in 1..3 : ~Refusal(h[p][k])
    BY <1>1, <2>2, PassFacts
  <2>4. \A k \in 1..3 : Exposed(h[p][k])
    BY <2>1, <2>2, <2>3 DEF Partial
  <2>5. \A k \in 1..4 : h[p][k] = t.inbound[tr][p][Cases[k]]
    BY <1>2, <2>3
  <2>6. /\ Exposed(t.inbound[tr][p][Cases[1]]) /\ Exposed(t.inbound[tr][p][Cases[2]])
        /\ Exposed(t.inbound[tr][p][Cases[3]]) /\ t.inbound[tr][p][Cases[4]] = "let_through"
    BY <2>3, <2>4, <2>5
  <2> QED  BY <2>6, CaseFacts DEF Absent
<1>5. ASSUME ControlOf(h) = "host-check-absent", ~late
      PROVE  ~Misapplied(t, tr)
  <2>1. \A p \in Passes : ~(Len(h[p]) < 4)
    BY <1>5 DEF ControlOf
  <2>2. \A n \in 0..4 : ~(n < 4) => n = 4
    OBVIOUS
  <2>3. \A p \in Passes : Len(h[p]) = 4
    BY <1>1, <2>1, <2>2
  <2>4. \A p \in Passes : \A k \in 1..4 : h[p][k] = t.inbound[tr][p][Cases[k]]
    BY <1>2, <1>5, <2>3
  <2> QED  BY <1>5, <2>3, <2>4, MisappliedTells
<1> QED  BY <1>3, <1>4, <1>5 DEF Attributed

\* The end of a pass keeps what is known true.
LEMMA PassEndsKeeps ==
    ASSUME Typed, RebindInv, AtRebind, NEW h \in [Passes -> Seq(Outcomes)],
           \A p \in Passes : Len(h[p]) \in 0..4, disturbed' \in BOOLEAN, disturbed => disturbed',
           ~stolen => Says(target, Tested, h, disturbed'),
           PassEnds(h), UNCHANGED <<stolen, target, rebindRc>>
    PROVE  RebindInv'
<1>1. /\ rebind \in RebindStates /\ control \in [Transports -> Controls \cup {None}]
      /\ rebind.queue \in SUBSET Transports /\ rebind.pc \notin {"idle", "done"}
      /\ target \in Targets /\ disturbed \in BOOLEAN
  BY DEF Typed, BootTypeOK, ProcessTypeOK, RebindTyped, RebindStates, AtRebind
<1>2. rebindRc = NoCode
  BY <1>1 DEF RebindInv, Fresh
<1>3. ASSUME ~stolen, NEW tr \in Transports
      PROVE  Attributed(target, tr, control[tr], disturbed')
  <2>1. Attributed(target, tr, control[tr], disturbed)
    BY <1>3 DEF RebindInv, ControlTells
  <2> QED  BY <1>1, <2>1, LaterFacts
<1>4. CASE rebind.pass = 1
  <2>1. heard' = h /\ control' = control /\ rebind' = [rebind EXCEPT !.pc = "pick", !.pass = 2]
    BY <1>4 DEF PassEnds
  <2>2. rebind'.pc = "pick" /\ rebind'.queue = rebind.queue /\ Tested' = Tested
    BY <1>1, <2>1 DEF RebindStates, Tested
  <2>3. HeardTells'
    BY <2>1, <2>2 DEF HeardTells
  <2>4. ControlTells'
    BY <1>3, <2>1 DEF ControlTells
  <2>5. Fresh' /\ Covered' /\ Within' /\ NoStranger' /\ Vanished'
    BY <1>1, <1>2, <2>1, <2>2
    DEF RebindInv, Fresh, Covered, Within, Inbound, NoStranger, Vanished, AtRebind
  <2> QED  BY <2>3, <2>4, <2>5 DEF RebindInv
<1>5. CASE rebind.pass # 1
  <2>1. /\ heard' = Unheard /\ control' = [control EXCEPT ![Tested] = ControlOf(h)]
        /\ rebind' = [rebind EXCEPT !.pc = "pick", !.pass = 1, !.known = FALSE,
                                    !.queue = @ \ {Tested}]
    BY <1>5 DEF PassEnds
  <2>2. rebind'.pc = "pick" /\ rebind'.queue = rebind.queue \ {Tested}
    BY <1>1, <2>1 DEF RebindStates
  <2>3. \A tr \in Transports : control'[tr] = IF tr = Tested THEN ControlOf(h) ELSE control[tr]
    BY <1>1, <2>1
  <2>4. HeardTells'
    <3>1. \A p \in Passes : heard'[p] = <<>> /\ Len(<<>>) = 0
      BY <2>1 DEF Unheard
    <3> QED  BY <3>1 DEF HeardTells, Says
  <2>5. ControlTells'
    <3>1. ~stolen => Attributed(target, Tested, ControlOf(h), disturbed')
      BY ControlAttributed
    <3> QED  BY <1>3, <2>3, <3>1 DEF ControlTells
  <2>6. Covered'
    <3>1. ControlOf(h) # None
      BY ControlFacts DEF Controls, None
    <3>2. Inbound(target) \subseteq Transports
      BY <1>1, TargetFacts DEF Inbound
    <3> QED  BY <1>1, <2>2, <2>3, <3>1, <3>2 DEF RebindInv, Covered, Inbound
  <2>7. Fresh' /\ NoStranger' /\ Vanished'
    BY <1>2, <2>2 DEF Fresh, NoStranger, Vanished, AtRebind
  <2>8. Within'
    <3>1. Tested \in rebind.queue
      BY <1>1, FirstFacts DEF Typed, RebindTyped, QueueShape, AtRebind, Tested
    <3> QED  BY <2>2, <2>3, <3>1 DEF RebindInv, Within, Inbound
  <2> QED  BY <2>4, <2>5, <2>6, <2>7, <2>8 DEF RebindInv
<1> QED  BY <1>4, <1>5

\* And so when it could not be carried out.
LEMMA NothingKeeps ==
    ASSUME Typed, RebindInv, AtRebind, PassEnds(Nothing), UNCHANGED <<stolen, target, rebindRc>>,
           disturbed' \in BOOLEAN, disturbed => disturbed'
    PROVE  RebindInv'
<1>1. /\ heard \in [Passes -> Seq(Outcomes)] /\ rebind.pass \in Passes
      /\ \A p \in Passes : Len(heard[p]) \in 0..4
      /\ disturbed \in BOOLEAN
  BY DEF Typed, BootTypeOK, ProcessTypeOK, RebindTyped, HeardShape, RebindStates
<1>2. <<>> \in Seq(Outcomes) /\ Len(<<>>) = 0 /\ Len(<<>>) \in 0..4
  OBVIOUS
<1>3. /\ Nothing \in [Passes -> Seq(Outcomes)]
      /\ \A p \in Passes : Nothing[p] \in {heard[p], <<>>}
  BY <1>1, <1>2 DEF Nothing
<1>4. \A p \in Passes : Len(Nothing[p]) \in 0..4
  BY <1>1, <1>2, <1>3
<1>5. ~stolen => Says(target, Tested, Nothing, disturbed')
  <2>1. ASSUME ~stolen, NEW p \in Passes, NEW k \in 1..Len(Nothing[p])
        PROVE  \/ Nothing[p][k] = target.inbound[Tested][p][Cases[k]]
               \/ disturbed' /\ Nothing[p][k] = "errored"
    <3>1. Nothing[p] # <<>>
      BY <1>2, <2>1
    <3>2. Nothing[p] = heard[p]
      BY <1>3, <3>1
    <3>3. Says(target, Tested, heard, disturbed')
      BY <1>1, <2>1, LaterFacts DEF RebindInv, HeardTells
    <3> QED  BY <2>1, <3>2, <3>3 DEF Says
  <2> QED  BY <2>1 DEF Says
<1> HIDE DEF Nothing
<1> QED  BY <1>3, <1>4, <1>5, PassEndsKeeps

\* One more outcome is what the target makes of the next name, or nothing.
LEMMA HearKeeps ==
    ASSUME Typed, RebindInv, rebind.pc = "ask", NEW outcome \in Outcomes, Hear(outcome),
           UNCHANGED <<stolen, target, rebindRc>>,
           disturbed' \in BOOLEAN, disturbed => disturbed',
           ~stolen => outcome = Told \/ (disturbed' /\ outcome = "errored")
    PROVE  RebindInv'
<1> DEFINE h == Heard(outcome)
<1>1. /\ h \in [Passes -> Seq(Outcomes)]
      /\ \A p \in Passes : Len(h[p]) \in 0..4
      /\ h[rebind.pass] = Append(heard[rebind.pass], outcome)
      /\ \A p \in Passes : p # rebind.pass => h[p] = heard[p]
  BY HeardFacts DEF Typed
<1>2. AtRebind /\ Len(Cases) = 4 /\ disturbed \in BOOLEAN
  BY DEF AtRebind, Cases, Typed, BootTypeOK, ProcessTypeOK
<1>3. ~stolen => Says(target, Tested, h, disturbed')
  <2>1. heard \in [Passes -> Seq(Outcomes)] /\ rebind.pass \in Passes
    BY DEF Typed, RebindTyped, RebindStates
  <2>2. heard[rebind.pass] \in Seq(Outcomes) /\ Len(heard[rebind.pass]) \in Nat
    BY <2>1
  <2>3. /\ Len(Append(heard[rebind.pass], outcome)) = Len(heard[rebind.pass]) + 1
        /\ Append(heard[rebind.pass], outcome)[Len(heard[rebind.pass]) + 1] = outcome
        /\ \A k \in 1..Len(heard[rebind.pass]) :
              Append(heard[rebind.pass], outcome)[k] = heard[rebind.pass][k]
    BY <2>2
  <2> HIDE DEF h
  <2>4. ASSUME ~stolen, NEW p \in Passes, NEW k \in 1..Len(h[p])
        PROVE  \/ h[p][k] = target.inbound[Tested][p][Cases[k]]
               \/ disturbed' /\ h[p][k] = "errored"
    <3>1. Says(target, Tested, heard, disturbed')
      BY <1>2, <2>4, LaterFacts DEF RebindInv, HeardTells
    <3>2. CASE p # rebind.pass
      <4>1. h[p] = heard[p]
        BY <1>1, <3>2
      <4> QED  BY <2>4, <3>1, <4>1 DEF Says
    <3>3. CASE p = rebind.pass /\ k \in 1..Len(heard[p])
      <4>1. h[p][k] = heard[p][k]
        BY <1>1, <2>3, <3>3
      <4> QED  BY <3>1, <3>3, <4>1 DEF Says
    <3>4. CASE p = rebind.pass /\ k \notin 1..Len(heard[p])
      <4>1. k = Len(heard[p]) + 1
        BY <1>1, <2>2, <2>3, <2>4, <3>4
      <4>2. h[p][k] = outcome
        BY <1>1, <2>3, <3>4, <4>1
      <4> QED  BY <2>4, <3>4, <4>1, <4>2 DEF Told
    <3> QED  BY <3>2, <3>3, <3>4
  <2> QED  BY <2>4 DEF Says
<1>4. CASE Len(h[rebind.pass]) < 4
  <2>1. heard' = h /\ UNCHANGED <<rebind, control, proc, port, strays>>
    BY <1>2, <1>4 DEF Hear, Heard
  <2> HIDE DEF h
  <2>2. Tested' = Tested
    BY <2>1 DEF Tested
  <2>3. HeardTells'
    BY <1>3, <2>1, <2>2 DEF HeardTells
  <2>4. ControlTells'
    <3>1. ASSUME ~stolen, NEW tr \in Transports
          PROVE  Attributed(target, tr, control[tr], disturbed')
      <4>1. Attributed(target, tr, control[tr], disturbed)
        BY <3>1 DEF RebindInv, ControlTells
      <4> QED  BY <1>2, <4>1, LaterFacts
    <3> QED  BY <2>1, <3>1 DEF ControlTells
  <2>5. Fresh' /\ Covered' /\ Within' /\ NoStranger' /\ Vanished'
    BY <2>1 DEF RebindInv, Fresh, Covered, Within, Inbound, NoStranger, Vanished, AtRebind
  <2> QED  BY <2>3, <2>4, <2>5 DEF RebindInv
<1>5. CASE ~(Len(h[rebind.pass]) < 4)
  <2>1. PassEnds(h)
    BY <1>2, <1>5 DEF Hear, Heard
  <2> HIDE DEF h
  <2> QED  BY <1>1, <1>2, <1>3, <2>1, PassEndsKeeps
<1> QED  BY <1>4, <1>5

\* What is heard and concluded is the same where only the gate moves on.
LEMMA MovesOn ==
    ASSUME Typed, RebindInv, UNCHANGED <<stolen, disturbed, target, heard, control, rebindRc>>,
           rebind' \in RebindStates, rebind'.queue = rebind.queue,
           rebind.pc \notin {"idle", "done"}, rebind'.pc # "idle"
    PROVE  Fresh' /\ HeardTells' /\ ControlTells' /\ Covered' /\ Within'
<1>1. Tested' = Tested
  BY DEF Tested
<1>2. HeardTells' /\ ControlTells'
  BY <1>1 DEF RebindInv, HeardTells, ControlTells
<1>3. Fresh' /\ Covered' /\ Within'
  BY DEF RebindInv, Fresh, Covered, Within, Inbound
<1> QED  BY <1>2, <1>3

\* Every step of the rebinding gate keeps what is known true.
LEMMA RebindStepKeeps ==
    ASSUME Typed, RebindInv, RebindGate \/ RebindTimesOut
    PROVE  RebindInv'
<1>1. /\ rebind \in RebindStates /\ target \in Targets
      /\ port \in {"free", "ours", "child", "foreign"} /\ disturbed \in BOOLEAN
  BY DEF Typed, BootTypeOK, ProcessTypeOK, RebindTyped
<1>2. CASE StartRebind
  <2>1. /\ rebind.pc = "idle" /\ rebind'.pc = "pick"
        /\ rebind'.queue = Inbound(target)
        /\ UNCHANGED <<heard, control, rebindRc, target>>
    BY <1>1, <1>2 DEF StartRebind, RebindStates, Inbound
  <2>2. /\ \A p \in Passes : heard[p] = <<>>
        /\ \A tr \in Transports : control[tr] = None
        /\ rebindRc = NoCode
    BY <2>1 DEF RebindInv, Fresh
  <2>3. HeardTells'
    <3>1. Len(<<>>) = 0
      OBVIOUS
    <3> QED  BY <2>1, <2>2, <3>1 DEF HeardTells, Says
  <2>4. Fresh' /\ ControlTells' /\ Covered' /\ Within' /\ NoStranger' /\ Vanished'
    BY <2>1, <2>2
    DEF Fresh, ControlTells, Attributed, Covered, Within, Inbound, NoStranger, Vanished,
        AtRebind, None
  <2> QED  BY <2>3, <2>4 DEF RebindInv
<1>3. CASE PickPass
  <2>1. /\ rebind.pc = "pick" /\ rebind'.pc = "spawn" /\ rebind'.queue = rebind.queue
        /\ rebind' \in RebindStates /\ port' = "free"
        /\ UNCHANGED <<stolen, disturbed, target, heard, control, rebindRc>>
    BY <1>1, <1>3 DEF PickPass, FreePort, Quiet, bootVars, RebindStates
  <2> QED  BY <2>1, MovesOn DEF RebindInv, NoStranger, Vanished
<1>4. CASE SpawnPass
  <2>1. /\ rebind.pc = "spawn" /\ AtRebind
        /\ UNCHANGED <<port, stolen, disturbed, target, rebindRc>>
    BY <1>4 DEF SpawnPass, Quiet, bootVars, AtRebind
  <2>2. CASE PassEnds(Nothing)
    BY <1>1, <2>1, <2>2, NothingKeeps
  <2>3. CASE rebind' = [rebind EXCEPT !.pc = "wait"] /\ UNCHANGED <<heard, control>>
    <3>1. rebind'.pc = "wait" /\ rebind'.queue = rebind.queue /\ rebind' \in RebindStates
      BY <1>1, <2>3 DEF RebindStates
    <3> QED  BY <2>1, <2>3, <3>1, MovesOn DEF RebindInv, NoStranger, Vanished, AtRebind
  <2> QED  BY <1>4, <2>2, <2>3 DEF SpawnPass
<1>5. CASE PassConnected
  <2>1. /\ rebind.pc = "wait" /\ rebind'.pc \in {"ask", "resolve"} /\ port # "free"
        /\ rebind'.queue = rebind.queue /\ rebind' \in RebindStates
        /\ UNCHANGED <<port, stolen, disturbed, target, heard, control, rebindRc>>
    BY <1>1, <1>5 DEF PassConnected, Connects, Quiet, bootVars, processVars, RebindStates
  <2> QED  BY <2>1, MovesOn DEF RebindInv, NoStranger, Vanished, AtRebind
<1>6. CASE NeverUp
  <2>1. disturbed' \in BOOLEAN /\ (disturbed => disturbed')
    BY <1>1, <1>6 DEF NeverUp
  <2> QED  BY <1>6, <2>1, NothingKeeps DEF NeverUp, Quiet, bootVars, AtRebind
<1>7. CASE Resolve
  <2>1. rebind.pc = "resolve" /\ AtRebind /\ UNCHANGED <<target, rebindRc>>
    BY <1>7 DEF Resolve, Quiet, bootVars, AtRebind
  <2>2. CASE PassEnds(Nothing) /\ UNCHANGED stolen /\ disturbed' = (disturbed \/ port # "free")
    BY <1>1, <2>1, <2>2, NothingKeeps
  <2>3. CASE /\ port # "free" /\ rebind' = [rebind EXCEPT !.pc = "ask", !.known = TRUE]
             /\ UNCHANGED <<processVars, heard, control>>
    <3>1. /\ rebind'.pc = "ask" /\ rebind'.queue = rebind.queue /\ rebind' \in RebindStates
          /\ UNCHANGED <<port, stolen, disturbed>>
      BY <1>1, <2>3 DEF RebindStates, processVars
    <3> QED  BY <2>1, <2>3, <3>1, MovesOn DEF RebindInv, NoStranger, Vanished, AtRebind
  <2> QED  BY <1>7, <2>2, <2>3 DEF Resolve
<1>8. CASE Probe
  <2>1. rebind.pc = "ask" /\ AtRebind /\ UNCHANGED <<stolen, target, rebindRc>>
    BY <1>8 DEF Probe, Quiet, bootVars, AtRebind
  <2>2. Told \in Outcomes \cup {Endless} /\ Strange \subseteq Outcomes /\ "errored" \in Outcomes
    BY <2>1, OutcomeFacts DEF Typed, Outcomes
  <2>3. disturbed' \in BOOLEAN /\ (disturbed => disturbed')
    <3>1. disturbed' = disturbed \/ disturbed' = TRUE
      <4>1. UNCHANGED disturbed \/ Late
        BY <1>8 DEF Probe
      <4> QED  BY <4>1 DEF Late
    <3> QED  BY <1>1, <3>1
  <2>4. \/ Told # Endless /\ Hear(Told)
        \/ Hear("errored") /\ (disturbed' \/ (port = "free" /\ disturbed' = disturbed))
        \/ port = "foreign" /\ \E o \in Strange : Hear(o)
    <3>1. CASE port \in {"ours", "child"} /\ Told # Endless /\ Hear(Told)
      BY <3>1
    <3>2. CASE Late /\ Hear("errored")
      BY <3>2 DEF Late
    <3>3. CASE port = "free" /\ Hear("errored") /\ UNCHANGED disturbed
      BY <3>3
    <3>4. CASE port = "foreign" /\ \E o \in Strange : Hear(o)
      BY <3>4
    <3> QED  BY <1>8, <3>1, <3>2, <3>3, <3>4 DEF Probe
  <2>5. CASE Told # Endless /\ Hear(Told)
    BY <2>1, <2>2, <2>3, <2>5, HearKeeps
  <2>6. CASE Hear("errored") /\ (disturbed' \/ (port = "free" /\ disturbed' = disturbed))
    <3>1. ~stolen => disturbed'
      BY <2>1, <2>6 DEF RebindInv, Vanished
    <3> QED  BY <2>1, <2>2, <2>3, <2>6, <3>1, HearKeeps
  <2>7. CASE port = "foreign" /\ \E o \in Strange : Hear(o)
    <3>1. stolen
      BY <2>1, <2>7 DEF RebindInv, NoStranger
    <3>2. PICK o \in Strange : Hear(o)
      BY <2>7
    <3> QED  BY <2>1, <2>2, <2>3, <3>1, <3>2, HearKeeps
  <2> QED  BY <2>4, <2>5, <2>6, <2>7
<1>9. CASE ConcludeRebind \/ RebindRaises \/ RebindTimesOut
  <2>1. /\ rebind'.pc = "done" /\ UNCHANGED <<stolen, disturbed, target, heard, control>>
        /\ rebind'.queue = rebind.queue /\ rebind.pc \notin {"idle", "done"}
    BY <1>1, <1>9 DEF ConcludeRebind, RebindRaises, RebindTimesOut, Quiet, bootVars, processVars,
                      RebindStates
  <2>2. Tested' = Tested
    BY <2>1 DEF Tested
  <2>3. HeardTells' /\ ControlTells'
    BY <2>1, <2>2 DEF RebindInv, HeardTells, ControlTells
  <2>4. Fresh' /\ Covered' /\ Within' /\ NoStranger' /\ Vanished'
    BY <2>1 DEF RebindInv, Fresh, Covered, Within, Inbound, NoStranger, Vanished, AtRebind
  <2> QED  BY <2>3, <2>4 DEF RebindInv
<1> QED  BY <1>2, <1>3, <1>4, <1>5, <1>6, <1>7, <1>8, <1>9 DEF RebindGate

\* And so does everything else that happens.
LEMMA OtherStepsKeep ==
    ASSUME Typed, BootInv, RebindInv, BootGate \/ BootTimesOut \/ World, UNCHANGED rebindVars
    PROVE  RebindInv'
<1>1. UNCHANGED <<target, rebind, heard, control, rebindRc>> /\ Tested' = Tested
  BY DEF rebindVars, World, bootVars, BootGate, BootTimesOut, Derive, PickPort, Spawn, SpawnFails,
         Connected, ExitedUnheard, WaitTimesOut, GivenUp, Ask, Conclude, Raises, Tested
<1>2. Fresh' /\ Covered' /\ Within'
  BY <1>1 DEF RebindInv, Fresh, Covered, Within, Inbound
<1>3. CASE rebind.pc = "idle"
  <2>1. /\ \A p \in Passes : heard'[p] = <<>>
        /\ \A tr \in Transports : control'[tr] = None
    BY <1>1, <1>3 DEF RebindInv, Fresh
  <2>2. Len(<<>>) = 0
    OBVIOUS
  <2>3. HeardTells' /\ ControlTells'
    BY <2>1, <2>2 DEF HeardTells, Says, ControlTells, Attributed, None
  <2>4. NoStranger' /\ Vanished'
    BY <1>1, <1>3 DEF NoStranger, Vanished, AtRebind
  <2> QED  BY <1>2, <2>3, <2>4 DEF RebindInv
<1>4. CASE rebind.pc # "idle"
  <2>1. boot.pc = "done"
    BY <1>4 DEF BootInv, Phases
  <2>2. ~BootGate /\ ~BootTimesOut
    BY <2>1 DEF BootGate, BootTimesOut, Derive, PickPort, Spawn, SpawnFails, Connected,
                ExitedUnheard, WaitTimesOut, Ask, Conclude, Raises
  <2>3. Machine
    BY <2>2 DEF World
  <2>4. /\ stolen => stolen'
        /\ disturbed => disturbed'
        /\ disturbed \in BOOLEAN /\ disturbed' \in BOOLEAN
    BY <2>3, MachineFacts DEF Typed, BootTypeOK, ProcessTypeOK
  <2>5. HeardTells'
    BY <1>1, <2>4, LaterFacts DEF RebindInv, HeardTells
  <2>6. ControlTells'
    <3>1. ASSUME ~stolen, NEW tr \in Transports
          PROVE  Attributed(target, tr, control[tr], disturbed')
      <4>1. Attributed(target, tr, control[tr], disturbed)
        BY <3>1 DEF RebindInv, ControlTells
      <4> QED  BY <2>4, <4>1, LaterFacts
    <3> QED  BY <1>1, <2>4, <3>1 DEF ControlTells
  <2>7. /\ ~stolen' => port' = port \/ port' # "foreign"
        /\ port' = "free" => port = "free" \/ disturbed'
    BY <2>3 DEF Machine, Listen, Fork, ChildListens, Exit, Die, Steal
  <2>8. NoStranger' /\ Vanished'
    BY <1>1, <2>4, <2>7 DEF RebindInv, NoStranger, Vanished, AtRebind
  <2> QED  BY <1>2, <2>5, <2>6, <2>8 DEF RebindInv
<1> QED  BY <1>3, <1>4

\* The code that the rebinding gate gives is right about the target.
LEMMA RebindConcludes ==
    ASSUME Typed, RebindInv, RefusalsAreAttributed, RebindGate \/ RebindTimesOut
    PROVE  RefusalsAreAttributed'
<1>1. target \in Targets /\ rebind \in RebindStates
      /\ control \in [Transports -> Controls \cup {None}]
  BY DEF Typed, BootTypeOK, RebindTyped
<1>2. CASE ConcludeRebind
  <2> DEFINE found == {control[tr] : tr \in Transports}
  <2>1. /\ rebind.pc = "pick" /\ rebind.queue = {}
        /\ rebindRc' \in {4, CodeOf(found, target.knob)}
        /\ UNCHANGED <<target, stolen, disturbed, control>>
    BY <1>2 DEF ConcludeRebind, processVars, Quiet, bootVars
  <2>2. \A tr \in Inbound(target) : tr \in Transports /\ control[tr] \in found
                                     /\ control[tr] \in Controls
    BY <1>1, <2>1, TargetFacts DEF RebindInv, Covered, Inbound
  <2>3. ~stolen => \A tr \in Transports : Attributed(target, tr, control[tr], disturbed)
    BY DEF RebindInv, ControlTells
  <2>4. ASSUME ~stolen, rebindRc' = 0, NEW tr \in Inbound(target)
        PROVE  InForce(target, tr)
    <3>1. CodeOf(found, target.knob) = 0
      BY <2>1, <2>4
    <3>2. /\ found \cap {"inconclusive", "token-bypasses-host-check", "partial-enforcement"} = {}
          /\ "host-check-absent" \notin found
      BY <3>1 DEF CodeOf
    <3>3. control[tr] = "enforced"
      BY <2>2, <2>4, <3>2 DEF Controls
    <3> QED  BY <2>2, <2>3, <2>4, <3>3 DEF Attributed
  <2>5. ASSUME ~stolen, rebindRc' = 3
        PROVE  /\ ~target.knob
               /\ \E tr \in Inbound(target) : Absent(target, tr)
               /\ \A tr \in Inbound(target) : InForce(target, tr) \/ Absent(target, tr)
               /\ disturbed \/ \A tr \in Inbound(target) : ~Misapplied(target, tr)
    <3>1. CodeOf(found, target.knob) = 3
      BY <2>1, <2>5
    <3>2. /\ found \cap {"inconclusive", "token-bypasses-host-check", "partial-enforcement"} = {}
          /\ "host-check-absent" \in found /\ ~target.knob
      BY <3>1 DEF CodeOf
    <3>3. \A tr \in Inbound(target) :
             /\ control[tr] \in {"enforced", "host-check-absent"}
             /\ Attributed(target, tr, control[tr], disturbed)
      BY <2>2, <2>3, <2>5, <3>2 DEF Controls
    <3>4. PICK tr \in Transports : control[tr] = "host-check-absent"
      BY <3>2
    <3>5. tr \in Inbound(target)
      BY <3>4 DEF RebindInv, Within, None
    <3>6. \A c \in Inbound(target) : InForce(target, c) => ~Misapplied(target, c)
      <4>1. "foreign-host" \in Hostile /\ 1 \in Passes /\ 2 \in Passes
        BY DEF Hostile, Passes
      <4>2. ~Exposed("rejected")
        BY DEF Exposed
      <4>3. ASSUME NEW c \in Inbound(target), InForce(target, c)
            PROVE  \A q \in Passes : \A n \in Hostile : ~Exposed(target.inbound[c][q][n])
        BY <4>2, <4>3 DEF InForce
      <4> QED  BY <4>1, <4>3 DEF Misapplied
    <3> QED  BY <3>2, <3>3, <3>4, <3>5, <3>6 DEF Attributed
  <2> QED  BY <2>1, <2>4, <2>5 DEF RefusalsAreAttributed
<1>3. CASE RebindRaises \/ RebindTimesOut
  BY <1>3 DEF RebindRaises, RebindTimesOut, RefusalsAreAttributed
<1>4. CASE StartRebind \/ PickPass \/ SpawnPass \/ PassConnected \/ NeverUp \/ Resolve \/ Probe
  <2>1. rebindRc' = rebindRc /\ rebind.pc # "done"
    BY <1>4 DEF StartRebind, PickPass, SpawnPass, PassConnected, NeverUp, Resolve, Probe
  <2> QED  BY <2>1 DEF RebindInv, Fresh, RefusalsAreAttributed
<1> QED  BY <1>2, <1>3, <1>4 DEF RebindGate

\* In every behaviour the code of the rebinding gate is right about the target: an allow-list
\* is in force on every network transport where it is said to be; and where none is said to be
\* configured some transport serves every name in one of the passes, on every other the list
\* is in force, and unless the server was disturbed on none is it applied wrongly.
THEOREM RefusalsAttributed == GatesSpec => []RefusalsAreAttributed
<1>1. GatesInit => RebindInv /\ RefusalsAreAttributed
  <2> SUFFICES ASSUME GatesInit  PROVE RebindInv /\ RefusalsAreAttributed
    OBVIOUS
  <2>1. /\ rebind.pc = "idle" /\ rebind.queue = {} /\ rebindRc = NoCode
        /\ \A p \in Passes : heard[p] = <<>>
        /\ \A tr \in Transports : control[tr] = None
    BY DEF GatesInit, Unheard
  <2>2. HeardTells
    <3>1. Len(<<>>) = 0
      OBVIOUS
    <3> QED  BY <2>1, <3>1 DEF HeardTells, Says
  <2>3. Fresh /\ ControlTells /\ Covered /\ Within
    BY <2>1 DEF Fresh, ControlTells, Attributed, Covered, Within, None
  <2>4. NoStranger /\ Vanished /\ RefusalsAreAttributed
    BY <2>1 DEF NoStranger, Vanished, AtRebind, RefusalsAreAttributed
  <2> QED  BY <2>2, <2>3, <2>4 DEF RebindInv
<1>2. Typed /\ BootInv /\ RebindInv /\ RefusalsAreAttributed /\ [GatesNext]_gatesVars
          => RebindInv' /\ RefusalsAreAttributed'
  <2> SUFFICES ASSUME Typed, BootInv, RebindInv, RefusalsAreAttributed, [GatesNext]_gatesVars
               PROVE  RebindInv' /\ RefusalsAreAttributed'
    OBVIOUS
  <2>1. CASE RebindGate \/ RebindTimesOut
    BY <2>1, RebindStepKeeps, RebindConcludes
  <2>2. CASE (BootGate \/ BootTimesOut \/ World) /\ UNCHANGED rebindVars
    <3>1. RebindInv'
      BY <2>2, OtherStepsKeep
    <3>2. UNCHANGED rebindRc
      BY <2>2 DEF rebindVars
    <3>3. CASE BootGate \/ BootTimesOut
      <4>1. boot.pc # "done"
        BY <3>3 DEF BootGate, BootTimesOut, Derive, PickPort, Spawn, SpawnFails, Connected,
                    ExitedUnheard, WaitTimesOut, Ask, Conclude, Raises
      <4>2. rebindRc = NoCode
        BY <4>1 DEF BootInv, Phases, RebindInv, Fresh
      <4> QED  BY <3>1, <3>2, <4>2 DEF RefusalsAreAttributed
    <3>4. CASE World
      <4>1. UNCHANGED target /\ (stolen => stolen') /\ (disturbed => disturbed')
        BY <3>4, MachineFacts DEF World, bootVars, Typed, BootTypeOK
      <4> QED  BY <3>1, <3>2, <4>1 DEF RefusalsAreAttributed, Inbound
    <3> QED  BY <2>2, <3>3, <3>4
  <2>3. CASE UNCHANGED gatesVars
    <3>1. UNCHANGED <<port, stolen, disturbed, target, rebind, heard, control, rebindRc>>
      BY <2>3 DEF gatesVars, processVars, bootVars, rebindVars
    <3>2. Tested' = Tested
      BY <3>1 DEF Tested
    <3>3. Fresh' /\ HeardTells' /\ ControlTells' /\ Covered' /\ Within'
      BY <3>1, <3>2 DEF RebindInv, Fresh, HeardTells, ControlTells, Covered, Within, Inbound
    <3>4. NoStranger' /\ Vanished' /\ RefusalsAreAttributed'
      BY <3>1 DEF RebindInv, NoStranger, Vanished, AtRebind, RefusalsAreAttributed, Inbound
    <3> QED  BY <3>3, <3>4 DEF RebindInv
  <2> QED  BY <2>1, <2>2, <2>3 DEF GatesNext
<1> QED  BY <1>1, <1>2, TypedInvariant, BootInvariant, PTL DEF GatesSpec
================================================================================
