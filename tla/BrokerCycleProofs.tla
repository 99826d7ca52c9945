--------------------------- MODULE BrokerCycleProofs ---------------------------
(***************************************************************************)
(* What the Broker records, for every number of cycles that overlap, every *)
(* thing a Worker may send, every settle window and every size of the drop *)
(* box.                                                                    *)
(*                                                                         *)
(* That a recorded success was delivered is an invariant of three parts: a *)
(* verdict other than a hard failure is only ever given to a whole         *)
(* delivery (a fact about the classifier); a directory that a cycle still  *)
(* looks for was made while it was at work; and the directory a cycle has  *)
(* read stays in the box, complete, until the cycle has recorded.          *)
(***************************************************************************)
EXTENDS BrokerCycle, BudgetGuardProofs, SequenceTheorems, TLAPS

\* A run directory. A verdict other than a hard failure has a whole delivery
\* behind it, and whoever looks for the directory was at work when it was made.
Dirs == {d \in [stage : {"made", "writing", "ready"}, rc : 0..2, whole : BOOLEAN,
                fresh : SUBSET Cycles, during : SUBSET Cycles] :
            /\ d.rc # 1 => d.whole
            /\ d.fresh \subseteq d.during}

Entries(b) == {b[i] : i \in DOMAIN b}

\* The directory that a cycle has read and goes by.
Evidence(c, b) == \E d \in Entries(b) :
    c \in d.fresh /\ d.stage = "ready" /\ d.rc = cycles[c].rc

CycleStates == [pc : {"idle", "booting", "waiting", "polling", "recording"},
                polls : Int, rc : 0..2, found : BOOLEAN]

DeliveryInv ==
    /\ box \in Seq(Dirs)
    /\ cycles \in [Cycles -> CycleStates]
    /\ \A c \in Cycles : cycles[c].pc = "recording" /\ cycles[c].rc # 1 => Evidence(c, box)

\* Every silent cycle since the last success is in the breaker's streak, which a
\* skipped, killed or overlapping cycle does not shorten.
SilenceInv ==
    /\ guard \in GuardStates
    /\ Tripped(guard.breaker)
    /\ silent \in 0..guard.breaker.streak
    /\ \A c \in Cycles : cycles[c].pc = "recording" /\ ~cycles[c].found => cycles[c].rc = 1
--------------------------------------------------------------------------------
(* The classifier on what came through.                                        *)

\* Whatever the outcome, it is one of the three exit codes.
LEMMA ExitCodes ==
    ASSUME NEW outcome
    PROVE  ExitCode(outcome) \in 0..2 /\ (outcome = "hard-fail" => ExitCode(outcome) = 1)
<1>1. CASE outcome = "green"
  BY <1>1 DEF ExitCode
<1>2. CASE outcome = "findings"
  BY <1>2 DEF ExitCode
<1>3. CASE outcome # "green" /\ outcome # "findings"
  <2>1. ExitCode(outcome) = 1
    BY <1>3 DEF ExitCode
  <2> QED  BY <2>1
<1> QED  BY <1>1, <1>2, <1>3

\* A delivery that lost a part is a hard failure, whatever was sent.
LEMMA BrokenDelivery ==
    ASSUME NEW s \in DOMAIN Shipments, NEW files \in SUBSET Files
    PROVE  Verdicts[s][files] \in 0..2 /\ (files # Files => Verdicts[s][files] = 1)
<1> DEFINE sent == Shipments[s]
           has == "nightly-evidence.json" \in files
           gates == FromEvidence(IF has THEN sent.gates ELSE <<>>)
           tests == TestsFromEvidence(IF has THEN sent.counts ELSE {})
           pf == IF "promptfoo.json" \in files THEN sent.pf ELSE NoOutput
           pfc == ClassifyPromptfoo(pf, gates.promptfoo_rc)
           summary == BuildSummary(gates, tests, pf, TRUE, FALSE)
<1>1. Verdicts[s][files] = ExitCode(summary.outcome)
  BY DEF Verdicts
<1>2. HardFail(gates, tests, pfc, TRUE) => summary.outcome = "hard-fail"
  <2> HIDE DEF gates, tests, pf
  <2> QED  BY DEF BuildSummary
<1>3. ASSUME ~has  PROVE HardFail(gates, tests, pfc, TRUE)
  <2>1. "ruff" \in GateNames \ {"promptfoo_rc"}
    BY DEF GateNames, Toolchain
  <2>2. DOMAIN <<>> = {}
    OBVIOUS
  <2>3. gates["ruff"] = 127
    BY <1>3, <2>1, <2>2 DEF FromEvidence
  <2> HIDE DEF gates, tests, pfc
  <2>4. CouldNotRun(gates["ruff"])
    BY <2>3 DEF CouldNotRun
  <2> QED  BY <2>1, <2>4 DEF HardFail
<1>4. ASSUME "promptfoo.json" \notin files  PROVE HardFail(gates, tests, pfc, TRUE)
  <2>1. pf = NoOutput
    BY <1>4
  <2> HIDE DEF gates, tests, pf
  <2>2. pfc.ran = FALSE
    BY <2>1 DEF ClassifyPromptfoo, NoOutput
  <2> HIDE DEF pfc
  <2> QED  BY <2>2 DEF HardFail
<1>5. files # Files => ~has \/ "promptfoo.json" \notin files
  BY DEF Files
<1> HIDE DEF has, gates, tests, pf, pfc, summary
<1> QED  BY <1>1, <1>2, <1>3, <1>4, <1>5, ExitCodes
--------------------------------------------------------------------------------
(* The drop box as a set of directories.                                       *)

\* What a new directory is put between is the box as it was.
LEMMA Parts ==
    ASSUME NEW S, NEW b \in Seq(S), NEW i \in 0..Len(b), NEW j \in 1..(Len(b) + 1)
    PROVE  /\ SubSeq(b, 1, i) \in Seq(S) /\ SubSeq(b, j, Len(b)) \in Seq(S)
           /\ \A d : d \in Entries(SubSeq(b, 1, i)) <=> \E k \in 1..i : d = b[k]
           /\ \A d : d \in Entries(SubSeq(b, j, Len(b))) <=> \E k \in j..Len(b) : d = b[k]
<1>1. /\ Len(b) \in Nat /\ DOMAIN b = 1..Len(b)
      /\ \A k \in 1..Len(b) : b[k] \in S
  BY LenProperties, ElementOfSeq
<1>2. /\ SubSeq(b, 1, i) \in Seq(S)
      /\ Len(SubSeq(b, 1, i)) = IF 1 <= i THEN i - 1 + 1 ELSE 0
      /\ \A k \in 1..(i - 1 + 1) : SubSeq(b, 1, i)[k] = b[1 + k - 1]
  <2>1. \A k \in 1..i : b[k] \in S
    BY <1>1
  <2>2. 1 \in Int /\ i \in Int
    BY <1>1
  <2> QED  BY <2>1, <2>2, SubSeqProperties
<1>3. /\ SubSeq(b, j, Len(b)) \in Seq(S)
      /\ Len(SubSeq(b, j, Len(b))) = IF j <= Len(b) THEN Len(b) - j + 1 ELSE 0
      /\ \A k \in 1..(Len(b) - j + 1) : SubSeq(b, j, Len(b))[k] = b[j + k - 1]
  <2>1. \A k \in j..Len(b) : b[k] \in S
    BY <1>1
  <2>2. j \in Int /\ Len(b) \in Int
    BY <1>1
  <2> QED  BY <2>1, <2>2, SubSeqProperties
<1> DEFINE front == SubSeq(b, 1, i)
           back == SubSeq(b, j, Len(b))
<1>4. DOMAIN front = 1..i /\ \A k \in 1..i : front[k] = b[k]
  <2>1. Len(front) = i /\ DOMAIN front = 1..Len(front)
    BY <1>1, <1>2, LenProperties
  <2>2. \A k \in 1..i : k \in 1..(i - 1 + 1) /\ 1 + k - 1 = k
    BY <1>1
  <2> QED  BY <1>2, <2>1, <2>2
<1>5. /\ DOMAIN back = 1..(Len(b) - j + 1)
      /\ \A k \in 1..(Len(b) - j + 1) : back[k] = b[j + k - 1]
  <2>1. Len(back) = Len(b) - j + 1 /\ DOMAIN back = 1..Len(back)
    BY <1>1, <1>3, LenProperties
  <2> QED  BY <1>3, <2>1
<1> HIDE DEF front, back
<1>6. \A d : d \in Entries(front) <=> \E k \in 1..i : d = b[k]
  BY <1>4 DEF Entries
<1>7. \A d : d \in Entries(back) <=> \E k \in j..Len(b) : d = b[k]
  <2>1. ASSUME NEW k \in j..Len(b)  PROVE b[k] \in Entries(back)
    <3>1. (k - j + 1) \in 1..(Len(b) - j + 1) /\ j + (k - j + 1) - 1 = k
      BY <1>1
    <3> QED  BY <1>5, <3>1 DEF Entries
  <2>2. ASSUME NEW d \in Entries(back)  PROVE \E k \in j..Len(b) : d = b[k]
    <3>1. PICK m \in 1..(Len(b) - j + 1) : d = b[j + m - 1]
      BY <1>5 DEF Entries
    <3>2. (j + m - 1) \in j..Len(b)
      BY <1>1
    <3> QED  BY <3>1, <3>2
  <2> QED  BY <2>1, <2>2
<1> QED  BY <1>2, <1>3, <1>6, <1>7 DEF front, back

\* Joined boxes hold what each of them holds.
LEMMA Joined ==
    ASSUME NEW S, NEW a \in Seq(S), NEW b \in Seq(S)
    PROVE  a \o b \in Seq(S) /\ Entries(a \o b) = Entries(a) \cup Entries(b)
<1>1. /\ Len(a) \in Nat /\ DOMAIN a = 1..Len(a) /\ Len(b) \in Nat /\ DOMAIN b = 1..Len(b)
  BY LenProperties
<1>2. /\ a \o b \in Seq(S) /\ Len(a \o b) = Len(a) + Len(b)
      /\ \A i \in 1..(Len(a) + Len(b)) : (a \o b)[i] = IF i <= Len(a) THEN a[i] ELSE b[i - Len(a)]
  BY ConcatProperties
<1>3. DOMAIN (a \o b) = 1..(Len(a) + Len(b))
  BY <1>2, LenProperties
<1> DEFINE both == a \o b
<1>4. ASSUME NEW d \in Entries(both)  PROVE d \in Entries(a) \cup Entries(b)
  <2>1. PICK i \in 1..(Len(a) + Len(b)) : d = both[i]
    BY <1>3 DEF Entries
  <2>2. CASE i <= Len(a)
    <3>1. i \in 1..Len(a) /\ d = a[i]
      BY <1>1, <1>2, <2>1, <2>2
    <3> QED  BY <1>1, <3>1 DEF Entries
  <2>3. CASE ~(i <= Len(a))
    <3>1. (i - Len(a)) \in 1..Len(b) /\ d = b[i - Len(a)]
      BY <1>1, <1>2, <2>1, <2>3
    <3> QED  BY <1>1, <3>1 DEF Entries
  <2> QED  BY <2>2, <2>3
<1>5. ASSUME NEW i \in 1..Len(a)  PROVE a[i] \in Entries(both)
  <2>1. i \in 1..(Len(a) + Len(b)) /\ both[i] = a[i]
    BY <1>1, <1>2
  <2> QED  BY <1>3, <2>1 DEF Entries
<1>6. ASSUME NEW i \in 1..Len(b)  PROVE b[i] \in Entries(both)
  <2>1. (i + Len(a)) \in 1..(Len(a) + Len(b)) /\ ~(i + Len(a) <= Len(a)) /\ (i + Len(a)) - Len(a) = i
    BY <1>1
  <2>2. both[i + Len(a)] = b[i]
    BY <1>2, <2>1
  <2> QED  BY <1>3, <2>1, <2>2 DEF Entries
<1> HIDE DEF both
<1>7. Entries(both) = Entries(a) \cup Entries(b)
  BY <1>1, <1>4, <1>5, <1>6 DEF Entries
<1> QED  BY <1>2, <1>7 DEF both

\* A function on an initial segment is a sequence.
LEMMA Numbered ==
    ASSUME NEW S, NEW n \in Nat, NEW f \in [1..n -> S]
    PROVE  f \in Seq(S)
  BY SeqDef

\* A directory that a cycle still looks for is never dropped to make room.
LEMMA KeptFacts ==
    ASSUME box \in Seq(Dirs), NEW b \in Kept
    PROVE  /\ b \in Seq(Dirs)
           /\ \A d \in Entries(box) : d.fresh # {} => d \in Entries(b)
<1>1. CASE Len(box) < MaxBox
  BY <1>1 DEF Kept
<1>2. CASE ~(Len(box) < MaxBox)
  <2>1. PICK i \in DOMAIN box : /\ box[i].fresh = {}
                                /\ b = SubSeq(box, 1, i - 1) \o SubSeq(box, i + 1, Len(box))
    BY <1>2 DEF Kept
  <2>2. Len(box) \in Nat /\ DOMAIN box = 1..Len(box)
    BY LenProperties
  <2>3. (i - 1) \in 0..Len(box) /\ (i + 1) \in 1..(Len(box) + 1)
    BY <2>1, <2>2
  <2> DEFINE front == SubSeq(box, 1, i - 1)
             back == SubSeq(box, i + 1, Len(box))
  <2>4. /\ front \in Seq(Dirs) /\ back \in Seq(Dirs)
        /\ \A d : d \in Entries(front) <=> \E k \in 1..(i - 1) : d = box[k]
        /\ \A d : d \in Entries(back) <=> \E k \in (i + 1)..Len(box) : d = box[k]
    BY <2>3, Parts
  <2> HIDE DEF front, back
  <2>5. b \in Seq(Dirs) /\ Entries(b) = Entries(front) \cup Entries(back)
    <3>1. b = front \o back
      BY <2>1 DEF front, back
    <3>2. front \o back \in Seq(Dirs) /\ Entries(front \o back) = Entries(front) \cup Entries(back)
      BY <2>4, Joined
    <3> QED  BY <3>1, <3>2
  <2>6. ASSUME NEW d \in Entries(box), d.fresh # {}  PROVE d \in Entries(b)
    <3>1. PICK k \in 1..Len(box) : d = box[k]
      BY <2>2 DEF Entries
    <3>2. k # i
      BY <2>1, <2>6, <3>1
    <3>3. k \in 1..(i - 1) \/ k \in (i + 1)..Len(box)
      BY <2>2, <3>2
    <3> QED  BY <2>4, <2>5, <3>1, <3>3
  <2> QED  BY <2>5, <2>6
<1> QED  BY <1>1, <1>2

\* A new directory comes between the others and changes none of them.
LEMMA InsertedFacts ==
    ASSUME NEW boxes \in SUBSET Seq(Dirs), NEW d \in Dirs, NEW r \in Inserted(boxes, d)
    PROVE  r \in Seq(Dirs) /\ \E b \in boxes : Entries(b) \subseteq Entries(r)
<1>1. PICK b \in boxes : r \in {SubSeq(b, 1, i) \o <<d>> \o SubSeq(b, i + 1, Len(b)) :
                                  i \in {j \in {Len(b) - 1, Len(b)} : j >= 0}}
  BY DEF Inserted
<1>3. b \in Seq(Dirs) /\ Len(b) \in Nat /\ DOMAIN b = 1..Len(b)
  BY LenProperties
<1>2. PICK i \in 0..Len(b) : r = SubSeq(b, 1, i) \o <<d>> \o SubSeq(b, i + 1, Len(b))
  <2> DEFINE Placed(i) == SubSeq(b, 1, i) \o <<d>> \o SubSeq(b, i + 1, Len(b))
             n == Len(b)
  <2>1. r \in {Placed(i) : i \in {j \in {n - 1, n} : j >= 0}} /\ n \in Nat
    BY <1>1, <1>3
  <2> HIDE DEF Placed, n
  <2>2. \E i \in 0..n : r = Placed(i)
    BY <2>1
  <2> QED  BY <2>2 DEF Placed, n
<1>4. (i + 1) \in 1..(Len(b) + 1)
  BY <1>3
<1> DEFINE front == SubSeq(b, 1, i)
           back == SubSeq(b, i + 1, Len(b))
           new == <<d>>
<1>5. /\ front \in Seq(Dirs) /\ back \in Seq(Dirs)
      /\ \A e : e \in Entries(front) <=> \E k \in 1..i : e = b[k]
      /\ \A e : e \in Entries(back) <=> \E k \in (i + 1)..Len(b) : e = b[k]
  BY <1>3, <1>4, Parts
<1>6. new \in Seq(Dirs)
  OBVIOUS
<1> HIDE DEF front, back, new
<1>7. front \o new \in Seq(Dirs) /\ Entries(front \o new) = Entries(front) \cup Entries(new)
  BY <1>5, <1>6, Joined
<1>8. /\ (front \o new) \o back \in Seq(Dirs)
      /\ Entries((front \o new) \o back) = Entries(front \o new) \cup Entries(back)
  <2> DEFINE head == front \o new
  <2>1. head \in Seq(Dirs)
    BY <1>7
  <2> HIDE DEF head
  <2>2. head \o back \in Seq(Dirs) /\ Entries(head \o back) = Entries(head) \cup Entries(back)
    BY <1>5, <2>1, Joined
  <2> QED  BY <2>2 DEF head
<1>9. r = (front \o new) \o back
  BY <1>2 DEF front, back, new
<1>10. ASSUME NEW e \in Entries(b)  PROVE e \in Entries(r)
  <2>1. PICK k \in 1..Len(b) : e = b[k]
    BY <1>3 DEF Entries
  <2>2. k \in 1..i \/ k \in (i + 1)..Len(b)
    BY <1>3
  <2> QED  BY <1>5, <1>7, <1>8, <1>9, <2>1, <2>2
<1> QED  BY <1>8, <1>9, <1>10

\* What a connection adds leaves every directory that is looked for in the box.
LEMMA ConnectFacts ==
    ASSUME box \in Seq(Dirs), Connect
    PROVE  /\ box' \in Seq(Dirs)
           /\ \A d \in Entries(box) : d.fresh # {} => d \in Entries(box')
<1> DEFINE new == [stage |-> "made", rc |-> 1, whole |-> FALSE, fresh |-> AtWork, during |-> AtWork]
<1>1. box' \in Inserted(Kept, new)
  BY DEF Connect
<1>2. new \in Dirs
  BY DEF Dirs, AtWork
<1>3. Kept \in SUBSET Seq(Dirs)
  BY KeptFacts
<1> HIDE DEF new
<1>4. box' \in Seq(Dirs) /\ \E b \in Kept : Entries(b) \subseteq Entries(box')
  BY <1>1, <1>2, <1>3, InsertedFacts
<1>5. PICK b \in Kept : Entries(b) \subseteq Entries(box')
  BY <1>4
<1>6. \A d \in Entries(box) : d.fresh # {} => d \in Entries(b)
  BY KeptFacts
<1> QED  BY <1>4, <1>5, <1>6

\* Its handler fills a directory, and leaves a complete one and the others alone.
LEMMA HandlerFacts ==
    ASSUME box \in Seq(Dirs), NEW i \in DOMAIN box,
           (\E s \in DOMAIN Shipments : Classify(i, s)) \/ EndSummary(i)
    PROVE  /\ box' \in Seq(Dirs)
           /\ \A d \in Entries(box) : d.stage = "ready" => d \in Entries(box')
<1>1. Len(box) \in Nat /\ DOMAIN box = 1..Len(box) /\ box \in [1..Len(box) -> Dirs]
  BY LenProperties
<1>2. box[i] \in Dirs
  BY <1>1
<1>3. PICK e \in Dirs : box' = [box EXCEPT ![i] = e]
  <2>1. ASSUME NEW s \in DOMAIN Shipments, Classify(i, s)
        PROVE  \E e \in Dirs : box' = [box EXCEPT ![i] = e]
    <3>1. PICK files \in SUBSET Files :
            box' = [box EXCEPT ![i].stage = "writing", ![i].rc = Verdicts[s][files],
                               ![i].whole = (files = Files)]
      BY <2>1 DEF Classify
    <3> DEFINE e == [box[i] EXCEPT !.stage = "writing", !.rc = Verdicts[s][files],
                                   !.whole = (files = Files)]
    <3>2. Verdicts[s][files] \in 0..2 /\ (files # Files => Verdicts[s][files] = 1)
      BY BrokenDelivery
    <3>3. e \in Dirs
      BY <1>2, <3>2 DEF Dirs
    <3>4. box' = [box EXCEPT ![i] = e]
      BY <1>1, <3>1
    <3> QED  BY <3>3, <3>4
  <2>2. ASSUME EndSummary(i)  PROVE \E e \in Dirs : box' = [box EXCEPT ![i] = e]
    <3> DEFINE e == [box[i] EXCEPT !.stage = "ready"]
    <3>1. e \in Dirs
      BY <1>2 DEF Dirs
    <3>2. box' = [box EXCEPT ![i] = e]
      BY <1>1, <2>2 DEF EndSummary
    <3> QED  BY <3>1, <3>2
  <2> QED  BY <2>1, <2>2
<1>4. box' \in [1..Len(box) -> Dirs] /\ \A j \in 1..Len(box) : j # i => box'[j] = box[j]
  BY <1>1, <1>3
<1>5. box' \in Seq(Dirs) /\ DOMAIN box' = DOMAIN box
  BY <1>1, <1>4, Numbered
<1>6. box[i].stage # "ready"
  BY DEF Classify, EndSummary
<1>7. ASSUME NEW d \in Entries(box), d.stage = "ready"  PROVE d \in Entries(box')
  <2>1. PICK j \in 1..Len(box) : d = box[j]
    BY <1>1 DEF Entries
  <2>2. j # i
    BY <1>6, <1>7, <2>1
  <2> QED  BY <1>1, <1>4, <1>5, <2>1, <2>2 DEF Entries
<1> QED  BY <1>5, <1>7

\* A snapshot, and a cycle that is over, take one name from every directory.
LEMMA LookingFacts ==
    ASSUME box \in Seq(Dirs), NEW c \in Cycles, NEW b \in {Snapshot(c), Unwanted(c)}
    PROVE  /\ b \in Seq(Dirs)
           /\ \A other \in Cycles \ {c} : \A d \in Entries(box) : other \in d.fresh =>
                 \E e \in Entries(b) : other \in e.fresh /\ e.stage = d.stage /\ e.rc = d.rc
<1>1. Len(box) \in Nat /\ DOMAIN box = 1..Len(box) /\ box \in [1..Len(box) -> Dirs]
  BY LenProperties
<1>2. ASSUME NEW i \in 1..Len(box)
      PROVE  /\ b[i] \in Dirs
             /\ b[i].fresh = box[i].fresh \ {c} /\ b[i].stage = box[i].stage /\ b[i].rc = box[i].rc
  <2>1. box[i] \in Dirs
    BY <1>1
  <2>2. CASE b = Snapshot(c)
    <3>1. b[i] = [box[i] EXCEPT !.fresh = @ \ {c}]
      BY <1>1, <2>2 DEF Snapshot
    <3> QED  BY <2>1, <3>1 DEF Dirs
  <2>3. CASE b = Unwanted(c)
    <3>1. b[i] = [box[i] EXCEPT !.fresh = @ \ {c}, !.during = @ \ {c}]
      BY <1>1, <2>3 DEF Unwanted
    <3> QED  BY <2>1, <3>1 DEF Dirs
  <2> QED  BY <2>2, <2>3
<1>3. DOMAIN b = 1..Len(box) /\ b = [i \in 1..Len(box) |-> b[i]]
  BY <1>1 DEF Snapshot, Unwanted
<1>4. b \in [1..Len(box) -> Dirs]
  BY <1>2, <1>3
<1>5. b \in Seq(Dirs)
  BY <1>1, <1>4, Numbered
<1>6. ASSUME NEW other \in Cycles \ {c}, NEW d \in Entries(box), other \in d.fresh
      PROVE  \E e \in Entries(b) : other \in e.fresh /\ e.stage = d.stage /\ e.rc = d.rc
  <2>1. PICK i \in 1..Len(box) : d = box[i]
    BY <1>1 DEF Entries
  <2>2. b[i] \in Entries(b)
    BY <1>3 DEF Entries
  <2> QED  BY <1>2, <1>6, <2>1, <2>2
<1> QED  BY <1>5, <1>6
--------------------------------------------------------------------------------
(* The steps.                                                                  *)

\* Nothing was delivered before the first cycle.
LEMMA DeliveryInit == Init => DeliveryInv
<1> SUFFICES ASSUME Init  PROVE DeliveryInv
  OBVIOUS
<1>1. box \in Seq(Dirs)
  BY DEF Init
<1>2. Idle \in CycleStates
  BY DEF Idle, CycleStates
<1>3. \A c \in Cycles : cycles[c] = Idle
  BY DEF Init
<1>4. cycles \in [Cycles -> CycleStates]
  BY <1>2 DEF Init
<1>5. \A c \in Cycles : cycles[c].pc # "recording"
  BY <1>3 DEF Idle
<1> QED  BY <1>1, <1>4, <1>5 DEF DeliveryInv

\* A step of one cycle that does not find anything keeps the evidence of the others.
LEMMA OthersKeepTheirs ==
    ASSUME DeliveryInv, NEW c \in Cycles, NEW state \in CycleStates,
           cycles' = [cycles EXCEPT ![c] = state],
           box' \in {box, Snapshot(c), Unwanted(c)},
           state.pc = "recording" /\ state.rc # 1 => Evidence(c, box)'
    PROVE  DeliveryInv'
<1>1. cycles' \in [Cycles -> CycleStates] /\ cycles'[c] = state
  BY DEF DeliveryInv
<1>2. \A other \in Cycles \ {c} : cycles'[other] = cycles[other]
  BY DEF DeliveryInv
<1>3. /\ box' \in Seq(Dirs)
      /\ \A other \in Cycles \ {c} : \A d \in Entries(box) : other \in d.fresh =>
            \E e \in Entries(box') : other \in e.fresh /\ e.stage = d.stage /\ e.rc = d.rc
  <2>1. CASE box' = box
    BY <2>1 DEF DeliveryInv
  <2>2. CASE box' \in {Snapshot(c), Unwanted(c)}
    BY <2>2, LookingFacts DEF DeliveryInv
  <2> QED  BY <2>1, <2>2
<1>4. ASSUME NEW other \in Cycles, cycles'[other].pc = "recording", cycles'[other].rc # 1
      PROVE  Evidence(other, box)'
  <2>1. CASE other = c
    BY <1>1, <1>4, <2>1
  <2>2. CASE other # c
    <3>1. Evidence(other, box) /\ cycles'[other] = cycles[other]
      BY <1>2, <1>4, <2>2 DEF DeliveryInv
    <3>2. PICK d \in Entries(box) : other \in d.fresh /\ d.stage = "ready" /\ d.rc = cycles[other].rc
      BY <3>1 DEF Evidence
    <3>3. PICK e \in Entries(box') : other \in e.fresh /\ e.stage = d.stage /\ e.rc = d.rc
      BY <1>3, <2>2, <3>2
    <3> QED  BY <3>1, <3>2, <3>3 DEF Evidence
  <2> QED  BY <2>1, <2>2
<1> QED  BY <1>1, <1>3, <1>4 DEF DeliveryInv

\* A handler's step, whoever it belongs to, keeps what the cycles have read.
LEMMA HandlersKeepAll ==
    ASSUME DeliveryInv, UNCHANGED cycles, box' \in Seq(Dirs),
           \A d \in Entries(box) : d.fresh # {} /\ d.stage = "ready" => d \in Entries(box')
    PROVE  DeliveryInv'
<1>1. ASSUME NEW c \in Cycles, cycles'[c].pc = "recording", cycles'[c].rc # 1
      PROVE  Evidence(c, box)'
  <2>1. PICK d \in Entries(box) : c \in d.fresh /\ d.stage = "ready" /\ d.rc = cycles[c].rc
    BY <1>1 DEF DeliveryInv, Evidence
  <2>2. d \in Entries(box')
    BY <2>1
  <2> QED  BY <2>1, <2>2 DEF Evidence
<1> QED  BY <1>1 DEF DeliveryInv

\* Every step of a cycle, of its Worker and of the clock keeps it.
LEMMA DeliveryNext == DeliveryInv /\ [Next]_vars => DeliveryInv'
<1> SUFFICES ASSUME DeliveryInv, [Next]_vars  PROVE DeliveryInv'
  OBVIOUS
<1>1. box \in Seq(Dirs) /\ cycles \in [Cycles -> CycleStates]
  BY DEF DeliveryInv
<1>2. /\ \A c \in Cycles : cycles[c] \in CycleStates
      /\ Idle \in CycleStates /\ Settling \in CycleStates /\ Settling.pc = "polling"
      /\ Idle.pc = "idle"
  <2>1. SettleSeconds + 1 \in Int
    BY CycleAssumption DEF CycleAssumption
  <2>2. Idle \in CycleStates /\ Idle.pc = "idle"
    BY DEF Idle, CycleStates
  <2>3. Settling \in CycleStates /\ Settling.pc = "polling"
    BY <2>1, <2>2 DEF CycleStates, Settling
  <2> QED  BY <1>1, <2>2, <2>3
<1>3. ASSUME UNCHANGED <<cycles, box>>  PROVE DeliveryInv'
  BY <1>3 DEF DeliveryInv, Evidence
<1>4. CASE Connect
  BY <1>1, <1>4, ConnectFacts, HandlersKeepAll DEF Connect
<1>5. ASSUME NEW i \in DOMAIN box, (\E s \in DOMAIN Shipments : Classify(i, s)) \/ EndSummary(i)
      PROVE  DeliveryInv'
  <2>1. UNCHANGED cycles
    BY <1>5 DEF Classify, EndSummary
  <2>2. box' \in Seq(Dirs) /\ \A d \in Entries(box) : d.stage = "ready" => d \in Entries(box')
    BY <1>1, <1>5, HandlerFacts
  <2> QED  BY <2>1, <2>2, HandlersKeepAll
<1>6. ASSUME NEW c \in Cycles, StartCycle(c)  PROVE DeliveryInv'
  <2> DEFINE state == [cycles[c] EXCEPT !.pc = "booting"]
  <2>1. state \in CycleStates /\ state.pc = "booting"
    BY <1>2 DEF CycleStates
  <2>2. cycles' = [cycles EXCEPT ![c] = state] /\ box' = Snapshot(c)
    BY <1>6 DEF StartCycle
  <2> HIDE DEF state
  <2> QED  BY <2>1, <2>2, OthersKeepTheirs
<1>7. ASSUME NEW c \in Cycles, Boot(c)  PROVE DeliveryInv'
  <2> DEFINE state == [cycles[c] EXCEPT !.pc = "waiting"]
  <2>1. state \in CycleStates /\ state.pc = "waiting"
    BY <1>2 DEF CycleStates
  <2>2. cycles' = [cycles EXCEPT ![c] = state] /\ box' = box
    BY <1>7 DEF Boot
  <2> HIDE DEF state
  <2> QED  BY <2>1, <2>2, OthersKeepTheirs
<1>8. ASSUME NEW c \in Cycles, BootFails(c)  PROVE DeliveryInv'
  BY <1>2, <1>8, OthersKeepTheirs DEF BootFails
<1>9. ASSUME NEW c \in Cycles, Found(c)  PROVE DeliveryInv'
  <2>1. PICK i \in Candidate(c) :
          cycles' = [cycles EXCEPT ![c] = [Idle EXCEPT
             !.pc = "recording", !.rc = ReadRc(i), !.found = TRUE]]
    BY <1>9 DEF Found
  <2> DEFINE state == [Idle EXCEPT !.pc = "recording", !.rc = ReadRc(i), !.found = TRUE]
  <2>2. i \in DOMAIN box /\ c \in box[i].fresh
    BY DEF Candidate, New
  <2>3. box[i] \in Dirs /\ box[i] \in Entries(box)
    BY <1>1, <2>2, ElementOfSeq, LenProperties DEF Entries
  <2>4. ReadRc(i) \in 0..2
    BY <2>3 DEF ReadRc, Dirs
  <2>5. state \in CycleStates /\ state.rc = ReadRc(i)
    BY <1>2, <2>4 DEF CycleStates
  <2>6. cycles' = [cycles EXCEPT ![c] = state] /\ box' = box
    BY <1>9, <2>1 DEF Found
  <2> HIDE DEF state
  <2>7. cycles'[c] = state
    BY <1>1, <2>6
  <2>8. ASSUME state.rc # 1  PROVE Evidence(c, box)'
    <3>1. box[i].stage = "ready" /\ state.rc = box[i].rc
      BY <2>5, <2>8 DEF ReadRc
    <3> QED  BY <2>2, <2>3, <2>6, <2>7, <3>1 DEF Evidence
  <2> QED  BY <2>5, <2>6, <2>8, OthersKeepTheirs
<1>10. ASSUME NEW c \in Cycles, PollAgain(c)  PROVE DeliveryInv'
  <2> DEFINE state == [cycles[c] EXCEPT !.polls = PollsLeft(c)]
  <2>1. state \in CycleStates /\ state.pc = "polling"
    BY <1>2, <1>10 DEF CycleStates, PollsLeft, PollAgain
  <2>2. cycles' = [cycles EXCEPT ![c] = state] /\ box' = box
    BY <1>10 DEF PollAgain
  <2> HIDE DEF state
  <2> QED  BY <2>1, <2>2, OthersKeepTheirs
<1>11. ASSUME NEW c \in Cycles, GiveUp(c)  PROVE DeliveryInv'
  <2> DEFINE state == [Idle EXCEPT !.pc = "recording", !.rc = MissingResult]
  <2>1. state \in CycleStates /\ state.rc = 1
    <3>1. MissingResult = 1 /\ 1 \in 0..2
      BY DEF MissingResult
    <3> QED  BY <1>2, <3>1 DEF CycleStates
  <2>2. cycles' = [cycles EXCEPT ![c] = state] /\ box' = box
    BY <1>11 DEF GiveUp
  <2> HIDE DEF state
  <2> QED  BY <2>1, <2>2, OthersKeepTheirs
<1>12. ASSUME NEW c \in Cycles, Record(c) \/ KillCycle(c)  PROVE DeliveryInv'
  <2>1. cycles' = [cycles EXCEPT ![c] = Idle] /\ box' = Unwanted(c)
    BY <1>12 DEF Record, KillCycle
  <2> QED  BY <1>2, <2>1, OthersKeepTheirs
<1>13. CASE WorkerEnds
  <2>1. CASE vm \in Cycles
    <3>1. cycles' = [cycles EXCEPT ![vm] = Settling] /\ box' = box
      BY <1>1, <1>13, <2>1 DEF WorkerEnds
    <3> QED  BY <1>2, <2>1, <3>1, OthersKeepTheirs
  <2>2. CASE vm \notin Cycles
    <3>1. UNCHANGED <<cycles, box>>
      BY <1>1, <1>13, <2>2 DEF WorkerEnds
    <3> QED  BY <1>3, <3>1
  <2> QED  BY <2>1, <2>2
<1>14. ASSUME NEW c \in Cycles, SkipCycle(c)  PROVE DeliveryInv'
  BY <1>3, <1>14 DEF SkipCycle
<1>15. CASE Tick
  BY <1>3, <1>15 DEF Tick
<1>16. CASE UNCHANGED vars
  BY <1>3, <1>16 DEF vars
<1> QED
  BY <1>4, <1>5, <1>6, <1>7, <1>8, <1>9, <1>10, <1>11, <1>12, <1>13, <1>14, <1>15, <1>16 DEF Next

\* What is recorded as green or as findings was delivered while the cycle was at
\* work, whole, and judged so by the Broker: for any number of cycles at once, anything
\* a Worker sends, whichever of their steps interleave.
THEOREM SuccessAlwaysDelivered == Spec => []SuccessWasDelivered
<1>1. DeliveryInv => SuccessWasDelivered
  <2> SUFFICES ASSUME DeliveryInv, NEW c \in Cycles,
                      cycles[c].pc = "recording", cycles[c].rc # 1
               PROVE  \E i \in DOMAIN box :
                        c \in box[i].during /\ box[i].whole /\ cycles[c].rc = box[i].rc
    BY DEF SuccessWasDelivered
  <2>1. PICK d \in Entries(box) : c \in d.fresh /\ d.rc = cycles[c].rc
    BY DEF DeliveryInv, Evidence
  <2>2. PICK i \in DOMAIN box : d = box[i]
    BY DEF Entries
  <2>3. d \in Dirs
    BY <2>2, ElementOfSeq, LenProperties DEF DeliveryInv
  <2> QED  BY <2>1, <2>2, <2>3 DEF Dirs
<1> QED  BY <1>1, DeliveryInit, DeliveryNext, PTL DEF Spec
--------------------------------------------------------------------------------
(* Silence.                                                                    *)

\* A preflight, and the time that passes, leave the streak of the breaker alone.
LEMMA StreakKept ==
    ASSUME SilenceInv,
           guard' \in {guard, PreflightState(guard), [guard EXCEPT !.breaker = Aged(guard).breaker]}
    PROVE  /\ guard' \in GuardStates
           /\ Tripped(guard'.breaker)
           /\ guard'.breaker.streak = guard.breaker.streak
<1>1. guard \in GuardStates /\ Tripped(guard.breaker) /\ guard.breaker \in Breakers
  BY DEF SilenceInv, GuardStates
<1>2. CASE guard' = guard
  BY <1>1, <1>2
<1>3. CASE guard' = PreflightState(guard)
  BY <1>1, <1>3, PreflightFacts, HalfOpenedFacts
<1>4. CASE guard' = [guard EXCEPT !.breaker = Aged(guard).breaker]
  <2>1. /\ Aged(guard).breaker.state = guard.breaker.state
        /\ Aged(guard).breaker.streak = guard.breaker.streak
        /\ Aged(guard) \in GuardStates
    BY <1>1, AgedFacts
  <2>2. guard' \in GuardStates /\ guard'.breaker = Aged(guard).breaker
    BY <1>1, <1>4, <2>1 DEF GuardStates
  <2> QED  BY <1>1, <2>1, <2>2 DEF Tripped
<1> QED  BY <1>2, <1>3, <1>4

\* A record without evidence lengthens the streak with the silence.
LEMMA RecordKeepsSilence ==
    ASSUME SilenceInv, NEW c \in Cycles, Record(c)
    PROVE  /\ guard' \in GuardStates
           /\ Tripped(guard'.breaker)
           /\ silent' \in 0..guard'.breaker.streak
<1>1. /\ guard \in GuardStates /\ silent \in 0..guard.breaker.streak
      /\ guard.breaker.streak \in 0..BreakerThreshold
  BY DEF SilenceInv, GuardStates, Breakers
<1>2. BreakerThreshold \in Nat \ {0}
  BY LimitsAssumption DEF LimitsAssumption
<1>3. guard' = RecordState(guard, cycles[c].rc, 0)
  BY DEF Record
<1>4. 0 \in Nat
  OBVIOUS
<1>5. guard' \in GuardStates /\ Tripped(guard'.breaker)
  BY <1>1, <1>3, <1>4, RecordFacts
<1>6. guard'.breaker.streak \in 0..BreakerThreshold
  BY <1>5 DEF GuardStates, Breakers
<1>7. CASE cycles[c].found
  <2>1. silent' = 0
    BY <1>7 DEF Record
  <2> QED  BY <1>2, <1>5, <1>6, <2>1
<1>8. CASE ~cycles[c].found
  <2>1. cycles[c].rc = 1 /\ HardFailed(cycles[c].rc)
    BY <1>8 DEF SilenceInv, Record, HardFailed
  <2>2. guard'.breaker.streak = Older(guard.breaker.streak, BreakerThreshold)
    BY <1>1, <1>3, <2>1, RecordStreak
  <2>3. silent' = Older(silent, BreakerThreshold)
    BY <1>8 DEF Record
  <2> QED  BY <1>1, <1>2, <1>5, <2>2, <2>3 DEF Older
<1> QED  BY <1>7, <1>8

\* Before the first cycle no cycle was silent.
LEMMA SilenceInit == Init => SilenceInv
<1> SUFFICES ASSUME Init  PROVE SilenceInv
  OBVIOUS
<1>1. guard \in GuardStates /\ guard.breaker.state = "closed" /\ guard.breaker.streak = 0
  BY ResetFacts DEF Init
<1>2. Tripped(guard.breaker)
  BY <1>1, LimitsAssumption DEF LimitsAssumption, Tripped
<1>3. silent \in 0..guard.breaker.streak
  BY <1>1 DEF Init
<1>4. \A c \in Cycles : cycles[c].pc # "recording"
  BY DEF Init, Idle
<1> QED  BY <1>1, <1>2, <1>3, <1>4 DEF SilenceInv

\* A cycle that ends counts itself, or was not silent; no other step touches the count.
LEMMA SilenceNext == DeliveryInv /\ SilenceInv /\ [Next]_vars => SilenceInv'
<1> SUFFICES ASSUME DeliveryInv, SilenceInv, [Next]_vars  PROVE SilenceInv'
  OBVIOUS
<1>1. cycles \in [Cycles -> CycleStates] /\ \A c \in Cycles : cycles[c] \in CycleStates
  BY DEF DeliveryInv
<1>2. /\ guard' \in GuardStates
      /\ Tripped(guard'.breaker)
      /\ silent' \in 0..guard'.breaker.streak
  <2>1. CASE \E c \in Cycles : Record(c)
    BY <2>1, RecordKeepsSilence
  <2>2. CASE ~\E c \in Cycles : Record(c)
    <3>1. /\ guard' \in {guard, PreflightState(guard), [guard EXCEPT !.breaker = Aged(guard).breaker]}
          /\ silent' = silent
      BY <2>2 DEF Next, vars, Connect, Classify, EndSummary, SkipCycle, StartCycle, Boot, BootFails,
                  Found, PollAgain, GiveUp, KillCycle, WorkerEnds, Tick
    <3> QED  BY <3>1, StreakKept DEF SilenceInv
  <2> QED  BY <2>1, <2>2
<1> DEFINE Owned(state) == state.pc = "recording" /\ ~state.found => state.rc = 1
           AllOwned == \A c \in Cycles : Owned(cycles[c])
<1>3. AllOwned
  BY DEF SilenceInv
<1>4. ASSUME UNCHANGED cycles  PROVE AllOwned'
  BY <1>3, <1>4
<1>5. ASSUME NEW c \in Cycles, NEW state, Owned(state), cycles' = [cycles EXCEPT ![c] = state]
      PROVE  AllOwned'
  <2>1. \A other \in Cycles : cycles'[other] \in {state, cycles[other]}
    BY <1>1, <1>5
  <2> QED  BY <1>3, <1>5, <2>1
<1>6. /\ Idle \in CycleStates /\ Owned(Idle) /\ Owned(Settling)
  <2>1. Idle \in CycleStates /\ Idle.pc = "idle"
    BY DEF Idle, CycleStates
  <2>2. Settling.pc = "polling"
    BY <2>1 DEF Settling, CycleStates
  <2> QED  BY <2>1, <2>2
<1> HIDE DEF AllOwned
<1>7. ASSUME NEW c \in Cycles, StartCycle(c)  PROVE AllOwned'
  <2> DEFINE state == [cycles[c] EXCEPT !.pc = "booting"]
  <2>1. state.pc = "booting"
    BY <1>1 DEF CycleStates
  <2>2. cycles' = [cycles EXCEPT ![c] = state]
    BY <1>7 DEF StartCycle
  <2> HIDE DEF state
  <2> QED  BY <1>5, <2>1, <2>2
<1>8. ASSUME NEW c \in Cycles, Boot(c)  PROVE AllOwned'
  <2> DEFINE state == [cycles[c] EXCEPT !.pc = "waiting"]
  <2>1. state.pc = "waiting"
    BY <1>1 DEF CycleStates
  <2>2. cycles' = [cycles EXCEPT ![c] = state]
    BY <1>8 DEF Boot
  <2> HIDE DEF state
  <2> QED  BY <1>5, <2>1, <2>2
<1>9. ASSUME NEW c \in Cycles, BootFails(c)  PROVE AllOwned'
  BY <1>5, <1>6, <1>9 DEF BootFails
<1>10. ASSUME NEW c \in Cycles, Found(c)  PROVE AllOwned'
  <2>1. PICK i \in Candidate(c) :
          cycles' = [cycles EXCEPT ![c] = [Idle EXCEPT
             !.pc = "recording", !.rc = ReadRc(i), !.found = TRUE]]
    BY <1>10 DEF Found
  <2> DEFINE state == [Idle EXCEPT !.pc = "recording", !.rc = ReadRc(i), !.found = TRUE]
  <2>2. state.found
    BY <1>6 DEF CycleStates
  <2> HIDE DEF state
  <2> QED  BY <1>5, <2>1, <2>2 DEF state
<1>11. ASSUME NEW c \in Cycles, PollAgain(c)  PROVE AllOwned'
  <2> DEFINE state == [cycles[c] EXCEPT !.polls = PollsLeft(c)]
  <2>1. state.pc = "polling"
    BY <1>1, <1>11 DEF CycleStates, PollAgain
  <2>2. cycles' = [cycles EXCEPT ![c] = state]
    BY <1>11 DEF PollAgain
  <2> HIDE DEF state
  <2> QED  BY <1>5, <2>1, <2>2
<1>12. ASSUME NEW c \in Cycles, GiveUp(c)  PROVE AllOwned'
  <2> DEFINE state == [Idle EXCEPT !.pc = "recording", !.rc = MissingResult]
  <2>1. state.rc = 1
    BY <1>6 DEF CycleStates, MissingResult
  <2>2. cycles' = [cycles EXCEPT ![c] = state]
    BY <1>12 DEF GiveUp
  <2> HIDE DEF state
  <2> QED  BY <1>5, <2>1, <2>2
<1>13. ASSUME NEW c \in Cycles, Record(c) \/ KillCycle(c)  PROVE AllOwned'
  BY <1>5, <1>6, <1>13 DEF Record, KillCycle
<1>14. ASSUME WorkerEnds  PROVE AllOwned'
  <2>1. \A c \in Cycles : cycles'[c] \in {Settling, cycles[c]}
    BY <1>14 DEF WorkerEnds
  <2> QED  BY <1>3, <1>6, <2>1 DEF AllOwned
<1>15. ASSUME Connect \/ Tick \/ UNCHANGED vars \/ (\E c \in Cycles : SkipCycle(c))
       PROVE  AllOwned'
  BY <1>4, <1>15 DEF Connect, Tick, vars, SkipCycle
<1>16. ASSUME NEW i \in DOMAIN box, (\E s \in DOMAIN Shipments : Classify(i, s)) \/ EndSummary(i)
       PROVE  AllOwned'
  BY <1>4, <1>16 DEF Classify, EndSummary
<1>17. AllOwned'
  BY <1>7, <1>8, <1>9, <1>10, <1>11, <1>12, <1>13, <1>14, <1>15, <1>16 DEF Next
<1> QED  BY <1>2, <1>17 DEF SilenceInv, AllOwned

\* When as many cycles in a row as the threshold were recorded without evidence, the
\* breaker is not closed, whichever cycles overlapped, were skipped or were killed.
THEOREM SilenceAlwaysTrips == Spec => []SilenceTrips
<1>1. SilenceInv => SilenceTrips
  <2> SUFFICES ASSUME SilenceInv, silent >= BreakerThreshold
               PROVE  guard.breaker.state # "closed"
    BY DEF SilenceTrips
  <2>1. guard.breaker.streak \in 0..BreakerThreshold /\ silent \in 0..guard.breaker.streak
    BY DEF SilenceInv, GuardStates, Breakers
  <2>2. guard.breaker.streak >= BreakerThreshold
    BY <2>1, LimitsAssumption DEF LimitsAssumption
  <2> QED  BY <2>2 DEF SilenceInv, Tripped
<1> QED  BY <1>1, DeliveryInit, DeliveryNext, SilenceInit, SilenceNext, PTL DEF Spec
================================================================================
