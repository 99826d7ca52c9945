---------------------------- MODULE RoutingProofs ----------------------------
(***************************************************************************)
(* The tracking issues, for any number of overlapping runs, keys, issues,  *)
(* nights, weeks and failing calls: what is proved about the machinery     *)
(* that the two routings share (IssueSync), and what follows for the       *)
(* nightly one (FindingsRouting) and for the weekly one (DriftRouting).    *)
(* The two are behaviours of their own: no theorem speaks of both.         *)
(*                                                                         *)
(* Dedup: an open issue of a key was either there when a run last looked,  *)
(* or was opened by a run that had looked and seen none; so what has to be *)
(* counted beside the open issues is the runs about to open one.           *)
(*                                                                         *)
(* Closing: a run closes the issue it found when it looked.  What it saw   *)
(* then is still true when it acts, whoever else was at work: the issue is *)
(* of the same key or closed by now, the answer it acts on is the one it   *)
(* came with, and its explanation is in place.                             *)
(***************************************************************************)
EXTENDS FindingsRouting, DriftRouting, FiniteSetTheorems, SequenceTheorems, TLAPS

Planned == {<<>>, <<"create">>, <<"comment">>, <<"explain", "close">>, <<"close">>}
Closing == {<<"explain", "close">>, <<"close">>}

\* The runs, the issues and the plans of calls are what they should be.
Shape == SyncTypeOK /\ \A p \in Syncs : jobs[p].calls \in Planned

Counted(k, S) == Cardinality(OpenIssues(k)) + Cardinality(AboutToCreate(k)) <= Cardinality(S)

\* What a step may do to the issues of a key and to the runs about to open one:
\* open none, find that none is open, or open one and be done with it.
OpensNone(k) ==
    OpenIssues(k)' \subseteq OpenIssues(k) /\ AboutToCreate(k)' \subseteq AboutToCreate(k)
NoneOpen(k) == OpenIssues(k)' = {}
OpensOne(k, p) ==
    /\ p \in AboutToCreate(k)
    /\ AboutToCreate(k)' \subseteq AboutToCreate(k) \ {p}
    /\ \E n \in Numbers : OpenIssues(k)' \subseteq OpenIssues(k) \cup {n}

\* None of the three lets the count grow past the number of runs.
LEMMA CountKept ==
    ASSUME NEW S \in SUBSET Syncs, NEW k \in Keys, Counted(k, S), AboutToCreate(k)' \subseteq S,
           OpensNone(k) \/ NoneOpen(k) \/ \E p \in Syncs : OpensOne(k, p)
    PROVE  Counted(k, S)'
  <1> DEFINE open == OpenIssues(k)
             about == AboutToCreate(k)
  <1>1. /\ IsFiniteSet(Numbers) /\ IsFiniteSet(Syncs)
        /\ open \subseteq Numbers /\ open' \subseteq Numbers
        /\ about \subseteq Syncs /\ about' \subseteq S
    BY SyncAssumption DEF SyncAssumption, OpenIssues, AboutToCreate
  <1>0. IsFiniteSet(S)
    BY <1>1, FS_Subset
  <1>2. /\ IsFiniteSet(open) /\ IsFiniteSet(open') /\ IsFiniteSet(about) /\ IsFiniteSet(about')
        /\ Cardinality(about') <= Cardinality(S)
    BY <1>0, <1>1, FS_Subset
  <1>3. /\ Cardinality(open) \in Nat /\ Cardinality(open') \in Nat
        /\ Cardinality(about) \in Nat /\ Cardinality(about') \in Nat
        /\ Cardinality(S) \in Nat
    BY <1>0, <1>1, <1>2, FS_CardinalityType
  <1>4. Cardinality(open) + Cardinality(about) <= Cardinality(S)
    BY DEF Counted
  <1>5. Counted(k, S)' <=> Cardinality(open') + Cardinality(about') <= Cardinality(S)
    BY DEF Counted
  <1>6. CASE OpensNone(k)
    <2>1. Cardinality(open') <= Cardinality(open) /\ Cardinality(about') <= Cardinality(about)
      BY <1>2, <1>6, FS_Subset DEF OpensNone
    <2> QED  BY <1>3, <1>4, <1>5, <2>1
  <1>7. CASE NoneOpen(k)
    <2>1. Cardinality(open') = 0
      BY <1>7, FS_EmptySet DEF NoneOpen
    <2> QED  BY <1>2, <1>3, <1>5, <2>1
  <1>8. ASSUME NEW p \in Syncs, OpensOne(k, p)  PROVE Counted(k, S)'
    <2>1. PICK n \in Numbers : open' \subseteq open \cup {n}
      BY <1>8 DEF OpensOne
    <2>2. /\ IsFiniteSet(open \cup {n})
          /\ Cardinality(open \cup {n}) \in Nat
          /\ Cardinality(open \cup {n}) <= Cardinality(open) + 1
      <3>1. IsFiniteSet(open \cup {n})
        BY <1>2, FS_AddElement
      <3>2. Cardinality(open \cup {n}) =
                IF n \in open THEN Cardinality(open) ELSE Cardinality(open) + 1
        BY <1>2, FS_AddElement
      <3>3. Cardinality(open \cup {n}) \in Nat
        BY <3>1, FS_CardinalityType
      <3> QED  BY <1>3, <3>1, <3>2, <3>3
    <2>3. Cardinality(open') <= Cardinality(open \cup {n})
      BY <2>1, <2>2, FS_Subset
    <2>4. /\ IsFiniteSet(about \ {p})
          /\ Cardinality(about \ {p}) = Cardinality(about) - 1
      BY <1>2, <1>8, FS_RemoveElement DEF OpensOne
    <2>5. Cardinality(about') <= Cardinality(about \ {p})
      BY <1>8, <2>4, FS_Subset DEF OpensOne
    <2> QED  BY <1>3, <1>4, <1>5, <2>2, <2>3, <2>4, <2>5
  <1> QED  BY <1>6, <1>7, <1>8
--------------------------------------------------------------------------------
\* What a run that has looked knows: its issue is of its key or closed by now, it
\* closes for a clear answer only, and not before it has explained why.
Sound(p) ==
    /\ ~Working(p) => jobs[p] = Idle
    /\ jobs[p].issue # 0 => tracks[jobs[p].issue] \in {Key(p), "none"}
    /\ jobs[p].calls \in Closing => Answer(p) = "clear" /\ jobs[p].issue # 0
    /\ jobs[p].calls = <<"close">> => jobs[p].issue \in explained

\* What a step leaves alone: an issue that a run remembers is not used for another
\* key, and keeps the explanation that is in it.
Respects ==
    \A q \in Syncs : jobs[q].issue # 0 =>
        /\ tracks'[jobs[q].issue] \in {tracks[jobs[q].issue], "none"}
        /\ jobs[q].issue \in explained => jobs[q].issue \in explained'

\* A run that did nothing knows what it knew.
LEMMA SoundStays ==
    ASSUME Shape, NEW q \in Syncs, Sound(q), Respects, jobs'[q] = jobs[q]
    PROVE  Sound(q)'
<1>1. jobs[q] \in Jobs
  BY DEF Shape, SyncTypeOK
<1>2. /\ ~Working(q) => jobs[q] = Idle
      /\ jobs[q].issue # 0 => tracks[jobs[q].issue] \in {Key(q), "none"}
      /\ jobs[q].calls \in Closing => Answer(q) = "clear" /\ jobs[q].issue # 0
      /\ jobs[q].calls = <<"close">> => jobs[q].issue \in explained
  BY DEF Sound
<1>3. Working(q)' = Working(q) /\ Key(q)' = Key(q) /\ Answer(q)' = Answer(q)
  BY DEF Working, Key, Answer
<1>4. <<"close">> \in Closing
  BY DEF Closing
<1>5. jobs[q].issue # 0 =>
        /\ tracks'[jobs[q].issue] \in {tracks[jobs[q].issue], "none"}
        /\ jobs[q].issue \in explained => jobs[q].issue \in explained'
  BY DEF Respects
<1> QED  BY <1>2, <1>3, <1>4, <1>5 DEF Sound

\* The fields of a job.
LEMMA JobFields ==
    ASSUME NEW answers, NEW queue, NEW calls, NEW issue
    PROVE  /\ Job(answers, queue, calls, issue).answers = answers
           /\ Job(answers, queue, calls, issue).queue = queue
           /\ Job(answers, queue, calls, issue).calls = calls
           /\ Job(answers, queue, calls, issue).issue = issue
           /\ Idle.queue = <<>> /\ Idle.calls = <<>> /\ Idle.issue = 0
  BY DEF Job, Idle

\* A job is one when its parts are, and an idle run has one.
LEMMA JobTyped ==
    /\ \A answers \in [Keys -> Answers], queue \in Seq(Keys), issue \in Numbers \cup {0} :
         \A calls \in Planned : Job(answers, queue, calls, issue) \in Jobs
    /\ Idle \in Jobs
<1>1. ASSUME NEW calls \in Planned
      PROVE  calls \in Seq({"create", "comment", "explain", "close"})
  <2>1. CASE calls = <<>>
    BY <2>1
  <2>2. CASE calls = <<"create">>
    BY <2>2
  <2>3. CASE calls = <<"comment">>
    BY <2>3
  <2>4. CASE calls = <<"explain", "close">>
    BY <2>4
  <2>5. CASE calls = <<"close">>
    BY <2>5
  <2> QED  BY <2>1, <2>2, <2>3, <2>4, <2>5 DEF Planned
<1>2. <<>> \in Seq(Keys) /\ <<>> \in Planned
  BY DEF Planned
<1> QED  BY <1>1, <1>2 DEF Job, Jobs, Idle, Answers

\* What is left of the plan when its first call is done.
LEMMA PlannedFacts ==
    ASSUME NEW calls \in Planned, calls # <<>>
    PROVE  /\ Head(calls) \in {"create", "comment", "explain", "close"}
           /\ Head(calls) = "create" => calls = <<"create">>
           /\ Head(calls) = "close" => calls = <<"close">>
           /\ Len(calls) # 1 => /\ calls = <<"explain", "close">>
                                /\ Head(calls) = "explain"
                                /\ Tail(calls) = <<"close">>
<1>1. CASE calls = <<"create">>
  BY <1>1
<1>2. CASE calls = <<"comment">>
  BY <1>2
<1>3. CASE calls = <<"explain", "close">>
  BY <1>3
<1>4. CASE calls = <<"close">>
  BY <1>4
<1> QED  BY <1>1, <1>2, <1>3, <1>4 DEF Planned
--------------------------------------------------------------------------------
\* A run takes up a job that is not about opening an issue; the others keep theirs.
Moves(p) ==
    /\ jobs' \in [Syncs -> Jobs]
    /\ \A q \in Syncs : jobs'[q].calls \in Planned
    /\ \A q \in Syncs : q # p => jobs'[q] = jobs[q]
    /\ \A k \in Keys : AboutToCreate(k)' \subseteq AboutToCreate(k) \ {p}

\* A run has not looked for the issue of its next key, or has no more keys.
Fresh(p) ==
    /\ jobs[p].calls = <<>> /\ jobs[p].issue = 0
    /\ jobs[p].queue = <<>> => jobs[p] = Idle

\* What such a run knows is nothing, and that is sound.
LEMMA FreshIsSound ==
    ASSUME NEW p \in Syncs, Fresh(p)
    PROVE  Sound(p)
<1>1. <<>> \notin Closing /\ <<>> # <<"close">>
  BY DEF Closing
<1> QED  BY <1>1 DEF Fresh, Sound, Working

\* A new job for one run.
LEMMA JobMoves ==
    ASSUME Shape, NEW p \in Syncs, NEW job, job \in Jobs, jobs' = [jobs EXCEPT ![p] = job],
           job.calls \in Planned \ {<<"create">>}
    PROVE  Moves(p) /\ jobs'[p] = job
<1>1. jobs \in [Syncs -> Jobs] /\ \A q \in Syncs : jobs[q].calls \in Planned
  BY DEF Shape, SyncTypeOK
<1>2. jobs' = [q \in Syncs |-> IF q = p THEN job ELSE jobs[q]]
  BY <1>1
<1>3. jobs' \in [Syncs -> Jobs] /\ \A q \in Syncs : jobs'[q].calls \in Planned
  BY <1>1, <1>2
<1>4. \A k \in Keys : AboutToCreate(k)' \subseteq AboutToCreate(k) \ {p}
  BY <1>2 DEF AboutToCreate, Working, Key
<1> QED  BY <1>2, <1>3, <1>4 DEF Moves

\* The parts of the job of a run at work.
LEMMA WorkingFacts ==
    ASSUME Shape, NEW p \in Syncs, Working(p)
    PROVE  /\ jobs[p].answers \in [Keys -> Answers]
           /\ jobs[p].queue \in Seq(Keys) /\ Tail(jobs[p].queue) \in Seq(Keys)
           /\ Len(jobs[p].queue) # 1 => Tail(jobs[p].queue) # <<>>
           /\ Key(p) \in Keys
           /\ jobs[p].issue \in Numbers \cup {0}
           /\ jobs[p].calls \in Planned
<1>1. jobs[p] \in Jobs /\ jobs[p].calls \in Planned
  BY DEF Shape, SyncTypeOK
<1>2. jobs[p].queue \in Seq(Keys) /\ jobs[p].queue # <<>>
  BY <1>1 DEF Jobs, Working
<1>3. ASSUME NEW queue \in Seq(Keys), queue # <<>>
      PROVE  /\ Head(queue) \in Keys /\ Tail(queue) \in Seq(Keys)
             /\ Len(queue) # 1 => Tail(queue) # <<>>
  <2>1. Len(queue) \in Nat \ {0}
    BY <1>3, EmptySeq
  <2>2. Head(queue) \in Keys /\ Tail(queue) \in Seq(Keys) /\ Len(Tail(queue)) = Len(queue) - 1
    BY <1>3, HeadTailProperties
  <2>3. \A rest : rest = <<>> => Len(rest) = 0
    BY EmptySeq
  <2> QED  BY <2>1, <2>2, <2>3
<1>4. /\ Key(p) \in Keys /\ Tail(jobs[p].queue) \in Seq(Keys)
      /\ Len(jobs[p].queue) # 1 => Tail(jobs[p].queue) # <<>>
  BY <1>2, <1>3, Zenon DEF Key
<1> QED  BY <1>1, <1>2, <1>4 DEF Jobs

\* A run that is done with a key, or that gives up on it, looks afresh for the next.
LEMMA RoutedFacts ==
    ASSUME Shape, NEW p \in Syncs, Working(p), jobs' = Routed(p)
    PROVE  Moves(p) /\ Fresh(p)'
<1> DEFINE job == IF Len(jobs[p].queue) = 1 THEN Idle
                  ELSE Job(jobs[p].answers, Tail(jobs[p].queue), <<>>, 0)
<1>1. jobs' = [jobs EXCEPT ![p] = job]
  BY DEF Routed, Shape, SyncTypeOK
<1>2. <<>> \in Planned \ {<<"create">>}
  BY DEF Planned
<1>3. job \in Jobs
  <2>1. jobs[p].answers \in [Keys -> Answers] /\ Tail(jobs[p].queue) \in Seq(Keys)
    BY WorkingFacts
  <2>2. Job(jobs[p].answers, Tail(jobs[p].queue), <<>>, 0) \in Jobs
    BY <1>2, <2>1, JobTyped
  <2> QED  BY <2>2, JobTyped
<1>4. job.calls = <<>> /\ job.issue = 0 /\ (job.queue = <<>> => job = Idle)
  <2>1. CASE Len(jobs[p].queue) = 1
    BY <2>1, JobFields
  <2>2. CASE Len(jobs[p].queue) # 1
    <3>1. Tail(jobs[p].queue) # <<>>
      BY <2>2, WorkingFacts
    <3> QED  BY <2>2, <3>1 DEF Job
  <2> QED  BY <2>1, <2>2
<1> HIDE DEF job
<1>5. Moves(p) /\ jobs'[p] = job
  BY <1>1, <1>2, <1>3, <1>4, JobMoves
<1> QED  BY <1>4, <1>5 DEF Fresh

\* What the calls of a run do to the issues: "create" opens one that no run
\* remembers, for the key the run is about to create one for; "close" closes the
\* one the run remembers; an explanation stays where it is.
LEMMA EffectFacts ==
    ASSUME Shape, NEW p \in Syncs, Sound(p), Working(p), Effect(p), jobs[p].calls # <<>>
    PROVE  /\ tracks' \in [Numbers -> Keys \cup {"none"}] /\ explained' \subseteq Numbers
           /\ Respects
           /\ \A k \in Keys :
                \/ OpenIssues(k)' \subseteq OpenIssues(k)
                \/ /\ p \in AboutToCreate(k)
                   /\ \E n \in Numbers : OpenIssues(k)' \subseteq OpenIssues(k) \cup {n}
           /\ Head(jobs[p].calls) = "explain" => jobs[p].issue \in explained'
           /\ \A i \in Numbers : tracks[i] # "none" /\ tracks'[i] = "none" =>
                 i = jobs[p].issue /\ jobs[p].calls = <<"close">>
<1>1. jobs[p].calls \in Planned /\ Key(p) \in Keys /\ jobs[p].issue \in Numbers \cup {0}
  BY WorkingFacts
<1>2. /\ tracks \in [Numbers -> Keys \cup {"none"}] /\ explained \subseteq Numbers
      /\ jobs \in [Syncs -> Jobs] /\ "none" \notin Keys
  BY SyncAssumption DEF SyncAssumption, Shape, SyncTypeOK
<1>3. \A q \in Syncs : jobs[q].issue \in Numbers \cup {0}
  BY <1>2 DEF Jobs
<1>4. CASE Head(jobs[p].calls) = "create"
  <2>1. PICK n \in Numbers : /\ IsNext(n)
                             /\ tracks' = [tracks EXCEPT ![n] = Key(p)]
                             /\ explained' = explained \ {n}
    BY <1>4 DEF Effect
  <2>2. tracks' = [i \in Numbers |-> IF i = n THEN Key(p) ELSE tracks[i]]
    BY <1>2, <2>1
  <2>3. jobs[p].calls = <<"create">>
    BY <1>1, <1>4, PlannedFacts
  <2>4. ASSUME NEW k \in Keys, k # Key(p)  PROVE OpenIssues(k)' \subseteq OpenIssues(k)
    BY <2>2, <2>4 DEF OpenIssues
  <2>5. ASSUME NEW k \in Keys, k = Key(p)
        PROVE  p \in AboutToCreate(k) /\ OpenIssues(k)' \subseteq OpenIssues(k) \cup {n}
    BY <2>2, <2>3, <2>5 DEF OpenIssues, AboutToCreate
  <2>6. Respects
    <3>1. \A q \in Syncs : jobs[q].issue # n
      BY <2>1 DEF IsNext, Unused
    <3> QED  BY <1>2, <1>3, <2>1, <2>2, <3>1 DEF Respects
  <2>7. tracks' \in [Numbers -> Keys \cup {"none"}] /\ explained' \subseteq Numbers
    BY <1>1, <1>2, <2>1, <2>2
  <2>8. \A i \in Numbers : tracks[i] # "none" => tracks'[i] # "none"
    BY <1>1, <1>2, <2>2
  <2> QED  BY <1>4, <2>4, <2>5, <2>6, <2>7, <2>8
<1>5. CASE Head(jobs[p].calls) = "close"
  <2>1. tracks' = [tracks EXCEPT ![jobs[p].issue] = "none"] /\ explained' = explained
    BY <1>5 DEF Effect
  <2>2. tracks' = [i \in Numbers |-> IF i = jobs[p].issue THEN "none" ELSE tracks[i]]
    BY <1>2, <2>1
  <2>3. \A k \in Keys : OpenIssues(k)' \subseteq OpenIssues(k)
    BY <1>2, <2>2 DEF OpenIssues
  <2>4. Respects
    BY <1>2, <1>3, <2>1, <2>2 DEF Respects
  <2>5. tracks' \in [Numbers -> Keys \cup {"none"}] /\ explained' \subseteq Numbers
    BY <1>2, <2>1, <2>2
  <2>6. jobs[p].calls = <<"close">>
    BY <1>1, <1>5, PlannedFacts
  <2> QED  BY <1>5, <2>2, <2>3, <2>4, <2>5, <2>6
<1>6. CASE Head(jobs[p].calls) = "explain"
  <2>1. tracks' = tracks /\ explained' = explained \cup {jobs[p].issue}
    BY <1>6 DEF Effect
  <2>2. jobs[p].issue \in Numbers
    <3>1. jobs[p].calls \in Closing
      BY <1>1, <1>6 DEF Planned, Closing
    <3> QED  BY <1>1, <3>1 DEF Sound
  <2> QED  BY <1>2, <2>1, <2>2 DEF OpenIssues, Respects
<1>7. CASE Head(jobs[p].calls) = "comment"
  <2>1. tracks' = tracks /\ explained' = explained
    BY <1>7 DEF Effect
  <2> QED  BY <1>2, <1>7, <2>1 DEF OpenIssues, Respects
<1> QED  BY <1>1, <1>4, <1>5, <1>6, <1>7, PlannedFacts
--------------------------------------------------------------------------------
\* The invariant of the shared machinery.
SyncInv == Shape /\ \A p \in Syncs : Sound(p)

\* What becomes of the open issues of every key in a step.
OpensAtMostOne ==
    \A k \in Keys : OpensNone(k) \/ NoneOpen(k) \/ \E p \in Syncs : OpensOne(k, p)

\* A run that is at work after a step was at work before it, with the same answers,
\* and with the same keys or one of several less.
GoesOn ==
    \A q \in Syncs : Working(q)' =>
        /\ Working(q) /\ jobs'[q].answers = jobs[q].answers
        /\ jobs'[q].queue = jobs[q].queue \/ Len(jobs[q].queue) # 1

\* All three, for a step after which one run looks afresh and the issues were
\* treated as a call may.
LEMMA MovesKeep ==
    ASSUME SyncInv, NEW p \in Syncs, Moves(p), Sound(p)', Respects,
           tracks' \in [Numbers -> Keys \cup {"none"}], explained' \subseteq Numbers,
           outages' \in 0..MaxOutages
    PROVE  SyncInv'
<1>1. Shape'
  BY DEF Moves, Shape, SyncTypeOK
<1>2. ASSUME NEW q \in Syncs, q # p  PROVE Sound(q)'
  BY <1>2, SoundStays DEF SyncInv, Moves
<1> QED  BY <1>1, <1>2 DEF SyncInv

\* The issues are as they were.
LEMMA IssuesUntouched ==
    ASSUME Shape, UNCHANGED <<tracks, explained>>
    PROVE  /\ Respects
           /\ tracks' \in [Numbers -> Keys \cup {"none"}] /\ explained' \subseteq Numbers
           /\ \A k \in Keys : OpenIssues(k)' = OpenIssues(k)
  BY DEF Shape, SyncTypeOK, Respects, OpenIssues

\* Nothing is open and no run is at work when the scripts are first installed.
LEMMA SyncBegins ==
    ASSUME SyncInit
    PROVE  /\ SyncInv /\ \A p \in Syncs : ~Working(p)
           /\ \A k \in Keys : OpenIssues(k) = {} /\ AboutToCreate(k) = {}
<1>1. /\ tracks = [i \in Numbers |-> "none"] /\ jobs = [p \in Syncs |-> Idle]
      /\ explained = {} /\ outages = 0
  BY DEF SyncInit
<1>2. SyncTypeOK
  BY <1>1, JobTyped, SyncAssumption DEF SyncAssumption, SyncTypeOK
<1>3. Shape
  BY <1>1, <1>2, JobFields DEF Shape, Planned
<1>4. ASSUME NEW p \in Syncs  PROVE Fresh(p) /\ ~Working(p)
  BY <1>1, JobFields DEF Fresh, Working
<1>5. \A p \in Syncs : Sound(p)
  BY <1>4, FreshIsSound
<1>6. \A k \in Keys : OpenIssues(k) = {}
  BY <1>1, SyncAssumption DEF SyncAssumption, OpenIssues
<1>7. \A k \in Keys : AboutToCreate(k) = {}
  BY <1>4 DEF AboutToCreate
<1> QED  BY <1>3, <1>4, <1>5, <1>6, <1>7 DEF SyncInv

\* A run that starts has not looked yet.
LEMMA BeginKeeps ==
    ASSUME SyncInv, NEW p \in Syncs, NEW keys \in Seq(Keys), keys # <<>>,
           NEW answers \in [Keys -> Answers], Begin(p, keys, answers)
    PROVE  /\ SyncInv' /\ OpensAtMostOne
           /\ Working(p)' /\ jobs'[p].answers = answers /\ jobs'[p].queue = keys
           /\ \A q \in Syncs : q # p => jobs'[q] = jobs[q]
<1> DEFINE job == Job(answers, keys, <<>>, 0)
<1>1. /\ Shape /\ jobs' = [jobs EXCEPT ![p] = job]
      /\ UNCHANGED <<tracks, explained>> /\ outages' = outages
  BY DEF SyncInv, Begin
<1>2. <<>> \in Planned \ {<<"create">>}
  BY DEF Planned
<1>3. job \in Jobs
  BY <1>2, JobTyped
<1>4. job.answers = answers /\ job.queue = keys /\ job.calls = <<>> /\ job.issue = 0
  BY JobFields
<1> HIDE DEF job
<1>5. Moves(p) /\ jobs'[p] = job
  BY <1>1, <1>2, <1>3, <1>4, JobMoves
<1>6. Fresh(p)'
  BY <1>4, <1>5 DEF Fresh
<1>7. Sound(p)'
  <2>1. <<>> \notin Closing /\ <<>> # <<"close">>
    BY DEF Closing
  <2> QED  BY <1>4, <1>5, <2>1 DEF Sound, Working
<1>8. outages' \in 0..MaxOutages
  BY <1>1 DEF Shape, SyncTypeOK
<1>9. SyncInv'
  BY <1>1, <1>5, <1>7, <1>8, IssuesUntouched, MovesKeep
<1>10. OpensAtMostOne
  BY <1>1, <1>5, IssuesUntouched DEF OpensAtMostOne, OpensNone, Moves
<1> QED  BY <1>4, <1>5, <1>9, <1>10 DEF Moves, Working

\* A run that moves on to its next key, whatever its last call did.
LEMMA RoutedKeeps ==
    ASSUME SyncInv, NEW p \in Syncs, Working(p), jobs' = Routed(p), outages' \in 0..MaxOutages,
           UNCHANGED <<tracks, explained>> \/ (jobs[p].calls # <<>> /\ Effect(p))
    PROVE  SyncInv' /\ OpensAtMostOne
<1>1. Shape /\ Sound(p)
  BY DEF SyncInv
<1>2. Moves(p) /\ Fresh(p)'
  BY <1>1, RoutedFacts
<1>3. Sound(p)'
  <2>1. <<>> \notin Closing /\ <<>> # <<"close">>
    BY DEF Closing
  <2> QED  BY <1>2, <2>1 DEF Fresh, Sound, Working
<1>4. CASE UNCHANGED <<tracks, explained>>
  <2>1. SyncInv'
    BY <1>1, <1>2, <1>3, <1>4, IssuesUntouched, MovesKeep
  <2> QED  BY <1>1, <1>2, <1>4, <2>1, IssuesUntouched DEF OpensAtMostOne, OpensNone, Moves
<1>5. CASE jobs[p].calls # <<>> /\ Effect(p)
  <2>1. /\ tracks' \in [Numbers -> Keys \cup {"none"}] /\ explained' \subseteq Numbers /\ Respects
        /\ \A k \in Keys :
              \/ OpenIssues(k)' \subseteq OpenIssues(k)
              \/ /\ p \in AboutToCreate(k)
                 /\ \E n \in Numbers : OpenIssues(k)' \subseteq OpenIssues(k) \cup {n}
    BY <1>1, <1>5, EffectFacts
  <2>2. SyncInv'
    BY <1>2, <1>3, <2>1, MovesKeep
  <2>3. \A k \in Keys : OpensNone(k) \/ OpensOne(k, p)
    BY <1>2, <2>1 DEF OpensNone, OpensOne, Moves
  <2> QED  BY <2>2, <2>3 DEF OpensAtMostOne
<1> QED  BY <1>4, <1>5

\* It keeps its answers, and ends with its last key.
LEMMA RoutedGoesOn ==
    ASSUME Shape, NEW p \in Syncs, Working(p), jobs' = Routed(p)
    PROVE  GoesOn
<1>1. \A q \in Syncs : q # p => jobs'[q] = jobs[q]
  BY RoutedFacts DEF Moves
<1>2. jobs'[p] = IF Len(jobs[p].queue) = 1 THEN Idle
                 ELSE Job(jobs[p].answers, Tail(jobs[p].queue), <<>>, 0)
  BY DEF Routed, Shape, SyncTypeOK
<1>3. CASE Len(jobs[p].queue) = 1
  <2>1. ~Working(p)'
    BY <1>2, <1>3, JobFields DEF Working
  <2> QED  BY <1>1, <2>1 DEF GoesOn, Working
<1>4. CASE Len(jobs[p].queue) # 1
  <2>1. jobs'[p].answers = jobs[p].answers
    BY <1>2, <1>4 DEF Job
  <2> QED  BY <1>1, <1>4, <2>1 DEF GoesOn, Working
<1> QED  BY <1>3, <1>4

\* A look plans on what it finds: it plans to open an issue only when none is
\* open, and to close one only for a clear answer.
LEMMA LookKeeps ==
    ASSUME SyncInv, NEW p \in Syncs, Look(p)
    PROVE  SyncInv' /\ OpensAtMostOne /\ GoesOn
<1> DEFINE found == OpenIssues(Key(p))
           action == Plan(Answer(p), found # {})
<1>1. /\ Shape /\ Sound(p) /\ Working(p) /\ UNCHANGED <<tracks, explained>>
      /\ outages' \in 0..MaxOutages /\ Answer(p) # "unknown"
  BY DEF SyncInv, Look, Shape, SyncTypeOK
<1>2. /\ jobs[p].answers \in [Keys -> Answers] /\ jobs[p].queue \in Seq(Keys)
      /\ Key(p) \in Keys /\ "none" \notin Keys /\ Answer(p) \in Answers
  BY <1>1, WorkingFacts, SyncAssumption DEF SyncAssumption, Answer
<1>3. CASE action = "noop"
  <2>1. jobs' = Routed(p)
    BY <1>3 DEF Look
  <2> QED  BY <1>1, <2>1, RoutedKeeps, RoutedGoesOn
<1>4. CASE action # "noop"
  <2>1. PICK i \in IF found = {} THEN {0} ELSE found :
          jobs' = [jobs EXCEPT ![p] = Job(jobs[p].answers, jobs[p].queue, Calls(action), i)]
    BY <1>1, <1>4 DEF Look, Shape, SyncTypeOK
  <2> DEFINE job == Job(jobs[p].answers, jobs[p].queue, Calls(action), i)
  <2>2. /\ action \in {"create", "comment", "close"}
        /\ action = "create" <=> found = {}
        /\ action = "close" => Answer(p) = "clear"
    BY <1>1, <1>2, <1>4 DEF Plan, Answers
  <2>3. /\ Calls(action) \in Planned
        /\ Calls(action) \in Closing => action = "close"
        /\ Calls(action) = <<"create">> <=> action = "create"
        /\ Calls(action) # <<"close">>
    BY <2>2 DEF Calls, Planned, Closing
  <2>4. /\ i \in Numbers \cup {0}
        /\ i # 0 => tracks[i] = Key(p)
        /\ i = 0 => found = {}
    BY SyncAssumption DEF SyncAssumption, OpenIssues
  <2>5. job \in Jobs
    BY <1>2, <2>3, <2>4, JobTyped
  <2>6. /\ job.answers = jobs[p].answers /\ job.queue = jobs[p].queue
        /\ job.calls = Calls(action) /\ job.issue = i
    BY JobFields
  <2> HIDE DEF job, found, action
  <2>7. /\ jobs' = [q \in Syncs |-> IF q = p THEN job ELSE jobs[q]]
        /\ jobs \in [Syncs -> Jobs] /\ \A q \in Syncs : jobs[q].calls \in Planned
    BY <1>1, <2>1 DEF job, Shape, SyncTypeOK
  <2>8. Shape'
    BY <1>1, <2>3, <2>5, <2>6, <2>7, IssuesUntouched DEF Shape, SyncTypeOK
  <2>9. Working(p)' /\ Key(p)' = Key(p) /\ Answer(p)' = Answer(p)
    BY <1>1, <2>6, <2>7 DEF Working, Key, Answer
  <2>10. Sound(p)'
    <3>1. jobs'[p] = job
      BY <2>7
    <3>2. job.issue # 0 => tracks'[job.issue] \in {Key(p), "none"}
      BY <1>1, <2>4, <2>6
    <3>3. job.calls \in Closing => Answer(p) = "clear" /\ job.issue # 0
      BY <2>2, <2>3, <2>4, <2>6
    <3> QED  BY <2>3, <2>6, <2>9, <3>1, <3>2, <3>3 DEF Sound
  <2>11. ASSUME NEW q \in Syncs, q # p  PROVE Sound(q)'
    BY <1>1, <2>7, <2>11, IssuesUntouched, SoundStays DEF SyncInv
  <2>12. OpensAtMostOne
    <3>1. ASSUME NEW k \in Keys, k = Key(p), action = "create"  PROVE NoneOpen(k)
      BY <1>1, <2>2, <3>1, IssuesUntouched DEF NoneOpen, found
    <3>2. ASSUME NEW k \in Keys, k # Key(p) \/ action # "create"  PROVE OpensNone(k)
      <4>1. p \notin AboutToCreate(k)'
        BY <2>3, <2>6, <2>7, <2>9, <3>2 DEF AboutToCreate
      <4>2. AboutToCreate(k)' \subseteq AboutToCreate(k)
        BY <2>7, <4>1 DEF AboutToCreate, Working, Key
      <4> QED  BY <1>1, <4>2, IssuesUntouched DEF OpensNone
    <3> QED  BY <3>1, <3>2 DEF OpensAtMostOne
  <2>13. GoesOn
    BY <1>1, <2>6, <2>7 DEF GoesOn, Working
  <2> QED  BY <2>8, <2>10, <2>11, <2>12, <2>13 DEF SyncInv
<1> QED  BY <1>3, <1>4

\* A call does its part of the plan: after the explanation comes the close.
LEMMA CallKeeps ==
    ASSUME SyncInv, NEW p \in Syncs, Call(p)
    PROVE  SyncInv' /\ OpensAtMostOne /\ GoesOn
<1>1. /\ Shape /\ Sound(p) /\ Working(p) /\ Effect(p) /\ jobs[p].calls # <<>>
      /\ outages' \in 0..MaxOutages
  BY DEF SyncInv, Call, Shape, SyncTypeOK
<1>2. CASE Len(jobs[p].calls) = 1
  BY <1>1, <1>2, RoutedKeeps, RoutedGoesOn DEF Call
<1>3. CASE Len(jobs[p].calls) # 1
  <2> DEFINE job == Job(jobs[p].answers, jobs[p].queue, <<"close">>, jobs[p].issue)
  <2>1. /\ jobs[p].calls = <<"explain", "close">> /\ Head(jobs[p].calls) = "explain"
        /\ Tail(jobs[p].calls) = <<"close">>
    BY <1>1, <1>3, PlannedFacts, WorkingFacts
  <2>2. jobs' = [jobs EXCEPT ![p] = job]
    BY <1>1, <1>3, <2>1 DEF Call, Shape, SyncTypeOK
  <2>3. <<"close">> \in Planned \ {<<"create">>} /\ <<"close">> \in Closing
    BY DEF Planned, Closing
  <2>4. job \in Jobs
    BY <1>1, <2>3, JobTyped, WorkingFacts
  <2>5. /\ job.answers = jobs[p].answers /\ job.queue = jobs[p].queue
        /\ job.calls = <<"close">> /\ job.issue = jobs[p].issue
    BY JobFields
  <2> HIDE DEF job
  <2>6. Moves(p) /\ jobs'[p] = job
    BY <1>1, <2>2, <2>3, <2>4, <2>5, JobMoves
  <2>7. /\ tracks' \in [Numbers -> Keys \cup {"none"}] /\ explained' \subseteq Numbers /\ Respects
        /\ jobs[p].issue \in explained'
        /\ \A k \in Keys :
              \/ OpenIssues(k)' \subseteq OpenIssues(k)
              \/ /\ p \in AboutToCreate(k)
                 /\ \E n \in Numbers : OpenIssues(k)' \subseteq OpenIssues(k) \cup {n}
    BY <1>1, <2>1, EffectFacts
  <2>8. Working(p)' /\ Key(p)' = Key(p) /\ Answer(p)' = Answer(p)
    BY <1>1, <2>5, <2>6 DEF Working, Key, Answer
  <2>9. jobs[p].calls \in Closing
    BY <2>1 DEF Closing
  <2>10. Sound(p)'
    <3>1. /\ jobs[p].issue # 0 /\ Answer(p) = "clear"
          /\ tracks[jobs[p].issue] \in {Key(p), "none"}
      BY <1>1, <2>9 DEF Sound
    <3>2. tracks'[jobs[p].issue] \in {Key(p), "none"}
      BY <2>7, <3>1 DEF Respects
    <3> QED  BY <2>5, <2>6, <2>7, <2>8, <3>1, <3>2 DEF Sound
  <2>11. SyncInv'
    BY <1>1, <2>6, <2>7, <2>10, MovesKeep
  <2>12. \A k \in Keys : OpensNone(k) \/ OpensOne(k, p)
    BY <2>6, <2>7 DEF OpensNone, OpensOne, Moves
  <2>13. GoesOn
    BY <1>1, <2>5, <2>6 DEF GoesOn, Moves, Working
  <2> QED  BY <2>11, <2>12, <2>13 DEF OpensAtMostOne
<1> QED  BY <1>2, <1>3

\* Every step of the machinery, the maintainer's included.
LEMMA SyncNextKeeps ==
    ASSUME SyncInv, SyncNext \/ UNCHANGED syncVars
    PROVE  SyncInv' /\ OpensAtMostOne /\ GoesOn
<1>1. Shape
  BY DEF SyncInv
<1>2. ASSUME NEW p \in Syncs, LeaveUntouched(p)
      PROVE  SyncInv' /\ OpensAtMostOne /\ GoesOn
  <2>1. /\ Working(p) /\ jobs' = Routed(p) /\ UNCHANGED <<tracks, explained>>
        /\ outages' \in 0..MaxOutages
    BY <1>1, <1>2 DEF LeaveUntouched, Shape, SyncTypeOK
  <2> QED  BY <1>1, <2>1, RoutedKeeps, RoutedGoesOn
<1>3. ASSUME NEW p \in Syncs, CallFails(p)
      PROVE  SyncInv' /\ OpensAtMostOne /\ GoesOn
  <2>1. Working(p) /\ jobs' = Routed(p)
    BY <1>3 DEF CallFails, GivesUp
  <2>2. outages' \in 0..MaxOutages
    BY <1>1, <1>3, SyncAssumption DEF SyncAssumption, CallFails, Shape, SyncTypeOK
  <2>3. UNCHANGED <<tracks, explained>> \/ (jobs[p].calls # <<>> /\ Effect(p))
    BY <1>3 DEF CallFails
  <2> QED  BY <1>1, <2>1, <2>2, <2>3, RoutedKeeps, RoutedGoesOn
<1>4. ASSUME NEW p \in Syncs, Die(p) \/ CutOff(p)
      PROVE  SyncInv' /\ OpensAtMostOne /\ GoesOn
  <2>1. jobs' = [jobs EXCEPT ![p] = Idle] /\ UNCHANGED <<tracks, explained>>
    BY <1>4 DEF Die, CutOff
  <2>2. outages' \in 0..MaxOutages
    BY <1>1, <1>4, SyncAssumption DEF SyncAssumption, Die, CutOff, Shape, SyncTypeOK
  <2>3. <<>> \in Planned \ {<<"create">>} /\ <<>> \notin Closing /\ <<>> # <<"close">>
    BY DEF Planned, Closing
  <2>4. Moves(p) /\ jobs'[p] = Idle
    BY <1>1, <2>1, <2>3, JobTyped, JobFields, JobMoves
  <2>5. Sound(p)'
    BY <2>3, <2>4, JobFields DEF Sound, Working
  <2>6. SyncInv'
    BY <1>1, <2>1, <2>2, <2>4, <2>5, IssuesUntouched, MovesKeep
  <2>7. OpensAtMostOne
    BY <1>1, <2>1, <2>4, IssuesUntouched DEF OpensAtMostOne, OpensNone, Moves
  <2>8. GoesOn
    BY <2>4, JobFields DEF GoesOn, Moves, Working
  <2> QED  BY <2>6, <2>7, <2>8
<1>5. ASSUME NEW i \in Numbers, MaintainerCloses(i)
      PROVE  SyncInv' /\ OpensAtMostOne /\ GoesOn
  <2>1. /\ tracks' = [tracks EXCEPT ![i] = "none"] /\ explained' = explained
        /\ jobs' = jobs /\ outages' = outages
    BY <1>5 DEF MaintainerCloses
  <2>2. tracks \in [Numbers -> Keys \cup {"none"}] /\ "none" \notin Keys
    BY <1>1, SyncAssumption DEF SyncAssumption, Shape, SyncTypeOK
  <2>3. tracks' = [m \in Numbers |-> IF m = i THEN "none" ELSE tracks[m]]
    BY <2>1, <2>2
  <2>4. Shape'
    BY <1>1, <2>1, <2>2, <2>3 DEF Shape, SyncTypeOK
  <2>5. Respects
    <3>1. \A q \in Syncs : jobs[q].issue \in Numbers \cup {0}
      BY <1>1 DEF Shape, SyncTypeOK, Jobs
    <3> QED  BY <2>1, <2>3, <3>1 DEF Respects
  <2>6. \A q \in Syncs : Sound(q)'
    BY <1>1, <2>1, <2>5, SoundStays DEF SyncInv
  <2>7. OpensAtMostOne
    <3>1. \A k \in Keys : OpenIssues(k)' \subseteq OpenIssues(k)
      BY <2>2, <2>3 DEF OpenIssues
    <3>2. \A k \in Keys : AboutToCreate(k)' = AboutToCreate(k)
      BY <2>1 DEF AboutToCreate, Working, Key
    <3> QED  BY <3>1, <3>2 DEF OpensAtMostOne, OpensNone
  <2>8. GoesOn
    BY <2>1 DEF GoesOn, Working
  <2> QED  BY <2>4, <2>6, <2>7, <2>8 DEF SyncInv
<1>6. CASE UNCHANGED syncVars
  <2>1. UNCHANGED <<tracks, explained>> /\ jobs' = jobs /\ outages' = outages
    BY <1>6 DEF syncVars
  <2>2. Shape'
    BY <1>1, <2>1 DEF Shape, SyncTypeOK
  <2>3. \A q \in Syncs : Sound(q)'
    BY <1>1, <2>1, IssuesUntouched, SoundStays DEF SyncInv
  <2>4. OpensAtMostOne
    BY <1>1, <2>1, IssuesUntouched DEF OpensAtMostOne, OpensNone, AboutToCreate, Working, Key
  <2> QED  BY <2>1, <2>2, <2>3, <2>4 DEF SyncInv, GoesOn, Working
<1> QED  BY <1>2, <1>3, <1>4, <1>5, <1>6, LookKeeps, CallKeeps DEF SyncNext, SyncStep

\* A run of a script only ever closes the issue it remembers, for a clear answer of
\* its current key, and after that issue has its explanation.
LEMMA ClosingFacts ==
    ASSUME SyncInv, NEW p \in Syncs, NEW i \in Numbers, Call(p),
           tracks[i] # "none", tracks'[i] = "none"
    PROVE  Working(p) /\ i \in explained /\ Answer(p) = "clear" /\ tracks[i] = Key(p)
<1>1. Shape /\ Sound(p) /\ Working(p) /\ Effect(p) /\ jobs[p].calls # <<>>
  BY DEF SyncInv, Call
<1>2. i = jobs[p].issue /\ jobs[p].calls = <<"close">>
  BY <1>1, EffectFacts
<1>3. <<"close">> \in Closing
  BY DEF Closing
<1> QED  BY <1>1, <1>2, <1>3 DEF Sound
--------------------------------------------------------------------------------
(* The nightly routing.                                                        *)

\* Every label of _CLASSES is a key, and there are some.
LEMMA LabelFacts ==
    /\ Labels \in Seq(Keys) /\ Labels # <<>>
    /\ Labelled = {"schema-drift", "redteam", "audit-finding", "dns-rebinding"}
<1>1. /\ Labels[1] = "schema-drift" /\ Labels[2] = "redteam"
      /\ Labels[3] = "audit-finding" /\ Labels[4] = "dns-rebinding"
      /\ DOMAIN Labels = 1..4 /\ Len(Labels) = 4
  BY DEF Labels
<1>2. 1..4 = {1, 2, 3, 4}
  OBVIOUS
<1>3. Labelled = {"schema-drift", "redteam", "audit-finding", "dns-rebinding"}
  BY <1>1, <1>2 DEF Labelled
<1>4. {"schema-drift", "redteam", "audit-finding", "dns-rebinding"} \subseteq Keys
  BY <1>3, LabelsAssumption DEF LabelsAssumption
<1>5. Labels \in Seq(Keys)
  BY <1>4 DEF Labels
<1> QED  BY <1>1, <1>3, <1>5

\* A night answers each label in one of the three ways.
LEMMA LabelStatesTyped ==
    ASSUME NEW n \in Nights
    PROVE  LabelStates[n] \in [Keys -> Answers]
  BY DEF LabelStates, LabelState, Answers

\* Which flags a red gate raises.
LEMMA RedIsFlagged ==
    ASSUME NEW gates, NEW pfc
    PROVE  /\ Red(gates, "schema_drift") => "schema_drift" \in Findings(gates, pfc)
           /\ (\E g \in Toolchain : Red(gates, g)) => "toolchain_fail" \in Findings(gates, pfc)
           /\ Red(gates, "transport_boot") => "transport_boot_fail" \in Findings(gates, pfc)
           /\ Red(gates, "host_allowlist") => "host_allowlist_fail" \in Findings(gates, pfc)
           /\ Red(gates, "shipped_artifact") => "shipped_artifact_fail" \in Findings(gates, pfc)
           /\ Red(gates, "lockfile") => "lockfile_fail" \in Findings(gates, pfc)
<1> DEFINE holds == [
          schema_drift          |-> Red(gates, "schema_drift") \/ "contract" \in pfc.classes,
          redteam               |-> "redteam" \in pfc.classes,
          other_findings        |-> "other" \in pfc.classes,
          toolchain_fail        |-> \E g \in Toolchain : Red(gates, g),
          transport_boot_fail   |-> Red(gates, "transport_boot"),
          host_allowlist_fail   |-> Red(gates, "host_allowlist"),
          shipped_artifact_fail |-> Red(gates, "shipped_artifact"),
          lockfile_fail         |-> Red(gates, "lockfile")]
<1>1. Findings(gates, pfc) = {flag \in DOMAIN holds : holds[flag]}
  BY DEF Findings
<1>2. /\ DOMAIN holds = {"schema_drift", "redteam", "other_findings", "toolchain_fail",
                         "transport_boot_fail", "host_allowlist_fail",
                         "shipped_artifact_fail", "lockfile_fail"}
      /\ holds["schema_drift"] = (Red(gates, "schema_drift") \/ "contract" \in pfc.classes)
      /\ holds["toolchain_fail"] = (\E g \in Toolchain : Red(gates, g))
      /\ holds["transport_boot_fail"] = Red(gates, "transport_boot")
      /\ holds["host_allowlist_fail"] = Red(gates, "host_allowlist")
      /\ holds["shipped_artifact_fail"] = Red(gates, "shipped_artifact")
      /\ holds["lockfile_fail"] = Red(gates, "lockfile")
  OBVIOUS
<1> HIDE DEF holds
<1> QED  BY <1>1, <1>2

\* Which flags report that a gate was not measured.
LEMMA UnmeasuredIsFlagged ==
    ASSUME NEW gates
    PROVE  /\ gates["transport_boot"] = 3 => "transport_boot_unmeasured" \in Unmeasured(gates)
           /\ gates["host_allowlist"] = 3 => "host_allowlist_unconfigured" \in Unmeasured(gates)
           /\ gates["lockfile"] = 3 => "lockfile_unmeasured" \in Unmeasured(gates)
<1> DEFINE holds == [
          transport_boot_unmeasured   |-> gates.transport_boot = 3,
          host_allowlist_unconfigured |-> gates.host_allowlist = 3,
          lockfile_unmeasured         |-> gates.lockfile = 3]
<1>1. Unmeasured(gates) = {flag \in DOMAIN holds : holds[flag]}
  BY DEF Unmeasured
<1>2. /\ DOMAIN holds = {"transport_boot_unmeasured", "host_allowlist_unconfigured",
                         "lockfile_unmeasured"}
      /\ holds["transport_boot_unmeasured"] = (gates["transport_boot"] = 3)
      /\ holds["host_allowlist_unconfigured"] = (gates["host_allowlist"] = 3)
      /\ holds["lockfile_unmeasured"] = (gates["lockfile"] = 3)
  OBVIOUS
<1> HIDE DEF holds
<1> QED  BY <1>1, <1>2

\* A label is clear only on a night in which the gates behind it exited 0 and the
\* eval left its results.
LEMMA ClearOnEvidence ==
    ASSUME NEW n \in Nights, NEW label \in Labelled, LabelStates[n][label] = "clear"
    PROVE  /\ \A g \in GatesOf(label) : Audits[n].gates[g] = 0
           /\ Audits[n].pf.written
           /\ label = "redteam" => Audits[n].graded
<1> DEFINE a == Audits[n]
           gates == a.gates
           s == BuildSummary(gates, a.tests, a.pf, TRUE, a.graded)
           pfc == ClassifyPromptfoo(a.pf, gates.promptfoo_rc)
<1>1. /\ s.outcome \in {"green", "findings"}
      /\ Classes(label) \cap s.findings = {}
      /\ LabelMeasured(label, s)
  <2>1. LabelStates[n][label] = LabelState(label, s)
    BY LabelsAssumption DEF LabelsAssumption, LabelStates
  <2> HIDE DEF s
  <2> QED  BY <2>1 DEF LabelState
<1>2. s.findings = Findings(gates, pfc) /\ s.unmeasured = Unmeasured(gates) /\ s.graded = a.graded
  BY DEF BuildSummary
<1>3. ~HardFail(gates, a.tests, pfc, TRUE)
  <2>1. s.outcome = IF HardFail(gates, a.tests, pfc, TRUE) THEN "hard-fail"
                    ELSE IF Findings(gates, pfc) = {} THEN "green" ELSE "findings"
    BY DEF BuildSummary
  <2> HIDE DEF s
  <2> QED  BY <1>1, <2>1
<1>4. a.pf.written
  <2>1. pfc.ran
    BY <1>3 DEF HardFail
  <2> QED  BY <2>1 DEF ClassifyPromptfoo
<1> HIDE DEF s, pfc
<1>5. /\ \A g \in GateNames \ {"promptfoo_rc"} : ~CouldNotRun(gates[g]) /\ ~Hung(gates[g])
      /\ gates["lockfile"] # 4
  BY <1>3 DEF HardFail
<1>6. Toolchain \cup {"schema_drift", "transport_boot", "host_allowlist", "shipped_artifact",
                      "lockfile"} = GateNames \ {"promptfoo_rc"}
  BY DEF GateNames, Toolchain
<1>7. ASSUME NEW g \in GateNames \ {"promptfoo_rc"}, ~Red(gates, g),
             gates[g] = 3 => g \notin {"transport_boot", "host_allowlist", "lockfile"}
      PROVE  gates[g] = 0
  <2>1. gates[g] = 0 \/ gates[g] \in Excused[g]
    BY <1>5, <1>7 DEF Red
  <2>2. gates[g] \notin {126, 127} /\ (g = "lockfile" => gates[g] # 4)
    BY <1>5 DEF CouldNotRun
  <2>3. Excused[g] \subseteq {3, 4, 126, 127}
        /\ (g # "lockfile" => 4 \notin Excused[g])
        /\ (g \notin {"transport_boot", "host_allowlist", "lockfile"} => 3 \notin Excused[g])
    BY <1>6 DEF Excused, Toolchain
  <2> QED  BY <1>7, <2>1, <2>2, <2>3
<1>8. CASE label = "schema-drift"
  <2>1. GatesOf(label) = {"schema_drift"} /\ "schema_drift" \in Classes(label)
    BY <1>8 DEF GatesOf, Classes
  <2>2. ~Red(gates, "schema_drift")
    BY <1>1, <1>2, <2>1, RedIsFlagged
  <2> QED  BY <1>4, <1>6, <1>7, <1>8, <2>1, <2>2
<1>9. CASE label = "redteam"
  <2>1. GatesOf(label) = {} /\ s.graded
    BY <1>1, <1>9 DEF GatesOf, LabelMeasured
  <2> QED  BY <1>2, <1>4, <2>1
<1>10. CASE label = "audit-finding"
  <2>1. /\ GatesOf(label) = Toolchain \cup {"transport_boot", "shipped_artifact", "lockfile"}
        /\ {"toolchain_fail", "transport_boot_fail", "shipped_artifact_fail",
            "lockfile_fail"} \subseteq Classes(label)
        /\ s.unmeasured \cap {"transport_boot_unmeasured", "lockfile_unmeasured"} = {}
    BY <1>1, <1>10 DEF GatesOf, Classes, LabelMeasured
  <2>2. ASSUME NEW g \in GatesOf(label)  PROVE ~Red(gates, g)
    BY <1>1, <1>2, <2>1, <2>2, RedIsFlagged
  <2>3. gates["transport_boot"] # 3 /\ gates["lockfile"] # 3
    BY <1>2, <2>1, UnmeasuredIsFlagged
  <2>4. \A g \in GatesOf(label) : g \in GateNames \ {"promptfoo_rc"} /\ g # "host_allowlist"
    BY <1>6, <2>1 DEF Toolchain
  <2> QED  BY <1>4, <1>7, <1>10, <2>2, <2>3, <2>4
<1>11. CASE label = "dns-rebinding"
  <2>1. /\ GatesOf(label) = {"host_allowlist"} /\ "host_allowlist_fail" \in Classes(label)
        /\ "host_allowlist_unconfigured" \notin s.unmeasured
    BY <1>1, <1>11 DEF GatesOf, Classes, LabelMeasured
  <2>2. ~Red(gates, "host_allowlist") /\ gates["host_allowlist"] # 3
    BY <1>1, <1>2, <2>1, RedIsFlagged, UnmeasuredIsFlagged
  <2> QED  BY <1>4, <1>6, <1>7, <1>11, <2>1, <2>2
<1> QED  BY <1>8, <1>9, <1>10, <1>11, LabelFacts

\* A run at work acts on the answers of the summary it has read.
Informed == \A p \in Syncs : Working(p) =>
                read[p] \in Nights /\ jobs[p].answers = LabelStates[read[p]]

\* Inductive: the machinery is sound, the issues are counted, the runs informed.
RoutingInv == SyncInv /\ (\A k \in Keys : Counted(k, Syncs)) /\ TypeOK /\ Informed

\* Nothing is open and no run is at work when the script is first installed.
LEMMA RoutingInit == Init => RoutingInv
<1> SUFFICES ASSUME Init  PROVE RoutingInv
  OBVIOUS
<1>1. SyncInit /\ night \in Nights /\ read = [p \in Syncs |-> "nothing"]
  BY DEF Init
<1>2. /\ SyncInv /\ \A p \in Syncs : ~Working(p)
      /\ \A k \in Keys : OpenIssues(k) = {} /\ AboutToCreate(k) = {}
  BY <1>1, SyncBegins
<1>3. ASSUME NEW k \in Keys  PROVE Counted(k, Syncs)
  <2>1. Cardinality(Syncs) \in Nat
    BY SyncAssumption, FS_CardinalityType DEF SyncAssumption
  <2> QED  BY <1>2, <2>1, FS_EmptySet DEF Counted
<1>4. TypeOK
  BY <1>1, <1>2 DEF TypeOK, SyncInv, Shape
<1> QED  BY <1>2, <1>3, <1>4 DEF RoutingInv, Informed

\* Every step keeps it: a run is informed when it starts, and its answers are not
\* touched by a night that comes after.
LEMMA RoutingNext == RoutingInv /\ [Next]_vars => RoutingInv'
<1> SUFFICES ASSUME RoutingInv, [Next]_vars  PROVE RoutingInv'
  OBVIOUS
<1>1. /\ SyncInv /\ Informed /\ night \in Nights /\ \A k \in Keys : Counted(k, Syncs)
      /\ read \in [Syncs -> Nights \cup {"nothing"}]
  BY DEF RoutingInv, TypeOK
<1>2. ASSUME OpensAtMostOne  PROVE \A k \in Keys : Counted(k, Syncs)'
  <2>1. \A k \in Keys : AboutToCreate(k)' \subseteq Syncs
    BY DEF AboutToCreate
  <2> QED  BY <1>1, <1>2, <2>1, CountKept DEF OpensAtMostOne
<1>3. SyncInv' => SyncTypeOK'
  BY DEF SyncInv, Shape
<1>4. ASSUME NEW p \in Syncs, Route(p)  PROVE RoutingInv'
  <2>1. /\ Begin(p, Labels, LabelStates[night]) /\ night' = night
        /\ read' = [read EXCEPT ![p] = night]
    BY <1>4 DEF Route
  <2>2. /\ SyncInv' /\ OpensAtMostOne
        /\ Working(p)' /\ jobs'[p].answers = LabelStates[night]
        /\ \A q \in Syncs : q # p => jobs'[q] = jobs[q]
    <3>1. LabelStates[night] \in [Keys -> Answers]
      BY <1>1, LabelStatesTyped
    <3> QED  BY <1>1, <2>1, <3>1, LabelFacts, BeginKeeps
  <2>3. read' = [q \in Syncs |-> IF q = p THEN night ELSE read[q]]
    BY <1>1, <2>1
  <2>4. Informed'
    <3>1. ASSUME NEW q \in Syncs, Working(q)'
          PROVE  read'[q] \in Nights /\ jobs'[q].answers = LabelStates[read'[q]]
      BY <1>1, <2>2, <2>3, <3>1 DEF Informed, Working
    <3> QED  BY <3>1 DEF Informed
  <2>5. TypeOK'
    BY <1>1, <1>3, <2>1, <2>2, <2>3 DEF TypeOK
  <2> QED  BY <1>2, <2>2, <2>4, <2>5 DEF RoutingInv
<1>5. CASE SyncNext /\ Forget
  <2>1. SyncInv' /\ OpensAtMostOne /\ GoesOn
    BY <1>1, <1>5, SyncNextKeeps
  <2>2. /\ read' = [p \in Syncs |-> IF jobs'[p] = Idle THEN "nothing" ELSE read[p]]
        /\ night' = night
    BY <1>5 DEF Forget
  <2>3. Informed'
    <3>1. ASSUME NEW q \in Syncs, Working(q)'
          PROVE  read'[q] \in Nights /\ jobs'[q].answers = LabelStates[read'[q]]
      <4>1. jobs'[q] # Idle
        BY <3>1, JobFields DEF Working
      <4>2. Working(q) /\ jobs'[q].answers = jobs[q].answers
        BY <2>1, <3>1 DEF GoesOn
      <4> QED  BY <1>1, <2>2, <4>1, <4>2 DEF Informed
    <3> QED  BY <3>1 DEF Informed
  <2>4. TypeOK'
    BY <1>1, <1>3, <2>1, <2>2 DEF TypeOK
  <2> QED  BY <1>2, <2>1, <2>3, <2>4 DEF RoutingInv
<1>6. ASSUME UNCHANGED <<syncVars, read>>, night' \in Nights  PROVE RoutingInv'
  <2>1. SyncInv' /\ OpensAtMostOne
    BY <1>1, <1>6, SyncNextKeeps
  <2>2. Informed'
    BY <1>1, <1>6 DEF Informed, syncVars, Working
  <2>3. TypeOK'
    BY <1>1, <1>3, <1>6, <2>1 DEF TypeOK
  <2> QED  BY <1>2, <2>1, <2>2, <2>3 DEF RoutingInv
<1>7. ASSUME NEW n \in Nights, NextNight(n)  PROVE RoutingInv'
  BY <1>6, <1>7 DEF NextNight
<1>8. CASE UNCHANGED vars
  BY <1>1, <1>6, <1>8 DEF vars
<1> QED  BY <1>4, <1>5, <1>7, <1>8 DEF Next

\* What is known of every state.
LEMMA RoutingInvariant == Spec => []RoutingInv
  BY RoutingInit, RoutingNext, PTL DEF Spec

\* The issues, the runs and the nights keep their shape.
THEOREM RoutingTyped == Spec => []TypeOK
<1>1. RoutingInv => TypeOK
  BY DEF RoutingInv
<1> QED  BY RoutingInvariant, <1>1, PTL

\* The count implies the bound: the runs about to open an issue are no fewer
\* than none.
LEMMA CountBounds == RoutingInv => DuplicatesBounded
<1> SUFFICES ASSUME RoutingInv, NEW k \in Keys
             PROVE  Cardinality(OpenIssues(k)) <= Cardinality(Syncs)
  BY DEF DuplicatesBounded
<1>1. Counted(k, Syncs)
  BY DEF RoutingInv
<1>2. IsFiniteSet(OpenIssues(k)) /\ IsFiniteSet(AboutToCreate(k)) /\ IsFiniteSet(Syncs)
  <2>1. OpenIssues(k) \subseteq Numbers /\ AboutToCreate(k) \subseteq Syncs
    BY DEF OpenIssues, AboutToCreate
  <2> QED  BY <2>1, SyncAssumption, FS_Subset DEF SyncAssumption
<1>3. /\ Cardinality(OpenIssues(k)) \in Nat
      /\ Cardinality(AboutToCreate(k)) \in Nat
      /\ Cardinality(Syncs) \in Nat
  BY <1>2, FS_CardinalityType
<1> QED  BY <1>1, <1>3 DEF Counted

\* The nightly routing never has more issues open for a label than runs of the
\* script that may overlap, whatever calls fail, runs die and maintainers close;
\* in particular a script that is never started twice keeps one issue per label.
THEOREM IssuesStayDeduplicated == Spec => []DuplicatesBounded
  BY RoutingInvariant, CountBounds, PTL

\* No run of the script closes an issue that has no reason in it, whichever of
\* its calls failed and whoever else was at work on that issue.
THEOREM AlwaysClosedWithAReason == Spec => ClosedWithAReason
<1>1. RoutingInv =>
        [\A p \in Syncs : \A i \in Numbers :
            Call(p) /\ tracks[i] # "none" /\ tracks'[i] = "none" => i \in explained]_syncVars
  BY ClosingFacts DEF RoutingInv
<1> QED  BY RoutingInvariant, <1>1, PTL DEF ClosedWithAReason

\* No issue is closed on the word of a night that did not measure: each gate
\* behind the label exited 0 in the night that the closing run has read.
THEOREM AlwaysClosedOnEvidence == Spec => ClosedOnEvidence
<1>1. ASSUME RoutingInv, NEW p \in Syncs, NEW label \in Labelled, ClosesFor(p, label)
      PROVE  /\ \A g \in GatesOf(label) : Audits[read[p]].gates[g] = 0
             /\ Audits[read[p]].pf.written
             /\ label = "redteam" => Audits[read[p]].graded
  <2>1. PICK i \in Numbers : Call(p) /\ tracks[i] = label /\ tracks'[i] = "none"
    BY <1>1 DEF ClosesFor
  <2>2. SyncInv /\ Informed /\ label # "none"
    BY <1>1, SyncAssumption, LabelsAssumption DEF SyncAssumption, LabelsAssumption, RoutingInv
  <2>3. Working(p) /\ Answer(p) = "clear" /\ Key(p) = label
    BY <2>1, <2>2, ClosingFacts
  <2>4. read[p] \in Nights /\ LabelStates[read[p]][label] = "clear"
    BY <2>2, <2>3 DEF Informed, Answer
  <2> QED  BY <2>4, ClearOnEvidence
<1>2. RoutingInv =>
        [\A p \in Syncs : \A label \in Labelled : ClosesFor(p, label) =>
            /\ \A g \in GatesOf(label) : Audits[read[p]].gates[g] = 0
            /\ Audits[read[p]].pf.written
            /\ label = "redteam" => Audits[read[p]].graded]_vars
  BY <1>1
<1> QED  BY RoutingInvariant, <1>2, PTL DEF ClosedOnEvidence
--------------------------------------------------------------------------------
(* The weekly routing.                                                         *)

\* The outcomes of a week, as the workflows know them.
WeeksTyped ==
    /\ DOMAIN weeks = Guards
    /\ weeks[LiveProbe] \in [live : ProbeRuns, canary : ProbeRuns]
    /\ weeks[Regen] \in [key : BOOLEAN, generate : {"success", "failure", "cancelled"},
                         wrote : BOOLEAN,
                         pull_request : {"success", "failure", "cancelled", "skipped"}]

\* What a guard's issue may be closed on.
Agreed(guard) ==
    /\ guard = LiveProbe => weeks[LiveProbe] = [live |-> "agreed", canary |-> "agreed"]
    /\ guard = Regen => /\ weeks[Regen].key
                        /\ weeks[Regen].generate = "success"
                        /\ weeks[Regen].pull_request = "success"

\* A guard has one name for its issue and for its runs, and the two guards differ.
LEMMA GuardFacts ==
    /\ LiveProbe # Regen /\ Guards = {LiveProbe, Regen}
    /\ \A guard \in Guards : guard \in Keys /\ guard \in Syncs
  BY GuardsAssumption DEF GuardsAssumption, Guards, LiveProbe, Regen

\* A probe that ran and raised no alert made all of its comparisons, and they agreed.
LEMMA QuietProbe ==
    ASSUME NEW run \in ProbeRuns, ProbeRan(SelfReport(run)), SelfReport(run).alert # "true"
    PROVE  run = "agreed"
  BY DEF ProbeRuns, ProbeRan, SelfReport, AlertVerdict

\* The regeneration is clear only when both of its steps ran to success.
LEMMA QuietRegen ==
    ASSUME WeeksTyped, ClassifyRegen(weeks[Regen]) = "clear"
    PROVE  Agreed(Regen)
  BY GuardFacts DEF ClassifyRegen, Agreed

\* A clear answer is deserved, whatever is committed meanwhile.
LEMMA ClearWeeks ==
    ASSUME WeeksTyped, NEW guard \in Guards, Answered(guard) = "clear"
    PROVE  Agreed(guard)
<1>1. CASE guard = LiveProbe
  <2> DEFINE live   == SelfReport(weeks[LiveProbe].live)
             canary == SelfReport(weeks[LiveProbe].canary)
  <2>1. ClassifyProbes({live, canary}) = "clear"
    BY <1>1 DEF Answered
  <2>2. /\ ProbeRan(live) /\ live.alert # "true"
        /\ ProbeRan(canary) /\ canary.alert # "true"
    <3> HIDE DEF live, canary
    <3> QED  BY <2>1 DEF ClassifyProbes
  <2>3. weeks[LiveProbe].live \in ProbeRuns /\ weeks[LiveProbe].canary \in ProbeRuns
    BY DEF WeeksTyped
  <2>4. weeks[LiveProbe].live = "agreed" /\ weeks[LiveProbe].canary = "agreed"
    BY <2>2, <2>3, QuietProbe
  <2>5. weeks[LiveProbe] = [live |-> "agreed", canary |-> "agreed"]
    BY <2>4 DEF WeeksTyped
  <2> QED  BY <1>1, <2>5, GuardFacts DEF Agreed
<1>2. CASE guard = Regen
  <2> DEFINE report == RegenReport(weeks[Regen])
  <2>1. ClassifyProbes({report}) = "clear"
    BY <1>2, GuardFacts DEF Answered
  <2>2. report.alert = "false"
    <3> HIDE DEF report
    <3> QED  BY <2>1 DEF ClassifyProbes, ProbeRan
  <2>3. ClassifyRegen(weeks[Regen]) = "clear"
    BY <2>2 DEF RegenReport
  <2> QED  BY <1>2, <2>3, QuietRegen
<1> QED  BY <1>1, <1>2, GuardFacts

\* A guard's answer is one of the three.
LEMMA AnsweredTyped ==
    ASSUME NEW guard
    PROVE  Answered(guard) \in Answers
  BY DEF Answered, ClassifyProbes, Answers

\* A run at work is the one of its guard, on the guard's issue; and when it has come to
\* close it, the week is still the one that cleared it.
WeekOf(p) ==
    Working(p) => /\ p \in Guards /\ jobs[p].queue = <<p>>
                  /\ jobs[p].answers[p] = "clear" => Agreed(p)

\* Inductive: the machinery is sound, and each guard opens issues of its own only.
DriftInv ==
    /\ SyncInv /\ WeeksTyped
    /\ \A p \in Syncs : WeekOf(p)
    /\ \A guard \in Guards : Counted(guard, {guard})

\* Before the first week nothing is open and nothing at work.
LEMMA DriftBegins == DriftInit => DriftInv
<1> SUFFICES ASSUME DriftInit  PROVE DriftInv
  OBVIOUS
<1>1. SyncInit
  BY DEF DriftInit
<1>2. SyncInv /\ \A p \in Syncs : ~Working(p)
  BY <1>1, SyncBegins
<1>3. WeeksTyped
  BY GuardFacts DEF DriftInit, QuietWeeks, WeeksTyped, ProbeRuns
<1>4. \A k \in Keys : OpenIssues(k) = {} /\ AboutToCreate(k) = {}
  BY <1>1, SyncBegins
<1>5. ASSUME NEW guard \in Guards  PROVE Counted(guard, {guard})
  <2>1. Cardinality({guard}) = 1 /\ Cardinality({}) = 0
    BY FS_Singleton, FS_EmptySet
  <2> QED  BY <1>4, <2>1, GuardFacts DEF Counted
<1> QED  BY <1>2, <1>3, <1>5 DEF DriftInv, WeekOf

\* Every step keeps it: a week does not change while its run is at work.
LEMMA DriftGoesOn == DriftInv /\ [DriftNext]_driftVars => DriftInv'
<1> SUFFICES ASSUME DriftInv, [DriftNext]_driftVars  PROVE DriftInv'
  OBVIOUS
<1>1. SyncInv /\ WeeksTyped /\ \A p \in Syncs : WeekOf(p)
  BY DEF DriftInv
<1>2. ASSUME OpensAtMostOne, \A p \in Syncs : WeekOf(p)', NEW guard \in Guards
      PROVE  Counted(guard, {guard})'
  <2>1. AboutToCreate(guard)' \subseteq {guard}
    <3>1. ASSUME NEW p \in Syncs, Working(p)', Key(p)' = guard  PROVE p = guard
      <4>1. jobs'[p].queue = <<p>>
        BY <1>2, <3>1 DEF WeekOf, Working
      <4>2. Head(<<p>>) = p
        OBVIOUS
      <4> QED  BY <3>1, <4>1, <4>2 DEF Key
    <3> QED  BY <3>1 DEF AboutToCreate
  <2>2. guard \in Keys /\ {guard} \in SUBSET Syncs
    BY GuardFacts
  <2>3. OpensNone(guard) \/ NoneOpen(guard) \/ \E p \in Syncs : OpensOne(guard, p)
    BY <1>2, <2>2 DEF OpensAtMostOne
  <2> QED  BY <2>1, <2>2, <2>3, CountKept DEF DriftInv
<1>3. ASSUME UNCHANGED weeks  PROVE WeeksTyped' /\ \A guard : Agreed(guard)' <=> Agreed(guard)
  BY <1>1, <1>3 DEF WeeksTyped, Agreed
<1>4. ASSUME NEW guard \in Guards, NEW week, Weekly(guard, week),
             guard = LiveProbe => week \in LiveWeeks, guard = Regen => week \in RegenWeeks
      PROVE  DriftInv'
  <2>1. ~Working(guard) /\ weeks' = [weeks EXCEPT ![guard] = week] /\ UNCHANGED syncVars
    BY <1>4 DEF Weekly
  <2>2. SyncInv' /\ OpensAtMostOne /\ UNCHANGED jobs
    BY <1>1, <2>1, SyncNextKeeps DEF syncVars
  <2>3. DOMAIN weeks' = Guards /\ weeks'[guard] = week
        /\ \A other \in Guards : other # guard => weeks'[other] = weeks[other]
    BY <1>1, <2>1 DEF WeeksTyped
  <2>4. WeeksTyped'
    <3>1. CASE guard = LiveProbe
      <4>1. week \in [live : ProbeRuns, canary : ProbeRuns]
        BY <1>4, <3>1, ProbesAssumption DEF ProbesAssumption, LiveWeeks
      <4> QED  BY <1>1, <2>3, <3>1, <4>1, GuardFacts DEF WeeksTyped
    <3>2. CASE guard = Regen
      <4>1. week \in [key : BOOLEAN, generate : {"success", "failure", "cancelled"},
                      wrote : BOOLEAN,
                      pull_request : {"success", "failure", "cancelled", "skipped"}]
        BY <1>4, <3>2 DEF RegenWeeks
      <4> QED  BY <1>1, <2>3, <3>2, <4>1, GuardFacts DEF WeeksTyped
    <3> QED  BY <3>1, <3>2, GuardFacts
  <2>5. ASSUME NEW p \in Syncs  PROVE WeekOf(p)'
    <3>1. ASSUME Working(p)
          PROVE  /\ p \in Guards /\ jobs[p].queue = <<p>>
                 /\ jobs[p].answers[p] = "clear" => Agreed(p)'
      <4>1. p \in Guards /\ jobs[p].queue = <<p>>
            /\ (jobs[p].answers[p] = "clear" => Agreed(p))
        BY <1>1, <3>1 DEF WeekOf
      <4>2. p # guard
        BY <2>1, <3>1
      <4>3. weeks'[p] = weeks[p]
        BY <2>3, <4>1, <4>2
      <4>4. Agreed(p) => Agreed(p)'
        BY <4>1, <4>3 DEF Agreed
      <4> QED  BY <4>1, <4>4
    <3> QED  BY <2>2, <3>1 DEF WeekOf, Working
  <2> QED  BY <1>2, <2>2, <2>4, <2>5 DEF DriftInv
<1>5. ASSUME NEW guard \in Guards, RouteWeek(guard)  PROVE DriftInv'
  <2> DEFINE answers == [k \in Keys |-> IF k = guard THEN Answered(guard) ELSE "unknown"]
  <2>1. Begin(guard, <<guard>>, answers) /\ UNCHANGED weeks
    BY <1>5 DEF RouteWeek
  <2>2. answers \in [Keys -> Answers] /\ answers[guard] = Answered(guard)
    BY AnsweredTyped, GuardFacts DEF Answers
  <2>3. <<guard>> \in Seq(Keys) /\ <<guard>> # <<>> /\ guard \in Syncs
    BY GuardFacts
  <2> HIDE DEF answers
  <2>4. /\ SyncInv' /\ OpensAtMostOne
        /\ Working(guard)' /\ jobs'[guard].answers = answers /\ jobs'[guard].queue = <<guard>>
        /\ \A q \in Syncs : q # guard => jobs'[q] = jobs[q]
    BY <1>1, <2>1, <2>2, <2>3, BeginKeeps
  <2>5. WeeksTyped' /\ \A other : Agreed(other)' <=> Agreed(other)
    BY <1>3, <2>1
  <2>6. ASSUME NEW p \in Syncs  PROVE WeekOf(p)'
    <3>1. CASE p = guard
      <4>1. Answered(guard) = "clear" => Agreed(guard)
        BY <1>1, ClearWeeks
      <4> QED  BY <2>2, <2>4, <2>5, <3>1, <4>1 DEF WeekOf
    <3>2. CASE p # guard
      BY <1>1, <2>4, <2>5, <3>2 DEF WeekOf, Working
    <3> QED  BY <3>1, <3>2
  <2> QED  BY <1>2, <2>4, <2>5, <2>6 DEF DriftInv
<1>6. ASSUME SyncNext \/ UNCHANGED syncVars, UNCHANGED weeks  PROVE DriftInv'
  <2>1. SyncInv' /\ OpensAtMostOne /\ GoesOn
    BY <1>1, <1>6, SyncNextKeeps
  <2>2. WeeksTyped' /\ \A guard : Agreed(guard)' <=> Agreed(guard)
    BY <1>3, <1>6
  <2>3. ASSUME NEW p \in Syncs  PROVE WeekOf(p)'
    <3>1. ASSUME Working(p)'
          PROVE  /\ p \in Guards /\ jobs'[p].queue = <<p>>
                 /\ jobs'[p].answers[p] = "clear" => Agreed(p)
      <4>1. /\ Working(p) /\ jobs'[p].answers = jobs[p].answers
            /\ jobs'[p].queue = jobs[p].queue \/ Len(jobs[p].queue) # 1
        BY <2>1, <3>1 DEF GoesOn
      <4>2. /\ p \in Guards /\ jobs[p].queue = <<p>>
            /\ jobs[p].answers[p] = "clear" => Agreed(p)
        BY <1>1, <4>1 DEF WeekOf
      <4>3. Len(<<p>>) = 1
        OBVIOUS
      <4> QED  BY <4>1, <4>2, <4>3
    <3> QED  BY <2>2, <3>1 DEF WeekOf, Working
  <2> QED  BY <1>2, <2>1, <2>2, <2>3 DEF DriftInv
<1>7. CASE \E week \in LiveWeeks : Weekly(LiveProbe, week)
  BY <1>4, <1>7, GuardFacts
<1>8. CASE \E week \in RegenWeeks : Weekly(Regen, week)
  BY <1>4, <1>8, GuardFacts
<1>9. CASE MaintainerMerges
  BY <1>6, <1>9 DEF MaintainerMerges
<1>10. CASE UNCHANGED driftVars
  BY <1>6, <1>10 DEF driftVars
<1>11. CASE SyncNext /\ UNCHANGED <<weeks, committed, proposed>>
  BY <1>6, <1>11
<1> QED  BY <1>5, <1>7, <1>8, <1>9, <1>10, <1>11 DEF DriftNext

\* What is known of every week.
LEMMA DriftInvariant == DriftSpec => []DriftInv
  BY DriftBegins, DriftGoesOn, PTL DEF DriftSpec

\* Each weekly guard keeps one tracking issue (drift_issue.py under a concurrency group):
\* no second one is opened, whatever calls fail after they took effect, runs die and
\* maintainers close.
THEOREM OneIssueAlways == DriftSpec => []OneIssuePerGuard
<1>1. DriftInv => OneIssuePerGuard
  <2> SUFFICES ASSUME DriftInv, NEW guard \in Guards
               PROVE  Cardinality(OpenIssues(guard)) <= 1
    BY DEF OneIssuePerGuard
  <2>1. Counted(guard, {guard})
    BY DEF DriftInv
  <2>2. IsFiniteSet(OpenIssues(guard)) /\ IsFiniteSet(AboutToCreate(guard))
    <3>1. OpenIssues(guard) \subseteq Numbers /\ AboutToCreate(guard) \subseteq Syncs
      BY DEF OpenIssues, AboutToCreate
    <3> QED  BY <3>1, SyncAssumption, FS_Subset DEF SyncAssumption
  <2>3. /\ Cardinality(OpenIssues(guard)) \in Nat
        /\ Cardinality(AboutToCreate(guard)) \in Nat
        /\ Cardinality({guard}) = 1
    BY <2>2, FS_CardinalityType, FS_Singleton
  <2> QED  BY <2>1, <2>3 DEF Counted
<1> QED  BY DriftInvariant, <1>1, PTL

\* A week that could not look closes nothing (classify of drift_issue.py and of
\* regen_guard.py, alert_verdict of the probes): the week is still the one that was
\* answered when its run comes to close the issue, and all of it went well.
THEOREM WeeksAlwaysCloseOnEvidence == DriftSpec => WeeksCloseOnEvidence
<1>1. ASSUME DriftInv, NEW guard \in Guards, Closes(guard)
      PROVE  Agreed(guard)
  <2>1. PICK i \in Numbers : Call(guard) /\ tracks[i] = guard /\ tracks'[i] = "none"
    BY <1>1 DEF Closes
  <2>2. SyncInv /\ guard \in Syncs /\ guard # "none"
    BY <1>1, GuardFacts, SyncAssumption DEF SyncAssumption, DriftInv
  <2>3. Working(guard) /\ Answer(guard) = "clear" /\ Key(guard) = guard
    BY <2>1, <2>2, ClosingFacts
  <2> QED  BY <1>1, <2>2, <2>3 DEF DriftInv, WeekOf, Answer
<1>2. DriftInv =>
        [/\ Closes(LiveProbe) => weeks[LiveProbe] = [live |-> "agreed", canary |-> "agreed"]
         /\ Closes(Regen) => /\ weeks[Regen].key
                             /\ weeks[Regen].generate = "success"
                             /\ weeks[Regen].pull_request = "success"]_driftVars
  BY <1>1, GuardFacts DEF Agreed
<1> QED  BY DriftInvariant, <1>2, PTL DEF WeeksCloseOnEvidence
================================================================================
