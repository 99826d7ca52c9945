-------------------------- MODULE TelegramIntakeProofs --------------------------
(***************************************************************************)
(* The intake, for any number of updates, outages and changes of mode: a    *)
(* request is filed at most once per handover, and is never lost without a  *)
(* run that died or a call that failed.  Both follow from keeping account   *)
(* of the runs that have yet to handle an update: each handover is a filed  *)
(* issue, a run with the update before it, or spent.                        *)
(***************************************************************************)
EXTENDS TelegramIntake, FiniteSetTheorems, TLAPS

RunStates == [stage : {"idle", "ack", "handle", "reply"}, todo : SUBSET Updates]

Shape ==
    /\ sent \in 0..Last /\ queue \subseteq 1..sent /\ webhook \in BOOLEAN
    /\ waiting \in [Groups -> SUBSET Updates]
    /\ runs \in [Groups -> RunStates]
    /\ issues \in [Updates -> Nat]
    /\ handovers \in [Updates -> [pushed : Nat, polled : BOOLEAN]]
    /\ excused \subseteq Updates
    /\ outages \in 0..MaxOutages /\ switches \in 0..MaxSwitches
    /\ \A g \in Groups : runs[g].todo = {} <=> runs[g].stage = "idle"

\* A group other than that of the polls is its update's own.
OwnGroups ==
    /\ waiting[PollGroup] = {}
    /\ \A u \in Updates :
         waiting[u] \subseteq {u} /\ runs[u].todo \subseteq {u} /\ runs[u].stage # "ack"

\* What a poll acknowledged has left the queue for good.
PolledIsGone == \A u \in Updates : handovers[u].polled => u <= sent /\ u \notin queue

\* Nothing that is still queued is older than a batch that is to be acknowledged.
BatchIsOld ==
    runs[PollGroup].stage = "ack" =>
        \A v \in Batch : v <= sent /\ ~handovers[v].polled /\ \A u \in queue \ Batch : u > v

\* The run of group g has yet to handle u.
Ahead(g, u) ==
    /\ u \in runs[g].todo
    /\ \/ runs[g].stage = "handle"
       \/ runs[g].stage = "reply" /\ \E v \in runs[g].todo : v < u
Waits(u) == u \in waiting[u]

One(b) == IF b THEN 1 ELSE 0
Handed(u) == handovers[u].pushed + One(handovers[u].polled)
Filings(u) == issues[u] + One(Waits(u)) + One(Ahead(u, u)) + One(Ahead(PollGroup, u))

Accounted(u) == Filings(u) <= Handed(u)
Cared(u) ==
    u \in Requests /\ u <= sent /\ u \notin queue /\ issues[u] = 0 =>
        u \in excused \/ Waits(u) \/ Ahead(u, u) \/ Ahead(PollGroup, u)

\* The inductive strengthening of FiledOncePerHandover and of NothingVanishes.
IInv ==
    /\ Shape /\ OwnGroups /\ PolledIsGone /\ BatchIsOld
    /\ \A u \in Updates : Accounted(u) /\ Cared(u)

\* The poll has a group of its own, and each update has one.
LEMMA GroupFacts == PollGroup \in Groups /\ Updates \subseteq Groups /\ PollGroup \notin Updates
                    /\ \A g \in Groups : g = PollGroup \/ g \in Updates
  BY DEF PollGroup, Groups, Updates

\* The initial states.
LEMMA InitIInv == Init => IInv
  <1> SUFFICES ASSUME Init PROVE IInv
    OBVIOUS
  <1> USE IntakeAssumption DEF IntakeAssumption
  <1>1. Shape
    <2>1. sent \in 0..Last /\ queue \subseteq 1..sent
      BY DEF Init
    <2>6. webhook \in BOOLEAN
      BY Zenon DEF Init
    <2>2. runs \in [Groups -> RunStates] /\ waiting \in [Groups -> SUBSET Updates]
      BY DEF Init, RunStates, Idle
    <2>3. issues \in [Updates -> Nat] /\ handovers \in [Updates -> [pushed : Nat, polled : BOOLEAN]]
      BY DEF Init
    <2>4. excused \subseteq Updates /\ outages \in 0..MaxOutages /\ switches \in 0..MaxSwitches
      BY DEF Init
    <2>5. \A g \in Groups : runs[g].todo = {} <=> runs[g].stage = "idle"
      BY DEF Init, Idle
    <2> QED  BY <2>1, <2>2, <2>3, <2>4, <2>5, <2>6 DEF Shape
  <1>2. OwnGroups /\ PolledIsGone /\ BatchIsOld
    BY GroupFacts DEF Init, OwnGroups, PolledIsGone, BatchIsOld, Idle, Updates
  <1>3. ASSUME NEW u \in Updates PROVE Accounted(u) /\ Cared(u)
    <2>1. ~Waits(u) /\ ~Ahead(u, u) /\ ~Ahead(PollGroup, u)
      BY GroupFacts DEF Init, Waits, Ahead, Idle
    <2>2. issues[u] = 0 /\ handovers[u] = [pushed |-> 0, polled |-> FALSE] /\ ~(u <= sent)
      BY DEF Init, Updates
    <2> QED  BY <2>1, <2>2 DEF Accounted, Cared, Filings, Handed, One
  <1> QED  BY <1>1, <1>2, <1>3 DEF IInv

\* A run that handles u, its oldest update, or is done with it, has nothing else
\* changed before it.
Passes(g, u) ==
    \A h \in Groups, w \in Updates : Ahead(h, w)' <=> Ahead(h, w) /\ ~(h = g /\ w = u)

\* A run that goes on with the rest of its updates passes just the one it was at.
LEMMA AfterPasses ==
    ASSUME IInv, NEW g \in Groups, NEW stage \in {"handle", "reply"}, NEW u \in InHand(g, stage),
           runs' = [runs EXCEPT ![g] = After(g, u)]
    PROVE  Passes(g, u)
  <1> SUFFICES ASSUME NEW h \in Groups, NEW w \in Updates
               PROVE  Ahead(h, w)' <=> Ahead(h, w) /\ ~(h = g /\ w = u)
    BY DEF Passes
  <1>1. runs \in [Groups -> RunStates]
    BY DEF IInv, Shape
  <1>2. CASE h # g
    BY <1>1, <1>2 DEF Ahead
  <1>3. CASE h = g
    <2>1. u \in Updates /\ u \in runs[g].todo /\ runs[g].stage = stage /\ \A v \in runs[g].todo : u <= v
      BY <1>1 DEF InHand, RunStates
    <2>2. runs'[g] = After(g, u)
      BY <1>1
    <2>3. Ahead(g, w) <=> w \in runs[g].todo /\ (stage = "handle" \/ w # u)
      <3>1. runs[g].todo \subseteq Int
        BY <1>1, IntakeAssumption DEF RunStates, Updates, IntakeAssumption
      <3> QED  BY <2>1, <3>1 DEF Ahead
    <2>4. Ahead(g, w)' <=> w \in runs[g].todo \ {u}
      <3> DEFINE rest == runs[g].todo \ {u}
      <3>1. CASE rest = {}
        BY <2>2, <3>1 DEF After, Idle, Ahead
      <3>2. CASE rest # {}
        BY <2>2, <3>2 DEF After, Ahead
      <3> QED  BY <3>1, <3>2
    <2> QED  BY <1>3, <2>3, <2>4, <2>1
  <1> QED  BY <1>2, <1>3

\* A run that is about to reply to an update has passed it.
LEMMA HandledPasses ==
    ASSUME IInv, NEW g \in Groups, NEW u \in InHand(g, "handle"),
           runs' = [runs EXCEPT ![g].stage = "reply"]
    PROVE  Passes(g, u)
  <1> SUFFICES ASSUME NEW h \in Groups, NEW w \in Updates
               PROVE  Ahead(h, w)' <=> Ahead(h, w) /\ ~(h = g /\ w = u)
    BY DEF Passes
  <1>1. runs \in [Groups -> RunStates]
    BY DEF IInv, Shape
  <1>2. CASE h # g
    BY <1>1, <1>2 DEF Ahead
  <1>3. CASE h = g
    <2>1. u \in runs[g].todo /\ runs[g].stage = "handle" /\ \A v \in runs[g].todo : u <= v
      BY DEF InHand
    <2>2. runs'[g].stage = "reply" /\ runs'[g].todo = runs[g].todo
      BY <1>1 DEF RunStates
    <2>3. runs[g].todo \subseteq Int
      BY <1>1, IntakeAssumption DEF RunStates, Updates, IntakeAssumption
    <2> QED  BY <1>3, <2>1, <2>2, <2>3 DEF Ahead
  <1> QED  BY <1>2, <1>3

\* The account of an update balances while its runs, its issues and its handovers
\* stay as they are or its runs have less ahead of them.
LEMMA BalanceKept ==
    ASSUME IInv, NEW u \in Updates,
           Waits(u)' => Waits(u), Ahead(u, u)' => Ahead(u, u),
           Ahead(PollGroup, u)' => Ahead(PollGroup, u),
           issues'[u] = issues[u], handovers'[u] = handovers[u]
    PROVE  Accounted(u)'
  <1>1. issues[u] \in Nat /\ handovers[u].pushed \in Nat
    BY DEF IInv, Shape
  <1>2. Accounted(u)
    BY DEF IInv
  <1> QED  BY <1>1, <1>2 DEF Accounted, Filings, Handed, One

\* A step that touches only the runs of one group, and ends them or goes on.
LEMMA ShapeOfRuns ==
    ASSUME IInv, NEW g \in Groups, NEW r \in RunStates,
           r.todo = {} <=> r.stage = "idle", r.todo \subseteq runs[g].todo,
           r.stage = "ack" => runs[g].stage = "ack" /\ r.todo = runs[g].todo,
           runs' = [runs EXCEPT ![g] = r],
           UNCHANGED <<sent, queue, webhook, waiting, handovers, switches>>,
           issues' \in [Updates -> Nat], excused' \subseteq Updates,
           outages' \in 0..MaxOutages
    PROVE  Shape' /\ OwnGroups' /\ PolledIsGone' /\ BatchIsOld'
  <1>1. Shape'
    BY DEF IInv, Shape
  <1>2. OwnGroups'
    BY GroupFacts DEF IInv, Shape, OwnGroups
  <1>3. PolledIsGone'
    BY DEF IInv, PolledIsGone
  <1>4. BatchIsOld'
    BY GroupFacts DEF IInv, Shape, BatchIsOld, Batch
  <1> QED  BY <1>1, <1>2, <1>3, <1>4

\* What a run goes on with is a run.
LEMMA AfterIsARun ==
    ASSUME IInv, NEW g \in Groups, NEW u
    PROVE  LET r == After(g, u)
           IN  /\ r \in RunStates /\ (r.todo = {} <=> r.stage = "idle")
               /\ r.todo \subseteq runs[g].todo /\ r.stage # "ack"
  <1>1. runs[g].todo \subseteq Updates
    BY DEF IInv, Shape, RunStates
  <1>2. CASE runs[g].todo \ {u} = {}
    BY <1>2 DEF After, Idle, RunStates
  <1>3. CASE runs[g].todo \ {u} # {}
    BY <1>1, <1>3 DEF After, RunStates
  <1> QED  BY <1>2, <1>3

\* An update stays cared for while whoever has it keeps it, files it, or has an excuse.
LEMMA CareKept ==
    ASSUME IInv, NEW u \in Updates,
           UNCHANGED <<sent, queue>>, excused \subseteq excused',
           Waits(u) => Waits(u)', issues'[u] = 0 => issues[u] = 0,
           \A g \in {u, PollGroup} : Ahead(g, u) =>
               Ahead(g, u)' \/ u \in excused' \/ issues'[u] # 0 \/ u \notin Requests
    PROVE  Cared(u)'
  <1>1. Cared(u)
    BY DEF IInv
  <1> QED  BY <1>1 DEF Cared

\* The steps of a run.
LEMMA RunStep ==
    ASSUME IInv, NEW g \in Groups,
           Ignore(g) \/ Handle(g) \/ RequestFails(g) \/ Reply(g) \/ ReplyFails(g) \/ Die(g)
    PROVE  IInv'
  <1> USE GroupFacts
  <1>0. /\ runs \in [Groups -> RunStates] /\ issues \in [Updates -> Nat] /\ excused \subseteq Updates
        /\ outages \in 0..MaxOutages
    BY DEF IInv, Shape
  <1>1. Outage => outages' \in 0..MaxOutages
    BY <1>0, IntakeAssumption DEF Outage, IntakeAssumption
  <1>2. \A stage, u : u \in InHand(g, stage) => u \in Updates /\ u \in runs[g].todo
                                                /\ (g = u \/ g = PollGroup)
    BY <1>0 DEF InHand, RunStates, IInv, OwnGroups
  <1>3. CASE Ignore(g)
    <2>1. PICK u \in InHand(g, "handle") \cap Strangers : runs' = [runs EXCEPT ![g] = After(g, u)]
      BY <1>3 DEF Ignore
    <2>2. UNCHANGED <<sent, queue, webhook, waiting, issues, history, outages, switches>>
      BY <1>3 DEF Ignore
    <2>3. Shape' /\ OwnGroups' /\ PolledIsGone' /\ BatchIsOld'
      BY <1>0, <2>1, <2>2, AfterIsARun, ShapeOfRuns DEF history
    <2>4. Passes(g, u)
      BY <2>1, AfterPasses
    <2>5. ASSUME NEW w \in Updates PROVE Accounted(w)' /\ Cared(w)'
      <3>1. Waits(w)' <=> Waits(w)
        BY <2>2 DEF Waits
      <3>2. w = u => w \notin Requests
        BY <2>1, IntakeAssumption DEF IntakeAssumption
      <3> QED  BY <2>2, <2>4, <3>1, <3>2, BalanceKept, CareKept DEF Passes, history
    <2> QED  BY <2>3, <2>5 DEF IInv
  <1>4. CASE Reply(g) \/ ReplyFails(g)
    <2>1. PICK u \in InHand(g, "reply") : runs' = [runs EXCEPT ![g] = After(g, u)]
      BY <1>4 DEF Reply, ReplyFails, AfterFailure
    <2>2. UNCHANGED <<sent, queue, webhook, waiting, issues, history, switches>> /\ outages' \in 0..MaxOutages
      BY <1>0, <1>1, <1>4 DEF Reply, ReplyFails
    <2>3. Shape' /\ OwnGroups' /\ PolledIsGone' /\ BatchIsOld'
      BY <1>0, <2>1, <2>2, AfterIsARun, ShapeOfRuns DEF history
    <2>4. Passes(g, u)
      BY <2>1, AfterPasses
    <2>5. ~Ahead(g, u)
      <3>1. runs[g].stage = "reply" /\ \A v \in runs[g].todo : u <= v
        BY <2>1 DEF InHand
      <3>2. u \in Int /\ runs[g].todo \subseteq Int
        BY <1>0, <1>2, <2>1, IntakeAssumption DEF RunStates, Updates, IntakeAssumption
      <3> QED  BY <3>1, <3>2 DEF Ahead
    <2>6. ASSUME NEW w \in Updates PROVE Accounted(w)' /\ Cared(w)'
      <3>1. Waits(w)' <=> Waits(w)
        BY <2>2 DEF Waits
      <3> QED  BY <2>2, <2>4, <2>5, <3>1, BalanceKept, CareKept DEF Passes, history
    <2> QED  BY <2>3, <2>6 DEF IInv
  <1>5. CASE Handle(g) \/ RequestFails(g)
    <2>1. PICK u \in InHand(g, "handle") :
            /\ runs' = [runs EXCEPT ![g].stage = "reply"]
            /\ \/ issues' = issues /\ (u \in Requests => u \in excused')
               \/ issues' = [issues EXCEPT ![u] = @ + 1]
            /\ excused \subseteq excused' /\ excused' \subseteq excused \cup {u}
      BY <1>5 DEF Handle, RequestFails, history
    <2>2. UNCHANGED <<sent, queue, webhook, waiting, handovers, switches>> /\ outages' \in 0..MaxOutages
      BY <1>0, <1>1, <1>5 DEF Handle, RequestFails, history
    <2>3. u \in Updates /\ u \in runs[g].todo /\ runs[g].stage = "handle" /\ (g = u \/ g = PollGroup)
      BY <1>2, <2>1 DEF InHand
    <2>4. Shape' /\ OwnGroups' /\ PolledIsGone' /\ BatchIsOld'
      <3> DEFINE r == [runs[g] EXCEPT !.stage = "reply"]
      <3>1. r \in RunStates /\ r.todo = runs[g].todo /\ r.stage = "reply"
        BY <1>0 DEF RunStates
      <3>2. runs' = [runs EXCEPT ![g] = r]
        BY <1>0, <2>1
      <3>3. issues' \in [Updates -> Nat] /\ excused' \subseteq Updates
        BY <1>0, <2>1, <2>3
      <3>4. r.todo = {} <=> r.stage = "idle"
        BY <2>3, <3>1
      <3> HIDE DEF r
      <3> QED  BY <2>2, <3>1, <3>2, <3>3, <3>4, ShapeOfRuns
    <2>5. Passes(g, u)
      BY <2>1, HandledPasses
    <2>6. Ahead(g, u) /\ ~Ahead(g, u)'
      BY <2>3, <2>5 DEF Ahead, Passes
    <2>7. ASSUME NEW w \in Updates PROVE Accounted(w)' /\ Cared(w)'
      <3>1. Waits(w)' <=> Waits(w)
        BY <2>2 DEF Waits
      <3>2. CASE w # u
        <4>1. issues'[w] = issues[w] /\ handovers'[w] = handovers[w]
          BY <1>0, <2>1, <2>2, <3>2
        <4> QED  BY <2>1, <2>2, <2>5, <3>1, <3>2, <4>1, BalanceKept, CareKept DEF Passes
      <3>3. CASE w = u
        <4>1. issues'[u] \in {issues[u], issues[u] + 1} /\ issues[u] \in Nat
          BY <1>0, <2>1, <2>3
        <4>2. Accounted(u)'
          <5>1. Accounted(u) /\ handovers'[u] = handovers[u] /\ handovers[u].pushed \in Nat
            BY <2>2, <2>3 DEF IInv, Shape
          <5>2. \A h \in {u, PollGroup} : Ahead(h, u)' => Ahead(h, u) /\ h # g
            BY <2>3, <2>5 DEF Passes
          <5> QED  BY <2>3, <2>6, <3>1, <3>3, <4>1, <5>1, <5>2 DEF Accounted, Filings, Handed, One
        <4>3. Cared(u)'
          <5>1. issues'[u] # 0 \/ (u \in Requests => u \in excused')
            BY <1>0, <2>1, <2>3
          <5> QED  BY <5>1 DEF Cared
        <4> QED  BY <3>3, <4>2, <4>3
      <3> QED  BY <3>2, <3>3
    <2> QED  BY <2>4, <2>7 DEF IInv
  <1>6. CASE Die(g)
    <2>1. /\ runs' = [runs EXCEPT ![g] = Idle] /\ outages' \in 0..MaxOutages
          /\ UNCHANGED <<sent, queue, webhook, waiting, issues, handovers, switches>>
          /\ excused' = IF runs[g].stage = "ack" THEN excused ELSE excused \cup runs[g].todo
      BY <1>1, <1>6 DEF Die
    <2>2. Idle \in RunStates /\ Idle.todo = {} /\ Idle.stage = "idle"
      BY DEF Idle, RunStates
    <2>3. excused' \subseteq Updates
      BY <1>0, <2>1 DEF RunStates
    <2>4. Shape' /\ OwnGroups' /\ PolledIsGone' /\ BatchIsOld'
      BY <1>0, <2>1, <2>2, <2>3, ShapeOfRuns
    <2>5. ASSUME NEW w \in Updates PROVE Accounted(w)' /\ Cared(w)'
      <3>1. Waits(w)' <=> Waits(w)
        BY <2>1 DEF Waits
      <3>2. \A h \in Groups : Ahead(h, w)' <=> Ahead(h, w) /\ h # g
        BY <1>0, <2>1, <2>2 DEF Ahead
      <3>3. Ahead(g, w) => w \in excused'
        BY <2>1 DEF Ahead
      <3> QED  BY <2>1, <3>1, <3>2, <3>3, BalanceKept, CareKept
    <2> QED  BY <2>4, <2>5 DEF IInv
  <1> QED  BY <1>3, <1>4, <1>5, <1>6

\* The steps of Telegram, of the owner and of the relay.
LEMMA RelayStep ==
    ASSUME IInv,
           \/ Arrive \/ SwitchMode
           \/ \E u \in Updates : Deliver(u) \/ DeliverFails(u)
           \/ \E g \in Groups : StartPush(g)
    PROVE  IInv'
  <1> USE GroupFacts
  <1>0. Shape /\ OwnGroups /\ PolledIsGone /\ BatchIsOld
    BY DEF IInv
  <1>1. runs[PollGroup].todo \subseteq Updates /\ sent \in 0..Last /\ queue \subseteq 1..sent
    BY <1>0 DEF Shape, RunStates
  <1>2. CASE Arrive
    <2>1. /\ sent' = sent + 1 /\ sent' \in 0..Last /\ queue' = queue \cup {sent + 1}
          /\ UNCHANGED <<webhook, waiting, runs, issues, handovers, excused, outages, switches>>
      BY <1>1, <1>2, IntakeAssumption DEF Arrive, intake, history, IntakeAssumption
    <2>2. queue' \subseteq 1..sent'
      BY <1>1, <2>1
    <2>3. Shape' /\ OwnGroups'
      BY <1>0, <2>1, <2>2 DEF Shape, OwnGroups
    <2>4. PolledIsGone'
      BY <1>0, <1>1, <2>1 DEF PolledIsGone, Updates
    <2>5. BatchIsOld'
      <3> SUFFICES ASSUME runs[PollGroup].stage = "ack", NEW v \in Batch
                   PROVE  /\ v <= sent + 1 /\ ~handovers[v].polled
                          /\ \A u \in queue' \ Batch : u > v
        BY <2>1 DEF BatchIsOld, Batch
      <3>1. v <= sent /\ ~handovers[v].polled /\ \A u \in queue \ Batch : u > v
        BY <1>0 DEF BatchIsOld
      <3>2. v \in Int /\ sent \in Int
        BY <1>1 DEF Batch, Updates
      <3> QED  BY <2>1, <3>1, <3>2
    <2>6. ASSUME NEW w \in Updates PROVE Accounted(w)' /\ Cared(w)'
      <3>1. (Waits(w)' <=> Waits(w)) /\ \A h \in Groups : Ahead(h, w)' <=> Ahead(h, w)
        BY <2>1 DEF Waits, Ahead
      <3>2. Cared(w)
        BY DEF IInv
      <3>3. Cared(w)'
        BY <1>1, <2>1, <3>1, <3>2 DEF Cared, Updates
      <3> QED  BY <2>1, <3>1, <3>3, BalanceKept
    <2> QED  BY <2>3, <2>4, <2>5, <2>6 DEF IInv
  <1>3. CASE SwitchMode
    <2>1. switches' \in 0..MaxSwitches
      BY <1>0, <1>3, IntakeAssumption DEF Shape, SwitchMode, IntakeAssumption
    <2>2. webhook' \in BOOLEAN
      BY <1>3, Zenon DEF SwitchMode
    <2>3. UNCHANGED <<sent, queue, waiting, runs, issues, handovers, excused, outages>>
      BY <1>3 DEF SwitchMode, intake, history
    <2>4. Shape' /\ OwnGroups' /\ PolledIsGone' /\ BatchIsOld'
      BY <1>0, <2>1, <2>2, <2>3 DEF Shape, OwnGroups, PolledIsGone, BatchIsOld, Batch
    <2>5. ASSUME NEW w \in Updates PROVE Accounted(w)' /\ Cared(w)'
      <3>1. (Waits(w)' <=> Waits(w)) /\ \A h \in Groups : Ahead(h, w)' <=> Ahead(h, w)
        BY <2>3 DEF Waits, Ahead
      <3> QED  BY <2>3, <3>1, BalanceKept, CareKept
    <2> QED  BY <2>4, <2>5 DEF IInv
  <1>4. ASSUME NEW u \in Updates, Deliver(u) \/ DeliverFails(u)  PROVE IInv'
    <2>1. /\ UNCHANGED <<sent, webhook, runs, issues, excused, switches>>
          /\ outages' \in 0..MaxOutages /\ queue' \in {queue, queue \ {u}} /\ u \in queue
      BY <1>0, <1>4, IntakeAssumption DEF Deliver, DeliverFails, Outage, Shape, IntakeAssumption
    <2>2. CASE Dispatch(u)
      <3>1. /\ waiting' = [waiting EXCEPT ![u] = {u}]
            /\ handovers' = [handovers EXCEPT ![u].pushed = @ + 1]
        BY <2>2 DEF Dispatch, Group
      <3>2. /\ handovers \in [Updates -> [pushed : Nat, polled : BOOLEAN]]
            /\ waiting \in [Groups -> SUBSET Updates]
        BY <1>0 DEF Shape
      <3>3. \A w \in Updates : /\ handovers'[w].polled = handovers[w].polled
                                /\ handovers[w].pushed \in Nat
                                /\ handovers'[w].pushed = IF w = u THEN handovers[w].pushed + 1
                                                         ELSE handovers[w].pushed
        BY <3>1, <3>2
      <3>4. Shape'
        <4>1. /\ handovers' \in [Updates -> [pushed : Nat, polled : BOOLEAN]]
              /\ waiting' \in [Groups -> SUBSET Updates]
          BY <3>1, <3>2
        <4>2. queue' \subseteq 1..sent
          BY <1>1, <2>1
        <4> QED  BY <1>0, <2>1, <4>1, <4>2 DEF Shape
      <3>5. OwnGroups'
        BY <1>0, <2>1, <3>1, <3>2 DEF OwnGroups
      <3>6. PolledIsGone' /\ BatchIsOld'
        BY <1>0, <1>1, <2>1, <3>3 DEF PolledIsGone, BatchIsOld, Batch
      <3>7. ASSUME NEW w \in Updates PROVE Accounted(w)' /\ Cared(w)'
        <4>1. (Waits(w)' <=> Waits(w) \/ w = u) /\ \A h \in Groups : Ahead(h, w)' <=> Ahead(h, w)
          BY <2>1, <3>1, <3>2 DEF Waits, Ahead
        <4>2. Accounted(w) /\ Cared(w) /\ issues[w] \in Nat
          BY <1>0 DEF IInv, Shape
        <4>3. Accounted(w)'
          BY <2>1, <3>3, <4>1, <4>2 DEF Accounted, Filings, Handed, One
        <4>4. Cared(w)'
          BY <2>1, <4>1, <4>2 DEF Cared
        <4> QED  BY <4>3, <4>4
      <3> QED  BY <3>4, <3>5, <3>6, <3>7 DEF IInv
    <2>3. CASE UNCHANGED <<waiting, handovers>> /\ UNCHANGED queue
      <3>1. Shape' /\ OwnGroups' /\ PolledIsGone' /\ BatchIsOld'
        BY <1>0, <2>1, <2>3 DEF Shape, OwnGroups, PolledIsGone, BatchIsOld, Batch
      <3>2. ASSUME NEW w \in Updates PROVE Accounted(w)' /\ Cared(w)'
        <4>1. (Waits(w)' <=> Waits(w)) /\ \A h \in Groups : Ahead(h, w)' <=> Ahead(h, w)
          BY <2>1, <2>3 DEF Waits, Ahead
        <4> QED  BY <2>1, <2>3, <4>1, BalanceKept, CareKept
      <3> QED  BY <3>1, <3>2 DEF IInv
    <2> QED  BY <1>4, <2>2, <2>3 DEF Deliver, DeliverFails
  <1>5. ASSUME NEW g \in Groups, StartPush(g)  PROVE IInv'
    <2>1. /\ waiting[g] # {} /\ runs[g] = Idle /\ g \in Updates
          /\ UNCHANGED <<sent, queue, webhook, issues, handovers, excused, outages, switches>>
          /\ runs' = [runs EXCEPT ![g] = [stage |-> "handle", todo |-> waiting[g]]]
          /\ waiting' = [waiting EXCEPT ![g] = {}]
      BY <1>0, <1>5 DEF StartPush, OwnGroups, history
    <2>2. waiting \in [Groups -> SUBSET Updates] /\ runs \in [Groups -> RunStates]
      BY <1>0 DEF Shape
    <2>3. Shape'
      <3>1. waiting' \in [Groups -> SUBSET Updates] /\ runs' \in [Groups -> RunStates]
        BY <2>1, <2>2 DEF RunStates
      <3>2. \A h \in Groups : runs'[h].todo = {} <=> runs'[h].stage = "idle"
        BY <1>0, <2>1, <2>2 DEF Shape
      <3> QED  BY <1>0, <2>1, <3>1, <3>2 DEF Shape
    <2>4. OwnGroups'
      BY <1>0, <2>1, <2>2 DEF OwnGroups
    <2>5. PolledIsGone' /\ BatchIsOld'
      BY <1>0, <2>1, <2>2 DEF PolledIsGone, BatchIsOld, Batch
    <2>6. ASSUME NEW w \in Updates PROVE Accounted(w)' /\ Cared(w)'
      <3>1. waiting[g] = {g}
        BY <1>0, <2>1 DEF OwnGroups
      <3>2. Waits(w)' <=> Waits(w) /\ w # g
        BY <2>1, <2>2 DEF Waits
      <3>3. \A h \in Groups : Ahead(h, w)' <=> Ahead(h, w) \/ (h = g /\ w = g)
        BY <2>1, <2>2, <3>1 DEF Ahead, Idle
      <3>4. w = g => Waits(w) /\ ~Ahead(w, w)
        BY <2>1, <3>1 DEF Waits, Ahead, Idle
      <3>5. Accounted(w) /\ Cared(w) /\ issues[w] \in Nat /\ handovers[w].pushed \in Nat
        BY <1>0 DEF IInv, Shape
      <3>6. Accounted(w)'
        BY <2>1, <3>2, <3>3, <3>4, <3>5 DEF Accounted, Filings, Handed, One
      <3>7. Cared(w)'
        BY <2>1, <3>2, <3>3, <3>5 DEF Cared
      <3> QED  BY <3>6, <3>7
    <2> QED  BY <2>3, <2>4, <2>5, <2>6 DEF IInv
  <1> QED  BY <1>2, <1>3, <1>4, <1>5

\* The steps by which a poll gets its batch.
LEMMA PollStep ==
    ASSUME IInv, Fetch \/ Acknowledge \/ AcknowledgeRefused \/ AcknowledgeFails
    PROVE  IInv'
  <1> USE GroupFacts
  <1>0. Shape /\ OwnGroups /\ PolledIsGone /\ BatchIsOld
    BY DEF IInv
  <1>1. /\ runs \in [Groups -> RunStates] /\ Batch \subseteq Updates
        /\ sent \in 0..Last /\ queue \subseteq 1..sent /\ 1..sent \subseteq Updates
        /\ Updates \subseteq Int
        /\ handovers \in [Updates -> [pushed : Nat, polled : BOOLEAN]]
    BY <1>0, IntakeAssumption DEF Shape, RunStates, Batch, Updates, IntakeAssumption
  <1>2. CASE Fetch
    <2>1. /\ queue # {} /\ runs[PollGroup] = Idle
          /\ runs' = [runs EXCEPT ![PollGroup] = [stage |-> "ack", todo |-> queue]]
          /\ UNCHANGED <<sent, queue, webhook, waiting, issues, handovers, excused, outages, switches>>
      BY <1>2 DEF Fetch, SomethingQueued, FirstStage, history
    <2>2. Shape'
      <3>1. [stage |-> "ack", todo |-> queue] \in RunStates
        BY <1>1 DEF RunStates
      <3>2. runs' \in [Groups -> RunStates]
        BY <1>1, <2>1, <3>1
      <3>3. \A h \in Groups : runs'[h].todo = {} <=> runs'[h].stage = "idle"
        BY <1>0, <1>1, <2>1 DEF Shape
      <3> QED  BY <1>0, <2>1, <3>2, <3>3 DEF Shape
    <2>3. OwnGroups' /\ PolledIsGone'
      BY <1>0, <1>1, <2>1 DEF OwnGroups, PolledIsGone
    <2>4. BatchIsOld'
      <3>1. Batch' = queue
        BY <1>1, <2>1 DEF Batch
      <3>2. \A v \in queue : v <= sent /\ ~handovers[v].polled
        BY <1>0, <1>1 DEF PolledIsGone
      <3> QED  BY <2>1, <3>1, <3>2 DEF BatchIsOld
    <2>5. ASSUME NEW w \in Updates PROVE Accounted(w)' /\ Cared(w)'
      <3>1. (Waits(w)' <=> Waits(w)) /\ \A h \in Groups : Ahead(h, w)' <=> Ahead(h, w)
        BY <1>1, <2>1 DEF Waits, Ahead, Idle
      <3> QED  BY <2>1, <3>1, BalanceKept, CareKept
    <2> QED  BY <2>2, <2>3, <2>4, <2>5 DEF IInv
  <1>3. AckTakesEffect /\ runs[PollGroup].stage = "ack" =>
          /\ queue' \subseteq queue /\ \A u \in queue \ queue' : u \in Batch
          /\ \A u \in Batch : u \notin queue'
    BY <1>0, <1>1 DEF AckTakesEffect, BatchIsOld
  <1>4. CASE Acknowledge
    <2>1. /\ runs[PollGroup].stage = "ack" /\ AckTakesEffect
          /\ runs' = [runs EXCEPT ![PollGroup].stage = "handle"]
          /\ handovers' = [u \in Updates |->
                IF u \in Batch THEN [handovers[u] EXCEPT !.polled = TRUE] ELSE handovers[u]]
          /\ UNCHANGED <<sent, webhook, waiting, issues, excused, outages, switches>>
      BY <1>4 DEF Acknowledge
    <2>2. \A w \in Updates : /\ handovers'[w].pushed = handovers[w].pushed
                              /\ handovers[w].pushed \in Nat
                              /\ handovers'[w].polled <=> handovers[w].polled \/ w \in Batch
      BY <1>1, <2>1
    <2>3. /\ runs'[PollGroup].stage = "handle" /\ runs'[PollGroup].todo = Batch
          /\ \A h \in Groups : h # PollGroup => runs'[h] = runs[h]
      BY <1>1, <2>1 DEF Batch, RunStates
    <2>4. Shape'
      <3>1. handovers' \in [Updates -> [pushed : Nat, polled : BOOLEAN]]
        BY <1>1, <2>1
      <3>2. runs' \in [Groups -> RunStates]
        BY <1>1, <2>1 DEF RunStates
      <3>3. \A h \in Groups : runs'[h].todo = {} <=> runs'[h].stage = "idle"
        BY <1>0, <2>1, <2>3 DEF Shape, Batch
      <3>4. queue' \subseteq 1..sent
        BY <1>1, <1>3, <2>1
      <3> QED  BY <1>0, <2>1, <3>1, <3>2, <3>3, <3>4 DEF Shape
    <2>5. OwnGroups' /\ BatchIsOld'
      BY <1>0, <2>1, <2>3 DEF OwnGroups, BatchIsOld
    <2>6. PolledIsGone'
      BY <1>0, <1>1, <1>3, <2>1, <2>2 DEF PolledIsGone, BatchIsOld
    <2>7. ASSUME NEW w \in Updates PROVE Accounted(w)' /\ Cared(w)'
      <3>1. /\ Waits(w)' <=> Waits(w)
            /\ Ahead(w, w)' <=> Ahead(w, w)
            /\ Ahead(PollGroup, w)' <=> w \in Batch
        BY <2>1, <2>3 DEF Waits, Ahead
      <3>2. ~Ahead(PollGroup, w) /\ (w \in Batch => ~handovers[w].polled)
        BY <1>0, <2>1 DEF Ahead, BatchIsOld
      <3>3. Accounted(w) /\ Cared(w) /\ issues[w] \in Nat
        BY <1>0 DEF IInv, Shape
      <3>4. Accounted(w)'
        BY <2>1, <2>2, <3>1, <3>2, <3>3 DEF Accounted, Filings, Handed, One
      <3>5. Cared(w)'
        BY <1>3, <2>1, <3>1, <3>2, <3>3 DEF Cared
      <3> QED  BY <3>4, <3>5
    <2> QED  BY <2>4, <2>5, <2>6, <2>7 DEF IInv
  <1>5. CASE AcknowledgeRefused \/ AcknowledgeFails
    <2>1. /\ runs[PollGroup].stage = "ack"
          /\ runs' = [runs EXCEPT ![PollGroup] = Idle]
          /\ UNCHANGED <<sent, webhook, waiting, issues, handovers, switches>>
          /\ outages' \in 0..MaxOutages
      BY <1>0, <1>5, IntakeAssumption
      DEF AcknowledgeRefused, AcknowledgeFails, Outage, history, Shape, IntakeAssumption
    <2>2. \/ UNCHANGED <<queue, excused>>
          \/ AckTakesEffect /\ excused' = excused \cup Batch
      BY <1>5 DEF AcknowledgeRefused, AcknowledgeFails, history
    <2>3. /\ queue' \subseteq queue /\ excused \subseteq excused' /\ excused' \subseteq Updates
          /\ \A u \in queue : u \in queue' \/ u \in excused'
      BY <1>0, <1>1, <1>3, <2>1, <2>2 DEF Shape
    <2>4. Shape'
      <3>1. runs' \in [Groups -> RunStates]
        BY <1>1, <2>1 DEF Idle, RunStates
      <3>2. \A h \in Groups : runs'[h].todo = {} <=> runs'[h].stage = "idle"
        BY <1>0, <1>1, <2>1 DEF Shape, Idle
      <3>3. queue' \subseteq 1..sent
        BY <1>1, <2>3
      <3> QED  BY <1>0, <2>1, <2>3, <3>1, <3>2, <3>3 DEF Shape
    <2>5. OwnGroups' /\ PolledIsGone' /\ BatchIsOld'
      BY <1>0, <1>1, <2>1, <2>3 DEF OwnGroups, PolledIsGone, BatchIsOld, Idle
    <2>6. ASSUME NEW w \in Updates PROVE Accounted(w)' /\ Cared(w)'
      <3>1. (Waits(w)' <=> Waits(w)) /\ \A h \in Groups : Ahead(h, w)' <=> Ahead(h, w)
        BY <1>1, <2>1 DEF Waits, Ahead, Idle
      <3>2. Cared(w)'
        BY <2>1, <2>3, <3>1 DEF IInv, Cared
      <3> QED  BY <2>1, <3>1, <3>2, BalanceKept
    <2> QED  BY <2>4, <2>5, <2>6 DEF IInv
  <1> QED  BY <1>2, <1>4, <1>5

\* A step of the intake, or a stutter.
LEMMA NextIInv == IInv /\ [Next]_vars => IInv'
  <1> SUFFICES ASSUME IInv, [Next]_vars PROVE IInv'
    OBVIOUS
  <1>1. CASE Next
    BY <1>1, RunStep, RelayStep, PollStep DEF Next
  <1>2. CASE UNCHANGED vars
    BY <1>2 DEF vars, intake, history, IInv, Shape, OwnGroups, PolledIsGone, BatchIsOld, Batch,
                Accounted, Cared, Filings, Handed, Waits, Ahead
  <1> QED  BY <1>1, <1>2

\* The invariant holds the three promises.
LEMMA IInvImplies == IInv => TypeOK /\ FiledOncePerHandover /\ NothingVanishes
  <1> SUFFICES ASSUME IInv PROVE TypeOK /\ FiledOncePerHandover /\ NothingVanishes
    OBVIOUS
  <1> USE GroupFacts
  <1>1. ASSUME NEW g \in Groups PROVE Cardinality(waiting[g]) <= 1
    <2>1. waiting[g] \subseteq {g}
      BY DEF IInv, OwnGroups
    <2>2. IsFiniteSet({g}) /\ Cardinality({g}) = 1
      BY FS_Singleton
    <2> QED  BY <2>1, <2>2, FS_Subset
  <1>2. TypeOK
    BY <1>1 DEF IInv, Shape, RunStates, TypeOK
  <1>3. FiledOncePerHandover
    <2> SUFFICES ASSUME NEW u \in Updates
                 PROVE  issues[u] <= handovers[u].pushed + One(handovers[u].polled)
      BY DEF FiledOncePerHandover, One
    <2>1. issues[u] \in Nat /\ handovers[u].pushed \in Nat /\ Accounted(u)
      BY DEF IInv, Shape
    <2> QED  BY <2>1 DEF Accounted, Filings, Handed, One
  <1>4. NothingVanishes
    <2> SUFFICES ASSUME NEW u \in Requests, u <= sent, u \notin queue, issues[u] = 0, u \notin excused
                 PROVE  \E g \in Groups : u \in waiting[g] \cup runs[g].todo
      BY DEF NothingVanishes
    <2>1. u \in Updates
      BY IntakeAssumption DEF IntakeAssumption
    <2>2. Waits(u) \/ Ahead(u, u) \/ Ahead(PollGroup, u)
      BY <2>1 DEF IInv, Cared
    <2> QED  BY <2>1, <2>2 DEF Waits, Ahead
  <1> QED  BY <1>2, <1>3, <1>4

\* The intake keeps its shape: of a group one run waits, and a run at work has updates.
THEOREM IntakeTyped == Spec => []TypeOK
  BY InitIInv, NextIInv, IInvImplies, PTL DEF Spec

\* However calls fail, runs die and modes change, a request is filed at most once
\* for the poll that acknowledged it and once for each dispatch.
THEOREM RequestsFiledOncePerHandover == Spec => []FiledOncePerHandover
  BY InitIInv, NextIInv, IInvImplies, PTL DEF Spec

\* No request is lost but with the run that held it, or by its own failing call.
THEOREM NoRequestVanishes == Spec => []NothingVanishes
  BY InitIInv, NextIInv, IInvImplies, PTL DEF Spec
=================================================================================
