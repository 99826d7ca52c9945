----------------------------- MODULE TelegramIntake -----------------------------
(***************************************************************************)
(* The gateway-free intake: Telegram's queue of updates, the relay that a   *)
(* webhook calls (relay/telegram-webhook-relay.js), and the runs of         *)
(* telegram_intake.py that the workflow starts, one poll at a time and one  *)
(* run for each update that the relay dispatches.  The owner of the bot may *)
(* set and delete the webhook while anything is under way.                  *)
(*                                                                          *)
(* An update is its id.  A run of the workflow belongs to a concurrency     *)
(* group, of which one run is at work and one more may wait.                *)
(***************************************************************************)
EXTENDS FiniteSets, Integers

CONSTANTS
    Last,         \* bound: the id of the last update that is sent
    Requests,     \* the updates that are /audit by an allowed sender, with a valid ref
    Strangers,    \* those of senders that are not allowed
    MaxOutages,   \* bound: calls that fail and runs that die
    MaxSwitches   \* bound: how often the webhook is set or deleted

Updates == 1..Last

ASSUME IntakeAssumption ==
    /\ Last \in Nat /\ MaxOutages \in Nat /\ MaxSwitches \in Nat
    /\ Requests \subseteq Updates /\ Strangers \subseteq Updates \ Requests

VARIABLES
    sent,      \* the id of the last update so far
    queue,     \* the updates that Telegram holds
    webhook,   \* whether a webhook is set
    waiting,   \* the update whose run waits in a group
    runs,      \* the run at work in a group: what it does next, and its updates
    issues,    \* audit-request issues, by update
    handovers, \* history: dispatches the relay made of an update, and whether a
               \* poll acknowledged it
    excused,   \* history: updates of a run that died, and requests that failed
    outages, switches

intake == <<waiting, runs>>
history == <<handovers, excused>>
vars == <<sent, queue, webhook, intake, issues, history, outages, switches>>

PollGroup == 0
Groups == {PollGroup} \cup Updates
Idle == [stage |-> "idle", todo |-> {}]

TypeOK ==
    /\ sent \in 0..Last /\ queue \subseteq 1..sent /\ webhook \in BOOLEAN
    /\ waiting \in [Groups -> SUBSET Updates]
    /\ runs \in [Groups -> [stage : {"idle", "ack", "handle", "reply"}, todo : SUBSET Updates]]
    /\ \A g \in Groups :
         Cardinality(waiting[g]) <= 1 /\ (runs[g].todo = {} <=> runs[g].stage = "idle")
    /\ issues \in [Updates -> Nat]
    /\ handovers \in [Updates -> [pushed : Nat, polled : BOOLEAN]]
    /\ excused \subseteq Updates
    /\ outages \in 0..MaxOutages /\ switches \in 0..MaxSwitches

Init ==
    /\ sent = 0 /\ queue = {} /\ webhook = FALSE
    /\ waiting = [g \in Groups |-> {}]
    /\ runs = [g \in Groups |-> Idle]
    /\ issues = [u \in Updates |-> 0]
    /\ handovers = [u \in Updates |-> [pushed |-> 0, polled |-> FALSE]]
    /\ excused = {}
    /\ outages = 0 /\ switches = 0

Outage == outages < MaxOutages /\ outages' = outages + 1
--------------------------------------------------------------------------------
(* Telegram, its users and the owner of the bot.                               *)

Arrive ==
    /\ sent < Last
    /\ sent' = sent + 1
    /\ queue' = queue \cup {sent'}
    /\ UNCHANGED <<webhook, intake, issues, history, outages, switches>>

SwitchMode ==
    /\ switches < MaxSwitches
    /\ switches' = switches + 1
    /\ webhook' = ~webhook
    /\ UNCHANGED <<sent, queue, intake, issues, history, outages>>
--------------------------------------------------------------------------------
(* The relay.                                                                  *)

\* Mutant: all runs of the workflow share one group.
GroupShared(u) == PollGroup

\* The update_id is the name of the group.
Group(u) == u

\* Dispatched: a run that waits in the same group makes way for the new one.
Dispatch(u) ==
    /\ waiting' = [waiting EXCEPT ![Group(u)] = {u}]
    /\ handovers' = [handovers EXCEPT ![u].pushed = @ + 1]

Deliver(u) ==
    /\ webhook /\ u \in queue
    /\ Dispatch(u)
    /\ queue' = queue \ {u}
    /\ UNCHANGED <<sent, webhook, runs, issues, excused, outages, switches>>

\* The dispatch is refused, or it is accepted and the answer is lost: Telegram
\* has no 2xx and keeps the update.
DeliverFails(u) ==
    /\ webhook /\ u \in queue
    /\ Outage
    /\ Dispatch(u) \/ UNCHANGED <<waiting, handovers>>
    /\ UNCHANGED <<sent, queue, webhook, runs, issues, excused, switches>>

StartPush(g) ==
    /\ waiting[g] # {} /\ runs[g] = Idle
    /\ runs' = [runs EXCEPT ![g] = [stage |-> "handle", todo |-> waiting[g]]]
    /\ waiting' = [waiting EXCEPT ![g] = {}]
    /\ UNCHANGED <<sent, queue, webhook, issues, history, outages, switches>>
--------------------------------------------------------------------------------
(* A poll, as far as it differs.                                               *)

\* Mutants: max() of no updates at all; updates are handled before they are
\* acknowledged, and then are not.
SomethingQueuedUnchecked == TRUE
FirstStageHandle == "handle"

SomethingQueued == queue # {}
FirstStage == "ack"

\* getUpdates; it answers 409 while a webhook is set, and the poll is over.
Fetch ==
    /\ ~webhook /\ SomethingQueued
    /\ runs[PollGroup] = Idle
    /\ runs' = [runs EXCEPT ![PollGroup] = [stage |-> FirstStage, todo |-> queue]]
    /\ UNCHANGED <<sent, queue, webhook, waiting, issues, history, outages, switches>>

Batch == runs[PollGroup].todo
AckTakesEffect == queue' = {u \in queue : \A v \in Batch : u > v}

Acknowledge ==
    /\ runs[PollGroup].stage = "ack" /\ ~webhook
    /\ AckTakesEffect
    /\ runs' = [runs EXCEPT ![PollGroup].stage = "handle"]
    /\ handovers' = [u \in Updates |->
           IF u \in Batch THEN [handovers[u] EXCEPT !.polled = TRUE] ELSE handovers[u]]
    /\ UNCHANGED <<sent, webhook, waiting, issues, excused, outages, switches>>

\* Refused because a webhook has been set, or failed, having had its effect or
\* not: nothing catches the error, and the run ends before it handles anything.
AcknowledgeRefused ==
    /\ runs[PollGroup].stage = "ack" /\ webhook
    /\ runs' = [runs EXCEPT ![PollGroup] = Idle]
    /\ UNCHANGED <<sent, queue, webhook, waiting, issues, history, outages, switches>>

AcknowledgeFails ==
    /\ runs[PollGroup].stage = "ack" /\ ~webhook
    /\ Outage
    /\ \/ AckTakesEffect /\ excused' = excused \cup Batch
       \/ UNCHANGED <<queue, excused>>
    /\ runs' = [runs EXCEPT ![PollGroup] = Idle]
    /\ UNCHANGED <<sent, webhook, waiting, issues, handovers, switches>>
--------------------------------------------------------------------------------
(* process_update, for the oldest update of a run.                             *)

\* Mutant: an update that fails ends the loop.
AfterFailureOver(g, u) == Idle

\* What is left for the run after u.
After(g, u) ==
    LET rest == runs[g].todo \ {u}
    IN  IF rest = {} THEN Idle ELSE [stage |-> "handle", todo |-> rest]

\* main() counts a RuntimeError and goes on.
AfterFailure(g, u) == After(g, u)

InHand(g, stage) ==
    {u \in runs[g].todo : runs[g].stage = stage /\ \A v \in runs[g].todo : u <= v}

Ignore(g) ==
    \E u \in InHand(g, "handle") \cap Strangers :
        /\ runs' = [runs EXCEPT ![g] = After(g, u)]
        /\ UNCHANGED <<sent, queue, webhook, waiting, issues, history, outages, switches>>

\* Everything else gets a reply; a request gets its issue first.
Handle(g) ==
    \E u \in InHand(g, "handle") \ Strangers :
        /\ runs' = [runs EXCEPT ![g].stage = "reply"]
        /\ issues' = IF u \in Requests THEN [issues EXCEPT ![u] = @ + 1] ELSE issues
        /\ UNCHANGED <<sent, queue, webhook, waiting, history, outages, switches>>

\* create_issue raises, having had its effect or not; the reply says so.
RequestFails(g) ==
    \E u \in InHand(g, "handle") \cap Requests :
        /\ Outage
        /\ runs' = [runs EXCEPT ![g].stage = "reply"]
        /\ \/ issues' = [issues EXCEPT ![u] = @ + 1]
           \/ UNCHANGED issues
        /\ excused' = excused \cup {u}
        /\ UNCHANGED <<sent, queue, webhook, waiting, handovers, switches>>

Reply(g) ==
    \E u \in InHand(g, "reply") :
        /\ runs' = [runs EXCEPT ![g] = After(g, u)]
        /\ UNCHANGED <<sent, queue, webhook, waiting, issues, history, outages, switches>>

ReplyFails(g) ==
    \E u \in InHand(g, "reply") :
        /\ Outage
        /\ runs' = [runs EXCEPT ![g] = AfterFailure(g, u)]
        /\ UNCHANGED <<sent, queue, webhook, waiting, issues, history, switches>>

\* The runner goes away, or something other than a RuntimeError is raised.
Die(g) ==
    /\ runs[g] # Idle
    /\ Outage
    /\ runs' = [runs EXCEPT ![g] = Idle]
    /\ excused' = IF runs[g].stage = "ack" THEN excused ELSE excused \cup runs[g].todo
    /\ UNCHANGED <<sent, queue, webhook, waiting, issues, handovers, switches>>

Proceed(g) == Ignore(g) \/ Handle(g) \/ Reply(g)

Next ==
    \/ Arrive \/ SwitchMode
    \/ \E u \in Updates : Deliver(u) \/ DeliverFails(u)
    \/ Fetch \/ Acknowledge \/ AcknowledgeRefused \/ AcknowledgeFails
    \/ \E g \in Groups :
         \/ StartPush(g)
         \/ Ignore(g) \/ Handle(g) \/ RequestFails(g) \/ Reply(g) \/ ReplyFails(g)
         \/ Die(g)

Spec == Init /\ [][Next]_vars

\* Telegram delivers until it gets a 2xx, the schedule polls, GitHub starts what
\* it has queued, and every call of a run returns or fails.
Fairness ==
    /\ \A u \in Updates : WF_vars(Deliver(u))
    /\ WF_vars(Fetch) /\ WF_vars(Acknowledge \/ AcknowledgeRefused)
    /\ \A g \in Groups : WF_vars(StartPush(g)) /\ WF_vars(Proceed(g))

FairSpec == Spec /\ Fairness
--------------------------------------------------------------------------------
\* Over any crashes, failing calls and changes of mode a request is filed at most
\* once for the poll that acknowledged it and once for each time the relay
\* dispatched it: a poll never "re-files duplicate issues".
FiledOncePerHandover ==
    \A u \in Updates :
        issues[u] <= handovers[u].pushed + (IF handovers[u].polled THEN 1 ELSE 0)

\* A failure costs nobody else anything: an update that Telegram no longer holds
\* is with a run, or waits for one, or has been dealt with.  A request that has
\* no issue then was in the batch of a run that died, or its issue call failed.
NothingVanishes ==
    \A u \in Requests : u <= sent /\ u \notin queue /\ issues[u] = 0 =>
        \/ u \in excused
        \/ \E g \in Groups : u \in waiting[g] \cup runs[g].todo

\* Every request gets its issue, by whichever mode, or an excuse.
RequestsAreFiled ==
    \A u \in Requests : sent >= u ~> (issues[u] > 0 \/ u \in excused)
================================================================================
