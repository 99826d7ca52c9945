------------------------------ MODULE BrokerCycle ------------------------------
(***************************************************************************)
(* The Broker's side of the microVM topology (deploy/microvm/): cycles of  *)
(* run-audit-cycle.sh, each of which boots one throwaway Worker with       *)
(* run-worker.sh, the handlers that broker-listener.sh forks for every     *)
(* connection (_receive-one.sh), and the drop box between them.  A Worker  *)
(* is not trusted: it may send anything, nothing, or several times.        *)
(*                                                                         *)
(* Nothing in the code keeps two cycles apart; the Workers are kept apart, *)
(* because all of them boot with the same vsock address.                   *)
(***************************************************************************)
EXTENDS BudgetGuard, NightlyReport, Sequences

CONSTANTS
    Cycles,         \* cycle scripts that may be at work at once
    Shipments,      \* by name: what a Worker may send
    SettleSeconds,  \* SETTLE_SECONDS
    MaxBox          \* bound: connections and run directories held at once

ASSUME CycleAssumption ==
    /\ SettleSeconds \in Nat
    /\ MaxBox \in Nat \ {0}
    /\ {"nobody", "orphan"} \cap Cycles = {}

VARIABLES
    guard,    \* the Broker's budget state file
    cycles,   \* what each cycle script is at
    vm,       \* who waits for the Worker that is up: a cycle, "orphan", "nobody"
    box,      \* the run directories, in the order of their names
    silent    \* history: cycles in a row that were recorded without any evidence

vars == <<guard, cycles, vm, box, silent>>

\* What the tar stream can leave in a run directory.
Files == {"nightly-evidence.json", "promptfoo.json"}

\* A run directory says how far its handler is (made, writing, ready); the exit code its
\* summary gives, and whether all that was sent came through; the cycles at work that
\* do not have it in their snapshot, and (history) those that were at work when it was
\* made.

Idle == [pc |-> "idle", polls |-> 0, rc |-> 0, found |-> FALSE]

Init ==
    /\ guard = DefaultState
    /\ cycles = [c \in Cycles |-> Idle]
    /\ vm = "nobody"
    /\ box = <<>>
    /\ silent = 0
--------------------------------------------------------------------------------
(* The handler of one connection.                                              *)

\* The verdict of the Broker's own classifier on the files it has: a member that
\* is missing reads as a gate that could not run, or as an eval without output.
Verdicts == [s \in DOMAIN Shipments |-> [files \in SUBSET Files |->
    LET sent == Shipments[s]
        has  == "nightly-evidence.json" \in files
    IN  ExitCode(BuildSummary(FromEvidence(IF has THEN sent.gates ELSE <<>>),
                              TestsFromEvidence(IF has THEN sent.counts ELSE {}),
                              IF "promptfoo.json" \in files THEN sent.pf ELSE NoOutput,
                              TRUE, FALSE).outcome)]]

AtWork == {c \in Cycles : cycles[c].pc # "idle"}

\* The box, with room for one more directory.  One that no cycle looks for goes: no
\* later cycle will look for it either, whatever becomes of its handler.
Kept ==
    IF Len(box) < MaxBox THEN {box}
    ELSE {SubSeq(box, 1, i - 1) \o SubSeq(box, i + 1, Len(box)) :
             i \in {j \in DOMAIN box : box[j].fresh = {}}}

\* A new name comes last, <second>-<pid>; within the second of the last one, the
\* pid may sort before it.
Inserted(boxes, d) ==
    UNION {{SubSeq(b, 1, i) \o <<d>> \o SubSeq(b, i + 1, Len(b)) :
               i \in {j \in {Len(b) - 1, Len(b)} : j >= 0}} : b \in boxes}

\* A handler that is killed, with its listener or alone, takes no further step.
\* A connection is accepted and its handler makes the run directory.  Whoever the
\* Worker belonged to, the directory is in nobody's snapshot yet.
Connect ==
    /\ vm # "nobody"
    /\ box' \in Inserted(Kept, [stage |-> "made", rc |-> 1, whole |-> FALSE,
                                fresh |-> AtWork, during |-> AtWork])
    /\ UNCHANGED <<guard, cycles, vm, silent>>

\* Header and tar stream end, or run into their limits of time and size; links are
\* dropped, so any part of what was sent may be left.  The classifier then begins
\* its summary.  (The one that is made up when the classifier cannot run has the
\* verdict of no evidence at all.)
Classify(i, s) ==
    /\ box[i].stage = "made"
    /\ \E files \in SUBSET Files :
         box' = [box EXCEPT ![i].stage = "writing", ![i].rc = Verdicts[s][files],
                            ![i].whole = (files = Files)]
    /\ UNCHANGED <<guard, cycles, vm, silent>>

EndSummary(i) ==
    /\ box[i].stage = "writing"
    /\ box' = [box EXCEPT ![i].stage = "ready"]
    /\ UNCHANGED <<guard, cycles, vm, silent>>
--------------------------------------------------------------------------------
(* One cycle.                                                                  *)

SkipCycle(c) ==
    /\ cycles[c].pc = "idle"
    /\ ~PreflightRuns(guard, 0, 0)
    /\ guard' = PreflightState(guard)
    /\ UNCHANGED <<cycles, vm, box, silent>>

\* Mutant: the list of directories is taken where none is seen.
SnapshotOfNothing(c) == [i \in DOMAIN box |-> [box[i] EXCEPT !.fresh = @ \cup {c}]]

\* ls -1 of the drop box, before the Worker is launched.
Snapshot(c) == [i \in DOMAIN box |-> [box[i] EXCEPT !.fresh = @ \ {c}]]

StartCycle(c) ==
    /\ cycles[c].pc = "idle"
    /\ PreflightRuns(guard, 0, 0)
    /\ guard' = PreflightState(guard)
    /\ cycles' = [cycles EXCEPT ![c].pc = "booting"]
    /\ box' = Snapshot(c)
    /\ UNCHANGED <<vm, silent>>

Settling == [Idle EXCEPT !.pc = "polling", !.polls = SettleSeconds + 1]

\* qemu gets the vsock address, or the launcher fails: no image, no allowlist,
\* or an address that another Worker has.
Boot(c) ==
    /\ cycles[c].pc = "booting" /\ vm = "nobody"
    /\ vm' = c
    /\ cycles' = [cycles EXCEPT ![c].pc = "waiting"]
    /\ UNCHANGED <<guard, box, silent>>

BootFails(c) ==
    /\ cycles[c].pc = "booting"
    /\ cycles' = [cycles EXCEPT ![c] = Settling]
    /\ UNCHANGED <<guard, vm, box, silent>>

\* The Worker powers itself off, or is killed after BOOT_TIMEOUT; the cycle, if
\* it is still there, goes on with the settle window.
WorkerEnds ==
    /\ vm # "nobody"
    /\ vm' = "nobody"
    /\ cycles' = [c \in Cycles |-> IF c = vm THEN Settling ELSE cycles[c]]
    /\ UNCHANGED <<guard, box, silent>>

\* The newest directory that is not in the snapshot, if there is one.
New(c) == {i \in DOMAIN box : c \in box[i].fresh}
Candidate(c) == {i \in New(c) : \A j \in New(c) : j <= i}

\* A summary that is not empty, and what python reads from it: nothing, while it
\* is still being written.
HasSummary(i) == box[i].stage \in {"writing", "ready"}
ReadRc(i) == IF box[i].stage = "ready" THEN box[i].rc ELSE 1

\* Mutants: a directory whose summary is missing is waited for; a missing result
\* is no failure.
PollsLeftWaiting(c) == IF New(c) # {} THEN cycles[c].polls ELSE cycles[c].polls - 1
MissingResultPasses == 0

PollsLeft(c) == cycles[c].polls - 1
MissingResult == 1

Found(c) ==
    /\ cycles[c].pc = "polling" /\ cycles[c].polls > 0
    /\ \E i \in Candidate(c) :
         /\ HasSummary(i)
         /\ cycles' = [cycles EXCEPT ![c] = [Idle EXCEPT
                !.pc = "recording", !.rc = ReadRc(i), !.found = TRUE]]
    /\ UNCHANGED <<guard, vm, box, silent>>

PollAgain(c) ==
    /\ cycles[c].pc = "polling" /\ cycles[c].polls > 0
    /\ \A i \in Candidate(c) : ~HasSummary(i)
    /\ cycles' = [cycles EXCEPT ![c].polls = PollsLeft(c)]
    /\ UNCHANGED <<guard, vm, box, silent>>

GiveUp(c) ==
    /\ cycles[c].pc = "polling" /\ cycles[c].polls = 0
    /\ cycles' = [cycles EXCEPT ![c] = [Idle EXCEPT !.pc = "recording", !.rc = MissingResult]]
    /\ UNCHANGED <<guard, vm, box, silent>>

\* A cycle that is over looks for nothing.
Unwanted(c) == [i \in DOMAIN box |->
    [box[i] EXCEPT !.fresh = @ \ {c}, !.during = @ \ {c}]]

\* budget_guard.py record --exit-code.  Without a token figure it accounts none.
Record(c) ==
    /\ cycles[c].pc = "recording"
    /\ guard' = RecordState(guard, cycles[c].rc, 0)
    /\ cycles' = [cycles EXCEPT ![c] = Idle]
    /\ silent' = IF cycles[c].found THEN 0 ELSE Older(silent, BreakerThreshold)
    /\ box' = Unwanted(c)
    /\ UNCHANGED vm

\* The script is killed; its Worker goes on without it.
KillCycle(c) ==
    /\ cycles[c].pc # "idle"
    /\ cycles' = [cycles EXCEPT ![c] = Idle]
    /\ vm' = IF vm = c THEN "orphan" ELSE vm
    /\ box' = Unwanted(c)
    /\ UNCHANGED <<guard, silent>>

\* The cooldown passes.  Time is let pass only where something waits for it: the
\* window is never anything but empty here.
Tick ==
    /\ guard.breaker.state = "open"
    /\ guard' = [guard EXCEPT !.breaker = Aged(guard).breaker]
    /\ UNCHANGED <<cycles, vm, box, silent>>

Proceed(c) == Boot(c) \/ BootFails(c) \/ Found(c) \/ PollAgain(c) \/ GiveUp(c) \/ Record(c)

Next ==
    \/ Connect
    \/ \E i \in DOMAIN box :
         \/ \E s \in DOMAIN Shipments : Classify(i, s)
         \/ EndSummary(i)
    \/ \E c \in Cycles :
         \/ SkipCycle(c) \/ StartCycle(c) \/ Boot(c) \/ BootFails(c)
         \/ Found(c) \/ PollAgain(c) \/ GiveUp(c) \/ Record(c) \/ KillCycle(c)
    \/ WorkerEnds
    \/ Tick

Spec == Init /\ [][Next]_vars

\* A script that runs goes on, and a Worker ends by BOOT_TIMEOUT at the latest.
\* Handlers are not needed: the settle window is counted, not awaited.
Fairness == WF_vars(WorkerEnds) /\ \A c \in Cycles : WF_vars(Proceed(c))
FairSpec == Spec /\ Fairness
--------------------------------------------------------------------------------
\* What a cycle records as green or as findings was delivered while it was at
\* work, whole, and classified so by the Broker: no directory of an earlier
\* cycle, no truncated stream, no summary that is half written and no silence is
\* ever counted as a success.  (Whose Worker delivered it the code cannot tell.)
SuccessWasDelivered ==
    \A c \in Cycles : cycles[c].pc = "recording" /\ cycles[c].rc # 1 =>
        \E i \in DOMAIN box :
            /\ c \in box[i].during
            /\ box[i].whole
            /\ cycles[c].rc = box[i].rc

\* "The missing-result detection actually bites": when as many cycles in a row as
\* the threshold were recorded without evidence, the breaker is not closed,
\* whichever cycles overlapped, were skipped or were killed in between.
SilenceTrips == silent >= BreakerThreshold => guard.breaker.state # "closed"

\* A cycle ends, whatever its Worker and its handlers do: neither a Worker that
\* hangs nor a handler that never finishes its directory keeps it waiting.
EveryCycleEnds == \A c \in Cycles : cycles[c].pc # "idle" ~> cycles[c].pc = "idle"
================================================================================
