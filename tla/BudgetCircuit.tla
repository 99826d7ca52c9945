----------------------------- MODULE BudgetCircuit -----------------------------
(***************************************************************************)
(* The state file of scripts/budget_guard.py and the jobs that share it:   *)
(* each job asks preflight for permission, works, and records its outcome  *)
(* and its tokens.  Nothing in the code serialises the jobs, so a nightly  *)
(* cron run, a manual run and a portfolio sweep may overlap; and a job may *)
(* end without recording, because every hard_fail of nightly-audit.sh and  *)
(* of improve-loop.sh exits before the record call, and so does a kill.    *)
(* One guard command is one step: it reads the file, computes and replaces *)
(* it (see the README for the lost update this leaves out).                *)
(***************************************************************************)
EXTENDS BudgetGuard, FiniteSets

CONSTANTS
    Runs,        \* jobs that may be in flight at once
    TokenCosts,  \* what one run may cost
    MaxCost,     \* the largest of them
    Widths       \* pairs <<fanout, expensive>> a preflight may announce

ASSUME JobsAssumption ==
    /\ IsFiniteSet(Runs)
    /\ MaxCost \in Nat
    /\ TokenCosts \subseteq 0..MaxCost
    /\ Widths \subseteq Nat \X Nat

VARIABLES
    guard,    \* the content of the state file
    running   \* the runs between preflight and record

vars == <<guard, running>>

ExitCodes == {0, 1, 2}

TypeOK ==
    /\ guard \in GuardStates
    /\ running \subseteq Runs

Init ==
    /\ guard = DefaultState
    /\ running = {}

\* preflight exits 0.
Admit(r, width) ==
    /\ r \notin running
    /\ PreflightRuns(guard, width[1], width[2])
    /\ guard' = PreflightState(guard)
    /\ running' = running \cup {r}

\* preflight exits 75, which saves the state file all the same.
Skip(r, width) ==
    /\ r \notin running
    /\ ~PreflightRuns(guard, width[1], width[2])
    /\ guard' = PreflightState(guard)
    /\ UNCHANGED running

Record(r, rc, tokens) ==
    /\ r \in running
    /\ guard' = RecordState(guard, rc, tokens)
    /\ running' = running \ {r}

\* The job ends between its preflight and its record.
Abort(r) ==
    /\ r \in running
    /\ running' = running \ {r}
    /\ UNCHANGED guard

Reset(clearWindow) ==
    /\ guard' = ResetState(guard, clearWindow)
    /\ UNCHANGED running

\* The gitignored file is deleted or damaged: load_state starts over.
LoseStateFile ==
    /\ guard' = DefaultState
    /\ UNCHANGED running

Tick ==
    /\ guard' = Aged(guard)
    /\ UNCHANGED running

Next ==
    \/ \E r \in Runs, width \in Widths : Admit(r, width) \/ Skip(r, width)
    \/ \E r \in Runs, rc \in ExitCodes, tokens \in TokenCosts : Record(r, rc, tokens)
    \/ \E r \in Runs : Abort(r)
    \/ \E clearWindow \in BOOLEAN : Reset(clearWindow)
    \/ LoseStateFile
    \/ Tick

Spec == Init /\ [][Next]_vars

\* The clock runs; every run ends (timeout(1) around each gate, and the cron
\* job's timeoutSeconds around the whole); and the cron job, which announces no
\* fan-out, comes back every night.
Nightly(r) == LET single == <<0, 0>> IN Admit(r, single) \/ Skip(r, single)

Fairness ==
    /\ WF_vars(Tick)
    /\ \A r \in Runs :
         /\ WF_vars(Nightly(r))
         /\ WF_vars(Abort(r) \/ \E rc \in ExitCodes, tokens \in TokenCosts :
                                   Record(r, rc, tokens))

FairSpec == Spec /\ Fairness
--------------------------------------------------------------------------------
\* A streak that has reached the threshold never leaves the breaker closed,
\* whichever runs overlapped and in whatever order they recorded: the
\* "N consecutive hard failures" promise of the module's docstring, over every
\* path through preflight, record and reset.
StreakTrips == guard.breaker.streak >= BreakerThreshold => guard.breaker.state # "closed"

\* The window cap is checked before a run and accounted after it, so it can be
\* overshot, but by no more than one bill for every run that was let in while
\* tokens were left: runs in flight have their bill still to come.
OverspendBounded ==
    guard.window.used + Cardinality(running) * MaxCost
        <= (TokensWindow - 1) + Cardinality(Runs) * MaxCost

\* The seconds the breaker still has to stay open.
HeldFor == IF guard.breaker.state = "open" THEN CooldownSeconds - guard.breaker.age ELSE 0

Gate == INSTANCE RunGate WITH
    Hold <- CooldownSeconds, Allowance <- TokensWindow, Bills <- TokenCosts,
    held <- HeldFor, spent <- guard.window.used, inside <- running

\* The guard implements the two-lock gate: no run starts inside a cooldown or
\* with an empty window, a cooldown only ends early through a recorded success,
\* an operator or a lost file, and it is never merely shortened.
ImplementsGate == Gate!Spec

\* The breaker never shuts for good: whatever fails, a run is let in again,
\* as often as one waits ("it re-arms automatically after the cooldown").
KeepsAdmitting == []<><<\E r \in Runs : r \notin running /\ r \in running'>>_vars
================================================================================
