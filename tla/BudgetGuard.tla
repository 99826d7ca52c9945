------------------------------ MODULE BudgetGuard ------------------------------
(***************************************************************************)
(* scripts/budget_guard.py: the content of the budget state file and what  *)
(* each command of the guard (preflight, record, reset) turns it into.     *)
(* The module has no variables; the modules that own a state file (the     *)
(* circuit in isolation, the nightly run, the improve loop, the Broker     *)
(* cycle) apply these operators to their own copy.                         *)
(*                                                                         *)
(* Time is held as ages instead of timestamps: "age" is now - opened_at in *)
(* the breaker and now - window_started_at in the window.  The code        *)
(* compares each only with one limit, so both stop growing there.  The     *)
(* streak of hard failures is only ever compared with the threshold and    *)
(* stops growing there.  The list of past runs is written for the operator *)
(* to read and is left out.                                                *)
(***************************************************************************)
EXTENDS Integers

CONSTANTS
    TokensPerRun,        \* BUDGET_TOKENS_PER_RUN, 0 switches the ceiling off
    TokensWindow,        \* BUDGET_TOKENS_WINDOW
    WindowSeconds,       \* BUDGET_WINDOW_SECONDS
    BreakerThreshold,    \* BUDGET_BREAKER_THRESHOLD
    CooldownSeconds,     \* BUDGET_BREAKER_COOLDOWN_SECONDS
    MaxFanout,           \* BUDGET_MAX_FANOUT, 0 switches the cap off
    MaxFanoutExpensive,  \* BUDGET_MAX_FANOUT_EXPENSIVE, 0 switches the cap off
    TokensPerTarget      \* BUDGET_TOKENS_PER_TARGET

\* Limits(): every knob is an integer from the environment; the defaults are
\* positive, and the three caps that document a zero as "off" may be zero.
ASSUME LimitsAssumption ==
    /\ TokensPerRun \in Nat
    /\ TokensWindow \in Nat \ {0}
    /\ WindowSeconds \in Nat \ {0}
    /\ BreakerThreshold \in Nat \ {0}
    /\ CooldownSeconds \in Nat \ {0}
    /\ MaxFanout \in Nat
    /\ MaxFanoutExpensive \in Nat
    /\ TokensPerTarget \in Nat

Breakers == [state : {"closed", "open", "half_open"},
             streak : 0..BreakerThreshold, age : 0..CooldownSeconds]
Windows == [used : Nat, age : 0..WindowSeconds]
GuardStates == [breaker : Breakers, window : Windows]

\* A fresh state file, and what load_state makes of one that is missing,
\* unreadable or of another schema: no window has been started, so the first
\* command starts one.
DefaultBreaker == [state |-> "closed", streak |-> 0, age |-> 0]
DefaultWindow == [used |-> 0, age |-> WindowSeconds]
DefaultState == [breaker |-> DefaultBreaker, window |-> DefaultWindow]

\* One second passes over the two timestamps of the file.
Older(age, limit) == IF age < limit THEN age + 1 ELSE age

Aged(g) ==
    [breaker |-> IF g.breaker.state = "closed" THEN g.breaker
                 ELSE [g.breaker EXCEPT !.age = Older(@, CooldownSeconds)],
     window |-> [g.window EXCEPT !.age = Older(@, WindowSeconds)]]

RollWindow(w) == IF w.age >= WindowSeconds THEN [used |-> 0, age |-> 0] ELSE w

Trip(b) == [state |-> "open", streak |-> b.streak, age |-> 0]

\* The exit-code contract of a run: 0 green, 2 findings, anything else hard-fail.
HardFailed(rc) == rc \notin {0, 2}

FanoutRefusal(fanout, expensive, used) ==
    /\ fanout > 0
    /\ \/ MaxFanout # 0 /\ fanout > MaxFanout
       \/ MaxFanoutExpensive # 0 /\ expensive > MaxFanoutExpensive
       \/ /\ fanout * TokensPerTarget # 0
          /\ used + fanout * TokensPerTarget > TokensWindow

\* Mutants: the cooldown is not looked at; elapsed has to exceed the cooldown,
\* which an age that stops there never does.
HalfOpenedAtOnce(b) ==
    IF b.state = "open" THEN [b EXCEPT !.state = "half_open"] ELSE b
HalfOpenedNever(b) ==
    IF b.state = "open" /\ b.age > CooldownSeconds
    THEN [b EXCEPT !.state = "half_open"] ELSE b

\* An open breaker past its cooldown lets a trial through.
HalfOpened(b) ==
    IF b.state = "open" /\ b.age >= CooldownSeconds
    THEN [b EXCEPT !.state = "half_open"] ELSE b

\* What cmd_preflight saves, whether it lets the run go or skips it.
PreflightState(g) ==
    [breaker |-> HalfOpened(g.breaker), window |-> RollWindow(g.window)]

\* Mutant: an exhausted window is not a reason to skip.
PreflightRunsUnbilled(g, fanout, expensive) ==
    LET seen == PreflightState(g)
    IN  seen.breaker.state # "open" /\ ~FanoutRefusal(fanout, expensive, seen.window.used)

\* The preflight exits 0 (RUN) exactly when none of its three skip reasons holds.
PreflightRuns(g, fanout, expensive) ==
    LET seen == PreflightState(g)
    IN  /\ seen.breaker.state # "open"
        /\ ~FanoutRefusal(fanout, expensive, seen.window.used)
        /\ seen.window.used < TokensWindow

\* A run over the per-run ceiling, or a window over its cap.
Breached(used, tokens) ==
    \/ TokensPerRun # 0 /\ tokens > TokensPerRun
    \/ used > TokensWindow

NextStreak(s) == Older(s, BreakerThreshold)

\* Mutant: the breaker trips only past the threshold.
JudgeOutcomeOffByOne(b, rc) ==
    IF ~HardFailed(rc) THEN DefaultBreaker
    ELSE LET failed == [b EXCEPT !.streak = NextStreak(@)]
         IN  IF failed.streak > BreakerThreshold THEN Trip(failed) ELSE failed

\* A hard failure lengthens the streak and trips at the threshold; any other
\* outcome clears the streak and closes the breaker, open or half-open.
JudgeOutcome(b, rc) ==
    IF ~HardFailed(rc) THEN DefaultBreaker
    ELSE LET failed == [b EXCEPT !.streak = NextStreak(@)]
         IN  IF failed.streak >= BreakerThreshold THEN Trip(failed) ELSE failed

\* Mutant: the -1 that stands for "no token figure given" is accounted as it is.
RecordStateSentinel(g, rc, tokens) ==
    LET counted == [RollWindow(g.window) EXCEPT !.used = @ + IF tokens = 0 THEN -1 ELSE tokens]
    IN  [breaker |-> JudgeOutcome(g.breaker, rc), window |-> counted]

\* cmd_record: account the tokens, judge the outcome, and let a breach trip the
\* breaker whatever the outcome was.
RecordState(g, rc, tokens) ==
    LET counted == [RollWindow(g.window) EXCEPT !.used = @ + tokens]
        judged  == JudgeOutcome(g.breaker, rc)
    IN  [breaker |-> IF Breached(counted.used, tokens) THEN Trip(judged) ELSE judged,
         window |-> counted]

\* cmd_reset: the breaker back to its default, the window only when asked.
ResetState(g, clearWindow) ==
    [breaker |-> DefaultBreaker,
     window |-> IF clearWindow THEN DefaultWindow ELSE g.window]
================================================================================
