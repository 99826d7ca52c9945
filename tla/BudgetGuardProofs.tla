-------------------------- MODULE BudgetGuardProofs --------------------------
(***************************************************************************)
(* What each command of the budget guard does to the breaker and to the    *)
(* window of the state file, for every setting of the limits.  The proofs  *)
(* about the models that own a state file use these facts and leave the    *)
(* definitions of the commands closed.                                     *)
(***************************************************************************)
EXTENDS BudgetGuard, TLAPS

\* A command either leaves the cooldown of the breaker alone, or lifts it, or
\* starts a whole new one.
CooldownKept(b, after) ==
    \/ after.state = b.state /\ after.age = b.age
    \/ after.state # "open"
    \/ after.state = "open" /\ after.age = 0

\* The strengthening of StreakTrips that names the breaker it is about.
Tripped(b) == b.streak >= BreakerThreshold => b.state # "closed"

\* Rolling the window never adds tokens.
LEMMA RollWindowFacts ==
    ASSUME NEW w \in Windows
    PROVE  RollWindow(w) \in Windows /\ RollWindow(w).used \in {w.used, 0}
  BY LimitsAssumption DEF LimitsAssumption, RollWindow, Windows

\* Only a breaker past its cooldown half opens, and nothing else of it moves.
LEMMA HalfOpenedFacts ==
    ASSUME NEW b \in Breakers
    PROVE  /\ HalfOpened(b) \in Breakers
           /\ HalfOpened(b).streak = b.streak
           /\ HalfOpened(b).age = b.age
           /\ HalfOpened(b).state = "closed" <=> b.state = "closed"
           /\ HalfOpened(b).state = "open" =>
                b.state = "open" /\ b.age < CooldownSeconds
           /\ b.state = "open" /\ HalfOpened(b).state # "open" =>
                b.age = CooldownSeconds
  BY LimitsAssumption DEF LimitsAssumption, HalfOpened, Breakers

\* Judging an outcome never shortens a cooldown, and trips on a full streak.
LEMMA JudgeFacts ==
    ASSUME NEW b \in Breakers, NEW rc
    PROVE  /\ JudgeOutcome(b, rc) \in Breakers
           /\ Tripped(JudgeOutcome(b, rc))
           /\ CooldownKept(b, JudgeOutcome(b, rc))
  <1>1. BreakerThreshold \in Nat \ {0} /\ CooldownSeconds \in Nat
    BY LimitsAssumption DEF LimitsAssumption
  <1>2. CASE ~HardFailed(rc)
    BY <1>1, <1>2
    DEF JudgeOutcome, DefaultBreaker, Breakers, Tripped, CooldownKept
  <1>3. CASE HardFailed(rc)
    <2> DEFINE failed == [b EXCEPT !.streak = NextStreak(@)]
    <2>1. failed \in Breakers /\ failed.state = b.state /\ failed.age = b.age
      BY <1>1 DEF NextStreak, Older, Breakers
    <2>2. JudgeOutcome(b, rc) =
            IF failed.streak >= BreakerThreshold THEN Trip(failed) ELSE failed
      BY <1>3 DEF JudgeOutcome
    <2> HIDE DEF failed
    <2> QED
      BY <1>1, <2>1, <2>2 DEF Trip, Breakers, Tripped, CooldownKept
  <1> QED  BY <1>2, <1>3

\* Recording accounts the whole bill, on the running window or on a new one,
\* and treats the breaker as judging does.
LEMMA RecordFacts ==
    ASSUME NEW g \in GuardStates, NEW rc, NEW tokens \in Nat
    PROVE  /\ RecordState(g, rc, tokens) \in GuardStates
           /\ RecordState(g, rc, tokens).window.used \in {g.window.used + tokens, tokens}
           /\ Tripped(RecordState(g, rc, tokens).breaker)
           /\ CooldownKept(g.breaker, RecordState(g, rc, tokens).breaker)
  <1> DEFINE rolled == RollWindow(g.window)
             counted == [rolled EXCEPT !.used = @ + tokens]
             judged == JudgeOutcome(g.breaker, rc)
  <1>1. tokens \in Nat
    OBVIOUS
  <1>2. g.breaker \in Breakers /\ g.window \in Windows
    BY DEF GuardStates
  <1>3. rolled \in Windows /\ rolled.used \in {g.window.used, 0}
    BY <1>2, RollWindowFacts
  <1>4. counted \in Windows /\ counted.used \in {g.window.used + tokens, tokens}
    <2> HIDE DEF rolled
    <2> QED  BY <1>1, <1>2, <1>3 DEF Windows
  <1>5. judged \in Breakers /\ Tripped(judged) /\ CooldownKept(g.breaker, judged)
    BY <1>2, JudgeFacts
  <1>6. /\ RecordState(g, rc, tokens).window = counted
        /\ RecordState(g, rc, tokens).breaker \in {judged, Trip(judged)}
        /\ RecordState(g, rc, tokens) =
             [breaker |-> RecordState(g, rc, tokens).breaker, window |-> counted]
    BY DEF RecordState
  <1>7. /\ Trip(judged) \in Breakers /\ Tripped(Trip(judged))
        /\ CooldownKept(g.breaker, Trip(judged))
    <2> HIDE DEF judged
    <2> QED
      BY <1>5, LimitsAssumption
      DEF LimitsAssumption, Trip, Breakers, Tripped, CooldownKept
  <1> HIDE DEF judged, counted
  <1> QED  BY <1>4, <1>5, <1>6, <1>7 DEF GuardStates

\* A hard failure lengthens the streak, any other outcome ends it, and a breach
\* does neither.
LEMMA RecordStreak ==
    ASSUME NEW g \in GuardStates, NEW rc, NEW tokens
    PROVE  RecordState(g, rc, tokens).breaker.streak =
             IF HardFailed(rc) THEN Older(g.breaker.streak, BreakerThreshold) ELSE 0
  <1> DEFINE judged == JudgeOutcome(g.breaker, rc)
             streak == IF HardFailed(rc) THEN Older(g.breaker.streak, BreakerThreshold) ELSE 0
  <1>1. RecordState(g, rc, tokens).breaker \in {judged, Trip(judged)}
    BY DEF RecordState
  <1>2. judged.streak = streak
    <2>1. CASE ~HardFailed(rc)
      BY <2>1 DEF JudgeOutcome, DefaultBreaker
    <2>2. CASE HardFailed(rc)
      <3> DEFINE failed == [g.breaker EXCEPT !.streak = NextStreak(@)]
      <3>1. failed.streak = streak
        BY <2>2 DEF NextStreak, GuardStates, Breakers
      <3>2. judged \in {failed, Trip(failed)}
        BY <2>2 DEF JudgeOutcome
      <3> HIDE DEF failed, judged, streak
      <3> QED  BY <3>1, <3>2 DEF Trip
    <2> QED  BY <2>1, <2>2
  <1> HIDE DEF judged, streak
  <1>3. Trip(judged).streak = judged.streak
    BY DEF Trip
  <1> QED  BY <1>1, <1>2, <1>3 DEF streak

\* A fresh file and a reset one are closed, and a reset adds no tokens.
LEMMA ResetFacts ==
    /\ DefaultState \in GuardStates
    /\ DefaultState.breaker.state = "closed"
    /\ DefaultState.breaker.streak = 0
    /\ DefaultState.window.used = 0
    /\ \A g \in GuardStates, clearWindow \in BOOLEAN :
         /\ ResetState(g, clearWindow) \in GuardStates
         /\ ResetState(g, clearWindow).breaker.state = "closed"
         /\ ResetState(g, clearWindow).breaker.streak = 0
         /\ ResetState(g, clearWindow).window.used \in {g.window.used, 0}
  BY LimitsAssumption
  DEF LimitsAssumption, DefaultState, DefaultBreaker, DefaultWindow, ResetState,
      GuardStates, Breakers, Windows

\* A second moves the cooldown of a tripped breaker and nothing else of it.
LEMMA AgedFacts ==
    ASSUME NEW g \in GuardStates
    PROVE  /\ Aged(g) \in GuardStates
           /\ Aged(g).breaker.state = g.breaker.state
           /\ Aged(g).breaker.streak = g.breaker.streak
           /\ Aged(g).window.used = g.window.used
           /\ g.breaker.state = "open" =>
                Aged(g).breaker.age = Older(g.breaker.age, CooldownSeconds)
  <1>1. g.breaker \in Breakers /\ g.window \in Windows
    BY DEF GuardStates
  <1>2. /\ Older(g.breaker.age, CooldownSeconds) \in 0..CooldownSeconds
        /\ Older(g.window.age, WindowSeconds) \in 0..WindowSeconds
    BY <1>1, LimitsAssumption DEF LimitsAssumption, Older, Breakers, Windows
  <1>3. /\ [g.breaker EXCEPT !.age = Older(@, CooldownSeconds)] \in Breakers
        /\ [g.window EXCEPT !.age = Older(@, WindowSeconds)] \in Windows
    BY <1>1, <1>2 DEF Breakers, Windows
  <1> QED  BY <1>1, <1>3 DEF Aged, GuardStates, Breakers, Windows
\* Whatever preflight decides, these are its effects on the state file.
LEMMA PreflightFacts ==
    ASSUME NEW g \in GuardStates
    PROVE  /\ PreflightState(g) \in GuardStates
           /\ PreflightState(g).window.used \in {g.window.used, 0}
           /\ PreflightState(g).breaker = HalfOpened(g.breaker)
           /\ Tripped(g.breaker) => Tripped(PreflightState(g).breaker)
  <1>1. g.breaker \in Breakers /\ g.window \in Windows
    BY DEF GuardStates
  <1>2. /\ PreflightState(g) = [breaker |-> HalfOpened(g.breaker), window |-> RollWindow(g.window)]
    BY DEF PreflightState
  <1>3. RollWindow(g.window) \in Windows /\ RollWindow(g.window).used \in {g.window.used, 0}
    BY <1>1, RollWindowFacts
  <1>4. /\ HalfOpened(g.breaker) \in Breakers
        /\ Tripped(g.breaker) => Tripped(HalfOpened(g.breaker))
    BY <1>1, HalfOpenedFacts DEF Tripped
  <1>5. /\ PreflightState(g).breaker = HalfOpened(g.breaker)
        /\ PreflightState(g).window = RollWindow(g.window)
    BY <1>2
  <1>6. PreflightState(g) \in GuardStates
    BY <1>2, <1>3, <1>4 DEF GuardStates
  <1> QED  BY <1>3, <1>4, <1>5, <1>6
================================================================================
