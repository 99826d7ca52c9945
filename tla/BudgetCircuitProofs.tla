------------------------- MODULE BudgetCircuitProofs -------------------------
(***************************************************************************)
(* What BudgetCircuit promises for every choice of limits, jobs and costs. *)
(* BudgetGuardProofs says what each command of the guard does to the       *)
(* breaker and to the window; the theorems use that, not the commands.     *)
(***************************************************************************)
EXTENDS BudgetCircuit, BudgetGuardProofs, FiniteSetTheorems, TLAPS

\* StreakTrips is inductive once the file is known to be well formed.
Inv == TypeOK /\ Tripped(guard.breaker)

\* A fresh state file is well formed and its breaker has nothing to trip for.
LEMMA InvInit == Init => Inv
  <1> SUFFICES ASSUME Init  PROVE Inv
    OBVIOUS
  <1>1. TypeOK
    BY ResetFacts DEF Init, TypeOK
  <1>2. guard.breaker.streak = 0 /\ ~(0 >= BreakerThreshold)
    BY ResetFacts, LimitsAssumption DEF LimitsAssumption, Init
  <1> QED  BY <1>1, <1>2 DEF Inv, Tripped

\* No command, and no second on the clock, breaks the invariant.
LEMMA InvNext == Inv /\ [Next]_vars => Inv'
  <1> SUFFICES ASSUME Inv, [Next]_vars  PROVE Inv'
    OBVIOUS
  <1> USE DEF Inv, TypeOK
  <1>1. ASSUME NEW r \in Runs, NEW width \in Widths, Admit(r, width)  PROVE Inv'
    BY <1>1, PreflightFacts DEF Admit
  <1>2. ASSUME NEW r \in Runs, NEW width \in Widths, Skip(r, width)  PROVE Inv'
    BY <1>2, PreflightFacts DEF Skip
  <1>3. ASSUME NEW r \in Runs, NEW rc \in ExitCodes, NEW tokens \in TokenCosts,
               Record(r, rc, tokens)
        PROVE  Inv'
    BY <1>3, RecordFacts, JobsAssumption DEF JobsAssumption, Record
  <1>4. ASSUME NEW r \in Runs, Abort(r)  PROVE Inv'
    BY <1>4 DEF Abort
  <1>5. ASSUME NEW clearWindow \in BOOLEAN, Reset(clearWindow)  PROVE Inv'
    BY <1>5, ResetFacts, LimitsAssumption DEF LimitsAssumption, Reset, Tripped
  <1>6. CASE LoseStateFile
    BY <1>6, ResetFacts, LimitsAssumption DEF LimitsAssumption, LoseStateFile, Tripped
  <1>7. CASE Tick
    BY <1>7, AgedFacts DEF Tick, Tripped
  <1>8. CASE UNCHANGED vars
    BY <1>8 DEF vars
  <1> QED  BY <1>1, <1>2, <1>3, <1>4, <1>5, <1>6, <1>7, <1>8 DEF Next

\* The state file stays well formed: the counters stay in range and the breaker
\* in one of its three states, whatever sequence of commands is run.
THEOREM TypeCorrect == Spec => []TypeOK
  <1>1. Inv => TypeOK
    BY DEF Inv
  <1> QED  BY InvInit, InvNext, <1>1, PTL DEF Spec

\* N consecutive hard failures always leave the breaker tripped, however the
\* runs that recorded them overlapped.
THEOREM StreakAlwaysTrips == Spec => []StreakTrips
  <1>1. Inv => StreakTrips
    BY DEF Inv, Tripped, StreakTrips
  <1> QED  BY InvInit, InvNext, <1>1, PTL DEF Spec
--------------------------------------------------------------------------------
\* The bill of the runs in flight shrinks by one run's when a run leaves, and
\* never passes the bill of all runs.
LEMMA RunningBill ==
    ASSUME NEW R \in SUBSET Runs
    PROVE  /\ IsFiniteSet(R)
           /\ Cardinality(R) \in Nat /\ Cardinality(Runs) \in Nat
           /\ Cardinality(R) * MaxCost <= Cardinality(Runs) * MaxCost
           /\ \A r \in R : Cardinality(R \ {r}) * MaxCost + MaxCost = Cardinality(R) * MaxCost
  <1>1. IsFiniteSet(Runs) /\ MaxCost \in Nat
    BY JobsAssumption DEF JobsAssumption
  <1>2. /\ IsFiniteSet(R) /\ Cardinality(R) \in Nat /\ Cardinality(Runs) \in Nat
        /\ Cardinality(R) <= Cardinality(Runs)
    BY <1>1, FS_Subset, FS_CardinalityType
  <1>3. Cardinality(R) * MaxCost <= Cardinality(Runs) * MaxCost
    BY <1>1, <1>2
  <1>4. ASSUME NEW r \in R
        PROVE  Cardinality(R \ {r}) * MaxCost + MaxCost = Cardinality(R) * MaxCost
    <2>1. Cardinality(R \ {r}) = Cardinality(R) - 1
      BY <1>2, FS_RemoveElement
    <2>2. (Cardinality(R) - 1) * MaxCost + MaxCost = Cardinality(R) * MaxCost
      BY <1>1, <1>2
    <2> QED  BY <2>1, <2>2
  <1> QED  BY <1>2, <1>3, <1>4

\* A fresh window has spent nothing.
LEMMA OverspendInit == Init => OverspendBounded
  <1> SUFFICES ASSUME Init  PROVE OverspendBounded
    OBVIOUS
  <1>1. guard.window.used = 0 /\ running = {}
    BY ResetFacts DEF Init
  <1>2. Cardinality({}) * MaxCost <= Cardinality(Runs) * MaxCost
    BY RunningBill
  <1>3. Cardinality({}) * MaxCost \in Nat /\ Cardinality(Runs) * MaxCost \in Nat
    BY RunningBill, JobsAssumption DEF JobsAssumption
  <1> QED  BY <1>1, <1>2, <1>3, LimitsAssumption DEF LimitsAssumption, OverspendBounded

\* A run let in found tokens left, so the whole bound is free for the runs in
\* flight; a run that records moves its share of the bound into the window.
LEMMA OverspendNext == Inv /\ OverspendBounded /\ [Next]_vars => OverspendBounded'
  <1> SUFFICES ASSUME Inv, OverspendBounded, [Next]_vars  PROVE OverspendBounded'
    OBVIOUS
  <1> DEFINE Bill(R) == Cardinality(R) * MaxCost
             cap == (TokensWindow - 1) + Bill(Runs)
  <1>1. guard \in GuardStates /\ running \in SUBSET Runs /\ guard.window.used \in Nat
    BY DEF Inv, TypeOK, GuardStates, Windows
  <1>3. guard' \in GuardStates /\ running' \in SUBSET Runs /\ guard'.window.used \in Nat
    BY InvNext DEF Inv, TypeOK, GuardStates, Windows
  <1>4. /\ Bill(running) \in Nat /\ Bill(running') \in Nat /\ cap \in Nat
        /\ Bill(running') <= Bill(Runs) /\ Bill(Runs) \in Nat
    BY <1>1, <1>3, RunningBill, LimitsAssumption, JobsAssumption
    DEF LimitsAssumption, JobsAssumption
  <1>5. \A r \in running : Bill(running \ {r}) + MaxCost = Bill(running)
    BY <1>1, RunningBill
  <1>6. OverspendBounded <=> guard.window.used + Bill(running) <= cap
    BY DEF OverspendBounded
  <1>7. OverspendBounded' <=> guard'.window.used + Bill(running') <= cap
    BY DEF OverspendBounded
  <1> HIDE DEF Bill, cap
  <1>8. ASSUME NEW r \in Runs, NEW width \in Widths, Admit(r, width)
        PROVE  OverspendBounded'
    <2>1. guard'.window.used < TokensWindow
      BY <1>8 DEF Admit, PreflightRuns
    <2> QED
      BY <1>3, <1>4, <1>7, <2>1, LimitsAssumption DEF LimitsAssumption, cap
  <1>9. ASSUME NEW r \in Runs, NEW rc \in ExitCodes, NEW tokens \in TokenCosts,
               Record(r, rc, tokens)
        PROVE  OverspendBounded'
    <2>1. guard'.window.used \in {guard.window.used + tokens, tokens}
      BY <1>1, <1>9, RecordFacts, JobsAssumption DEF JobsAssumption, Record
    <2>2. Bill(running') + MaxCost = Bill(running)
      BY <1>5, <1>9 DEF Record
    <2>3. tokens \in Nat /\ tokens <= MaxCost /\ MaxCost \in Nat
      BY JobsAssumption DEF JobsAssumption
    <2> QED  BY <1>1, <1>3, <1>4, <1>6, <1>7, <2>1, <2>2, <2>3
  <1>10. ASSUME NEW r \in Runs, Abort(r)  PROVE OverspendBounded'
    <2>1. Bill(running') + MaxCost = Bill(running) /\ guard' = guard
      BY <1>5, <1>10 DEF Abort
    <2> QED
      BY <1>1, <1>4, <1>6, <1>7, <2>1, JobsAssumption DEF JobsAssumption
  <1>11. ASSUME running' = running, guard'.window.used \in {guard.window.used, 0}
         PROVE  OverspendBounded'
    BY <1>1, <1>4, <1>6, <1>7, <1>11
  <1>12. ASSUME NEW r \in Runs, NEW width \in Widths, Skip(r, width)
         PROVE  OverspendBounded'
    BY <1>1, <1>11, <1>12, PreflightFacts DEF Skip
  <1>13. ASSUME NEW clearWindow \in BOOLEAN, Reset(clearWindow)  PROVE OverspendBounded'
    BY <1>1, <1>11, <1>13, ResetFacts DEF Reset
  <1>14. CASE LoseStateFile
    BY <1>11, <1>14, ResetFacts DEF LoseStateFile
  <1>15. CASE Tick
    BY <1>1, <1>11, <1>15, AgedFacts DEF Tick
  <1>16. CASE UNCHANGED vars
    BY <1>11, <1>16 DEF vars
  <1> QED
    BY <1>8, <1>9, <1>10, <1>12, <1>13, <1>14, <1>15, <1>16 DEF Next

\* However many runs are in flight and whatever they cost, the window is
\* overshot by at most one bill per run.
THEOREM OverspendAlwaysBounded == Spec => []OverspendBounded
  BY InvInit, InvNext, OverspendInit, OverspendNext, PTL DEF Spec
--------------------------------------------------------------------------------
\* A fresh state file is an open gate.
LEMMA GateInit == Init => Gate!Init
  BY ResetFacts DEF Init, Gate!Init, HeldFor

\* What a change of the breaker does to the hold of the gate.
LEMMA HeldAfter ==
    ASSUME NEW b \in Breakers, NEW after \in Breakers, CooldownKept(b, after)
    PROVE  (IF after.state = "open" THEN CooldownSeconds - after.age ELSE 0)
             \in {0, IF b.state = "open" THEN CooldownSeconds - b.age ELSE 0,
                  CooldownSeconds}
  BY LimitsAssumption DEF LimitsAssumption, CooldownKept, Breakers

\* Every command is a step of the gate: preflight enters or refuses, record
\* settles, an aborted run vanishes, and reset and a lost file lift the hold.
LEMMA GateNext == Inv /\ [Next]_vars => [Gate!Next]_(Gate!gateVars)
  <1> SUFFICES ASSUME Inv, [Next]_vars  PROVE [Gate!Next]_(Gate!gateVars)
    OBVIOUS
  <1>1. /\ guard \in GuardStates /\ guard' \in GuardStates
        /\ guard.breaker \in Breakers /\ guard'.breaker \in Breakers
    BY InvNext DEF Inv, TypeOK, GuardStates
  <1>2. CooldownSeconds \in Nat
    BY LimitsAssumption DEF LimitsAssumption
  <1>3. ASSUME guard'.breaker = HalfOpened(guard.breaker)  PROVE HeldFor' = HeldFor
    BY <1>1, <1>2, <1>3, HalfOpenedFacts DEF HeldFor, Breakers
  <1>4. ASSUME NEW r \in Runs, NEW width \in Widths, Admit(r, width)
        PROVE  Gate!Enter(r)
    <2>1. HeldFor' = HeldFor /\ guard'.window.used \in {guard.window.used, 0}
      BY <1>1, <1>3, <1>4, PreflightFacts DEF Admit
    <2>2. guard'.breaker.state # "open" /\ guard'.window.used < TokensWindow
      BY <1>4 DEF Admit, PreflightRuns
    <2>3. HeldFor' = 0
      BY <2>2 DEF HeldFor
    <2> QED  BY <1>4, <2>1, <2>2, <2>3 DEF Admit, Gate!Enter
  <1>5. ASSUME NEW r \in Runs, NEW width \in Widths, Skip(r, width)
        PROVE  Gate!Refuse \/ UNCHANGED Gate!gateVars
    <2>1. HeldFor' = HeldFor /\ guard'.window.used \in {guard.window.used, 0}
      BY <1>1, <1>3, <1>5, PreflightFacts DEF Skip
    <2> QED  BY <1>5, <2>1 DEF Skip, Gate!Refuse, Gate!gateVars
  <1>6. ASSUME NEW r \in Runs, NEW rc \in ExitCodes, NEW tokens \in TokenCosts,
               Record(r, rc, tokens)
        PROVE  Gate!Settle(r)
    <2>1. /\ guard'.window.used \in {guard.window.used + tokens, tokens}
          /\ CooldownKept(guard.breaker, guard'.breaker)
      BY <1>1, <1>6, RecordFacts, JobsAssumption DEF JobsAssumption, Record
    <2>2. HeldFor' \in {0, HeldFor, CooldownSeconds}
      BY <1>1, <2>1, HeldAfter DEF HeldFor
    <2> QED  BY <1>6, <2>1, <2>2 DEF Record, Gate!Settle
  <1>7. ASSUME NEW r \in Runs, Abort(r)  PROVE Gate!Vanish(r)
    BY <1>7 DEF Abort, Gate!Vanish, HeldFor
  <1>8. ASSUME NEW clearWindow \in BOOLEAN, Reset(clearWindow)  PROVE Gate!Lift
    BY <1>1, <1>8, ResetFacts DEF Reset, Gate!Lift, HeldFor
  <1>9. ASSUME LoseStateFile  PROVE Gate!Lift
    <2>1. /\ guard'.breaker.state = "closed" /\ guard'.window.used = 0
          /\ running' = running
      BY <1>9, ResetFacts DEF LoseStateFile
    <2>2. HeldFor' = 0
      BY <2>1 DEF HeldFor
    <2> QED  BY <2>1, <2>2 DEF Gate!Lift
  <1>10. ASSUME Tick  PROVE Gate!Second \/ UNCHANGED Gate!gateVars
    <2>1. /\ guard'.breaker.state = guard.breaker.state
          /\ guard'.window.used = guard.window.used
          /\ guard.breaker.state = "open" =>
               guard'.breaker.age = Older(guard.breaker.age, CooldownSeconds)
      BY <1>1, <1>10, AgedFacts DEF Tick
    <2>2. guard.breaker.age \in 0..CooldownSeconds
      BY <1>1 DEF Breakers
    <2>3. HeldFor' = HeldFor \/ (HeldFor > 0 /\ HeldFor' = HeldFor - 1)
      BY <1>2, <2>1, <2>2 DEF HeldFor, Older
    <2>4. running' = running
      BY <1>10 DEF Tick
    <2>5. CASE HeldFor' = HeldFor
      BY <2>1, <2>4, <2>5 DEF Gate!gateVars
    <2>6. CASE HeldFor > 0 /\ HeldFor' = HeldFor - 1
      BY <2>1, <2>4, <2>6 DEF Gate!Second
    <2> QED  BY <2>3, <2>5, <2>6
  <1>11. CASE UNCHANGED vars
    BY <1>11 DEF vars, Gate!gateVars, HeldFor
  <1> QED
    BY <1>4, <1>5, <1>6, <1>7, <1>8, <1>9, <1>10, <1>11 DEF Next, Gate!Next

\* Every behaviour of the guard is one of the two-lock gate: no run starts
\* inside a cooldown or without tokens, and a cooldown ends early only through
\* a recorded success, the operator or a lost file.
THEOREM GateRefined == Spec => ImplementsGate
  BY InvInit, InvNext, GateInit, GateNext, PTL DEF Spec, ImplementsGate, Gate!Spec
================================================================================
