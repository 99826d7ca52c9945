-------------------------------- MODULE RunGate --------------------------------
(***************************************************************************)
(* What the budget guard promises to the jobs that ask it for permission:  *)
(* a gate with two locks.  The hold lock counts down a cooldown and the    *)
(* spending lock is shut while the window has no tokens left; a run enters *)
(* only through both.  Failure streaks, half-open trials, fan-out caps and *)
(* timestamps do not appear here: they are how scripts/budget_guard.py     *)
(* decides, BudgetCircuit shows that they decide within this contract.     *)
(***************************************************************************)
EXTENDS Integers

CONSTANTS Runs,      \* the jobs that may be in flight
          Hold,      \* seconds a tripped gate stays shut
          Allowance, \* tokens of one window
          Bills      \* what a run may cost

VARIABLES held, spent, inside
gateVars == <<held, spent, inside>>

Init == held = 0 /\ spent = 0 /\ inside = {}

\* A run enters: nothing holds the gate and the window has tokens left, the
\* window perhaps just renewed.
Enter(r) ==
    /\ r \notin inside
    /\ held = 0
    /\ spent' \in {spent, 0}
    /\ spent' < Allowance
    /\ inside' = inside \cup {r}
    /\ UNCHANGED held

\* A refused run may still find the window expired and renew it.
Refuse ==
    /\ spent' = 0
    /\ UNCHANGED <<held, inside>>

\* A run that leaves with its bill: it may lift the hold or start a new one,
\* never shorten one, and never takes tokens back.
Settle(r) ==
    /\ r \in inside
    /\ inside' = inside \ {r}
    /\ \E tokens \in Bills : spent' \in {spent + tokens, tokens}
    /\ held' \in {0, held, Hold}

\* A run that dies without a bill changes nothing else.
Vanish(r) ==
    /\ r \in inside
    /\ inside' = inside \ {r}
    /\ UNCHANGED <<held, spent>>

\* The operator, or a lost state file, opens the gate.
Lift ==
    /\ held' = 0
    /\ spent' \in {spent, 0}
    /\ UNCHANGED inside

Second ==
    /\ held > 0
    /\ held' = held - 1
    /\ UNCHANGED <<spent, inside>>

Next ==
    \/ \E r \in Runs : Enter(r) \/ Settle(r) \/ Vanish(r)
    \/ Refuse
    \/ Lift
    \/ Second

Spec == Init /\ [][Next]_gateVars
================================================================================
