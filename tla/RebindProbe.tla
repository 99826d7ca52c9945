------------------------------ MODULE RebindProbe ------------------------------
(***************************************************************************)
(* The rebinding gate (scripts/rebind_probe.py), which nightly-audit.sh    *)
(* starts after the boot gate: with an allow-list configured it boots the  *)
(* target once without and once with a token, asks it under three names it *)
(* must refuse and under one it must serve, and tells apart a control that *)
(* is in force, one that is broken and one that was never configured.      *)
(***************************************************************************)
EXTENDS ServerBoot

VARIABLES
    rebind,     \* where the gate is
    heard,      \* the outcomes of the probes of both passes of the current transport
    control,    \* what it concluded for each transport
    rebindRc    \* its exit code, once there is one

rebindVars == <<rebind, heard, control, rebindRc>>
gatesVars == <<processVars, bootVars, rebindVars>>

\* build_cases: a name never allowed, the allowed name at a wrong port, the allowed
\* name with a foreign origin; and, as control, what is allowed.
Cases == <<"foreign-host", "wrong-port", "foreign-origin", "allowed">>
Hostile == {"foreign-host", "wrong-port", "foreign-origin"}
Names == Hostile \cup {"allowed"}
Passes == 1..2     \* no token, a valid token

\* What only the network transports have.
Network == {"streamable-http", "sse"}

\* Served with a result; served without one; refused; refused with 401; no answer.
Outcomes == {"let_through", "hollow", "rejected", "rejected_auth", "errored"}
Controls == {"enforced", "token-bypasses-host-check", "partial-enforcement",
             "host-check-absent", "inconclusive"}

\* What the target makes of each name, in each pass, under each transport.
ASSUME RebindAssumption == \A t \in Targets :
    t.inbound \in [Network -> [Passes -> [Names -> Outcomes \cup {Endless}]]]

RebindStates == [pc : {"idle", "pick", "spawn", "wait", "resolve", "ask", "done"},
                 queue : SUBSET Transports, pass : Passes, known : BOOLEAN]

GatesTypeOK ==
    /\ BootTypeOK
    /\ rebind \in RebindStates
    /\ heard \in [Passes -> Seq(Outcomes)]
    /\ control \in [Transports -> Controls \cup {None}]
    /\ rebindRc \in {0, 2, 3, 4, 124, 127, NoCode}

Unheard == [p \in Passes |-> <<>>]

GatesInit ==
    /\ BootInit
    /\ rebind = [pc |-> "idle", queue |-> {}, pass |-> 1, known |-> FALSE]
    /\ heard = Unheard
    /\ control = [tr \in Transports |-> None]
    /\ rebindRc = NoCode
--------------------------------------------------------------------------------
(* What the probes of a pass, and both passes, say.                            *)

\* Mutant: the allowed name need not be served.
UncontrolledVerdict(o) ==
    IF Len(o) < 4 \/ \E k \in DOMAIN o : o[k] = "errored" THEN "inconclusive"
    ELSE IF \E k \in 1..3 : o[k] \in {"let_through", "hollow"} THEN "not-enforced"
    ELSE "enforced"

\* _pass_verdict, of no probe at all when the pass could not be carried out.
PassVerdict(o) ==
    IF Len(o) < 4 THEN "inconclusive"
    ELSE IF o[4] # "let_through" THEN "inconclusive"
    ELSE IF \E k \in 1..3 : o[k] = "errored" THEN "inconclusive"
    ELSE IF \E k \in 1..3 : o[k] \in {"let_through", "hollow"} THEN "not-enforced"
    ELSE IF \E k \in 1..3 : o[k] = "rejected_auth" THEN "inconclusive"
    ELSE "enforced"

Refusal(outcome) == outcome \in {"rejected", "rejected_auth"}

\* _partially_enforced: within one pass, some hostile probes refused and some not.
Partial(o) ==
    /\ PassVerdict(o) = "not-enforced"
    /\ \E k, l \in 1..3 : Refusal(o[k]) /\ ~Refusal(o[l])

\* probe_transport.  A pass that could not be carried out outranks everything; what
\* a pass shows outranks a pass that shows nothing.
ControlOf(h) ==
    LET v == [p \in Passes |-> PassVerdict(h[p])] IN
    IF \E p \in Passes : Len(h[p]) < 4 THEN "inconclusive"
    ELSE IF v[1] = "enforced" /\ v[2] = "not-enforced" THEN "token-bypasses-host-check"
    ELSE IF \E p \in Passes : Partial(h[p]) THEN "partial-enforcement"
    ELSE IF "not-enforced" \in {v[1], v[2]} THEN "host-check-absent"
    ELSE IF "inconclusive" \in {v[1], v[2]} THEN "inconclusive"
    ELSE "enforced"

\* classify, with the knob that the target's own tree names.
CodeOf(found, knob) ==
    IF found \cap {"inconclusive", "token-bypasses-host-check", "partial-enforcement"} # {}
        THEN 2
    ELSE IF "host-check-absent" \in found THEN (IF knob THEN 2 ELSE 3)
    ELSE 0
--------------------------------------------------------------------------------
Tested == First(rebind.queue)

StoppedForGood == Stopped /\ port' = "free"
Quiet == UNCHANGED bootVars

\* Without a network transport there is nothing to ask.  What the boot gate knew is
\* forgotten; a process that it left running keeps the port it has.
StartRebind ==
    /\ boot.pc = "done" /\ rebind.pc = "idle"
    /\ rebind' = [rebind EXCEPT !.pc = "pick", !.queue = Derived(target) \ {"stdio"}]
    /\ boot' = Blank("done")
    /\ result' = [tr \in Transports |-> None]
    /\ rc' = NoCode
    /\ proc' = NoProcess
    /\ stolen' = FALSE /\ disturbed' = FALSE
    /\ UNCHANGED <<port, strays, target, heard, control, rebindRc>>

\* A new port for every pass.
PickPass ==
    /\ rebind.pc = "pick" /\ rebind.queue # {}
    /\ rebind' = [rebind EXCEPT !.pc = "spawn"]
    /\ FreePort
    /\ UNCHANGED <<proc, stolen, disturbed, heard, control, rebindRc>> /\ Quiet

\* The pass is over, with what was heard or (none) because it could not be carried out.
PassEnds(h) ==
    IF rebind.pass = 1
    THEN /\ rebind' = [rebind EXCEPT !.pc = "pick", !.pass = 2]
         /\ heard' = h
         /\ UNCHANGED control
    ELSE /\ rebind' = [rebind EXCEPT !.pc = "pick", !.pass = 1, !.known = FALSE,
                                     !.queue = @ \ {Tested}]
         /\ heard' = Unheard
         /\ control' = [control EXCEPT ![Tested] = ControlOf(h)]

Nothing == [heard EXCEPT ![rebind.pass] = <<>>]

\* Only the target's own command line is started here.
SpawnPass ==
    /\ rebind.pc = "spawn"
    /\ LET way == target.own[Tested] IN
         IF way = "missing"
         THEN PassEnds(Nothing) /\ UNCHANGED proc
         ELSE /\ proc' = Started(way, TRUE)
              /\ rebind' = [rebind EXCEPT !.pc = "wait"]
              /\ UNCHANGED <<heard, control>>
    /\ UNCHANGED <<port, strays, stolen, disturbed, rebindRc>> /\ Quiet

PassConnected ==
    /\ rebind.pc = "wait" /\ Connects
    /\ rebind' = [rebind EXCEPT !.pc = IF rebind.known THEN "ask" ELSE "resolve"]
    /\ UNCHANGED <<processVars, heard, control, rebindRc>> /\ Quiet

NeverUp ==
    /\ rebind.pc = "wait" /\ ~(Alive /\ proc.way = "babbles")
    /\ PassEnds(Nothing)
    /\ StoppedForGood
    /\ disturbed' = (disturbed \/ (Alive /\ proc.way # "hangs"))
    /\ UNCHANGED <<stolen, rebindRc>> /\ Quiet

\* The endpoint is looked for under the loopback name: any answer that ends names it.
Unnamed == port # "foreign" /\ target.wire[FirstStep(Tested)] = Endless

Resolve ==
    /\ rebind.pc = "resolve"
    /\ \/ /\ port # "free" /\ ~Unnamed
          /\ rebind' = [rebind EXCEPT !.pc = "ask", !.known = TRUE]
          /\ UNCHANGED <<processVars, heard, control>>
       \/ /\ PassEnds(Nothing)
          /\ StoppedForGood
          /\ disturbed' = (disturbed \/ port # "free")
          /\ UNCHANGED stolen
    /\ UNCHANGED rebindRc /\ Quiet

\* The next probe of the pass; after the last one the server is stopped.
Hear(outcome) ==
    LET h == [heard EXCEPT ![rebind.pass] = Append(@, outcome)] IN
    IF Len(h[rebind.pass]) < Len(Cases)
    THEN heard' = h /\ UNCHANGED <<rebind, control, proc, port, strays>>
    ELSE PassEnds(h) /\ StoppedForGood

\* A stranger makes no difference between the names it is asked under.
Strange == IF heard[rebind.pass] = <<>> THEN Outcomes ELSE {Head(heard[rebind.pass])}

\* What the server makes of the name in hand.
Told == target.inbound[Tested][rebind.pass][Cases[Len(heard[rebind.pass]) + 1]]

Probe ==
    /\ rebind.pc = "ask"
    /\ \/ port \in {"ours", "child"} /\ Told # Endless /\ Hear(Told) /\ UNCHANGED disturbed
       \/ port \in {"ours", "child"} /\ Late /\ Hear("errored")
       \/ port = "free" /\ Hear("errored") /\ UNCHANGED disturbed
       \/ port = "foreign" /\ (\E o \in Strange : Hear(o)) /\ UNCHANGED disturbed
    /\ UNCHANGED <<stolen, rebindRc>> /\ Quiet

ConcludeRebind ==
    /\ rebind.pc = "pick" /\ rebind.queue = {}
    /\ rebind' = [rebind EXCEPT !.pc = "done"]
    /\ rebindRc' \in {4, CodeOf({control[tr] : tr \in Transports}, target.knob)}
    /\ UNCHANGED <<processVars, heard, control>> /\ Quiet

RebindRaises ==
    /\ rebind.pc \in {"resolve", "ask"}
    /\ rebind' = [rebind EXCEPT !.pc = "done"]
    /\ rebindRc' = 127
    /\ StoppedForGood
    /\ UNCHANGED <<stolen, disturbed, heard, control>> /\ Quiet

\* As of the boot gate: an endless answer, endless output, or a stranger.
RebindStuck ==
    \/ rebind.pc = "wait" /\ Alive /\ proc.way = "babbles"
    \/ rebind.pc = "resolve" /\ port \in {"ours", "child"} /\ Unnamed
    \/ rebind.pc = "ask" /\ port \in {"ours", "child"} /\ Told = Endless
    \/ rebind.pc \in {"resolve", "ask"} /\ port = "foreign"

RebindTimesOut ==
    /\ rebind.pc \notin {"idle", "done"}
    /\ rebind' = [rebind EXCEPT !.pc = "done"]
    /\ rebindRc' = 124
    /\ UNCHANGED <<processVars, heard, control>> /\ Quiet

RebindGate == RebindRaises \/ StartRebind \/ PickPass \/ SpawnPass \/ PassConnected \/ NeverUp
                  \/ Resolve \/ Probe \/ ConcludeRebind

GatesNext == \/ (BootGate \/ BootTimesOut \/ World) /\ UNCHANGED rebindVars
             \/ RebindGate \/ RebindTimesOut

GatesSpec == GatesInit /\ [][GatesNext]_gatesVars

\* A gate goes on by itself except where what it reads need not end: each connection, each
\* piece of an answer, each line over stdio and each end of a process has its time limit.
\* Where it does not, the bound of nightly-audit.sh is what ends it; nothing is assumed of
\* that bound elsewhere.
FairGatesSpec ==
    /\ GatesSpec
    /\ WF_gatesVars(BootGate /\ ~Stuck /\ UNCHANGED rebindVars)
    /\ WF_gatesVars(BootTimesOut /\ Stuck /\ UNCHANGED rebindVars)
    /\ WF_gatesVars(RebindGate /\ ~RebindStuck)
    /\ WF_gatesVars(RebindTimesOut /\ RebindStuck)
--------------------------------------------------------------------------------
Inbound(t) == Derived(t) \ {"stdio"}
Exposed(outcome) == outcome \in {"let_through", "hollow"}

\* The allow-list is in force on a transport: what is not allowed is refused, and not for
\* want of a token, what is allowed is served, with a token as without one.
InForce(t, tr) ==
    \A p \in Passes : /\ \A c \in Hostile : t.inbound[tr][p][c] = "rejected"
                      /\ t.inbound[tr][p]["allowed"] = "let_through"

\* In one of the passes every name is served.
Absent(t, tr) ==
    \E p \in Passes : /\ \A c \in Hostile : Exposed(t.inbound[tr][p][c])
                      /\ t.inbound[tr][p]["allowed"] = "let_through"

\* The list is there and applied wrongly: in one pass some names are refused and others
\* served, or what is refused without a token is served with one.
Misapplied(t, tr) ==
    \/ \E p \in Passes : /\ t.inbound[tr][p]["allowed"] = "let_through"
                         /\ \A c \in Hostile : Refusal(t.inbound[tr][p][c])
                                               \/ Exposed(t.inbound[tr][p][c])
                         /\ \E c \in Hostile : Refusal(t.inbound[tr][p][c])
                         /\ \E c \in Hostile : Exposed(t.inbound[tr][p][c])
    \/ /\ \A c \in Hostile : t.inbound[tr][1][c] = "rejected"
       /\ \A c \in Hostile : Exposed(t.inbound[tr][2][c])
       /\ \A p \in Passes : t.inbound[tr][p]["allowed"] = "let_through"

\* A refusal is credited to the allow-list only where it is the allow-list's doing, in
\* both passes and on every network transport.  A control is called "not configured" only
\* where the target's tree does not name it, some transport serves every name in one of the
\* passes, every other has the list in force, and none applies it wrongly.  A server that
\* dies, hangs or answers too late between two probes adds up to neither, except that it
\* may hide a list that is applied wrongly in the pass that it cut short.
RefusalsAreAttributed ==
    rebindRc # NoCode /\ ~stolen =>
        /\ rebindRc = 0 => \A tr \in Inbound(target) : InForce(target, tr)
        /\ rebindRc = 3 =>
             /\ ~target.knob
             /\ \E tr \in Inbound(target) : Absent(target, tr)
             /\ \A tr \in Inbound(target) : InForce(target, tr) \/ Absent(target, tr)
             /\ disturbed \/ \A tr \in Inbound(target) : ~Misapplied(target, tr)

\* Both gates end, whatever the server does: it hangs, dies, never answers, answers
\* nonsense, or answers or prints without end.
GatesEnd == <>(rebind.pc = "done" /\ rebindRc # NoCode)
================================================================================
