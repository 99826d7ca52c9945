------------------------------- MODULE ServerBoot -------------------------------
(***************************************************************************)
(* The transport boot gate (scripts/transport_boot_probe.py): it derives   *)
(* the transports of the target, boots the target under each of them,      *)
(* speaks MCP to whatever listens and gives one exit code.  The target is  *)
(* a value that does not change: what its command lines do and how its     *)
(* server answers.                                                         *)
(***************************************************************************)
EXTENDS ServerProcess, Naturals, Sequences

CONSTANTS
    Targets,      \* the targets considered
    Flags         \* how many spellings of a transport flag follow the target's own argv

VARIABLES
    target,     \* the target under test
    boot,       \* where the gate is
    result,     \* its verdict per transport
    rc          \* the exit code, once there is one

bootVars == <<target, boot, result, rc>>

Transports == {"stdio", "streamable-http", "sse"}
FloorTransports == {"stdio", "streamable-http"}

\* An answer: a JSON-RPC result; "method not found"; another JSON-RPC error; an HTTP
\* status that is not 200 (421 among them); none.  A server may also answer without end.
Answers == {"result", "refused", "error", "status", "silence"}
Endless == "endless"
Asked == {"stream", "initialize", "bare", "post", "hostile", "list"}
Verdicts == {"ok", "stateless", "fail", "not_selected"}
None == "none"
NoCode == 999

\* A target: what its own command line does, and the one with a guessed flag; how its
\* server answers; the transports that its table lists, its files declare, and an
\* override names.
ASSUME BootAssumption ==
    /\ Flags \in Nat
    /\ \A t \in Targets :
          /\ t.own \in [Transports -> Ways] /\ t.flagged \in Ways
          /\ t.wire \in [Asked -> Answers \cup {Endless}]
          /\ t.listed \cup t.declared \subseteq Transports
          /\ t.override \subseteq Transports \cup {"unknown"}

BootStates == [pc : {"derive", "pick", "spawn", "wait", "ask", "done"},
               queue : SUBSET Transports, attempt : 0..Flags, first : {Running, "0", "1", None},
               step : Asked, bare : BOOLEAN]

BootTypeOK ==
    /\ ProcessTypeOK
    /\ target \in Targets
    /\ boot \in BootStates
    /\ result \in [Transports -> Verdicts \cup {None}]
    /\ rc \in {0, 2, 3, 4, 124, 127, NoCode}

Blank(pc) == [pc |-> pc, queue |-> {}, attempt |-> 0, first |-> None,
              step |-> "initialize", bare |-> FALSE]

BootInit ==
    /\ ProcessInit
    /\ target \in Targets
    /\ boot = Blank("derive")
    /\ result = [t \in Transports |-> None]
    /\ rc = NoCode
--------------------------------------------------------------------------------
(* Derivation and launch plan.                                                 *)

\* An override replaces the derivation and the floor, even when it names nothing that
\* is known; a table, the markers of the scanned files and the floor add up.
Derived(t) ==
    IF t.override # {} THEN t.override \ {"unknown"}
    ELSE t.listed \cup t.declared \cup FloorTransports

\* Guessed flags follow the target's own argv, for a network transport whose argv the
\* target does not declare itself.
\* Mutant: the flags are counted from one.
AttemptsFromOne(t, tr) == IF tr \in t.declared \/ tr = "stdio" THEN 0 ELSE Flags + 1

Attempts(t, tr) == IF tr \in t.declared \/ tr = "stdio" THEN 0 ELSE Flags
WayOf(t, tr, attempt) == IF attempt = 0 THEN t.own[tr] ELSE t.flagged

\* The transports are probed in one order.
First(ts) == IF "stdio" \in ts THEN "stdio"
             ELSE IF "streamable-http" \in ts THEN "streamable-http" ELSE "sse"
Current == First(boot.queue)

\* main: no transport at all is a finding.
Derive ==
    /\ boot.pc = "derive"
    /\ boot' = [boot EXCEPT !.queue = Derived(target),
                            !.pc = IF Derived(target) = {} THEN "done" ELSE "pick"]
    /\ rc' = IF Derived(target) = {} THEN 2 ELSE NoCode
    /\ UNCHANGED <<processVars, target, result>>

\* One port for all attempts at a transport.
PickPort ==
    /\ boot.pc = "pick" /\ boot.queue # {}
    /\ boot' = [boot EXCEPT !.pc = "spawn", !.attempt = 0, !.first = None, !.bare = FALSE]
    /\ FreePort
    /\ UNCHANGED <<proc, stolen, disturbed, target, result, rc>>

FirstStep(tr) == IF tr = "sse" THEN "stream" ELSE "initialize"

Spawn ==
    /\ boot.pc = "spawn" /\ WayOf(target, Current, boot.attempt) # "missing"
    /\ proc' = Started(WayOf(target, Current, boot.attempt), Current # "stdio")
    /\ boot' = [boot EXCEPT !.pc = IF Current = "stdio" THEN "ask" ELSE "wait",
                            !.step = FirstStep(Current)]
    /\ UNCHANGED <<port, strays, stolen, disturbed, target, result, rc>>
--------------------------------------------------------------------------------
(* Waiting for the port.                                                       *)

\* Mutant: an attempt with a guessed flag gives the exit code that decides.
LastCode(code) == code

\* Only the target's own invocation decides what a transport that never listened means.
FirstCode(code) == IF boot.attempt = 0 THEN code ELSE boot.first

\* _unlistening_result: ended cleanly and never listened, or never came up.
Unlistening(first) == IF first = "0" THEN "not_selected" ELSE "fail"

Judged(verdict) ==
    /\ result' = [result EXCEPT ![Current] = verdict]
    /\ boot' = [boot EXCEPT !.pc = "pick", !.queue = @ \ {Current}]

\* The next variant, unless there is none or the deadline is over.
NextAttempt(first, late) ==
    IF boot.attempt < Attempts(target, Current) /\ ~late
    THEN /\ boot' = [boot EXCEPT !.pc = "spawn", !.attempt = @ + 1, !.first = first]
         /\ UNCHANGED result
    ELSE Judged(Unlistening(first))

SpawnFails ==
    /\ boot.pc = "spawn" /\ WayOf(target, Current, boot.attempt) = "missing"
    /\ IF Current = "stdio" THEN Judged("fail") ELSE NextAttempt(boot.first, FALSE)
    /\ UNCHANGED <<processVars, target, rc>>

Connected ==
    /\ boot.pc = "wait" /\ Connects
    /\ boot' = [boot EXCEPT !.pc = "ask"]
    /\ UNCHANGED <<processVars, target, result, rc>>

GivenUp(late) ==
    /\ NextAttempt(FirstCode(proc.rc), late)
    /\ Stopped
    /\ PortAfterStop
    /\ UNCHANGED <<stolen, target, rc>>

\* The deadline may pass while the last output is read.
ExitedUnheard ==
    /\ boot.pc = "wait" /\ Exited
    /\ \E late \in BOOLEAN : GivenUp(late)
    /\ UNCHANGED disturbed

\* The first attempt has the whole time, a later one 20 s of what is left.  What the
\* process has printed is then read until there is nothing left to read.
WaitTimesOut ==
    /\ boot.pc = "wait" /\ Alive /\ proc.way # "babbles"
    /\ \E late \in BOOLEAN : (boot.attempt = 0 => late) /\ GivenUp(late)
    /\ disturbed' = (disturbed \/ proc.way # "hangs")
--------------------------------------------------------------------------------
(* Speaking to what listens.                                                   *)

\* What comes back from whoever holds the wire: over stdio the process itself, else
\* the port.  The server of the target may be too slow; a stranger says anything.
Holder == IF Current # "stdio" THEN port
          ELSE IF Alive /\ proc.way = "serves" THEN "ours" ELSE "free"

\* 200 with a JSON-RPC error passes where only the status is looked at.
Served(answer) == answer \in {"result", "refused", "error"}

\* Mutant: a server without a handshake that gives no result is asked once more.
AskedAgain(tr, step, bare, a) ==
    CASE step \in {"initialize", "stream"} -> IF a = "result" THEN "hostile" ELSE "bare"
      [] step = "bare" -> IF a = "result" THEN "hostile" ELSE "initialize"
      [] step = "hostile" -> IF a = "result" THEN "list" ELSE "fail"
      [] OTHER -> IF a = "result" THEN "ok" ELSE "fail"

\* The step that follows an answer, or the verdict.
After(tr, step, bare, a) ==
    CASE tr = "stdio" /\ step = "initialize" ->
             IF a = "result" THEN "list" ELSE IF a = "refused" THEN "bare" ELSE "fail"
      [] tr = "stdio" /\ step = "bare" -> IF a = "result" THEN "stateless" ELSE "fail"
      [] tr = "streamable-http" /\ step = "initialize" ->
             IF a = "result" THEN "hostile" ELSE "bare"
      [] tr = "streamable-http" /\ step = "bare" -> IF a = "result" THEN "hostile" ELSE "fail"
      [] tr = "streamable-http" /\ step = "hostile" ->
             IF ~Served(a) THEN "fail" ELSE IF bare THEN "stateless" ELSE "list"
      [] tr = "sse" /\ step = "stream" -> IF a = "result" THEN "post" ELSE "fail"
      [] tr = "sse" /\ step = "post" -> IF Served(a) THEN "hostile" ELSE "fail"
      [] tr = "sse" /\ step = "hostile" -> IF Served(a) THEN "ok" ELSE "fail"
      [] OTHER -> IF a = "result" THEN "ok" ELSE "fail"

Answered(a) ==
    LET next == After(Current, boot.step, boot.bare, a) IN
    IF next \in Verdicts
    THEN Judged(next) /\ Stopped /\ PortAfterStop
    ELSE /\ boot' = [boot EXCEPT !.step = next, !.bare = (@ \/ boot.step = "bare")]
         /\ UNCHANGED <<result, proc, port, strays>>

\* What arrives of the server's answer.  Over stdio a line that does not end is none when
\* the deadline comes; over HTTP each piece has a time limit and the whole has none, so
\* that the read of an answer without end never returns.
Arrived == IF target.wire[boot.step] = Endless THEN "silence" ELSE target.wire[boot.step]
Unread == Current # "stdio" /\ target.wire[boot.step] = Endless

Ask ==
    /\ boot.pc = "ask"
    /\ \/ Holder \in {"ours", "child"} /\ ~Unread /\ Answered(Arrived) /\ UNCHANGED disturbed
       \/ Holder \in {"ours", "child"} /\ Late /\ Answered("silence")
       \/ Holder = "free" /\ Answered("silence") /\ UNCHANGED disturbed
       \/ Holder = "foreign" /\ (\E a \in Answers : Answered(a)) /\ UNCHANGED disturbed
    /\ UNCHANGED <<stolen, target, rc>>
--------------------------------------------------------------------------------
\* main: a failure outranks what was not measured.
BootCode(found) ==
    IF "fail" \in found THEN 2 ELSE IF "not_selected" \in found THEN 3 ELSE 0

\* The checkout may have moved since it was first measured: no verdict, then.
Conclude ==
    /\ boot.pc = "pick" /\ boot.queue = {}
    /\ boot' = [boot EXCEPT !.pc = "done"]
    /\ rc' \in {4, BootCode({result[tr] : tr \in Transports})}
    /\ UNCHANGED <<processVars, target, result>>

\* An exception of the harness: the finally of the probe stops the process.
Raises ==
    /\ boot.pc = "ask"
    /\ boot' = [boot EXCEPT !.pc = "done"]
    /\ rc' = 127
    /\ Stopped /\ PortAfterStop
    /\ UNCHANGED <<stolen, disturbed, target, result>>

\* The gate waits for what need not come: the end of an answer, or of the output of a
\* process that does not listen.  A stranger on the port may keep it waiting too.
Stuck ==
    \/ boot.pc = "wait" /\ Alive /\ proc.way = "babbles"
    \/ boot.pc = "ask" /\ Current # "stdio" /\ Holder \in {"ours", "child"} /\ Unread
    \/ boot.pc = "ask" /\ Current # "stdio" /\ Holder = "foreign"

\* run_bounded kills the gate, at any moment; what it has started, in a session of its own,
\* lives on.
BootTimesOut ==
    /\ boot.pc # "done"
    /\ boot' = [boot EXCEPT !.pc = "done"]
    /\ rc' = 124
    /\ UNCHANGED <<processVars, target, result>>

BootGate == Derive \/ PickPort \/ Spawn \/ SpawnFails \/ Connected \/ ExitedUnheard
                \/ WaitTimesOut \/ Ask \/ Conclude \/ Raises

World == Machine /\ UNCHANGED bootVars
--------------------------------------------------------------------------------
\* What the target really does: some command line that is tried makes it listen, and
\* its server answers every call of that transport.
Serves(t, tr) == \E k \in 0..Attempts(t, tr) : WayOf(t, tr, k) \in {"serves", "forks"}
Works(w, tr) ==
    /\ tr = "sse" => w.stream = "result" /\ Served(w.post)
    /\ tr # "sse" => \/ w.initialize = "result" /\ w.list = "result"
                     \/ w.initialize # "result" /\ w.bare = "result"
    /\ tr = "stdio" => w.initialize \in {"result", "refused"}
    /\ tr # "stdio" => Served(w.hostile)

\* Over HTTP a handshake that is late is taken for one that was refused.
WorksUnshaken(w, tr) == tr = "streamable-http" /\ w.bare = "result" /\ Served(w.hostile)

\* Every transport that the target configures, whichever way it says so.
Wanted(t) == IF t.override # {} THEN t.override \ {"unknown"}
             ELSE {tr \in Transports : tr \in t.listed \/ tr \in t.declared} \cup FloorTransports

\* The exit code is about the target.  0: each transport it configures really comes
\* up and answers, with a handshake or, where that was late, without one.  2: some transport really
\* does not (its own command line fails, or its server answers wrongly), unless a
\* server died or was late, and never because of a flag that was guessed.  3: some
\* command line ended cleanly and no other served.  Only a stranger on the port can
\* change that, and then in either direction.
CodeIsDeserved ==
    rc # NoCode /\ ~stolen =>
        /\ rc = 0 => \A tr \in Wanted(target) :
                        /\ Serves(target, tr)
                        /\ \/ Works(target.wire, tr)
                           \/ disturbed /\ WorksUnshaken(target.wire, tr)
        /\ rc = 2 => \/ disturbed
                     \/ Wanted(target) = {}
                     \/ \E tr \in Wanted(target) :
                          \/ target.own[tr] \in {"fails", "hangs", "missing"}
                          \/ tr = "stdio" /\ target.own[tr] # "serves"
                          \/ ~Works(target.wire, tr)
        /\ rc = 3 => \E tr \in Wanted(target) \ {"stdio"} :
                          target.own[tr] \in {"exits", "forks"}
================================================================================
