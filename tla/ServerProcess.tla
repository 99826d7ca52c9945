----------------------------- MODULE ServerProcess -----------------------------
(***************************************************************************)
(* The process that a gate starts for one attempt at one transport, and    *)
(* the port it is told to listen on (free_port, wait_for_port and          *)
(* _terminate in scripts/transport_boot_probe.py; the rebinding gate uses  *)
(* the same).  The port was free when it was chosen; nothing keeps it so.  *)
(***************************************************************************)
VARIABLES
    proc,       \* the process started last: what it does, its exit code, its child
    port,       \* who listens on the port of the attempt
    strays,     \* a child of an earlier attempt on this port is still alive
    stolen,     \* history: a process of somebody else took the port
    disturbed   \* history: a server died, or was too slow, though it would serve

processVars == <<proc, port, strays, stolen, disturbed>>

\* What a command line does once it is started: it listens; it forks a child that
\* listens and ends; it ends at once with rc 0; it fails; it neither ends nor
\* listens; it does neither and prints all the time; there is no such command.
Ways == {"serves", "forks", "exits", "fails", "hangs", "babbles", "missing"}

Running == "running"
NoProcess == [way |-> "missing", wired |-> FALSE, rc |-> "1", child |-> FALSE]

ProcessTypeOK ==
    /\ proc \in [way : Ways, wired : BOOLEAN, rc : {Running, "0", "1"}, child : BOOLEAN]
    /\ port \in {"free", "ours", "child", "foreign"}
    /\ {strays, stolen, disturbed} \subseteq BOOLEAN

ProcessInit ==
    /\ proc = NoProcess
    /\ port = "free"
    /\ strays = FALSE
    /\ stolen = FALSE
    /\ disturbed = FALSE

Alive == proc.rc = Running

\* subprocess.Popen, in a session of its own; wired: it is asked to use the port.
Started(way, wired) == [way |-> way, wired |-> wired, rc |-> Running, child |-> FALSE]

\* poll() is asked first, then the port: who answers there is not asked.
Exited == ~Alive
Connects == Alive /\ port # "free"

\* _terminate: SIGTERM to the group, and SIGKILL when the leader has not ended after
\* 5 s.  When the leader has ended already its group is not looked at, and a child
\* that outlives SIGTERM while the leader does not is not killed either.
Stopped ==
    /\ proc' = NoProcess
    /\ \/ ~proc.child /\ UNCHANGED strays
       \/ proc.child /\ strays' = TRUE
       \/ proc.child /\ Alive /\ UNCHANGED strays

\* The port afterwards: what is killed listens no more, a child that is not goes on.
PortAfterStop == port' = IF port = "foreign" \/ (port = "child" /\ strays') THEN port ELSE "free"
--------------------------------------------------------------------------------
(* What the process and the rest of the machine do on their own.               *)

\* bind() succeeds, or finds the address in use: the server ends with an error.
Listen ==
    /\ Alive /\ proc.wired /\ proc.way = "serves" /\ port # "ours"
    /\ IF port = "free"
         THEN port' = "ours" /\ UNCHANGED proc
         ELSE proc' = [proc EXCEPT !.rc = "1"] /\ UNCHANGED port
    /\ UNCHANGED <<strays, stolen, disturbed>>

Fork ==
    /\ Alive /\ proc.way = "forks" /\ ~proc.child
    /\ proc' = [proc EXCEPT !.child = TRUE]
    /\ UNCHANGED <<port, strays, stolen, disturbed>>

ChildListens ==
    /\ proc.wired /\ (proc.child \/ strays)
    /\ port = "free"
    /\ port' = "child"
    /\ UNCHANGED <<proc, strays, stolen, disturbed>>

Exit ==
    /\ Alive
    /\ \/ proc.way = "exits" \/ proc.child
       \/ proc.way = "fails"
    /\ proc' = [proc EXCEPT !.rc = IF proc.way = "fails" THEN "1" ELSE "0"]
    /\ UNCHANGED <<port, strays, stolen, disturbed>>

\* Bound: of what is accidental, one thing happens to a gate.
Accident == ~disturbed /\ ~stolen

\* An answer that comes after its time.
Late == Accident /\ disturbed' = TRUE

Die ==
    /\ Accident /\ Alive /\ proc.way = "serves"
    /\ proc' = [proc EXCEPT !.rc = "1"]
    /\ port' = IF port = "ours" THEN "free" ELSE port
    /\ disturbed' = TRUE
    /\ UNCHANGED <<strays, stolen>>

\* Another process is given the same port between its choice and its use: a probe of
\* another target, at work at the same time, also boots a server on a "free" port.
Steal ==
    /\ Accident /\ port = "free" /\ Alive /\ proc.wired
    /\ port' = "foreign"
    /\ stolen' = TRUE
    /\ UNCHANGED <<proc, strays, disturbed>>

\* free_port: a port that nobody listens on.  A child that outlives its attempt keeps the
\* port it was told of; were that given out again, it would be a stranger there.
FreePort == port' = "free" /\ strays' = FALSE

Machine == Listen \/ Fork \/ ChildListens \/ Exit \/ Die \/ Steal
================================================================================
