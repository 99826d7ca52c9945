----------------------------- MODULE MCServerGates -----------------------------
(* Targets that differ in one respect at a time: what their command lines do,  *)
(* how their server answers MCP, and what it makes of the name it is asked     *)
(* under.  One guessed flag stands for those of the code.                      *)
EXTENDS RebindProbe

Wire(initialize, bare, hostile, list) ==
    [initialize |-> initialize, bare |-> bare, hostile |-> hostile, list |-> list,
     stream |-> IF initialize = Endless THEN Endless ELSE "result", post |-> IF initialize = "status" THEN "status" ELSE "result"]
Classic == Wire("result", "error", "result", "result")
Wires == {Classic,
          Wire("refused", "result", "result", "refused"),     \* stateless
          Wire("result", "error", "status", "result"),        \* 421 under its real name
          Wire("result", "error", "result", "error"),         \* no tools
          Wire("error", "error", "result", "error"),
          Wire("status", "result", "result", "result"),
          Wire(Endless, "error", "result", "result"),         \* no end to its first answer
          Wire("result", "error", Endless, "result")}

Case(foreign, wrongPort, origin, allowed) ==
    [c \in {"foreign-host", "wrong-port", "foreign-origin", "allowed"} |->
        CASE c = "foreign-host" -> foreign [] c = "wrong-port" -> wrongPort
          [] c = "foreign-origin" -> origin [] OTHER -> allowed]
List     == Case("rejected", "rejected", "rejected", "let_through")
Open     == Case("let_through", "let_through", "let_through", "let_through")
Loopback == Case("rejected", "rejected", "rejected", "rejected")
HostOnly == Case("rejected", "let_through", "rejected", "let_through")
NoToken  == Case("rejected_auth", "rejected_auth", "rejected_auth", "rejected_auth")
Auth     == Case("rejected_auth", "rejected_auth", "rejected_auth", "let_through")
Drips    == Case("rejected", Endless, "rejected", "let_through")
Inbounds == {<<List, List>>, <<Open, Open>>, <<Loopback, Loopback>>, <<HostOnly, HostOnly>>,
             <<List, Open>>, <<Open, List>>, <<NoToken, List>>, <<NoToken, Open>>, <<List, Auth>>,
             <<List, Drips>>}

Target(own, flagged, wire, inbound, knob, only) ==
    [own |-> [tr \in Transports |-> IF tr = "stdio" /\ own = "exits" THEN "serves" ELSE own],
     flagged |-> flagged, wire |-> wire, inbound |-> [tr \in Network |-> inbound], knob |-> knob,
     listed |-> {}, declared |-> IF flagged = "missing" THEN {"sse"} ELSE {},
     override |-> only]

\* Each transport in a way of its own.
Mixed == [Target("forks", "fails", Classic, <<List, List>>, TRUE, {"streamable-http", "sse"})
              EXCEPT !.own["sse"] = "hangs"]

HttpOnly == {"streamable-http"}

\* Two network transports that treat the names differently.
Uneven(inbound) == [Target("serves", "fails", Classic, <<List, List>>, FALSE, Network)
                        EXCEPT !.inbound["sse"] = inbound]

\* Its tools are served without a handshake only.
Bare == Target("serves", "fails", Wire("result", "result", "result", "error"),
               <<List, List>>, TRUE, HttpOnly)

MCTargets ==
    {Target(own, flagged, Classic, <<List, List>>, TRUE, HttpOnly) :
        own \in Ways, flagged \in {"serves", "fails", "hangs"}}
    \cup {Target("exits", "fails", wire, <<List, List>>, TRUE, {}) : wire \in Wires}
    \cup {Target("serves", "missing", wire, <<List, List>>, TRUE, {}) : wire \in Wires}
    \cup {Target("serves", "fails", Classic, inbound, knob, HttpOnly) :
            inbound \in Inbounds, knob \in BOOLEAN}
    \cup {Target("serves", "fails", Classic, <<List, List>>, FALSE, {"unknown"}),
          Mixed, Bare}
    \cup {Uneven(inbound) : inbound \in {<<Open, Open>>, <<HostOnly, HostOnly>>, <<List, Open>>}}
================================================================================
