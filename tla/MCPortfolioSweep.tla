---------------------------- MODULE MCPortfolioSweep ----------------------------
(* Two commits that require two versions; targets that differ in what the      *)
(* verdicts of their probe turn on; manifests with an entry of every kind.      *)
EXTENDS PortfolioSweep

MCPaths == {"pyproject", "uv", "poetry", "changelog", "source", "cache"}
Files(pyproject, uv, poetry, changelog, source) ==
    [p \in MCPaths |-> CASE p = "pyproject" -> pyproject [] p = "uv" -> uv
                         [] p = "poetry" -> poetry [] p = "changelog" -> changelog
                         [] p = "source" -> source [] OTHER -> 0]
MCContents == -3..2
MCCommitted == [c \in {"c1", "c2"} |-> IF c = "c1" THEN Files(1, 1, 0, 0, 1)
                                       ELSE Files(2, 1, 2, 1, 2)]
MCStartTrees == {Clean("c1"), Clean("c2"), Unpacked(Files(0, 0, 0, 0, 0))}

MCEdits == [probe \in {"shipped", "lockfile"} |->
    IF probe = "lockfile"
        THEN ({"pyproject", "uv", "poetry", "cache"} \X (-1..2))
                \cup {<<"uv", -2>>, <<"poetry", -3>>}
        ELSE {<<"pyproject", 2>>, <<"changelog", -1>>, <<"source", 2>>}]

MCAsked == [metadataOnly |-> FALSE, offline |-> FALSE, pypi |-> TRUE, pin |-> 0]

Entry_(id, value, archived) == [id |-> id, value |-> value, archived |-> archived]
A == Entry_("a", "org/a", FALSE)
B == Entry_("b", "org/b", FALSE)
Old == Entry_("old", "org/old", TRUE)
Unreleased == Entry_("u", Null, FALSE)
Skip(name) == {[name |-> name, reasoned |-> TRUE]}
Call(probe, block, skips) == [probe |-> probe, block |-> block, skips |-> skips]
MCSweeps ==
    {Call("shipped", Block(<<A, Unreleased>>), {}),
     Call("yank", Block(<<A>>), {}),
     Call("lockfile", Block(<<A, B, Old>>), {}),
     Call("published", Block(<<A, B>>), Skip("org/b")),
     Call("published", Block(<<A, B>>), Skip("b")),
     Call("lockfile", Block(<<A, Entry_("g", Garbled, FALSE)>>), {}),
     Call("lockfile", Block(<<A, B>>), {[name |-> "b", reasoned |-> FALSE]}),
     Call("lockfile", Block(<<A, B>>), Skip("b")),
     Call("yank", Block(<<A>>), Skip("other")),
     Call("yank", NoBlock, {})}
MCDirectory == [v \in {"org/a", "org/b", "org/old", Null, Garbled} |->
                   IF v = "org/b" THEN "b" ELSE "a"]

Work(c1, c2) == [h \in Heads |-> CASE h = "c1" -> c1 [] h = "c2" -> c2 [] OTHER -> {}]
History(tags, old, work, past, built, reached, server) ==
    [tags |-> tags, old |-> old, work |-> work, past |-> past, built |-> built,
     reached |-> reached, server |-> server]
Req(floor, cap, excluded) ==
    [declared |-> TRUE, floor |-> floor, cap |-> cap, excluded |-> excluded]
NoReq == [declared |-> FALSE, floor |-> 1, cap |-> 0, excluded |-> {}]
Mod(within, scan, cold, warm) ==
    [within |-> within, scan |-> scan, cold |-> cold, warm |-> warm]
Script(event, exits, traceback) ==
    [there |-> TRUE, event |-> event, exits |-> exits, traceback |-> traceback]
Scripts == {Script(TRUE, "runs", "none"), Script(TRUE, "runs", "when-told-to-end"),
            Script(TRUE, "0", "own"), Script(TRUE, "0", "when-told-to-end"),
            Script(FALSE, "1", "none"), Script(FALSE, "runs", "none"),
            [there |-> FALSE, event |-> FALSE, exits |-> "0", traceback |-> "none"]}
Package(modules, ua, script, requirement) ==
    [modules |-> modules, ua |-> ua, script |-> script,
     requires |-> [v \in Versions |-> requirement]]
Fine == <<Mod({}, "ok", "ok", "ok")>>
MCSubjects == [probe \in {"shipped", "yank", "lockfile", "published"} |->
    CASE probe = "shipped" ->
           {History({1}, FALSE, Work({}, {"user-facing"}), {}, <<1, 2>>, TRUE, "silent"),
            History({1}, FALSE, Work({}, {}), {}, <<0, 1>>, FALSE, "lists"),
            History({1, 2}, TRUE, Work({"housekeeping"}, {}), {}, <<1, 2>>, TRUE, "lists"),
            History({}, FALSE, Work({}, {}), {"breaking"}, <<1, 1>>, TRUE, "none")}
      [] probe = "yank" ->
           {[requires |-> <<r1, r2>>, reasons |-> IF r1 = NoReq THEN {1} ELSE {}] :
               r1 \in {Req(1, 0, {}), Req(1, 2, {}), Req(1, 0, {3}), Req(0, 0, {1}), NoReq},
               r2 \in {Req(2, 0, {}), Req(1, 0, {})}}
      [] probe = "published" ->
           {Package(<<Mod({}, "ok", "ok", "ok"), Mod({1}, "fails", "ok", "ok"),
                      Mod({1}, "fails", cold, warm), Mod({1}, "fails", "fails", "fails")>>,
                    "own", Script(TRUE, "runs", "none"), Req(1, 1, {})) :
               cold \in {"ok", "fails"}, warm \in {"ok", "optional", "fails"}}
           \cup {Package(<<Mod({}, "fails", "fails", "optional"),
                           Mod({1}, "fails", "fails", "fails")>>, "own", script, NoReq) :
               script \in Scripts}
           \cup {Package(Fine, ua, Script(TRUE, "runs", "none"), requirement) :
               ua \in {"own", "stale", "foreign", "mentioned", "none"},
               requirement \in {Req(1, 0, {}), Req(2, 0, {}), Req(1, 2, {}), Req(0, 0, {})}}
      [] OTHER -> {NoSubject}]
MCReleases == [probe \in {"shipped", "yank", "lockfile", "published"} |->
    CASE probe = "shipped" -> {<<"live", "absent">>, <<"live", "live">>}
      [] probe = "yank" -> {<<"live", "live">>, <<"yanked", "absent">>}
      [] OTHER -> {<<"live", "absent">>}]
================================================================================
