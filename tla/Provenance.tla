------------------------------ MODULE Provenance ------------------------------
(***************************************************************************)
(* scripts/probe_provenance.py: the commit and the state of the working    *)
(* tree that a report is about, taken before a probe reads its target and  *)
(* measured again before it gives a verdict; and the tree itself, which    *)
(* others check out and edit in the meantime.                              *)
(***************************************************************************)
LOCAL INSTANCE Integers

CONSTANTS
    Commits,     \* what HEAD may name
    Paths,       \* the files of a checkout
    Noise,       \* those among them that a probe makes by doing its job
    Contents,    \* what a file may hold
    NoFile,      \* the content of a file that is not there
    Committed,   \* the files of each commit
    MaxMoves     \* bound: changes of the tree while a probe is at work

ASSUME TreeAssumption ==
    /\ Noise \subseteq Paths
    /\ NoFile \in Contents
    /\ Committed \in [Commits -> [Paths -> Contents]]
    /\ MaxMoves \in Nat

VARIABLES
    tree,       \* what HEAD names, and the files
    prov,       \* the provenance of the report being made
    first,      \* history: the tree that was captured
    shown,      \* history: what git could show of the tree since then
    unseen,     \* history: a change that git shows no trace of, or that came back
    moves       \* how often the tree has been changed

treeVars == <<tree, prov, first, shown, unseen, moves>>

NoHead == "unreadable"
Broken == -1         \* the content of a file that cannot be parsed
NoCode == -1         \* no exit code yet
Heads == Commits \cup {NoHead}
Trees == [head : Heads, files : [Paths -> Contents]]

\* The tree of a commit; and of a directory that is not a checkout.
Clean(commit) == [head |-> commit, files |-> Committed[commit]]
Unpacked(files) == [head |-> NoHead, files |-> files]

\* git status --porcelain without the byproducts: paths, and not their contents.
Porcelain(t) ==
    IF t.head = NoHead THEN {}
    ELSE {p \in Paths \ Noise : t.files[p] # Committed[t.head][p]}

Shown(t) == <<t.head, Porcelain(t)>>
Content(t) == [p \in Paths \ Noise |-> t.files[p]]

Provenances == [head : Heads, digest : SUBSET Paths, finished : BOOLEAN, moves : BOOLEAN]
NoProvenance == [head |-> NoHead, digest |-> {}, finished |-> FALSE, moves |-> FALSE]

TreeTypeOK ==
    /\ {tree, first} \subseteq Trees
    /\ prov \in Provenances
    /\ shown \subseteq (Heads \X SUBSET Paths)
    /\ unseen \in BOOLEAN
    /\ moves \in 0..MaxMoves

TreeIs(t) ==
    /\ tree' = t
    /\ prov' = NoProvenance
    /\ first' = t
    /\ shown' = {Shown(t)}
    /\ unseen' = FALSE
    /\ moves' = 0

\* Mutant: only HEAD is compared.
RecheckHead(p, t) ==
    [p EXCEPT !.finished = TRUE, !.moves = p.head # NoHead /\ t.head # p.head]

\* capture: a tree without a commit has nothing that the report could be pinned to.
Captured(t) ==
    [head |-> t.head, digest |-> Porcelain(t), finished |-> FALSE, moves |-> FALSE]

\* recheck: a commit that can no longer be read is a move as well.
Rechecked(p, t) ==
    [p EXCEPT
        !.finished = TRUE,
        !.moves = p.head # NoHead /\ (t.head # p.head \/ Porcelain(t) # p.digest)]

Capture ==
    /\ prov' = Captured(tree)
    /\ first' = tree
    /\ shown' = {Shown(tree)}
    /\ unseen' = FALSE
    /\ UNCHANGED <<tree, moves>>

Status(p) ==
    IF p.head = NoHead THEN "UNPINNED"
    ELSE IF ~p.finished THEN "OPEN"
    ELSE IF p.moves THEN "MOVED_DURING_RUN"
    ELSE IF p.digest # {} THEN "PINNED_DIRTY"
    ELSE "PINNED"

\* A move withdraws the verdict of a probe that reads it from the tree; what another
\* reads from a package index stands.
Blocking(p, decisive) == Status(p) = "MOVED_DURING_RUN" /\ decisive

ExitMoved == 4
--------------------------------------------------------------------------------
(* What others do to the tree.                                                 *)

\* Git shows something that it has shown before, though not for want of a change.
Unseen(t) ==
    /\ Shown(t) \in shown
    /\ <<Shown(t), Content(t)>> # <<Shown(tree), Content(tree)>>

MoveTo(t) ==
    /\ moves < MaxMoves
    /\ moves' = moves + 1
    /\ tree' = t
    /\ shown' = shown \cup {Shown(t)}
    /\ unseen' = (unseen \/ Unseen(t))
    /\ UNCHANGED <<prov, first>>

\* Another commit is checked out, byproducts stay.
CheckOut ==
    \E c \in Commits \ {tree.head} :
        /\ tree.head # NoHead
        /\ MoveTo([head |-> c, files |-> [p \in Paths |->
                     IF p \in Noise THEN tree.files[p] ELSE Committed[c][p]]])

\* A file is written or removed.
Edit(edits) ==
    \E edit \in edits :
        LET p == edit[1]
            x == edit[2]
        IN /\ tree.files[p] # x
           /\ MoveTo([tree EXCEPT !.files[p] = x])
================================================================================
