-------------------------- MODULE PortfolioSweepProofs --------------------------
(***************************************************************************)
(* The sweep over the portfolio and its probes: a verdict is of one tree,  *)
(* a report says what was read, a sweep accounts for its manifest, and     *)
(* everything keeps its shape; proved for every set of commits, files and  *)
(* contents, any number of changes of the tree, every manifest and index.  *)
(*                                                                         *)
(* That a verdict is of one tree is not inductive, because it speaks of a  *)
(* probe that has ended.  The invariant says of a probe that is at work    *)
(* what it has read so far: as long as git shows the tree as it was        *)
(* captured, and has shown no change that came back, the tree holds what   *)
(* it held, and all that was read is of it.  What git shows is compared    *)
(* before a verdict is given.                                              *)
(*                                                                         *)
(* In the same way ReportInv says of each probe what its report claims so  *)
(* far and what it has read of the index and of its subject, and SweepInv  *)
(* which targets are accounted for and which are still to come.  The shape *)
(* of everything rests on the other two, for only a probe that is at work  *)
(* has a subject, and only a report that was read has its fields.          *)
(***************************************************************************)
EXTENDS PortfolioSweep, TLAPS

\* As far as git can tell, the tree is as it was captured.
Untouched == ~unseen /\ Shown(tree) = Shown(first)

TreeInv ==
    /\ {tree, first} \subseteq Trees
    /\ Shown(first) \in shown
    /\ Untouched => Content(tree) = Content(first)

Disagrees(kind) == Compared(first.files["pyproject"], kind, first.files[kind])

\* What the report of the lockfile probe has of an untouched tree.
Reads(l) ==
    /\ l.pc # "declare" => l.declared = first.files["pyproject"]
    /\ l.present \subseteq LocksOf(first)
    /\ l.pc \in {"read", "tool"} => l.present # {}
    /\ l.pc = "recheck" => l.present = {}
    /\ l.pc \in {"read", "tool", "recheck"} /\ l.status # "no_lockfile" =>
          \A kind \in LocksOf(first) \ l.present : Disagrees(kind) \subseteq l.findings
    /\ l.pc = "tool" => Disagrees(FirstOf(l.present)) \subseteq l.findings
    /\ l.findings # {} => ~CertainlySound(first)

LockfileRead == Reads(lockfile)

LockfileInv ==
    /\ DOMAIN lockfile = DOMAIN IdleLockfile
    /\ lockfile.pc # "done" => lockfile.rc = NoCode
    /\ lockfile.pc \notin {"idle", "capture", "done"} =>
          /\ prov = Captured(first)
          /\ Untouched /\ ~lockfile.harness => LockfileRead
    /\ lockfile.pc \in {"capture", "declare"} => lockfile = [IdleLockfile EXCEPT !.pc = lockfile.pc]

\* The same of the report of the shipped probe, which reads one file after the other.
ShippedRead ==
    /\ shipped.pc # "project" => shipped.version = first.files["pyproject"]
    /\ shipped.pc \notin {"project", "history"} /\ shipped.logged =>
          shipped.work = Beyond(first.head, shipped.tags)
    /\ shipped.pc \notin {"project", "history", "changelog"} =>
          shipped.changelog = first.files["changelog"]
    /\ shipped.source \in {NoFile, first.files["source"]}

ShippedInv ==
    /\ DOMAIN shipped = DOMAIN ShippedIdle
    /\ shipped.pc # "done" => shipped.rc = NoCode
    /\ shipped.pc \notin {"idle", "capture", "done"} => prov = Captured(first)
    /\ shipped.pc \in {"idle", "capture"} => shipped.source = NoFile
    /\ shipped.pc \notin {"idle", "capture", "done"} /\ Untouched => ShippedRead

\* One probe is at work at a time, the one that the driver has started.
Exclusive ==
    /\ {"pc", "probe"} \subseteq DOMAIN sweep
    /\ lockfile.pc # "idle" => sweep.pc = "running" /\ sweep.probe = "lockfile"
    /\ shipped.pc # "idle" => sweep.pc = "running" /\ sweep.probe = "shipped"
    /\ yank.pc # "idle" => sweep.pc = "running" /\ sweep.probe = "yank"

IInv == TreeInv /\ LockfileInv /\ ShippedInv /\ Exclusive /\ VerdictIsOfOneTree
--------------------------------------------------------------------------------
(* The tree.                                                                   *)

\* What a probe reads of a tree that is as it was captured is what was captured.
LEMMA ReadOfFirst ==
    ASSUME TreeInv, Untouched, NEW p \in Paths \ Noise
    PROVE  tree.files[p] = first.files[p]
<1>1. Content(tree)[p] = Content(first)[p]
  BY DEF TreeInv
<1> QED  BY <1>1 DEF Content

\* A change leaves git something to show, for as long as it does not come back.
LEMMA MoveKeepsTree ==
    ASSUME TreeInv, NEW t \in Trees, MoveTo(t)
    PROVE  /\ TreeInv'
           /\ Untouched' => Untouched
           /\ UNCHANGED <<prov, first>>
<1>1. UNCHANGED <<prov, first>> /\ tree' = t /\ shown' = shown \cup {Shown(t)}
      /\ unseen' = (unseen \/ Unseen(t))
  BY DEF MoveTo
<1>2. ASSUME Untouched'  PROVE Untouched /\ Content(t) = Content(tree)
  <2>1. Shown(t) = Shown(first) /\ ~unseen /\ ~Unseen(t)
    BY <1>1, <1>2 DEF Untouched, Shown, Porcelain
  <2>2. Shown(t) \in shown
    BY <2>1 DEF TreeInv
  <2> QED  BY <2>1, <2>2 DEF Unseen, Untouched
<1>3. Shown(first)' \in shown'
  BY <1>1 DEF TreeInv, Shown, Porcelain
<1>4. ASSUME Untouched'  PROVE Content(tree)' = Content(first)'
  BY <1>1, <1>2, <1>4 DEF TreeInv, Content
<1> QED  BY <1>1, <1>2, <1>3, <1>4 DEF TreeInv

\* Whoever works in the checkout leaves a tree.
LEMMA WorldMovesTree ==
    ASSUME TreeInv, NEW edits \in SUBSET (Paths \X Contents), CheckOut \/ Edit(edits)
    PROVE  /\ TreeInv'
           /\ Untouched' => Untouched
           /\ UNCHANGED <<prov, first>>
<1>1. CASE CheckOut
  <2>1. PICK c \in Commits : MoveTo([head |-> c, files |-> [p \in Paths |->
                     IF p \in Noise THEN tree.files[p] ELSE Committed[c][p]]])
    BY <1>1 DEF CheckOut
  <2>2. [head |-> c, files |-> [p \in Paths |->
             IF p \in Noise THEN tree.files[p] ELSE Committed[c][p]]] \in Trees
    BY TreeAssumption DEF TreeInv, Trees, Heads, TreeAssumption
  <2> QED  BY <2>1, <2>2, MoveKeepsTree
<1>2. CASE Edit(edits)
  <2>1. PICK edit \in edits : MoveTo([tree EXCEPT !.files[edit[1]] = edit[2]])
    BY <1>2 DEF Edit
  <2>2. edit[1] \in Paths /\ edit[2] \in Contents
    BY <2>1
  <2>3. [tree EXCEPT !.files[edit[1]] = edit[2]] \in Trees
    BY <2>2 DEF TreeInv, Trees
  <2> QED  BY <2>1, <2>3, MoveKeepsTree
<1> QED  BY <1>1, <1>2

\* A capture starts over with the tree as it is.
LEMMA CaptureKeepsTree ==
    ASSUME TreeInv, Capture
    PROVE  TreeInv' /\ prov' = Captured(first')
<1>1. first' = tree /\ tree' = tree /\ shown' = {Shown(tree)} /\ prov' = Captured(tree)
  BY DEF Capture
<1> QED  BY <1>1 DEF TreeInv, Shown, Porcelain, Content

\* So does a probe of another target.
LEMMA AnotherTree ==
    ASSUME NEW t \in Trees, TreeIs(t)
    PROVE  TreeInv'
<1>1. first' = t /\ tree' = t /\ shown' = {Shown(t)}
  BY DEF TreeIs
<1> QED  BY <1>1 DEF TreeInv, Shown, Porcelain, Content

\* The status of a report whose tree has moved.
LEMMA MovedStatus ==
    ASSUME NEW p, p.head # NoHead, p.finished = TRUE, p.moves = TRUE
    PROVE  Status(p) = "MOVED_DURING_RUN"
  BY DEF Status

\* A tree that is measured again and found as it was is untouched, for all that git can
\* tell; a verdict that is not withdrawn is of such a tree.
LEMMA NotMoved ==
    ASSUME prov = Captured(first), prov.head # NoHead, ~unseen,
           Status(Rechecked(prov, tree)) # "MOVED_DURING_RUN"
    PROVE  Untouched
<1>1. prov = [head |-> first.head, digest |-> Porcelain(first), finished |-> FALSE,
              moves |-> FALSE]
  BY DEF Captured
<1>2. PICK again : again = Rechecked(prov, tree)
  OBVIOUS
<1>3. /\ again.head = first.head
      /\ again.finished = TRUE
      /\ again.moves = (prov.head # NoHead /\ (tree.head # prov.head
                                               \/ Porcelain(tree) # prov.digest))
  BY <1>1, <1>2 DEF Rechecked
<1>4. first.head # NoHead
  BY <1>1
<1>5. again.moves # TRUE
  BY <1>2, <1>3, <1>4, MovedStatus
<1>6. ~(tree.head # prov.head \/ Porcelain(tree) # prov.digest)
  BY <1>3, <1>5
<1>7. tree.head = first.head /\ Porcelain(tree) = Porcelain(first)
  BY <1>1, <1>6
<1> QED  BY <1>7 DEF Untouched, Shown

\* Without an exit code there is no verdict.
LEMMA NoVerdict ==
    ASSUME lockfile.rc = NoCode, shipped.rc = NoCode
    PROVE  VerdictIsOfOneTree
  BY DEF VerdictIsOfOneTree, NoCode
--------------------------------------------------------------------------------
(* The lockfile probe.                                                         *)

\* A probe that is at work and not yet done keeps the invariant when its own part of
\* it is kept: the others are idle.
LEMMA LockfileAtWork ==
    ASSUME IInv, lockfile.pc # "idle", UNCHANGED <<shipped, yank, sweep>>
    PROVE  ShippedInv' /\ Exclusive' /\ shipped'.rc = NoCode
<1>1. shipped.pc = "idle" /\ sweep.pc = "running" /\ sweep.probe = "lockfile"
      /\ yank.pc = "idle"
  BY DEF IInv, Exclusive
<1> QED  BY <1>1 DEF IInv, ShippedInv, Exclusive

\* The capture: nothing is read yet, and the tree is the one it was measured as.
LEMMA LockfileCaptureKeeps ==
    ASSUME IInv, LockfileCapture, UNCHANGED <<shipped, yank, sweep>>
    PROVE  IInv'
<1>1. ShippedInv' /\ Exclusive' /\ shipped'.rc = NoCode
  BY LockfileAtWork DEF LockfileCapture
<1>2. TreeInv' /\ prov' = Captured(first')
  BY CaptureKeepsTree DEF LockfileCapture, IInv
<1>3. lockfile' = [IdleLockfile EXCEPT !.pc = "declare"]
  <2>1. lockfile = [IdleLockfile EXCEPT !.pc = "capture"]
    BY DEF LockfileCapture, IInv, LockfileInv
  <2> QED  BY <2>1 DEF LockfileCapture, LockfileIs, IdleLockfile
<1>4. lockfile'.pc = "declare" /\ lockfile'.rc = NoCode /\ lockfile'.present = {}
      /\ lockfile'.findings = {} /\ DOMAIN lockfile' = DOMAIN IdleLockfile
  BY <1>3 DEF IdleLockfile
<1>5. LockfileRead'
  BY <1>4 DEF LockfileRead, Reads
<1>6. LockfileInv'
  BY <1>2, <1>3, <1>4, <1>5 DEF LockfileInv
<1> QED  BY <1>1, <1>2, <1>4, <1>6, NoVerdict DEF IInv, VerdictIsOfOneTree, NoCode

\* The steps between the capture and the recheck leave the tree alone, and so all that
\* is known of it.
LEMMA LockfileReads ==
    ASSUME IInv, lockfile.pc \notin {"idle", "capture", "done"},
           UNCHANGED <<treeVars, shipped, yank, sweep>>,
           DOMAIN lockfile' = DOMAIN lockfile, lockfile'.rc = lockfile.rc,
           lockfile'.pc \in {"look", "read", "tool", "recheck"},
           Untouched /\ ~lockfile'.harness => LockfileRead'
    PROVE  IInv'
<1>1. ShippedInv' /\ Exclusive' /\ shipped'.rc = NoCode
  BY LockfileAtWork
<1>2. TreeInv' /\ prov' = Captured(first')
      /\ (Untouched' <=> Untouched)
  BY DEF IInv, TreeInv, LockfileInv, treeVars, Untouched, Shown, Porcelain, Content, Captured
<1>3. LockfileInv'
  BY <1>2 DEF IInv, LockfileInv
<1>4. lockfile'.rc = NoCode
  BY DEF IInv, LockfileInv
<1> QED  BY <1>1, <1>2, <1>3, <1>4 DEF IInv, VerdictIsOfOneTree, NoCode

\* The first read: what is declared, or a manifest that cannot be read.
LEMMA ReadPyprojectKeeps ==
    ASSUME IInv, ReadPyproject, UNCHANGED <<shipped, yank, sweep>>
    PROVE  IInv'
<1> DEFINE content == tree.files["pyproject"]
<1>1. lockfile = [IdleLockfile EXCEPT !.pc = "declare"] /\ UNCHANGED treeVars
  BY DEF ReadPyproject, IInv, LockfileInv
<1>2. CASE content \in {NoFile, Broken}
  <2>1. lockfile' = [lockfile EXCEPT !.harness = TRUE, !.pc = "recheck"]
    BY <1>2 DEF ReadPyproject
  <2> QED  BY <1>1, <2>1, LockfileReads DEF IdleLockfile
<1>3. CASE content \notin {NoFile, Broken}
  <2>1. lockfile' = [lockfile EXCEPT !.declared = content, !.pc = "look"]
    BY <1>3 DEF ReadPyproject
  <2>2. lockfile'.declared = content /\ lockfile'.pc = "look" /\ lockfile'.present = {}
        /\ lockfile'.findings = {} /\ lockfile'.rc = lockfile.rc
        /\ DOMAIN lockfile' = DOMAIN lockfile /\ lockfile.pc = "declare"
    BY <1>1, <2>1 DEF IdleLockfile
  <2>3. ASSUME Untouched  PROVE LockfileRead'
    <3>1. content = first.files["pyproject"]
      BY <2>3, ReadOfFirst, LockPathsAssumption DEF LockPathsAssumption, IInv
    <3>2. first' = first
      BY <1>1 DEF treeVars
    <3> QED  BY <2>2, <3>1, <3>2 DEF LockfileRead, Reads
  <2> QED  BY <1>1, <2>2, <2>3, LockfileReads
<1> QED  BY <1>2, <1>3

\* The locks that are there are those of the tree, which is still the first one.
LEMMA LookForLocksKeeps ==
    ASSUME IInv, LookForLocks, UNCHANGED <<shipped, yank, sweep>>
    PROVE  IInv'
<1> DEFINE present == LocksOf(tree)
<1>1. lockfile.pc = "look" /\ UNCHANGED treeVars /\ DOMAIN lockfile = DOMAIN IdleLockfile
  BY DEF LookForLocks, IInv, LockfileInv
<1>2. ASSUME Untouched, ~lockfile.harness  PROVE LockfileRead /\ present = LocksOf(first)
  <2>1. LockfileRead
    BY <1>1, <1>2 DEF IInv, LockfileInv
  <2>2. \A kind \in {"uv", "poetry"} : tree.files[kind] = first.files[kind]
    BY <1>2, ReadOfFirst, LockPathsAssumption DEF LockPathsAssumption, IInv
  <2> QED  BY <2>1, <2>2 DEF LocksOf
<1>3. first' = first
  BY <1>1 DEF treeVars
<1>4. CASE present = {}
  <2>1. lockfile' = [lockfile EXCEPT !.status = "no_lockfile", !.pc = "recheck"]
    BY <1>4 DEF LookForLocks
  <2>2. lockfile'.pc = "recheck" /\ lockfile'.status = "no_lockfile"
        /\ lockfile'.declared = lockfile.declared /\ lockfile'.present = lockfile.present
        /\ lockfile'.findings = lockfile.findings /\ lockfile'.rc = lockfile.rc
        /\ lockfile'.harness = lockfile.harness /\ DOMAIN lockfile' = DOMAIN lockfile
    BY <1>1, <2>1 DEF IdleLockfile
  <2>3. ASSUME Untouched, ~lockfile'.harness  PROVE LockfileRead'
    BY <1>1, <1>2, <1>3, <1>4, <2>2, <2>3 DEF LockfileRead, Reads
  <2> QED  BY <1>1, <2>2, <2>3, LockfileReads
<1>5. CASE present # {}
  <2>1. lockfile' = [lockfile EXCEPT !.present = present, !.pc = "read"]
    BY <1>5 DEF LookForLocks
  <2>2. lockfile'.pc = "read" /\ lockfile'.present = present
        /\ lockfile'.declared = lockfile.declared
        /\ lockfile'.findings = lockfile.findings /\ lockfile'.rc = lockfile.rc
        /\ lockfile'.harness = lockfile.harness /\ DOMAIN lockfile' = DOMAIN lockfile
    BY <1>1, <2>1 DEF IdleLockfile
  <2>3. ASSUME Untouched, ~lockfile'.harness  PROVE LockfileRead'
    BY <1>1, <1>2, <1>3, <1>5, <2>2, <2>3 DEF LockfileRead, Reads
  <2> QED  BY <1>1, <2>2, <2>3, LockfileReads
<1> QED  BY <1>4, <1>5

\* What a lock says about a requirement that it repeats.
LEMMA SoundAgrees ==
    ASSUME TreeInv, NEW kind \in LocksOf(first), first.files[kind] = first.files["pyproject"],
           first.files[kind] # Odd
    PROVE  Disagrees(kind) = {}
<1>1. first.files["pyproject"] \in Int
  BY LockPathsAssumption, VersionsAreNumbers
     DEF LockPathsAssumption, VersionsAreNumbers, TreeInv, Trees
<1> QED  BY <1>1 DEF Disagrees, Compared

\* What NextLock changes of a report.
LEMMA NextLockFields ==
    ASSUME NEW l, DOMAIN l = DOMAIN IdleLockfile
    PROVE  LET n    == NextLock(l)
               rest == l.present \ {FirstOf(l.present)}
           IN /\ n.present = rest
              /\ n.pc = IF rest = {} THEN "recheck" ELSE "read"
              /\ n.declared = l.declared /\ n.findings = l.findings /\ n.status = l.status
              /\ n.rc = l.rc /\ n.harness = l.harness
              /\ DOMAIN n = DOMAIN l
  BY DEF NextLock, IdleLockfile

\* The report of a lock that has been compared goes on to the next one.
LEMMA NextLockReads ==
    ASSUME NEW l, DOMAIN l = DOMAIN IdleLockfile, l.pc \in {"read", "tool"}, Reads(l),
           Disagrees(FirstOf(l.present)) \subseteq l.findings
    PROVE  Reads(NextLock(l))
<1> DEFINE rest == l.present \ {FirstOf(l.present)}
<1>1. PICK n : n = NextLock(l)
  OBVIOUS
<1>2. n.present = rest /\ n.pc = (IF rest = {} THEN "recheck" ELSE "read")
      /\ n.declared = l.declared /\ n.findings = l.findings /\ n.status = l.status
  BY <1>1, NextLockFields
<1>3. ASSUME n.status # "no_lockfile", NEW kind \in LocksOf(first) \ rest
      PROVE  Disagrees(kind) \subseteq n.findings
  <2>1. CASE kind = FirstOf(l.present)
    BY <1>2, <2>1
  <2>2. CASE kind # FirstOf(l.present)
    BY <1>2, <1>3, <2>2 DEF Reads
  <2> QED  BY <2>1, <2>2
<1>4. Reads(n)
  BY <1>2, <1>3 DEF Reads
<1> QED  BY <1>1, <1>4

\* A lock is read and compared with what is declared.
LEMMA ReadLockKeeps ==
    ASSUME IInv, ReadLock, UNCHANGED <<shipped, yank, sweep>>
    PROVE  IInv'
<1> DEFINE kind    == FirstOf(lockfile.present)
           content == tree.files[kind]
           read    == [lockfile EXCEPT
                         !.findings = @ \cup Compared(lockfile.declared, kind, content)]
<1>1. lockfile.pc = "read" /\ UNCHANGED treeVars /\ DOMAIN lockfile = DOMAIN IdleLockfile
  BY DEF ReadLock, IInv, LockfileInv
<1>2. CASE content \in {NoFile, Broken}
  <2>1. lockfile' = [lockfile EXCEPT !.harness = TRUE, !.pc = "recheck"]
    BY <1>2 DEF ReadLock
  <2>2. lockfile'.harness /\ lockfile'.pc = "recheck" /\ lockfile'.rc = lockfile.rc
        /\ DOMAIN lockfile' = DOMAIN lockfile
    BY <1>1, <2>1 DEF IdleLockfile
  <2> QED  BY <1>1, <2>2, LockfileReads
<1>3. CASE content \notin {NoFile, Broken}
  <2>1. lockfile' = IF NoTools THEN NextLock(read) ELSE [read EXCEPT !.pc = "tool"]
    BY <1>3 DEF ReadLock
  <2>2. PICK r : r = read
    OBVIOUS
  <2>3. r.pc = "read" /\ r.present = lockfile.present /\ r.declared = lockfile.declared
        /\ r.findings = lockfile.findings \cup Compared(lockfile.declared, kind, content)
        /\ r.status = lockfile.status /\ r.rc = lockfile.rc /\ r.harness = lockfile.harness
        /\ DOMAIN r = DOMAIN IdleLockfile
    BY <1>1, <2>2 DEF IdleLockfile
  <2>4. ASSUME Untouched, ~lockfile.harness
        PROVE  Reads(r) /\ Disagrees(kind) \subseteq r.findings
    <3>1. Reads(lockfile)
      BY <1>1, <2>4 DEF IInv, LockfileInv, LockfileRead
    <3>2. kind \in LocksOf(first) /\ lockfile.declared = first.files["pyproject"]
      BY <1>1, <3>1 DEF Reads, LocksOf, FirstOf
    <3>3. content = first.files[kind]
      BY <2>4, <3>2, ReadOfFirst, LockPathsAssumption DEF LockPathsAssumption, IInv, LocksOf
    <3>4. r.findings = lockfile.findings \cup Disagrees(kind)
      BY <2>3, <3>2, <3>3 DEF Disagrees
    <3>5. ASSUME CertainlySound(first)  PROVE Disagrees(kind) = {}
      BY <3>2, <3>5, SoundAgrees DEF CertainlySound, IInv
    <3> QED  BY <1>1, <2>3, <3>1, <3>4, <3>5 DEF Reads
  <2>5. CASE NoTools
    <3>1. lockfile' = NextLock(r)
      BY <2>1, <2>2, <2>5
    <3>2. DOMAIN lockfile' = DOMAIN lockfile /\ lockfile'.rc = lockfile.rc
          /\ lockfile'.harness = lockfile.harness /\ lockfile'.pc \in {"read", "recheck"}
      BY <1>1, <2>3, <3>1, NextLockFields
    <3>3. ASSUME Untouched, ~lockfile'.harness  PROVE LockfileRead'
      <4>1. Reads(NextLock(r))
        BY <2>3, <2>4, <3>2, <3>3, NextLockReads
      <4> QED  BY <1>1, <3>1, <4>1 DEF LockfileRead, Reads, Disagrees, treeVars
    <3> QED  BY <1>1, <3>2, <3>3, LockfileReads
  <2>6. CASE ~NoTools
    <3>1. lockfile' = [r EXCEPT !.pc = "tool"]
      BY <2>1, <2>2, <2>6
    <3>2. lockfile'.pc = "tool" /\ lockfile'.present = r.present
          /\ lockfile'.declared = r.declared /\ lockfile'.findings = r.findings
          /\ lockfile'.status = r.status /\ lockfile'.rc = r.rc
          /\ lockfile'.harness = r.harness /\ DOMAIN lockfile' = DOMAIN lockfile
      BY <1>1, <2>3, <3>1 DEF IdleLockfile
    <3>3. ASSUME Untouched, ~lockfile'.harness  PROVE LockfileRead'
      <4>1. Reads(r) /\ Disagrees(kind) \subseteq r.findings
        BY <2>3, <2>4, <3>2, <3>3
      <4>2. Reads(lockfile')
        BY <2>3, <3>2, <4>1 DEF Reads
      <4> QED  BY <1>1, <4>2 DEF LockfileRead, Reads, Disagrees, treeVars
    <3> QED  BY <1>1, <2>3, <3>2, <3>3, LockfileReads
  <2> QED  BY <2>5, <2>6
<1> QED  BY <1>2, <1>3

\* The tool that resolves the declaration is asked about a lock.
LEMMA AskToolKeeps ==
    ASSUME IInv, AskTool, UNCHANGED <<shipped, yank, sweep>>
    PROVE  IInv'
<1> DEFINE kind  == FirstOf(lockfile.present)
           stale == tree.files[kind] # tree.files["pyproject"]
<1>1. lockfile.pc = "tool" /\ UNCHANGED treeVars /\ DOMAIN lockfile = DOMAIN IdleLockfile
  BY DEF AskTool, IInv, LockfileInv
<1>2. PICK answered \in BOOLEAN :
        lockfile' = NextLock([lockfile EXCEPT
                      !.findings = IF answered /\ stale THEN @ \cup {"LOCK_STALE"} ELSE @])
  BY DEF AskTool
<1>3. PICK r : r = [lockfile EXCEPT
                      !.findings = IF answered /\ stale THEN @ \cup {"LOCK_STALE"} ELSE @]
  OBVIOUS
<1>4. r.pc = "tool" /\ r.present = lockfile.present /\ r.declared = lockfile.declared
      /\ r.findings = (IF answered /\ stale THEN lockfile.findings \cup {"LOCK_STALE"}
                       ELSE lockfile.findings)
      /\ r.status = lockfile.status /\ r.rc = lockfile.rc /\ r.harness = lockfile.harness
      /\ DOMAIN r = DOMAIN IdleLockfile
  BY <1>1, <1>3 DEF IdleLockfile
<1>5. DOMAIN lockfile' = DOMAIN lockfile /\ lockfile'.rc = lockfile.rc
      /\ lockfile'.harness = lockfile.harness /\ lockfile'.pc \in {"read", "recheck"}
  <2>1. lockfile' = NextLock(r)
    BY <1>2, <1>3
  <2>2. /\ NextLock(r).rc = r.rc /\ NextLock(r).harness = r.harness
        /\ NextLock(r).pc \in {"read", "recheck"} /\ DOMAIN NextLock(r) = DOMAIN r
    BY <1>4, NextLockFields
  <2> QED  BY <1>1, <1>4, <2>1, <2>2
<1>6. ASSUME Untouched, ~lockfile.harness
      PROVE  Reads(r) /\ Disagrees(kind) \subseteq r.findings
  <2>1. Reads(lockfile)
    BY <1>1, <1>6 DEF IInv, LockfileInv, LockfileRead
  <2>2. kind \in LocksOf(first)
    BY <1>1, <2>1 DEF Reads, LocksOf, FirstOf
  <2>3. stale => ~CertainlySound(first)
    <3>1. tree.files[kind] = first.files[kind]
          /\ tree.files["pyproject"] = first.files["pyproject"]
      BY <1>6, <2>2, ReadOfFirst, LockPathsAssumption DEF LockPathsAssumption, IInv, LocksOf
    <3> QED  BY <2>2, <3>1 DEF CertainlySound
  <2> QED  BY <1>1, <1>4, <2>1, <2>3 DEF Reads
<1>7. ASSUME Untouched, ~lockfile'.harness  PROVE LockfileRead'
  <2>1. Reads(NextLock(r))
    BY <1>4, <1>5, <1>6, <1>7, NextLockReads
  <2> QED  BY <1>1, <1>2, <1>3, <2>1 DEF LockfileRead, Reads, Disagrees, treeVars
<1> QED  BY <1>1, <1>5, <1>7, LockfileReads

\* The verdict is about what was read, and that is of the tree that was captured.
LEMMA LockfileRecheckKeeps ==
    ASSUME IInv, LockfileRecheck, UNCHANGED <<shipped, yank, sweep>>
    PROVE  IInv'
<1>1. lockfile.pc = "recheck" /\ prov = Captured(first) /\ prov' = Rechecked(prov, tree)
      /\ DOMAIN lockfile = DOMAIN IdleLockfile /\ UNCHANGED <<tree, first, shown, unseen>>
  BY DEF LockfileRecheck, IInv, LockfileInv
<1>2. lockfile' = [lockfile EXCEPT !.rc = LockfileCode(lockfile, prov'), !.pc = "done"]
  BY DEF LockfileRecheck
<1>3. lockfile'.pc = "done" /\ lockfile'.rc = LockfileCode(lockfile, prov')
      /\ DOMAIN lockfile' = DOMAIN IdleLockfile
  BY <1>1, <1>2 DEF IdleLockfile
<1>4. ShippedInv' /\ Exclusive' /\ shipped'.rc = NoCode
  BY <1>1, LockfileAtWork
<1>5. TreeInv'
  BY <1>1 DEF IInv, TreeInv, Untouched, Shown, Porcelain, Content
<1>6. LockfileInv'
  BY <1>3 DEF LockfileInv
<1>7. ASSUME prov'.head # NoHead, ~unseen, lockfile'.rc \in {0, 2}
      PROVE  /\ lockfile'.rc = 0 => ~CertainlyDrifted(first)
             /\ lockfile'.rc = 2 => ~CertainlySound(first)
  <2>1. prov'.head = prov.head
    BY <1>1 DEF Rechecked, Captured
  <2>2. /\ Status(Rechecked(prov, tree)) # "MOVED_DURING_RUN" /\ ~lockfile.harness
        /\ lockfile'.rc = 0 => lockfile.findings = {} /\ lockfile.status # "no_lockfile"
        /\ lockfile'.rc = 2 => lockfile.findings # {}
    BY <1>1, <1>3, <1>7 DEF LockfileCode, ExitMoved, Blocking
  <2>3. Untouched
    BY <1>1, <1>7, <2>1, <2>2, NotMoved
  <2>4. Reads(lockfile)
    BY <1>1, <2>2, <2>3 DEF IInv, LockfileInv, LockfileRead
  <2>5. lockfile'.rc = 0 => ~CertainlyDrifted(first)
    BY <1>1, <2>2, <2>4 DEF Reads, CertainlyDrifted, Disagrees
  <2>6. lockfile'.rc = 2 => ~CertainlySound(first)
    BY <2>2, <2>4 DEF Reads
  <2> QED  BY <2>5, <2>6
<1>8. VerdictIsOfOneTree'
  BY <1>1, <1>4, <1>7 DEF VerdictIsOfOneTree, NoCode, CertainlyDrifted, CertainlySound, LocksOf
<1> QED  BY <1>4, <1>5, <1>6, <1>8 DEF IInv

\* Every step of the lockfile probe keeps the invariant.
LEMMA LockfileStepKeeps ==
    ASSUME IInv, LockfileStep, UNCHANGED <<shipped, yank, sweep>>
    PROVE  IInv'
  BY LockfileCaptureKeeps, ReadPyprojectKeeps, LookForLocksKeeps, ReadLockKeeps, AskToolKeeps,
     LockfileRecheckKeeps DEF LockfileStep
--------------------------------------------------------------------------------
(* The shipped probe.                                                          *)

\* While the shipped probe is at work the lockfile probe is idle, and stays so.
LEMMA ShippedAtWork ==
    ASSUME IInv, shipped.pc # "idle", UNCHANGED <<lockfile, yank, sweep>>
    PROVE  LockfileInv' /\ Exclusive' /\ lockfile'.rc = NoCode
<1>1. lockfile.pc = "idle" /\ sweep.pc = "running" /\ sweep.probe = "shipped"
      /\ yank.pc = "idle"
  BY DEF IInv, Exclusive
<1> QED  BY <1>1 DEF IInv, LockfileInv, Exclusive

\* The capture of the shipped probe.
LEMMA ShippedCaptureKeeps ==
    ASSUME IInv, ShippedCapture, UNCHANGED <<lockfile, yank, sweep>>
    PROVE  IInv'
<1>1. LockfileInv' /\ Exclusive' /\ lockfile'.rc = NoCode
  BY ShippedAtWork DEF ShippedCapture
<1>2. TreeInv' /\ prov' = Captured(first')
  BY CaptureKeepsTree DEF ShippedCapture, IInv
<1>3. shipped'.pc = "project" /\ shipped'.rc = NoCode /\ DOMAIN shipped' = DOMAIN ShippedIdle
      /\ shipped'.source = NoFile
  BY DEF ShippedCapture, IInv, ShippedInv, ShippedIdle
<1>4. ShippedInv'
  BY <1>2, <1>3 DEF ShippedInv, ShippedRead
<1> QED  BY <1>1, <1>2, <1>3, <1>4 DEF IInv, VerdictIsOfOneTree, NoCode

\* The steps between the capture and the recheck leave the tree alone, and so all that
\* is known of it.
LEMMA ShippedReads ==
    ASSUME IInv, shipped.pc \notin {"idle", "capture", "done"},
           UNCHANGED <<treeVars, subject, lockfile, yank, sweep>>,
           DOMAIN shipped' = DOMAIN ShippedIdle, shipped'.rc = NoCode,
           shipped'.pc \notin {"idle", "capture", "done"},
           Untouched => ShippedRead'
    PROVE  IInv'
<1>1. LockfileInv' /\ Exclusive' /\ lockfile'.rc = NoCode
  BY ShippedAtWork
<1>2. TreeInv' /\ prov' = Captured(first') /\ (Untouched' <=> Untouched)
  BY DEF IInv, TreeInv, ShippedInv, treeVars, Untouched, Shown, Porcelain, Content, Captured
<1>3. ShippedInv'
  BY <1>2 DEF ShippedInv
<1> QED  BY <1>1, <1>2, <1>3 DEF IInv, VerdictIsOfOneTree, NoCode

\* A file that cannot be read as text ends the run without a verdict.
LEMMA UnreadableEnds ==
    ASSUME IInv, shipped.pc \notin {"idle", "capture", "done"},
           UNCHANGED <<treeVars, lockfile, yank, sweep>>,
           shipped' = [shipped EXCEPT !.rc = 127, !.pc = "done"]
    PROVE  IInv'
<1>1. LockfileInv' /\ Exclusive' /\ lockfile'.rc = NoCode
  BY ShippedAtWork
<1>2. TreeInv'
  BY DEF IInv, TreeInv, treeVars, Untouched, Shown, Porcelain, Content
<1>3. shipped'.pc = "done" /\ shipped'.rc = 127 /\ DOMAIN shipped' = DOMAIN ShippedIdle
  BY DEF IInv, ShippedInv, ShippedIdle
<1>4. ShippedInv'
  BY <1>3 DEF ShippedInv
<1> QED  BY <1>1, <1>2, <1>3, <1>4 DEF IInv, VerdictIsOfOneTree, NoCode

\* Every read is of a tree that is as it was captured, or will be found to have moved:
\* the version,
LEMMA ReadProjectKeeps ==
    ASSUME IInv, ReadProject, UNCHANGED <<lockfile, yank, sweep>>
    PROVE  IInv'
<1> DEFINE content == tree.files["pyproject"]
<1>1. UNCHANGED <<treeVars, subject>> /\ first' = first
  BY DEF ReadProject, ShippedAlone, treeVars
<1>2. shipped.pc = "project" /\ shipped.rc = NoCode /\ DOMAIN shipped = DOMAIN ShippedIdle
  BY DEF ReadProject, IInv, ShippedInv
<1>3. CASE content = Broken
  <2>1. shipped' = [shipped EXCEPT !.rc = 127, !.pc = "done"]
    BY <1>3 DEF ReadProject, ReadText
  <2> QED  BY <1>1, <1>2, <2>1, UnreadableEnds
<1>4. CASE content # Broken
  <2>1. shipped' = [shipped EXCEPT !.version = content, !.pc = "history"]
    BY <1>4 DEF ReadProject, ReadText
  <2>2. shipped'.pc = "history" /\ shipped'.version = content
        /\ shipped'.source = shipped.source
        /\ shipped'.rc = NoCode /\ DOMAIN shipped' = DOMAIN ShippedIdle
    BY <1>2, <2>1 DEF ShippedIdle
  <2>3. ASSUME Untouched  PROVE ShippedRead'
    <3>1. ShippedRead
      BY <1>2, <2>3 DEF IInv, ShippedInv
    <3>2. content = first.files["pyproject"]
      BY <2>3, ReadOfFirst, FilesAssumption DEF FilesAssumption, IInv
    <3> QED  BY <1>1, <2>2, <3>1, <3>2 DEF ShippedRead
  <2> QED  BY <1>1, <1>2, <2>2, <2>3, ShippedReads
<1> QED  BY <1>3, <1>4

\* the log of HEAD,
LEMMA ReadHistoryKeeps ==
    ASSUME IInv, ReadHistory, UNCHANGED <<lockfile, yank, sweep>>
    PROVE  IInv'
<1>1. UNCHANGED <<treeVars, subject>> /\ first' = first /\ tree' = tree
  BY DEF ReadHistory, ShippedAlone, treeVars
<1>2. shipped.pc = "history" /\ shipped.rc = NoCode /\ DOMAIN shipped = DOMAIN ShippedIdle
  BY DEF ReadHistory, IInv, ShippedInv
<1>3. PICK tagged \in BOOLEAN : \E logged \in BOOLEAN :
        LET tags == IF tagged THEN subject.tags ELSE {} IN
        shipped' = [shipped EXCEPT
                      !.tagged = tagged, !.tags = tags, !.logged = logged,
                      !.work = IF logged THEN Beyond(tree.head, tags) ELSE {},
                      !.pc = "changelog"]
  BY DEF ReadHistory
<1> DEFINE tags == IF tagged THEN subject.tags ELSE {}
<1>4. PICK logged \in BOOLEAN :
        shipped' = [shipped EXCEPT
                      !.tagged = tagged, !.tags = tags, !.logged = logged,
                      !.work = IF logged THEN Beyond(tree.head, tags) ELSE {},
                      !.pc = "changelog"]
  BY <1>3
<1> HIDE DEF tags
<1>5. /\ shipped'.pc = "changelog" /\ shipped'.version = shipped.version
      /\ shipped'.logged = logged /\ shipped'.tags = tags
      /\ shipped'.work = (IF logged THEN Beyond(tree.head, tags) ELSE {})
      /\ shipped'.source = shipped.source
      /\ shipped'.rc = NoCode /\ DOMAIN shipped' = DOMAIN ShippedIdle
  BY <1>2, <1>4 DEF ShippedIdle
<1>6. ASSUME Untouched  PROVE ShippedRead'
  <2>1. ShippedRead
    BY <1>2, <1>6 DEF IInv, ShippedInv
  <2>2. tree.head = first.head
    BY <1>6 DEF Untouched, Shown
  <2>3. shipped'.logged => shipped'.work = Beyond(first.head, shipped.tags)'
    BY <1>1, <1>5, <2>2 DEF Beyond
  <2> QED  BY <1>1, <1>2, <1>5, <2>1, <2>3 DEF ShippedRead
<1> QED  BY <1>1, <1>2, <1>5, <1>6, ShippedReads

\* the changelog,
LEMMA ReadChangelogKeeps ==
    ASSUME IInv, ReadChangelog, UNCHANGED <<lockfile, yank, sweep>>
    PROVE  IInv'
<1> DEFINE content == tree.files["changelog"]
<1>1. UNCHANGED <<treeVars, subject>> /\ first' = first
  BY DEF ReadChangelog, ShippedAlone, treeVars
<1>2. shipped.pc = "changelog" /\ shipped.rc = NoCode /\ DOMAIN shipped = DOMAIN ShippedIdle
  BY DEF ReadChangelog, IInv, ShippedInv
<1>3. CASE content = Broken
  <2>1. shipped' = [shipped EXCEPT !.rc = 127, !.pc = "done"]
    BY <1>3 DEF ReadChangelog, ReadText
  <2> QED  BY <1>1, <1>2, <2>1, UnreadableEnds
<1>4. CASE content # Broken
  <2>1. shipped' = [shipped EXCEPT !.changelog = content,
                                   !.pc = IF Asked.offline THEN "weigh" ELSE "simple"]
    BY <1>4 DEF ReadChangelog, ReadText
  <2>2. /\ shipped'.pc \in {"weigh", "simple"} /\ shipped'.changelog = content
        /\ shipped'.version = shipped.version /\ shipped'.logged = shipped.logged
        /\ shipped'.work = shipped.work /\ shipped'.tags = shipped.tags
        /\ shipped'.source = shipped.source
        /\ shipped'.rc = NoCode /\ DOMAIN shipped' = DOMAIN ShippedIdle
    BY <1>2, <2>1 DEF ShippedIdle
  <2>3. ASSUME Untouched  PROVE ShippedRead'
    <3>1. ShippedRead
      BY <1>2, <2>3 DEF IInv, ShippedInv
    <3>2. content = first.files["changelog"]
      BY <2>3, ReadOfFirst, FilesAssumption DEF FilesAssumption, IInv
    <3> QED  BY <1>1, <1>2, <2>2, <3>1, <3>2 DEF ShippedRead, Beyond
  <2> QED  BY <1>1, <1>2, <2>2, <2>3, ShippedReads
<1> QED  BY <1>3, <1>4

\* and, where an artifact is compared with it, the code.
LEMMA InstallReads ==
    ASSUME Install, DOMAIN shipped = DOMAIN ShippedIdle
    PROVE  /\ shipped'.version = shipped.version /\ shipped'.tags = shipped.tags
           /\ shipped'.logged = shipped.logged /\ shipped'.work = shipped.work
           /\ shipped'.changelog = shipped.changelog /\ shipped'.rc = shipped.rc
           /\ shipped'.source \in {shipped.source, NoFile, tree.files["source"]}
           /\ DOMAIN shipped' = DOMAIN ShippedIdle
           /\ shipped'.pc \in {"speak", "recheck"}
<1>1. ASSUME NEW r, NEW found, DOMAIN r = DOMAIN ShippedIdle
      PROVE  /\ EndWith(r, found).version = r.version /\ EndWith(r, found).tags = r.tags
             /\ EndWith(r, found).logged = r.logged /\ EndWith(r, found).work = r.work
             /\ EndWith(r, found).changelog = r.changelog /\ EndWith(r, found).rc = r.rc
             /\ EndWith(r, found).source = r.source
             /\ DOMAIN EndWith(r, found) = DOMAIN ShippedIdle
             /\ EndWith(r, found).pc = "recheck"
  BY <1>1 DEF EndWith, ShippedIdle
<1> DEFINE version == Resolved(Asked.pin)
           got     == [shipped EXCEPT !.installed = version]
           held    == [got EXCEPT !.source = SourceFor(got.version, version)]
           found   == VersionFindings(held) \cup ContentFindings(held)
<1>2. PICK g : g = got
  OBVIOUS
<1>3. PICK h : h = held
  OBVIOUS
<1>4. /\ g.version = shipped.version /\ g.tags = shipped.tags /\ g.logged = shipped.logged
      /\ g.work = shipped.work /\ g.changelog = shipped.changelog /\ g.rc = shipped.rc
      /\ g.source = shipped.source /\ DOMAIN g = DOMAIN ShippedIdle
  BY <1>2 DEF ShippedIdle
<1>5. /\ h.version = shipped.version /\ h.tags = shipped.tags /\ h.logged = shipped.logged
      /\ h.work = shipped.work /\ h.changelog = shipped.changelog /\ h.rc = shipped.rc
      /\ h.source \in {NoFile, tree.files["source"]} /\ DOMAIN h = DOMAIN ShippedIdle
  BY <1>2, <1>3, <1>4 DEF SourceFor, ShippedIdle
<1>6. \/ shipped' = EndWith(shipped, {"INSTALL_FAILED"})
      \/ shipped' = [g EXCEPT !.harness = TRUE, !.pc = "recheck"]
      \/ \E more : shipped' = EndWith(h, more)
      \/ \E more : shipped' = [h EXCEPT !.findings = more, !.pc = "speak"]
  BY <1>2, <1>3 DEF Install
<1>7. CASE shipped' = EndWith(shipped, {"INSTALL_FAILED"})
  BY <1>1, <1>7
<1>8. CASE shipped' = [g EXCEPT !.harness = TRUE, !.pc = "recheck"]
  BY <1>4, <1>8 DEF ShippedIdle
<1>9. ASSUME NEW more, shipped' = EndWith(h, more)  PROVE
      /\ shipped'.version = h.version /\ shipped'.tags = h.tags
      /\ shipped'.logged = h.logged /\ shipped'.work = h.work
      /\ shipped'.changelog = h.changelog /\ shipped'.rc = h.rc
      /\ shipped'.source = h.source /\ DOMAIN shipped' = DOMAIN ShippedIdle
      /\ shipped'.pc = "recheck"
  BY <1>1, <1>5, <1>9
<1>10. ASSUME NEW more, shipped' = [h EXCEPT !.findings = more, !.pc = "speak"]  PROVE
      /\ shipped'.version = h.version /\ shipped'.tags = h.tags
      /\ shipped'.logged = h.logged /\ shipped'.work = h.work
      /\ shipped'.changelog = h.changelog /\ shipped'.rc = h.rc
      /\ shipped'.source = h.source /\ DOMAIN shipped' = DOMAIN ShippedIdle
      /\ shipped'.pc = "speak"
  BY <1>5, <1>10 DEF ShippedIdle
<1> QED  BY <1>5, <1>6, <1>7, <1>8, <1>9, <1>10

\* The steps that turn to the index, to pip and to the server keep what was read.
LEMMA ShippedGoesOn ==
    ASSUME IInv, FetchSimple \/ FetchJson \/ Weigh \/ Install \/ Speak,
           UNCHANGED <<lockfile, yank, sweep>>
    PROVE  IInv'
<1>1. /\ shipped.pc \in {"simple", "json", "weigh", "install", "speak"}
      /\ UNCHANGED <<treeVars, subject>> /\ first' = first
  BY DEF FetchSimple, FetchJson, Weigh, Install, Speak, ShippedAlone, treeVars
<1>2. shipped.rc = NoCode /\ DOMAIN shipped = DOMAIN ShippedIdle
  BY <1>1 DEF IInv, ShippedInv
<1>3. /\ shipped'.version = shipped.version /\ shipped'.tags = shipped.tags
      /\ shipped'.logged = shipped.logged /\ shipped'.work = shipped.work
      /\ shipped'.changelog = shipped.changelog /\ shipped'.rc = shipped.rc
      /\ shipped'.source \in {shipped.source, NoFile, tree.files["source"]}
      /\ DOMAIN shipped' = DOMAIN ShippedIdle
      /\ shipped'.pc \in {"json", "weigh", "install", "speak", "recheck"}
  <2>1. CASE FetchSimple
    BY <1>2, <2>1 DEF FetchSimple, ShippedIdle
  <2>2. CASE FetchJson
    BY <1>2, <2>2 DEF FetchJson, ShippedIdle
  <2>3. CASE Weigh
    BY <1>2, <2>3 DEF Weigh, ShippedIdle
  <2>4. CASE Install
    BY <1>2, <2>4, InstallReads
  <2>5. CASE Speak
    BY <1>2, <2>5 DEF Speak, EndWith, ShippedIdle
  <2> QED  BY <2>1, <2>2, <2>3, <2>4, <2>5
<1>4. ASSUME Untouched  PROVE ShippedRead'
  <2>1. ShippedRead
    BY <1>1, <1>4 DEF IInv, ShippedInv
  <2>2. tree.files["source"] = first.files["source"]
    BY <1>4, ReadOfFirst, FilesAssumption DEF FilesAssumption, IInv
  <2> QED  BY <1>1, <1>3, <2>1, <2>2 DEF ShippedRead, Beyond
<1> QED  BY <1>1, <1>2, <1>3, <1>4, ShippedReads

\* The tree is measured again and the verdict given, or withdrawn.
LEMMA ShippedRecheckKeeps ==
    ASSUME IInv, ShippedRecheck, UNCHANGED <<lockfile, yank, sweep>>
    PROVE  IInv'
<1>1. shipped.pc = "recheck" /\ prov = Captured(first) /\ prov' = Rechecked(prov, tree)
      /\ DOMAIN shipped = DOMAIN ShippedIdle
      /\ UNCHANGED <<tree, first, shown, unseen, subject>>
  BY DEF ShippedRecheck, ShippedAlone, IInv, ShippedInv
<1>2. shipped' = [shipped EXCEPT !.rc = ShippedCode(shipped, prov'), !.pc = "done"]
  BY DEF ShippedRecheck
<1>3. /\ shipped'.pc = "done" /\ shipped'.rc = ShippedCode(shipped, prov')
      /\ shipped'.version = shipped.version /\ shipped'.tags = shipped.tags
      /\ shipped'.logged = shipped.logged /\ shipped'.work = shipped.work
      /\ shipped'.changelog = shipped.changelog /\ shipped'.source = shipped.source
      /\ DOMAIN shipped' = DOMAIN ShippedIdle
  BY <1>1, <1>2 DEF ShippedIdle
<1>4. LockfileInv' /\ Exclusive' /\ lockfile'.rc = NoCode
  BY <1>1, ShippedAtWork
<1>5. TreeInv'
  BY <1>1 DEF IInv, TreeInv, Untouched, Shown, Porcelain, Content
<1>6. ShippedInv'
  BY <1>3 DEF ShippedInv
<1>7. ASSUME prov'.head # NoHead, ~unseen, shipped'.rc \in {0, 2}
      PROVE  ShippedOf(first)'
  <2>1. prov'.head = prov.head
    BY <1>1 DEF Rechecked, Captured
  <2>2. Status(Rechecked(prov, tree)) # "MOVED_DURING_RUN"
    BY <1>1, <1>3, <1>7 DEF ShippedCode, ExitMoved, Blocking
  <2>3. Untouched
    BY <1>1, <1>7, <2>1, <2>2, NotMoved
  <2>4. ShippedRead
    BY <1>1, <2>3 DEF IInv, ShippedInv
  <2> QED  BY <1>1, <1>3, <2>4 DEF ShippedRead, ShippedOf, Beyond
<1>8. VerdictIsOfOneTree'
  BY <1>1, <1>3, <1>4, <1>7 DEF VerdictIsOfOneTree, NoCode
<1> QED  BY <1>4, <1>5, <1>6, <1>8 DEF IInv

\* Every step of the shipped probe keeps the invariant.
LEMMA ShippedStepKeeps ==
    ASSUME IInv, ShippedStep, UNCHANGED <<lockfile, yank, sweep>>
    PROVE  IInv'
  BY ShippedCaptureKeeps, ReadProjectKeeps, ReadHistoryKeeps, ReadChangelogKeeps,
     ShippedGoesOn, ShippedRecheckKeeps DEF ShippedStep
--------------------------------------------------------------------------------
(* The other two probes, the driver, and what others do.                       *)

\* While neither of the two is at work, only the tree matters.
LEMMA Resumes ==
    ASSUME TreeInv', Exclusive', lockfile'.pc \in {"idle", "capture"},
           lockfile' = [IdleLockfile EXCEPT !.pc = lockfile'.pc],
           shipped'.pc \in {"idle", "capture"}, shipped'.rc = NoCode,
           shipped'.source = NoFile, DOMAIN shipped' = DOMAIN ShippedIdle
    PROVE  IInv'
<1>1. lockfile'.rc = NoCode /\ DOMAIN lockfile' = DOMAIN IdleLockfile
  BY DEF IdleLockfile
<1>2. LockfileInv' /\ ShippedInv'
  BY <1>1 DEF LockfileInv, ShippedInv
<1> QED  BY <1>1, <1>2 DEF IInv, VerdictIsOfOneTree, NoCode

\* A probe that was not started says nothing, whatever happens to the tree.
LEMMA IdleKeeps ==
    ASSUME IInv, lockfile.pc = "idle", shipped.pc = "idle", TreeInv', Exclusive',
           UNCHANGED <<lockfile, shipped>>
    PROVE  IInv'
  BY DEF IInv, LockfileInv, ShippedInv, VerdictIsOfOneTree, NoCode

\* What changes nothing that the invariant is about keeps it.
LEMMA SameTree ==
    ASSUME IInv, UNCHANGED <<treeVars, subject, lockfile, shipped>>, Exclusive'
    PROVE  IInv'
<1>1. UNCHANGED <<tree, prov, first, shown, unseen>>
  BY DEF treeVars
<1>2. TreeInv'
  BY <1>1 DEF IInv, TreeInv, Untouched, Shown, Porcelain, Content
<1>3. (Untouched' <=> Untouched) /\ (prov' = Captured(first') <=> prov = Captured(first))
  BY <1>1 DEF Untouched, Shown, Porcelain, Captured
<1>4. LockfileRead' <=> LockfileRead
  BY <1>1 DEF LockfileRead, Reads, LocksOf, Disagrees, CertainlySound
<1>5. (ShippedRead' <=> ShippedRead) /\ (ShippedOf(first)' <=> ShippedOf(first))
  BY <1>1 DEF ShippedRead, ShippedOf, Beyond
<1>6. LockfileInv' /\ ShippedInv'
  BY <1>1, <1>3, <1>4, <1>5 DEF IInv, LockfileInv, ShippedInv
<1>7. VerdictIsOfOneTree'
  BY <1>1, <1>5 DEF IInv, VerdictIsOfOneTree, CertainlyDrifted, CertainlySound, LocksOf
<1> QED  BY <1>2, <1>6, <1>7 DEF IInv

\* The yank probe measures the tree and reads the index: the other two are idle.
LEMMA YankStepKeeps ==
    ASSUME IInv, YankStep, UNCHANGED <<shipped, lockfile, sweep>>
    PROVE  IInv'
<1>1. yank.pc # "idle"
  BY DEF YankStep, YankCapture, FetchPage, LoadRequirements, FetchDependency, YankRecheck
<1>2. lockfile.pc = "idle" /\ shipped.pc = "idle" /\ sweep.pc = "running"
      /\ sweep.probe = "yank"
  BY <1>1 DEF IInv, Exclusive
<1>3. Exclusive'
  BY <1>2 DEF IInv, Exclusive
<1>4. TreeInv'
  <2>1. CASE YankCapture
    BY <2>1, CaptureKeepsTree DEF YankCapture, IInv
  <2>2. CASE YankRecheck
    BY <2>2 DEF YankRecheck, IInv, TreeInv, Untouched, Shown, Porcelain, Content
  <2>3. CASE FetchPage \/ LoadRequirements \/ FetchDependency
    <3>1. UNCHANGED treeVars
      BY <2>3 DEF FetchPage, LoadRequirements, FetchDependency
    <3> QED  BY <3>1 DEF treeVars, IInv, TreeInv, Untouched, Shown, Porcelain, Content
  <2> QED  BY <2>1, <2>2, <2>3 DEF YankStep
<1> QED  BY <1>2, <1>3, <1>4, IdleKeeps

\* The published probe reads no tree.
LEMMA PublishedStepKeeps ==
    ASSUME IInv, PublishedStep, UNCHANGED <<shipped, yank, lockfile, sweep>>
    PROVE  IInv'
<1>1. UNCHANGED <<treeVars, subject>>
  BY DEF PublishedStep, PublishedAlone, FailPublished, HangPublished, InstallPublished, ScanModules,
         VerifyImports, CheckCaps, SmokeStart, Decide
<1>2. Exclusive'
  BY DEF IInv, Exclusive
<1> QED  BY <1>1, <1>2, SameTree

\* Between two targets no probe is at work.
LEMMA RestingKeeps ==
    ASSUME IInv, Resting, NEW status, Book(status)
    PROVE  IInv'
<1>1. (CHOOSE t \in StartTrees : TRUE) \in Trees
  BY SweepAssumption DEF SweepAssumption
<1>2. TreeInv'
  BY <1>1, AnotherTree DEF Resting
<1>3. lockfile' = IdleLockfile /\ shipped' = ShippedIdle /\ yank' = YankIdle
  BY DEF Resting
<1>4. lockfile'.pc = "idle" /\ lockfile' = [IdleLockfile EXCEPT !.pc = lockfile'.pc]
      /\ shipped'.pc = "idle" /\ shipped'.rc = NoCode /\ yank'.pc = "idle"
      /\ shipped'.source = NoFile
  BY <1>3 DEF IdleLockfile, ShippedIdle, YankIdle
<1>5. Exclusive'
  BY <1>4 DEF Book, IInv, Exclusive
<1> QED  BY <1>2, <1>3, <1>4, <1>5, Resumes

\* A probe that is started finds a tree, and the other probes idle.
LEMMA StartProbeKeeps ==
    ASSUME IInv, StartProbe
    PROVE  IInv'
<1>1. lockfile.pc = "idle" /\ shipped.pc = "idle" /\ yank.pc = "idle"
      /\ sweep.pc = "next" /\ sweep' = [sweep EXCEPT !.pc = "running"]
  BY DEF StartProbe, IInv, Exclusive
<1>2. sweep'.pc = "running" /\ sweep'.probe = sweep.probe
      /\ {"pc", "probe"} \subseteq DOMAIN sweep'
  BY <1>1 DEF IInv, Exclusive
<1>3. TreeInv'
  <2>1. CASE sweep.probe = "published"
    <3>1. UNCHANGED treeVars
      BY <2>1 DEF StartProbe
    <3> QED  BY <3>1 DEF treeVars, IInv, TreeInv, Untouched, Shown, Porcelain, Content
  <2>2. CASE sweep.probe # "published"
    <3>1. PICK t \in StartTrees : TreeIs(t)
      BY <2>2 DEF StartProbe
    <3> QED  BY <3>1, AnotherTree, SweepAssumption DEF SweepAssumption
  <2> QED  BY <2>1, <2>2
<1>4. CASE sweep.probe = "shipped"
  <2>1. shipped' = [ShippedIdle EXCEPT !.pc = "capture"] /\ UNCHANGED <<yank, lockfile>>
    BY <1>4 DEF StartProbe, ShippedStart
  <2>2. shipped'.pc = "capture" /\ shipped'.rc = NoCode /\ shipped'.source = NoFile
        /\ DOMAIN shipped' = DOMAIN ShippedIdle
    BY <2>1 DEF ShippedIdle
  <2>3. Exclusive'
    BY <1>1, <1>2, <1>4, <2>1, <2>2 DEF Exclusive
  <2>4. lockfile'.rc = NoCode /\ LockfileInv'
    BY <1>1, <2>1 DEF IInv, LockfileInv
  <2>5. ShippedInv'
    BY <2>2 DEF ShippedInv
  <2> QED  BY <1>3, <2>2, <2>3, <2>4, <2>5 DEF IInv, VerdictIsOfOneTree, NoCode
<1>5. CASE sweep.probe = "lockfile"
  <2>1. lockfile' = [IdleLockfile EXCEPT !.pc = "capture"] /\ UNCHANGED <<yank, shipped>>
    BY <1>5 DEF StartProbe, LockfileStart
  <2>2. lockfile'.pc = "capture"
    BY <2>1 DEF IdleLockfile
  <2>3. Exclusive'
    BY <1>1, <1>2, <1>5, <2>1, <2>2 DEF Exclusive
  <2>4. shipped'.rc = NoCode /\ DOMAIN shipped' = DOMAIN ShippedIdle /\ shipped'.pc = "idle"
        /\ shipped'.source = NoFile
    BY <1>1, <2>1 DEF IInv, ShippedInv
  <2> QED  BY <1>3, <2>1, <2>2, <2>3, <2>4, Resumes
<1>6. CASE sweep.probe \notin {"shipped", "lockfile"}
  <2>1. UNCHANGED <<shipped, lockfile>> /\ (sweep.probe # "yank" => UNCHANGED yank)
    BY <1>6 DEF StartProbe
  <2>2. Exclusive'
    BY <1>1, <1>2, <2>1 DEF Exclusive
  <2> QED  BY <1>1, <1>3, <2>1, <2>2, IdleKeeps
<1> QED  BY <1>4, <1>5, <1>6

\* The steps of the driver between its probes, and their ends.
LEMMA DriverKeeps ==
    ASSUME IInv, Driver \/ TimeOut
    PROVE  IInv'
<1>1. ASSUME ReadManifest \/ NoCheckout \/ Finish  PROVE IInv'
  <2>1. lockfile.pc = "idle" /\ shipped.pc = "idle" /\ yank.pc = "idle"
    BY <1>1 DEF ReadManifest, NoCheckout, Finish, IInv, Exclusive
  <2>2. UNCHANGED <<treeVars, subject, lockfile, shipped, yank>>
    BY <1>1 DEF ReadManifest, NoCheckout, Finish, Elsewhere
  <2>3. {"pc", "probe"} \subseteq DOMAIN sweep'
    BY <1>1 DEF ReadManifest, NoCheckout, Finish, Book, IInv, Exclusive
  <2>4. Exclusive'
    BY <2>1, <2>2, <2>3 DEF Exclusive
  <2> QED  BY <2>2, <2>4, SameTree
<1>2. CASE StartProbe
  BY <1>2, StartProbeKeeps
<1>3. CASE Collect
  BY <1>3, RestingKeeps DEF Collect
<1>4. CASE TimeOut
  BY <1>4, RestingKeeps DEF TimeOut
<1>5. CASE Crash
  BY <1>5, RestingKeeps DEF Crash
<1> QED  BY <1>1, <1>2, <1>3, <1>4, <1>5 DEF Driver

\* While a probe is at work the index changes, or the tree does.
LEMMA WorldKeeps ==
    ASSUME IInv, World
    PROVE  IInv'
<1>1. UNCHANGED <<subject, shipped, yank, lockfile, sweep>>
  BY DEF World
<1>2. Exclusive'
  BY <1>1 DEF IInv, Exclusive
<1>3. CASE UNCHANGED treeVars
  BY <1>1, <1>2, <1>3, SameTree
<1>4. CASE sweep.probe \in {"lockfile", "shipped"} /\ (CheckOut \/ Edit(Edits[sweep.probe]))
  <2>1. Edits[sweep.probe] \in SUBSET (Paths \X Contents)
    BY <1>4, SweepAssumption DEF SweepAssumption
  <2>2. TreeInv' /\ (Untouched' => Untouched) /\ UNCHANGED <<prov, first>>
    BY <1>4, <2>1, WorldMovesTree DEF IInv
  <2>3. unseen => unseen'
    BY <1>4 DEF CheckOut, Edit, MoveTo
  <2>4. prov' = Captured(first') <=> prov = Captured(first)
    BY <2>2 DEF Captured, Porcelain
  <2>5. LockfileRead' <=> LockfileRead
    BY <1>1, <2>2 DEF LockfileRead, Reads, LocksOf, Disagrees, CertainlySound
  <2>6. (ShippedRead' <=> ShippedRead) /\ (ShippedOf(first)' <=> ShippedOf(first))
    BY <1>1, <2>2 DEF ShippedRead, ShippedOf, Beyond
  <2>7. LockfileInv' /\ ShippedInv'
    BY <1>1, <2>2, <2>4, <2>5, <2>6 DEF IInv, LockfileInv, ShippedInv
  <2>8. VerdictIsOfOneTree'
    BY <1>1, <2>2, <2>3, <2>6
       DEF IInv, VerdictIsOfOneTree, CertainlyDrifted, CertainlySound, LocksOf
  <2> QED  BY <1>2, <2>2, <2>7, <2>8 DEF IInv
<1> QED  BY <1>3, <1>4 DEF World
--------------------------------------------------------------------------------
\* Before the sweep every probe is idle and the tree is the first one.
LEMMA InitHolds == Init => IInv
<1> SUFFICES ASSUME Init  PROVE IInv
  OBVIOUS
<1>1. tree \in Trees /\ first = tree /\ shown = {Shown(tree)}
  BY SweepAssumption DEF Init, SweepAssumption
<1>2. TreeInv
  BY <1>1 DEF TreeInv
<1>3. lockfile = IdleLockfile /\ shipped = ShippedIdle /\ yank = YankIdle
  BY DEF Init
<1>4. lockfile.pc = "idle" /\ lockfile.rc = NoCode /\ shipped.pc = "idle"
      /\ shipped.rc = NoCode /\ yank.pc = "idle" /\ shipped.source = NoFile
  BY <1>3 DEF IdleLockfile, ShippedIdle, YankIdle
<1>5. LockfileInv /\ ShippedInv
  BY <1>3, <1>4 DEF LockfileInv, ShippedInv
<1>6. Exclusive
  BY <1>4 DEF Init, Exclusive
<1> QED  BY <1>2, <1>4, <1>5, <1>6, NoVerdict DEF IInv

\* Every step, and every step that changes nothing, keeps the invariant.
LEMMA NextKeeps == IInv /\ [Next]_vars => IInv'
<1> SUFFICES ASSUME IInv, [Next]_vars  PROVE IInv'
  OBVIOUS
<1>1. CASE Driver \/ TimeOut
  BY <1>1, DriverKeeps
<1>2. CASE Probe
  BY <1>2, ShippedStepKeeps, YankStepKeeps, LockfileStepKeeps, PublishedStepKeeps DEF Probe
<1>3. CASE World
  BY <1>3, WorldKeeps
<1>4. CASE UNCHANGED vars
  <2>1. UNCHANGED <<treeVars, subject, lockfile, shipped, yank, sweep>>
    BY <1>4 DEF vars
  <2>2. Exclusive'
    BY <2>1 DEF IInv, Exclusive
  <2> QED  BY <2>1, <2>2, SameTree
<1> QED  BY <1>1, <1>2, <1>3, <1>4 DEF Next

\* A probe that gives a verdict has read one tree, the one its report names, whatever is
\* checked out and edited in the meantime (capture and recheck of probe_provenance.py,
\* around the reads of lockfile_probe.py and shipped_probe.py): for every number of
\* changes, as long as none comes back to what git has shown before.
THEOREM VerdictsAreOfOneTree == Spec => []VerdictIsOfOneTree
<1>1. Init => IInv
  BY InitHolds
<1>2. IInv /\ [Next]_vars => IInv'
  BY NextKeeps
<1>3. IInv => VerdictIsOfOneTree
  BY DEF IInv
<1> QED  BY <1>1, <1>2, <1>3, PTL DEF Spec
--------------------------------------------------------------------------------
(* What the probes of a distribution report.                                   *)

\* A probe is at work for the target that the driver turned to.
Working(probe) == sweep.pc = "running" /\ sweep.probe = probe /\ subject \in Subjects[probe]

Driven ==
    /\ {"pc", "probe"} \subseteq DOMAIN sweep
    /\ sweep.probe \in {"shipped", "yank", "lockfile", "published"}
    /\ lockfile.pc # "idle" => Working("lockfile")
    /\ shipped.pc # "idle" => Working("shipped")
    /\ yank.pc # "idle" => Working("yank")
    /\ published.pc # "idle" => Working("published")

\* A module that imports, or lacks nothing that is not optional, or was not looked at.
Fares(i) ==
    ~Hidden(i) /\ Before(i) < KeptErrors =>
       \/ subject.modules[i].scan = "ok"
       \/ subject.modules[i].warm \in {"ok", "optional"}

\* What the verdicts over the imports say of the modules.
Imported ==
    /\ published.imports \cap {"real", "unconfirmed"} = {} =>
          \A i \in DOMAIN subject.modules : Fares(i)
    /\ "real" \in published.imports =>
          \E i \in DOMAIN subject.modules : subject.modules[i].warm = "fails"

\* What is known of a distribution that is being installed, imported and started.
PublishedReport ==
    /\ DOMAIN published = DOMAIN PublishedIdle
    /\ published.pc \in {"install", "scan", "verify"} => published.imports = {}
    /\ published.pc \in {"install", "scan", "verify", "caps", "smoke"} =>
          published.smoke = "skipped"
    /\ published.pc \in {"scan", "verify", "caps", "smoke", "decide"} =>
          published.installed \in Versions
    /\ published.pc \in {"caps", "smoke", "decide"} => Imported
    /\ published.pc \in {"smoke", "decide"} =>
          \E known \in {0, major} :
              published.cap = CapVerdict(Requires(published.installed), known)
    /\ published.pc = "decide" =>
          \/ NoSmoke /\ published.smoke = "skipped"
          \/ published.smoke \in {"error", ClassifySmoke(subject.script)}
    /\ PublishedIsDeserved

Finite == INSTANCE FiniteSetTheorems

\* Some versions have a newest: the least of the intervals that reach from one of them to
\* the last version, and those are well-founded.
LEMMA GreatestOf ==
    ASSUME NEW n \in Nat, NEW S \in SUBSET (1..n), S # {}
    PROVE  \E top \in S : \A w \in S : w <= top
<1> DEFINE base == 1..n
           T == {v..n : v \in S}
           R == Finite!StrictSubsetOrdering(base)
<1>1. Finite!IsFiniteSet(base)
  <2>1. 1 \in Int /\ n \in Int
    OBVIOUS
  <2> QED  BY <2>1, Finite!FS_Interval
<1>2. Finite!IsWellFoundedOn(R, SUBSET base)
  <2> HIDE DEF base
  <2>1. Finite!FiniteSubsetsOf(base) = SUBSET base
    BY <1>1, Finite!FS_FiniteSubsetsOfFinite
  <2>2. Finite!IsWellFoundedOn(R, Finite!FiniteSubsetsOf(base))
    BY Finite!FS_StrictSubsetOrderingWellFounded
  <2> QED  BY <2>1, <2>2
<1>3. T \subseteq SUBSET base /\ T # {}
  <2>1. ASSUME NEW v \in S  PROVE v..n \in SUBSET base
    <3>1. v \in 1..n
      OBVIOUS
    <3> QED  BY <3>1
  <2> QED  BY <2>1
<1>4. \E x \in T : \A y \in T : ~(<<y, x>> \in R)
  <2> HIDE DEF T, R, base
  <2> QED  BY <1>2, <1>3, Finite!WFMin
<1>5. PICK top \in S : \A w \in S : ~(<<w..n, top..n>> \in R)
  <2> HIDE DEF R
  <2> QED  BY <1>4
<1>6. ASSUME NEW w \in S, ~(w <= top)  PROVE FALSE
  <2> DEFINE X == w..n  Y == top..n
  <2>1. X \in SUBSET base /\ Y \in SUBSET base
    OBVIOUS
  <2>2. X \subseteq Y
    BY <1>6
  <2>3. top \in Y /\ top \notin X
    BY <1>6
  <2> HIDE DEF X, Y, base
  <2>4. <<X, Y>> \in R
    BY <2>1, <2>2, <2>3 DEF Finite!StrictSubsetOrdering
  <2> QED  BY <1>5, <2>4 DEF X, Y
<1> QED  BY <1>6

\* The newest of some versions is one of them.
LEMMA HighestFacts ==
    ASSUME NEW n \in Nat, NEW S \in SUBSET (1..n), S # {}
    PROVE  Highest(S) \in S /\ \A w \in S : w <= Highest(S)
  BY GreatestOf DEF Highest

\* The highest of some versions, or none of none.
LEMMA HighestOf ==
    ASSUME NEW S \in SUBSET Versions
    PROVE  /\ Highest(S) \in Versions \cup {NoVersion}
           /\ S = {} => Highest(S) = NoVersion
           /\ S # {} => Highest(S) \in S
           /\ \A w \in S : w <= Highest(S)
<1>1. LastVersion \in Nat
  BY VersionAssumption DEF VersionAssumption
<1>2. CASE S = {}
  BY <1>2 DEF Highest
<1>3. CASE S # {}
  <2>1. S \in SUBSET (1..LastVersion)
    BY DEF Versions
  <2> QED  BY <1>1, <1>3, <2>1, HighestFacts
<1> QED  BY <1>2, <1>3

\* What each surface of the index names as the newest.
LEMMA NewestFacts ==
    ASSUME NEW releases
    PROVE  /\ Latest(releases) \in Versions \cup {NoVersion}
           /\ Installable(releases) \in Versions \cup {NoVersion}
           /\ Listed(releases) # {} => Latest(releases) \in Versions
           /\ \A v \in Listed(releases) : v <= Latest(releases)
<1>1. Listed(releases) \in SUBSET Versions
  BY DEF Listed
<1>2. Listed(releases) \ Withdrawn(releases) \in SUBSET Versions
  BY <1>1
<1>3. Installable(releases) \in Versions \cup {NoVersion}
  <2> DEFINE S == Listed(releases) \ Withdrawn(releases)
  <2> HIDE DEF S
  <2>1. Highest(S) \in Versions \cup {NoVersion}
    BY <1>2, HighestOf DEF S
  <2> QED  BY <2>1 DEF Installable, S
<1>4. /\ Latest(releases) \in Versions \cup {NoVersion}
      /\ Listed(releases) # {} => Latest(releases) \in Versions
      /\ \A v \in Listed(releases) : v <= Latest(releases)
  <2> DEFINE S == Listed(releases)
  <2>1. S \in SUBSET Versions
    BY <1>1
  <2> HIDE DEF S
  <2>2. /\ Highest(S) \in Versions \cup {NoVersion}
        /\ S # {} => Highest(S) \in S
        /\ \A w \in S : w <= Highest(S)
    BY <2>1, HighestOf
  <2> QED  BY <2>1, <2>2 DEF Latest, S
<1> QED  BY <1>3, <1>4

\* What pip installs is a version.
LEMMA ResolvedFacts ==
    ASSUME NEW pin \in Versions \cup {NoVersion}
    PROVE  Resolved(pin) \in Versions \cup {NoVersion}
  BY NewestFacts DEF Resolved

\* A module that failed and was not tried again was not looked at.
LEMMA FailuresNotRetried ==
    ASSUME Working("published"), NEW i \in DOMAIN subject.modules, i \notin Retried
    PROVE  Fares(i)
<1>1. subject.modules[i].scan \in {"ok", "fails"}
  BY SweepAssumption DEF SweepAssumption, Working
<1>2. CASE i \notin Noted
  BY <1>1, <1>2 DEF Noted, Fares
<1>3. CASE i \in Noted
  BY <1>3 DEF Retried, Fares
<1> QED  BY <1>2, <1>3

\* What a module is about stays as it is.
LEMMA SameSubject ==
    ASSUME UNCHANGED subject
    PROVE  /\ \A i \in DOMAIN subject.modules : Fares(i)' <=> Fares(i)
           /\ DOMAIN subject'.modules = DOMAIN subject.modules
           /\ \A v : Requires(v)' = Requires(v)
           /\ ClassifySmoke(subject.script)' = ClassifySmoke(subject.script)
  BY DEF Fares, Hidden, Before, Noted, Requires, ClassifySmoke, Traced

\* What is known of the imports, with the verdicts as they are.
LEMMA ImportedStays ==
    ASSUME UNCHANGED subject, published'.imports = published.imports, Imported
    PROVE  Imported'
  BY SameSubject DEF Imported

\* The verdicts over what was tried again.
LEMMA VerifiedImports ==
    ASSUME Working("published"), VerifyImports, DOMAIN published = DOMAIN PublishedIdle
    PROVE  /\ Imported' /\ published.pc = "verify" /\ published'.pc = "caps"
           /\ published'.smoke = published.smoke
           /\ published'.installed = published.installed
           /\ DOMAIN published' = DOMAIN PublishedIdle
<1>1. PICK answered \in SUBSET Retried :
        LET warm(i) == IF i \in answered THEN subject.modules[i].warm ELSE "unanswered" IN
        published' = [published EXCEPT
                         !.imports = {ClassifyImport(subject.modules[i].cold, warm(i)) :
                                         i \in Retried},
                         !.pc = "caps"]
  BY DEF VerifyImports
<1> DEFINE warm(i) == IF i \in answered THEN subject.modules[i].warm ELSE "unanswered"
           verdict(i) == ClassifyImport(subject.modules[i].cold, warm(i))
<1>2. ASSUME NEW i \in Retried
      PROVE  /\ verdict(i) \notin {"real", "unconfirmed"} =>
                    subject.modules[i].warm \in {"ok", "optional"}
             /\ verdict(i) = "real" => subject.modules[i].warm = "fails"
  <2>1. subject.modules[i].warm \in {"ok", "optional", "fails"}
    BY SweepAssumption DEF SweepAssumption, Working, Retried, Noted
  <2>2. CASE i \notin answered
    <3>1. verdict(i) = "unconfirmed"
      BY <2>2 DEF ClassifyImport
    <3> QED  BY <3>1
  <2>3. CASE i \in answered /\ subject.modules[i].warm = "fails"
    <3>1. verdict(i) = "real"
      BY <2>3 DEF ClassifyImport
    <3> QED  BY <2>3, <3>1
  <2>4. CASE i \in answered /\ subject.modules[i].warm \in {"ok", "optional"}
    <3>1. verdict(i) # "real"
      BY <2>4 DEF ClassifyImport
    <3> QED  BY <2>4, <3>1
  <2> QED  BY <2>1, <2>2, <2>3, <2>4
<1> HIDE DEF verdict
<1>3. /\ published'.imports = {verdict(i) : i \in Retried}
      /\ published.pc = "verify" /\ published'.pc = "caps"
      /\ published'.smoke = published.smoke /\ published'.installed = published.installed
      /\ DOMAIN published' = DOMAIN PublishedIdle
  BY <1>1 DEF VerifyImports, PublishedIdle, verdict
<1>4. UNCHANGED subject
  BY DEF VerifyImports, PublishedAlone
<1>5. ASSUME published'.imports \cap {"real", "unconfirmed"} = {},
             NEW i \in DOMAIN subject.modules
      PROVE  Fares(i)
  <2>1. CASE i \notin Retried
    BY <2>1, FailuresNotRetried
  <2>2. CASE i \in Retried
    <3>1. verdict(i) \notin {"real", "unconfirmed"}
      BY <1>3, <1>5, <2>2
    <3> QED  BY <1>2, <2>2, <3>1 DEF Fares
  <2> QED  BY <2>1, <2>2
<1>6. ASSUME "real" \in published'.imports
      PROVE  \E i \in DOMAIN subject.modules : subject.modules[i].warm = "fails"
  <2>1. PICK i \in Retried : verdict(i) = "real"
    BY <1>3, <1>6
  <2>2. i \in DOMAIN subject.modules
    BY DEF Retried, Noted
  <2> QED  BY <1>2, <2>1, <2>2
<1>7. Imported'
  BY <1>4, <1>5, <1>6, SameSubject DEF Imported
<1> QED  BY <1>3, <1>7

\* A range that is found to be capped, armed or unknown.
LEMMA CapFacts ==
    ASSUME NEW requirement, requirement.floor \in Nat, NEW newest \in Nat,
           NEW known \in {0, newest},
           Open(requirement), requirement.floor # 0,
           CapVerdict(requirement, known) # "major-available"
    PROVE  CapVerdict(requirement, known) = "unknown" \/ newest <= requirement.floor
<1>1. CASE known = 0
  BY <1>1 DEF CapVerdict
<1>2. CASE known # 0 /\ known > requirement.floor
  BY <1>2 DEF CapVerdict
<1>3. CASE known # 0 /\ ~(known > requirement.floor)
  BY <1>3
<1> QED  BY <1>1, <1>2, <1>3

\* Each step of the probe goes by what it was told of the subject.
LEMMA PublishedStepReports ==
    ASSUME PublishedReport, Working("published"), IndexTypeOK, PublishedStep
    PROVE  PublishedReport'
<1>1. DOMAIN published = DOMAIN PublishedIdle /\ UNCHANGED <<subject, indexVars>>
  BY DEF PublishedReport, PublishedStep, PublishedAlone, FailPublished, HangPublished,
         InstallPublished, ScanModules, VerifyImports, CheckCaps, SmokeStart, Decide
<1>2. subject.ua \in UserAgents /\ major' = major
  BY <1>1, SweepAssumption DEF SweepAssumption, Working, indexVars
<1>3. CASE FailPublished
  <2>1. /\ published'.pc = "done" /\ published'.status = "install_failed"
        /\ DOMAIN published' = DOMAIN PublishedIdle
    BY <1>3 DEF FailPublished, PublishedIdle
  <2> QED  BY <2>1 DEF PublishedReport, PublishedIsDeserved, Ok
<1>4. CASE HangPublished
  <2>1. published'.pc = "hung" /\ DOMAIN published' = DOMAIN PublishedIdle
    BY <1>1, <1>4 DEF HangPublished, PublishedIdle
  <2> QED  BY <2>1 DEF PublishedReport, PublishedIsDeserved
<1>5. CASE InstallPublished
  <2>1. /\ published.pc = "install" /\ published'.pc = "scan"
        /\ published'.installed = Resolved(NoVersion) /\ Resolved(NoVersion) # NoVersion
        /\ published'.imports = published.imports /\ published'.smoke = published.smoke
        /\ DOMAIN published' = DOMAIN PublishedIdle
    BY <1>1, <1>5 DEF InstallPublished, PublishedIdle
  <2>2. published'.installed \in Versions
    BY <2>1, ResolvedFacts
  <2> QED  BY <2>1, <2>2 DEF PublishedReport, PublishedIsDeserved
<1>6. CASE ScanModules
  <2>1. /\ published.pc = "scan"
        /\ published'.pc = IF Noted = {} THEN "caps" ELSE "verify"
        /\ published'.imports = published.imports /\ published'.smoke = published.smoke
        /\ published'.installed = published.installed
        /\ DOMAIN published' = DOMAIN PublishedIdle
    BY <1>1, <1>6 DEF ScanModules, PublishedIdle
  <2>2. published.imports = {} /\ published.smoke = "skipped"
        /\ published.installed \in Versions
    BY <2>1 DEF PublishedReport
  <2>3. CASE Noted = {}
    <3>1. \A i \in DOMAIN subject.modules : Fares(i)
      BY <2>3, FailuresNotRetried DEF Retried
    <3>2. Imported
      BY <2>2, <3>1 DEF Imported
    <3>3. Imported'
      BY <1>1, <2>1, <3>2, ImportedStays
    <3> QED  BY <2>1, <2>2, <2>3, <3>3 DEF PublishedReport, PublishedIsDeserved
  <2>4. CASE Noted # {}
    BY <2>1, <2>2, <2>4 DEF PublishedReport, PublishedIsDeserved
  <2> QED  BY <2>3, <2>4
<1>7. CASE VerifyImports
  <2>1. /\ Imported' /\ published.pc = "verify" /\ published'.pc = "caps"
        /\ published'.smoke = published.smoke /\ published'.installed = published.installed
        /\ DOMAIN published' = DOMAIN PublishedIdle
    BY <1>1, <1>7, VerifiedImports
  <2> QED  BY <2>1 DEF PublishedReport, PublishedIsDeserved
<1>8. CASE CheckCaps
  <2>1. PICK known \in {0, major} :
          published' = [published EXCEPT
                           !.cap = CapVerdict(Requires(published.installed), known),
                           !.pc = IF NoSmoke THEN "decide" ELSE "smoke"]
    BY <1>8 DEF CheckCaps
  <2>2. /\ published.pc = "caps" /\ published'.pc = IF NoSmoke THEN "decide" ELSE "smoke"
        /\ published'.imports = published.imports /\ published'.smoke = published.smoke
        /\ published'.cap = CapVerdict(Requires(published.installed), known)
        /\ published'.installed = published.installed
        /\ DOMAIN published' = DOMAIN PublishedIdle
    BY <1>1, <1>8, <2>1 DEF CheckCaps, PublishedIdle
  <2>3. Imported'
    BY <1>1, <2>2, ImportedStays DEF PublishedReport
  <2>4. \E k \in {0, major'} : published'.cap = CapVerdict(Requires(published.installed)', k)
    BY <1>1, <1>2, <2>2 DEF Requires
  <2>5. published.smoke = "skipped" /\ published.installed \in Versions
    BY <2>2 DEF PublishedReport
  <2>6. ~PublishedIsDeserved' => FALSE
    BY <2>2 DEF PublishedIsDeserved
  <2> QED  BY <2>2, <2>3, <2>4, <2>5, <2>6 DEF PublishedReport
<1>9. CASE SmokeStart
  <2>1. PICK smoke \in {"error", ClassifySmoke(subject.script)} :
          published' = [published EXCEPT !.smoke = smoke, !.pc = "decide"]
    BY <1>9 DEF SmokeStart
  <2>2. /\ published.pc = "smoke" /\ published'.pc = "decide" /\ published'.smoke = smoke
        /\ published'.imports = published.imports /\ published'.installed = published.installed
        /\ published'.cap = published.cap
        /\ DOMAIN published' = DOMAIN PublishedIdle
    BY <1>1, <1>9, <2>1 DEF SmokeStart, PublishedIdle
  <2>3. Imported'
    BY <1>1, <2>2, ImportedStays DEF PublishedReport
  <2>4. published'.smoke \in {"error", ClassifySmoke(subject.script)'}
    BY <1>1, <2>2, SameSubject
  <2>5. \E k \in {0, major'} : published'.cap = CapVerdict(Requires(published.installed)', k)
    BY <1>1, <1>2, <2>2 DEF PublishedReport, Requires
  <2>6. published.installed \in Versions
    BY <2>2 DEF PublishedReport
  <2>7. PublishedIsDeserved'
    BY <2>2 DEF PublishedIsDeserved
  <2> QED  BY <2>2, <2>3, <2>4, <2>5, <2>6, <2>7 DEF PublishedReport
<1>10. CASE Decide
  <2> DEFINE status == DecideStatus(published, subject.ua)
             requirement == Requires(published.installed)
  <2>1. /\ published.pc = "decide" /\ published'.pc = "done" /\ published'.status = status
        /\ published'.imports = published.imports /\ published'.cap = published.cap
        /\ published'.installed = published.installed
        /\ DOMAIN published' = DOMAIN PublishedIdle
    BY <1>1, <1>10 DEF Decide, PublishedIdle
  <2>2. IdentityStatus(subject.ua) \in Identities
        /\ (Ok(IdentityStatus(subject.ua)) => subject.ua \in {"own", "none"})
    BY <1>2 DEF IdentityStatus, Identities, Ok, UserAgents
  <2>3. Ok(status) => /\ published.imports \cap {"real", "unconfirmed"} = {}
                      /\ published.smoke \notin {"crashed", "no_entrypoint", "no_event", "error"}
                      /\ published.cap # "major-available"
                      /\ subject.ua \in {"own", "none"}
    BY <2>2 DEF DecideStatus, Ok, Identities
  <2>4. status = "smoke_failed" => published.smoke \in {"crashed", "no_entrypoint"}
    BY <2>2 DEF DecideStatus, Identities
  <2>5. status = "broken_import" => published.imports \cap {"real", "unconfirmed"} # {}
    BY <2>2 DEF DecideStatus, Identities
  <2>6. ClassifySmoke(subject.script) \in {"crashed", "no_entrypoint"} =>
          ~subject.script.there \/ subject.script.exits = "1"
          \/ subject.script.traceback # "none"
    BY DEF ClassifySmoke, Traced
  <2>7. ClassifySmoke(subject.script) \in {"no_entrypoint", "crashed", "ok", "no_event"}
        /\ (ClassifySmoke(subject.script) = "ok" =>
              subject.script.there /\ subject.script.event /\ subject.script.exits # "1")
    BY DEF ClassifySmoke
  <2>8. Imported /\ published.installed \in Versions /\ published.installed # NoVersion
        /\ (\/ NoSmoke /\ published.smoke = "skipped"
            \/ published.smoke \in {"error", ClassifySmoke(subject.script)})
    BY <2>1 DEF PublishedReport, Versions, NoVersion
  <2>9. PICK known \in {0, major} : published.cap = CapVerdict(requirement, known)
    BY <2>1 DEF PublishedReport
  <2>10. published.cap # "major-available" /\ Open(requirement) /\ requirement.floor # 0 =>
           published.cap = "unknown" \/ major <= requirement.floor
    <3>1. subject.requires[published.installed] \in Requirements
      BY <2>8, SweepAssumption DEF SweepAssumption, Working
    <3>2. requirement.floor \in Nat /\ major \in Nat
      BY <3>1, VersionAssumption
      DEF VersionAssumption, Requires, Requirements, IndexTypeOK
    <3> HIDE DEF requirement
    <3> QED  BY <2>9, <3>2, CapFacts
  <2> HIDE DEF status
  <2>11. ASSUME Ok(status)
         PROVE  /\ published'.installed # NoVersion
                /\ \A i \in DOMAIN subject'.modules : Fares(i)'
                /\ NoSmoke \/ /\ subject'.script.there /\ subject'.script.event
                              /\ subject'.script.exits # "1"
                /\ Open(requirement) /\ requirement.floor # 0 =>
                      published'.cap = "unknown" \/ major' <= requirement.floor
                /\ subject'.ua \in {"own", "none"}
    <3>1. \A i \in DOMAIN subject'.modules : Fares(i)'
      BY <1>1, <2>3, <2>8, <2>11, SameSubject DEF Imported
    <3> HIDE DEF requirement
    <3> QED  BY <1>1, <1>2, <2>1, <2>3, <2>7, <2>8, <2>10, <2>11, <3>1
  <2>12. status = "smoke_failed" => ~subject'.script.there \/ subject'.script.exits = "1"
                                    \/ subject'.script.traceback # "none"
    BY <1>1, <2>4, <2>6, <2>8
  <2>13. status = "broken_import" =>
           \/ "unconfirmed" \in published'.imports
           \/ \E i \in DOMAIN subject'.modules : subject'.modules[i].warm = "fails"
    BY <1>1, <2>1, <2>5, <2>8 DEF Imported
  <2>14. Requires(published.installed)' = requirement
    BY <1>1, <2>1 DEF Requires
  <2> HIDE DEF requirement
  <2>15. Ok(status) =>
           LET r == Requires(published.installed)' IN
           Open(r) /\ r.floor # 0 => published'.cap = "unknown" \/ major' <= r.floor
    BY <2>11, <2>14
  <2>16. Ok(status) => (\A i \in DOMAIN subject.modules : Fares(i))'
    BY <2>11
  <2>17. Ok(status) => (NoSmoke \/ /\ subject.script.there /\ subject.script.event
                                   /\ subject.script.exits # "1")'
    BY <2>11
  <2>18. PublishedIsDeserved'
    <3>1. CASE Ok(status)
      BY <2>1, <2>11, <2>12, <2>13, <2>15, <2>16, <2>17, <3>1, Zenon
      DEF PublishedIsDeserved, Fares
    <3>2. CASE ~Ok(status)
      BY <2>1, <2>12, <2>13, <3>2, Zenon DEF PublishedIsDeserved
    <3> QED  BY <3>1, <3>2
  <2> QED  BY <2>1, <2>18 DEF PublishedReport
<1> QED  BY <1>3, <1>4, <1>5, <1>6, <1>7, <1>8, <1>9, <1>10 DEF PublishedStep
--------------------------------------------------------------------------------
(* What the shipped probe claims.                                              *)

AnswersOf(r) == {a \in {r.simple, r.json} : Readable(a)}
Absent(r) == "not_published" \in {r.simple.status, r.json.status}

\* An answer that could be read names releases.
Given(a) == Readable(a) => Listed(a.releases) # {} /\ a.info \in Versions

\* The findings of the first depth, and what they claim of the index.
Confirmed(r) ==
    /\ r.phase1 = MetadataFindings(r)
    /\ "PUBLISH_GAP" \in r.phase1 =>
          /\ AnswersOf(r) # {}
          /\ \A a \in AnswersOf(r) : LastTag(r) > Installable(a.releases)
          /\ Readable(r.simple) => LastTag(r) \notin Listed(r.simple.releases)
    /\ "RELEASE_YANKED" \in r.phase1 =>
          /\ AnswersOf(r) # {}
          /\ \A a \in AnswersOf(r) : Current(r) \in Withdrawn(a.releases)

\* What was installed is what was released, as far as that was looked at.
Fits(r) ==
    /\ r.installed # NoVersion
    /\ r.tagged => Highest(subject.tags) \in {NoVersion, r.installed}
    /\ r.version \in {NoFile, r.installed}
    /\ r.source # NoFile /\ subject.reached => r.source = subject.built[r.installed]

\* A report that is to be recounted and given its code.
Weighed(r) ==
    /\ Confirmed(r)
    /\ \A code \in {"PUBLISH_GAP", "RELEASE_YANKED"} : code \in r.findings => code \in r.phase1
    /\ "NOT_ON_INDEX" \in r.findings => AnswersOf(r) = {} /\ Absent(r)
    /\ ~r.harness /\ ~Asked.offline => AnswersOf(r) # {} \/ Absent(r)
    /\ ~r.harness => r.phase1 \subseteq r.findings
    /\ r.findings = {} /\ ~r.harness /\ ~Asked.offline /\ ~Asked.metadataOnly => Fits(r)

ShippedReport ==
    /\ DOMAIN shipped = DOMAIN ShippedIdle
    /\ Given(shipped.simple) /\ Given(shipped.json)
    /\ shipped.tags \in SUBSET Versions
    /\ shipped.pc # "idle" /\ shipped.tagged => shipped.tags = subject.tags
    /\ shipped.pc \in {"idle", "capture", "project", "history", "changelog", "simple",
                       "json", "weigh"} => shipped.findings = {} /\ ~shipped.harness
    /\ shipped.pc \notin {"idle", "capture", "project", "done"} => shipped.version \in Contents
    /\ shipped.pc \in {"json", "weigh"} /\ ~Asked.offline => shipped.simple.status # "unasked"
    /\ shipped.pc \in {"install", "speak"} =>
          /\ Confirmed(shipped) /\ AnswersOf(shipped) # {} /\ ~shipped.harness
    /\ shipped.pc = "install" => shipped.findings = shipped.phase1
    /\ shipped.pc = "speak" =>
          /\ shipped.findings \subseteq InstallCodes \ {"NOT_ON_INDEX"}
          /\ shipped.findings = {} => Fits(shipped)
    /\ shipped.pc = "recheck" => Weighed(shipped)
    /\ shipped.pc # "done" => shipped.rc = NoCode
    /\ ShippedIsDeserved

\* An answer as the index gives it.
LEMMA AnsweredFacts ==
    ASSUME NEW view, NEW answer \in Answered(view)
    PROVE  Given(answer) /\ answer.status \in {"ok", "not_published", "unreachable"}
<1>1. CASE Listed(Served(view)) = {}
  BY <1>1 DEF Answered, Silent, Given, Readable
<1>2. CASE Listed(Served(view)) # {}
  <2>1. CASE answer = Silent("unreachable")
    BY <2>1 DEF Silent, Given, Readable
  <2>2. CASE answer # Silent("unreachable")
    <3>1. answer \in [status : {"ok"}, releases : {Served(view)},
             info : {Latest(Served(view))} \cup ({Installable(Served(view))} \ {NoVersion})]
      BY <1>2, <2>2 DEF Answered
    <3>2. /\ answer.status = "ok" /\ answer.releases = Served(view)
          /\ answer.info \in {Latest(Served(view))} \cup ({Installable(Served(view))} \ {NoVersion})
      BY <3>1
    <3>3. /\ Latest(Served(view)) \in Versions
          /\ Installable(Served(view)) \in Versions \cup {NoVersion}
      BY <1>2, NewestFacts
    <3> QED  BY <1>2, <3>2, <3>3 DEF Given
  <2> QED  BY <2>1, <2>2
<1> QED  BY <1>1, <1>2

\* What the first depth finds, finding by finding.
LEMMA FoundByMetadata ==
    ASSUME NEW r
    PROVE  LET found == MetadataFindings(r) IN
           /\ found \subseteq MetadataCodes
           /\ "PUBLISH_GAP" \in found <=>
                 /\ IndexStatus(r.simple, r.json) \in {"ok", "unconfirmed"}
                 /\ LastTag(r) # NoVersion /\ NewestReported(r.simple, r.json) # NoVersion
                 /\ LastTag(r) > NewestReported(r.simple, r.json)
           /\ "RELEASE_YANKED" \in found <=>
                 /\ YankSource(r.simple, r.json) \in {"simple", "json-fallback"}
                 /\ Current(r) \in Yanked(r.simple, r.json)
           /\ "UNRELEASED" \in found <=> Due(r)
<1>1. {"PUBLISH_GAP", "RELEASE_YANKED", "UNRELEASED"} \subseteq MetadataCodes
  BY DEF MetadataCodes
<1> QED  BY <1>1 DEF MetadataFindings

\* What a report has read, and what the first depth made of it.
Readings(r) == <<r.tagged, r.tags, r.version, r.work, r.changelog, r.simple, r.json, r.phase1>>

\* Two reports that have read the same claim the same.
LEMMA SameReadings ==
    ASSUME NEW r, NEW q, Readings(q) = Readings(r)
    PROVE  /\ q.tagged = r.tagged /\ q.tags = r.tags /\ q.version = r.version
           /\ q.simple = r.simple /\ q.json = r.json /\ q.phase1 = r.phase1
           /\ MetadataFindings(q) = MetadataFindings(r) /\ AnswersOf(q) = AnswersOf(r)
           /\ Confirmed(q) <=> Confirmed(r)
<1>1. /\ q.tagged = r.tagged /\ q.tags = r.tags /\ q.version = r.version /\ q.work = r.work
      /\ q.changelog = r.changelog /\ q.simple = r.simple /\ q.json = r.json
      /\ q.phase1 = r.phase1
  BY DEF Readings
<1>2. LastTag(q) = LastTag(r) /\ (Due(q) <=> Due(r)) /\ (Overdue(q) <=> Overdue(r))
  BY <1>1 DEF LastTag, Due, Overdue
<1>3. Current(q) = Current(r) /\ AnswersOf(q) = AnswersOf(r)
  BY <1>1, <1>2 DEF Current, AnswersOf
<1>4. MetadataFindings(q) = MetadataFindings(r)
  BY <1>1, <1>2, <1>3 DEF MetadataFindings
<1> QED  BY <1>1, <1>2, <1>3, <1>4 DEF Confirmed

\* A gap is measured against the newest release that any readable answer names.
LEMMA GapIsConfirmed ==
    ASSUME NEW s, NEW j, Given(s), Given(j), NEW tag \in Versions,
           tag > NewestReported(s, j)
    PROVE  /\ \A a \in {s, j} : Readable(a) => tag > Installable(a.releases)
           /\ Readable(s) => tag \notin Listed(s.releases)
<1> DEFINE ofSimple == IF Readable(s) THEN Candidates("simple", s) ELSE {}
           ofJson == IF Readable(j) THEN Candidates("json", j) ELSE {}
           seen == ofSimple \cup ofJson
<1>1. Versions \subseteq Nat \ {0} /\ NoVersion = 0
  BY VersionAssumption DEF VersionAssumption, Versions, NoVersion
<1>2. ASSUME NEW a \in {s, j}
      PROVE  /\ Installable(a.releases) \in Versions \cup {NoVersion}
             /\ Latest(a.releases) \in Versions \cup {NoVersion}
             /\ Readable(a) => Latest(a.releases) \in Versions
             /\ \A v \in Listed(a.releases) : v <= Latest(a.releases)
             /\ Readable(a) => a.info \in Versions
  BY NewestFacts DEF Given
<1>3. /\ Readable(s) => /\ Candidates("simple", s) \subseteq Versions
                        /\ Latest(s.releases) \in Candidates("simple", s)
                        /\ Installable(s.releases) # NoVersion =>
                              Installable(s.releases) \in Candidates("simple", s)
  BY <1>1, <1>2 DEF Candidates, ViewLatest
<1>4. /\ Readable(j) => /\ Candidates("json", j) \subseteq Versions
                        /\ Installable(j.releases) # NoVersion =>
                              Installable(j.releases) \in Candidates("json", j)
                        /\ Candidates("json", j) # {}
  BY <1>1, <1>2 DEF Candidates, ViewLatest
<1>5. seen \in SUBSET Versions
  BY <1>3, <1>4
<1>6. seen # {} => NewestReported(s, j) = Highest(seen)
  BY DEF NewestReported
<1>7. ASSUME NEW v \in seen  PROVE tag > v
  <2> HIDE DEF seen
  <2>1. Highest(seen) \in Versions /\ v <= Highest(seen) /\ tag > Highest(seen)
    BY <1>5, <1>6, <1>7, HighestOf
  <2>2. v \in Nat /\ tag \in Nat /\ Highest(seen) \in Nat
    BY <1>1, <1>5, <2>1
  <2> DEFINE top == Highest(seen)
  <2> HIDE DEF top
  <2>3. v \in Nat /\ tag \in Nat /\ top \in Nat /\ v <= top /\ tag > top
    BY <2>1, <2>2 DEF top
  <2> QED  BY <2>3
<1>8. ASSUME NEW a \in {s, j}, Readable(a)  PROVE tag > Installable(a.releases)
  <2>1. CASE Installable(a.releases) = NoVersion
    BY <1>1, <2>1
  <2>2. CASE Installable(a.releases) # NoVersion
    <3>1. Installable(a.releases) \in seen
      BY <1>3, <1>4, <1>8, <2>2
    <3> QED  BY <1>7, <3>1
  <2> QED  BY <2>1, <2>2
<1>9. ASSUME Readable(s), tag \in Listed(s.releases)  PROVE FALSE
  <2>1. Latest(s.releases) \in seen
    BY <1>3, <1>9
  <2>2. tag > Latest(s.releases) /\ tag <= Latest(s.releases)
    BY <1>2, <1>7, <1>9, <2>1
  <2>3. Latest(s.releases) \in Nat /\ tag \in Nat
    BY <1>1, <1>2, <1>9
  <2> QED  BY <2>2, <2>3
<1> QED  BY <1>8, <1>9

\* What the first depth finds is confirmed by every answer.
LEMMA MetadataConfirmed ==
    ASSUME NEW r, Given(r.simple), Given(r.json), r.tags \in SUBSET Versions,
           r.phase1 = MetadataFindings(r)
    PROVE  Confirmed(r)
<1> DEFINE s == r.simple
           j == r.json
           tag == LastTag(r)
<1>1. Given(s) /\ Given(j)
  OBVIOUS
<1>2. AnswersOf(r) = {a \in {s, j} : Readable(a)}
  BY DEF AnswersOf
<1>3. IndexStatus(s, j) \in {"ok", "unconfirmed"} => Readable(s) \/ Readable(j)
  BY DEF IndexStatus, Both
<1>4. tag \in Versions \cup {NoVersion}
  BY HighestOf DEF LastTag
<1>5. YankSource(s, j) \in {"simple", "json-fallback"} =>
        /\ Readable(s) \/ Readable(j)
        /\ \A a \in {s, j} : Readable(a) => Withdrawn(a.releases) = Yanked(s, j)
  BY DEF YankSource, Yanked, Both
<1>6. /\ "PUBLISH_GAP" \in r.phase1 <=>
                 /\ IndexStatus(s, j) \in {"ok", "unconfirmed"}
                 /\ tag # NoVersion /\ NewestReported(s, j) # NoVersion
                 /\ tag > NewestReported(s, j)
      /\ "RELEASE_YANKED" \in r.phase1 <=>
                 /\ YankSource(s, j) \in {"simple", "json-fallback"}
                 /\ Current(r) \in Yanked(s, j)
  BY FoundByMetadata
<1>7. r.simple = s /\ r.json = j /\ LastTag(r) = tag
  OBVIOUS
<1> HIDE DEF s, j, tag
<1>8. ASSUME "PUBLISH_GAP" \in r.phase1
      PROVE  /\ AnswersOf(r) # {}
             /\ \A a \in AnswersOf(r) : tag > Installable(a.releases)
             /\ Readable(s) => tag \notin Listed(s.releases)
  <2>1. tag \in Versions /\ tag > NewestReported(s, j) /\ (Readable(s) \/ Readable(j))
    BY <1>3, <1>4, <1>6, <1>8
  <2>2. /\ \A a \in {s, j} : Readable(a) => tag > Installable(a.releases)
        /\ Readable(s) => tag \notin Listed(s.releases)
    BY <1>1, <2>1, GapIsConfirmed
  <2> QED  BY <1>2, <2>1, <2>2
<1>9. ASSUME "RELEASE_YANKED" \in r.phase1
      PROVE  /\ AnswersOf(r) # {}
             /\ \A a \in AnswersOf(r) : Current(r) \in Withdrawn(a.releases)
  BY <1>2, <1>5, <1>6, <1>9
<1> QED  BY <1>7, <1>8, <1>9 DEF Confirmed

\* What a report claims is of the subject, which no step of the probe changes.
LEMMA ClaimsKept ==
    ASSUME UNCHANGED subject
    PROVE  /\ Confirmed(shipped') => Confirmed(shipped)'
           /\ Fits(shipped') => Fits(shipped)'
           /\ Weighed(shipped') => Weighed(shipped)'
           /\ MetadataFindings(shipped)' = MetadataFindings(shipped')
           /\ AnswersOf(shipped)' = AnswersOf(shipped')
<1>1. /\ LastTag(shipped)' = LastTag(shipped') /\ Current(shipped)' = Current(shipped')
      /\ AnswersOf(shipped)' = AnswersOf(shipped') /\ (Absent(shipped)' <=> Absent(shipped'))
  BY DEF LastTag, Current, AnswersOf, Absent, Readable
<1>2. (Due(shipped)' <=> Due(shipped')) /\ (Overdue(shipped)' <=> Overdue(shipped'))
  BY DEF Due, Overdue
<1>3. MetadataFindings(shipped)' = MetadataFindings(shipped')
  BY <1>1, <1>2 DEF MetadataFindings
<1>4. Confirmed(shipped') => Confirmed(shipped)'
  BY <1>1, <1>3 DEF Confirmed, Readable
<1>5. Fits(shipped') => Fits(shipped)'
  BY DEF Fits
<1>6. Weighed(shipped') => Weighed(shipped)'
  BY <1>1, <1>4, <1>5 DEF Weighed
<1> QED  BY <1>1, <1>3, <1>4, <1>5, <1>6

\* Nothing is found where the versions agree, and only there.
LEMMA FoundByVersion ==
    ASSUME NEW r, r.installed \in Versions, r.version \in Contents,
           r.tags \in SUBSET Versions
    PROVE  /\ VersionFindings(r) \subseteq InstallCodes \ {"NOT_ON_INDEX"}
           /\ VersionFindings(r) = {} =>
                 r.version \in {NoFile, r.installed} /\ LastTag(r) \in {NoVersion, r.installed}
<1> DEFINE found == VersionFindings(r)
           tag == LastTag(r)
           version == r.version
           installed == r.installed
<1>1. {"NOT_ON_INDEX", "STALE_ON_INDEX", "INDEX_AHEAD", "TAG_NOT_ON_INDEX", "TAG_DIFFERS"}
         \subseteq InstallCodes
  BY DEF InstallCodes
<1>2. /\ found \subseteq InstallCodes /\ "NOT_ON_INDEX" \notin found
      /\ "STALE_ON_INDEX" \in found <=> version # NoFile /\ installed < version
      /\ "INDEX_AHEAD" \in found <=> version # NoFile /\ installed > version
      /\ "TAG_NOT_ON_INDEX" \in found <=> tag # NoVersion /\ tag > installed
      /\ "TAG_DIFFERS" \in found <=> tag # NoVersion /\ tag < installed
  BY <1>1 DEF VersionFindings
<1>3. tag \in Versions \cup {NoVersion}
  BY HighestOf DEF LastTag
<1>4. version \in Int /\ installed \in Int /\ tag \in Int
  BY <1>3, VersionsAreNumbers, VersionAssumption DEF VersionsAreNumbers, Versions, NoVersion,
     VersionAssumption
<1> HIDE DEF found, tag, version, installed
<1>5. ASSUME found = {}
      PROVE  version \in {NoFile, installed} /\ tag \in {NoVersion, installed}
  <2>1. /\ version # NoFile => ~(installed < version) /\ ~(installed > version)
        /\ tag # NoVersion => ~(tag > installed) /\ ~(tag < installed)
    BY <1>2, <1>5
  <2> QED  BY <1>4, <2>1
<1> QED  BY <1>2, <1>5 DEF found, tag, version, installed

\* A run of the second depth ends with a report that is weighed.
LEMMA EndsWeighed ==
    ASSUME Confirmed(shipped), AnswersOf(shipped) # {}, ~shipped.harness,
           NEW got, DOMAIN got = DOMAIN ShippedIdle, Readings(got) = Readings(shipped),
           got.harness = shipped.harness,
           NEW found \in SUBSET (InstallCodes \ {"NOT_ON_INDEX"}),
           found = {} => Fits(got)
    PROVE  LET r == EndWith(got, found) IN
           /\ DOMAIN r = DOMAIN ShippedIdle /\ r.pc = "recheck" /\ r.rc = got.rc
           /\ Readings(r) = Readings(shipped)
           /\ Weighed(r)
<1> DEFINE r == EndWith(got, found)
<1>1. /\ DOMAIN r = DOMAIN ShippedIdle /\ r.pc = "recheck" /\ r.rc = got.rc
      /\ Readings(r) = Readings(got)
      /\ r.harness = got.harness /\ r.installed = got.installed /\ r.tagged = got.tagged
      /\ r.version = got.version /\ r.source = got.source
      /\ r.findings = Deduped(got.phase1 \cup found)
  BY DEF EndWith, ShippedIdle, Readings
<1> HIDE DEF r
<1>2. Readings(r) = Readings(shipped)
  BY <1>1
<1>3. Confirmed(r) /\ AnswersOf(r) # {} /\ r.phase1 = shipped.phase1 /\ got.phase1 = shipped.phase1
  BY <1>2, SameReadings
<1>4. r.phase1 \subseteq MetadataCodes
  <2>1. MetadataFindings(r) \subseteq MetadataCodes
    BY FoundByMetadata
  <2> QED  BY <1>3, <2>1 DEF Confirmed
<1>5. /\ "PUBLISH_GAP" \notin found /\ "RELEASE_YANKED" \notin found
      /\ "NOT_ON_INDEX" \notin found /\ "NOT_ON_INDEX" \notin r.phase1
      /\ "TAG_NOT_ON_INDEX" \notin r.phase1
  BY <1>4 DEF InstallCodes, MetadataCodes
<1>6. /\ r.findings \subseteq r.phase1 \cup found
      /\ r.phase1 \subseteq r.findings
      /\ r.findings = {} => found = {}
  <2>1. r.findings = IF "PUBLISH_GAP" \in r.phase1 \cup found
                        THEN (r.phase1 \cup found) \ {"TAG_NOT_ON_INDEX"}
                        ELSE r.phase1 \cup found
    BY <1>1, <1>3 DEF Deduped
  <2>2. r.phase1 \subseteq r.findings /\ r.findings \subseteq r.phase1 \cup found
    BY <1>5, <2>1
  <2>3. ASSUME r.findings = {}  PROVE found = {}
    <3>1. "PUBLISH_GAP" \notin r.phase1
      BY <2>2, <2>3
    <3> QED  BY <1>5, <2>1, <2>3, <3>1
  <2> QED  BY <2>2, <2>3
<1>7. Fits(got) => Fits(r)
  BY <1>1 DEF Fits
<1>8. Weighed(r)
  BY <1>1, <1>3, <1>5, <1>6, <1>7 DEF Weighed
<1> QED  BY <1>1, <1>2, <1>8 DEF r

\* A run that gives no verdict is not judged by one.
LEMMA NothingJudged ==
    ASSUME shipped'.rc \notin {0, 2}, shipped'.findings = {} \/ shipped'.pc # "done"
    PROVE  ShippedIsDeserved'
BY DEF ShippedIsDeserved, ClaimsAreConfirmed, FirstDepthCounts, CleanMeansShipped

\* The reading of the report goes on.
LEMMA ReadingReport ==
    ASSUME ShippedReport, UNCHANGED subject, DOMAIN shipped' = DOMAIN ShippedIdle,
           shipped.pc \in {"capture", "project", "history", "changelog", "simple", "json"},
           shipped'.findings = shipped.findings, shipped'.harness = shipped.harness,
           Given(shipped'.simple), Given(shipped'.json),
           shipped'.tags \in SUBSET Versions, shipped'.tagged => shipped'.tags = subject.tags,
           \/ shipped'.pc = "done" /\ shipped'.rc = 127
           \/ /\ shipped'.rc = shipped.rc
              /\ shipped'.pc \in {"project", "history", "changelog", "simple", "json", "weigh"}
              /\ shipped'.pc # "project" => shipped'.version \in Contents
              /\ shipped'.pc \in {"json", "weigh"} /\ ~Asked.offline =>
                    shipped'.simple.status # "unasked"
    PROVE  ShippedReport'
<1>1. NoCode \notin {0, 2} /\ shipped.findings = {} /\ ~shipped.harness /\ shipped.rc = NoCode
  BY DEF ShippedReport, NoCode
<1>2. shipped'.rc \notin {0, 2} /\ shipped'.findings = {} /\ ~shipped'.harness
  BY <1>1
<1>3. ShippedIsDeserved'
  BY <1>2, NothingJudged
<1> QED  BY <1>1, <1>2, <1>3 DEF ShippedReport, Given, Readable

\* What the probe reads, step by step.
LEMMA ReadsReport ==
    ASSUME ShippedReport, Working("shipped"), TreeInv,
           \/ ShippedCapture \/ ReadProject \/ ReadHistory \/ ReadChangelog
           \/ FetchSimple \/ FetchJson
    PROVE  ShippedReport'
<1>1. /\ DOMAIN shipped = DOMAIN ShippedIdle
      /\ Given(shipped.simple) /\ Given(shipped.json) /\ shipped.tags \in SUBSET Versions
      /\ shipped.pc # "idle" /\ shipped.tagged => shipped.tags = subject.tags
      /\ shipped.pc \notin {"idle", "capture", "project", "done"} => shipped.version \in Contents
      /\ shipped.pc \in {"json", "weigh"} /\ ~Asked.offline => shipped.simple.status # "unasked"
  BY DEF ShippedReport
<1>2. /\ tree.files["pyproject"] \in Contents /\ tree.files["changelog"] \in Contents
      /\ UNCHANGED subject
  <2>1. UNCHANGED subject
    BY DEF ShippedCapture, ReadProject, ReadHistory, ReadChangelog, FetchSimple, FetchJson,
       ShippedAlone
  <2> QED  BY <2>1, FilesAssumption DEF TreeInv, Trees, FilesAssumption
<1>3. CASE ShippedCapture
  <2>1. /\ shipped.pc = "capture" /\ shipped'.pc = "project"
        /\ DOMAIN shipped' = DOMAIN ShippedIdle /\ shipped'.simple = shipped.simple
        /\ shipped'.json = shipped.json /\ shipped'.findings = shipped.findings
        /\ shipped'.harness = shipped.harness /\ shipped'.rc = shipped.rc
        /\ shipped'.tags = shipped.tags /\ shipped'.tagged = shipped.tagged
    BY <1>1, <1>3 DEF ShippedCapture, ShippedIdle
  <2> QED  BY <1>1, <1>2, <2>1, ReadingReport
<1>4. CASE ReadProject
  <2>1. /\ shipped.pc = "project" /\ DOMAIN shipped' = DOMAIN ShippedIdle
        /\ shipped'.simple = shipped.simple
        /\ shipped'.json = shipped.json /\ shipped'.findings = shipped.findings
        /\ shipped'.harness = shipped.harness
        /\ shipped'.tags = shipped.tags /\ shipped'.tagged = shipped.tagged
        /\ \/ shipped'.pc = "done" /\ shipped'.rc = 127
           \/ /\ shipped'.pc = "history"
              /\ shipped'.rc = shipped.rc /\ shipped'.version = tree.files["pyproject"]
    BY <1>1, <1>4 DEF ReadProject, ReadText, ShippedIdle
  <2> QED  BY <1>1, <1>2, <2>1, ReadingReport
<1>5. CASE ReadHistory
  <2>1. PICK tagged \in BOOLEAN : \E logged \in BOOLEAN :
          LET tags == IF tagged THEN subject.tags ELSE {} IN
          shipped' = [shipped EXCEPT
                        !.tagged = tagged, !.tags = tags, !.logged = logged,
                        !.work = IF logged THEN Beyond(tree.head, tags) ELSE {},
                        !.pc = "changelog"]
    BY <1>5 DEF ReadHistory
  <2>2. PICK logged \in BOOLEAN : \E work :
          shipped' = [shipped EXCEPT
                        !.tagged = tagged, !.tags = IF tagged THEN subject.tags ELSE {},
                        !.logged = logged, !.work = work, !.pc = "changelog"]
    BY <2>1
  <2>3. PICK work :
          shipped' = [shipped EXCEPT
                        !.tagged = tagged, !.tags = IF tagged THEN subject.tags ELSE {},
                        !.logged = logged, !.work = work, !.pc = "changelog"]
    BY <2>2
  <2>4. subject.tags \in SUBSET Versions
    BY SweepAssumption DEF SweepAssumption, Working
  <2>5. /\ shipped.pc = "history" /\ shipped'.pc = "changelog"
        /\ DOMAIN shipped' = DOMAIN ShippedIdle /\ shipped'.simple = shipped.simple
        /\ shipped'.json = shipped.json /\ shipped'.findings = shipped.findings
        /\ shipped'.harness = shipped.harness /\ shipped'.rc = shipped.rc
        /\ shipped'.version = shipped.version
        /\ shipped'.tags = (IF tagged THEN subject.tags ELSE {}) /\ shipped'.tagged = tagged
    BY <1>1, <1>5, <2>3 DEF ReadHistory, ShippedIdle
  <2> QED  BY <1>1, <1>2, <2>4, <2>5, ReadingReport
<1>6. CASE ReadChangelog
  <2>1. /\ shipped.pc = "changelog" /\ DOMAIN shipped' = DOMAIN ShippedIdle
        /\ shipped'.simple = shipped.simple /\ shipped'.version = shipped.version
        /\ shipped'.json = shipped.json /\ shipped'.findings = shipped.findings
        /\ shipped'.harness = shipped.harness
        /\ shipped'.tags = shipped.tags /\ shipped'.tagged = shipped.tagged
        /\ \/ shipped'.pc = "done" /\ shipped'.rc = 127
           \/ /\ shipped'.pc = IF Asked.offline THEN "weigh" ELSE "simple"
              /\ shipped'.rc = shipped.rc
    BY <1>1, <1>6 DEF ReadChangelog, ReadText, ShippedIdle
  <2> QED  BY <1>1, <1>2, <2>1, ReadingReport
<1>7. CASE FetchSimple
  <2>1. PICK answer \in Answered("simple") :
           shipped' = [shipped EXCEPT !.simple = answer, !.pc = "json"]
    BY <1>7 DEF FetchSimple
  <2>2. Given(answer) /\ answer.status # "unasked"
    BY AnsweredFacts
  <2>3. /\ shipped.pc = "simple" /\ shipped'.pc = "json"
        /\ DOMAIN shipped' = DOMAIN ShippedIdle /\ shipped'.simple = answer
        /\ shipped'.json = shipped.json /\ shipped'.findings = shipped.findings
        /\ shipped'.harness = shipped.harness /\ shipped'.rc = shipped.rc
        /\ shipped'.version = shipped.version
        /\ shipped'.tags = shipped.tags /\ shipped'.tagged = shipped.tagged
    BY <1>1, <1>7, <2>1 DEF FetchSimple, ShippedIdle
  <2> QED  BY <1>1, <1>2, <2>2, <2>3, ReadingReport
<1>8. CASE FetchJson
  <2>1. PICK answer \in (IF Asked.pypi THEN Answered("json") ELSE {Silent("not_applicable")}) :
           shipped' = [shipped EXCEPT !.json = answer, !.pc = "weigh"]
    BY <1>8 DEF FetchJson
  <2>2. Given(answer)
    <3>1. CASE answer = Silent("not_applicable")
      BY <3>1 DEF Given, Readable, Silent
    <3> QED  BY <3>1, AnsweredFacts
  <2>3. /\ shipped.pc = "json" /\ shipped'.pc = "weigh"
        /\ DOMAIN shipped' = DOMAIN ShippedIdle /\ shipped'.simple = shipped.simple
        /\ shipped'.json = answer /\ shipped'.findings = shipped.findings
        /\ shipped'.harness = shipped.harness /\ shipped'.rc = shipped.rc
        /\ shipped'.version = shipped.version
        /\ shipped'.tags = shipped.tags /\ shipped'.tagged = shipped.tagged
    BY <1>1, <1>8, <2>1 DEF FetchJson, ShippedIdle
  <2> QED  BY <1>1, <1>2, <2>2, <2>3, ReadingReport
<1> QED  BY <1>3, <1>4, <1>5, <1>6, <1>7, <1>8

\* The end of the first depth.
LEMMA WeighReports ==
    ASSUME ShippedReport, Weigh
    PROVE  ShippedReport'
<1> DEFINE s == shipped.simple
           j == shipped.json
           found == MetadataFindings(shipped)
           status == IndexStatus(s, j)
<1>1. DOMAIN shipped = DOMAIN ShippedIdle /\ NoCode \notin {0, 2} /\ UNCHANGED subject
  BY DEF ShippedReport, NoCode, Weigh, ShippedAlone
<1>2. /\ shipped.pc = "weigh" /\ DOMAIN shipped' = DOMAIN ShippedIdle
      /\ shipped'.simple = s /\ shipped'.json = j /\ shipped'.version = shipped.version
      /\ shipped'.tagged = shipped.tagged /\ shipped'.tags = shipped.tags
      /\ shipped'.work = shipped.work /\ shipped'.changelog = shipped.changelog
      /\ shipped'.rc = shipped.rc /\ shipped'.phase1 = found
      /\ CASE status = "unreachable" ->
                shipped'.pc = "recheck" /\ shipped'.harness /\ shipped'.findings = found
           [] status # "unreachable" /\ (Asked.metadataOnly \/ Asked.offline) ->
                /\ shipped'.pc = "recheck" /\ shipped'.harness = shipped.harness
                /\ shipped'.findings = found
           [] status = "not_published" /\ ~Asked.metadataOnly /\ ~Asked.offline ->
                /\ shipped'.pc = "recheck" /\ shipped'.harness = shipped.harness
                /\ shipped'.findings = Deduped(found \cup {"NOT_ON_INDEX"})
           [] OTHER ->
                /\ shipped'.pc = "install" /\ shipped'.harness = shipped.harness
                /\ shipped'.findings = found /\ ~Asked.metadataOnly /\ ~Asked.offline
                /\ status \notin {"unreachable", "not_published"}
  <2> HIDE DEF found, status
  <2>1. shipped.pc = "weigh" /\ shipped' =
          LET weighed == [shipped EXCEPT !.phase1 = found, !.findings = found, !.pc = "recheck"] IN
            IF status = "unreachable" THEN [weighed EXCEPT !.harness = TRUE]
            ELSE IF Asked.metadataOnly \/ Asked.offline THEN weighed
            ELSE IF status = "not_published" THEN
                    [weighed EXCEPT !.findings = Deduped(@ \cup {"NOT_ON_INDEX"})]
            ELSE [weighed EXCEPT !.pc = "install"]
    BY DEF Weigh, found, status
  <2>2. CASE status = "unreachable"
    BY <1>1, <2>1, <2>2 DEF ShippedIdle
  <2>3. CASE status # "unreachable" /\ (Asked.metadataOnly \/ Asked.offline)
    BY <1>1, <2>1, <2>3 DEF ShippedIdle
  <2>4. CASE status = "not_published" /\ ~Asked.metadataOnly /\ ~Asked.offline
    BY <1>1, <2>1, <2>4 DEF ShippedIdle
  <2>5. CASE status \notin {"unreachable", "not_published"} /\ ~Asked.metadataOnly /\ ~Asked.offline
    BY <1>1, <2>1, <2>5 DEF ShippedIdle
  <2> QED  BY <2>2, <2>3, <2>4, <2>5
<1>3. /\ Given(s) /\ Given(j) /\ ~shipped.harness /\ shipped.version \in Contents
      /\ ~Asked.offline => s.status # "unasked"
      /\ shipped.rc = NoCode /\ shipped.tags \in SUBSET Versions
      /\ shipped.tagged => shipped.tags = subject.tags
  BY <1>2 DEF ShippedReport
<1>4. /\ status \in {"ok", "unconfirmed"} => AnswersOf(shipped') # {}
      /\ status = "not_published" => AnswersOf(shipped') = {} /\ Absent(shipped')
      /\ status = "skipped" => s.status = "unasked"
      /\ status \in {"ok", "unconfirmed", "skipped", "not_published", "unreachable"}
  BY <1>2 DEF IndexStatus, Both, AnswersOf, Absent
<1>5. Confirmed(shipped')
  <2>1. MetadataFindings(shipped') = found
    <3>1. LastTag(shipped') = LastTag(shipped)
          /\ (Due(shipped') <=> Due(shipped)) /\ (Overdue(shipped') <=> Overdue(shipped))
      BY <1>2 DEF LastTag, Due, Overdue
    <3>2. Current(shipped') = Current(shipped)
      BY <1>2, <3>1 DEF Current
    <3> QED  BY <1>2, <3>1, <3>2 DEF MetadataFindings
  <2>2. /\ Given(shipped'.simple) /\ Given(shipped'.json) /\ shipped'.tags \in SUBSET Versions
        /\ shipped'.phase1 = MetadataFindings(shipped')
    BY <1>2, <1>3, <2>1
  <2> QED  BY <2>2, MetadataConfirmed
<1>6. found \subseteq MetadataCodes
  BY FoundByMetadata
<1> HIDE DEF found, status, s, j
<1>7. CASE shipped'.pc = "recheck"
  <2>1. Weighed(shipped')
    <3>1. CASE status = "not_published" /\ ~Asked.metadataOnly /\ ~Asked.offline
      <4>1. "TAG_NOT_ON_INDEX" \notin found
        BY <1>6 DEF MetadataCodes
      <4>2. /\ shipped'.findings # {} /\ shipped'.findings \subseteq found \cup {"NOT_ON_INDEX"}
            /\ found \subseteq shipped'.findings
        BY <1>2, <3>1, <4>1 DEF Deduped
      <4> QED  BY <1>2, <1>4, <1>5, <3>1, <4>2 DEF Weighed
    <3>2. CASE ~(status = "not_published" /\ ~Asked.metadataOnly /\ ~Asked.offline)
      <4>1. "NOT_ON_INDEX" \notin found
        BY <1>6 DEF MetadataCodes
      <4>2. /\ shipped'.findings = found
            /\ shipped'.harness \/ (status # "unreachable" /\ (Asked.metadataOnly \/ Asked.offline))
        BY <1>2, <1>7, <3>2
      <4> QED  BY <1>2, <1>3, <1>4, <1>5, <4>1, <4>2 DEF Weighed
    <3> QED  BY <3>1, <3>2
  <2>2. Weighed(shipped)'
    BY <1>1, <2>1, ClaimsKept
  <2>3. ShippedIsDeserved'
    BY <1>1, <1>2, <1>3, <1>7, NothingJudged
  <2> QED  BY <1>1, <1>2, <1>3, <1>7, <2>2, <2>3 DEF ShippedReport, Given, Readable, s, j
<1>8. CASE shipped'.pc # "recheck"
  <2>1. /\ shipped'.pc = "install" /\ ~shipped'.harness /\ shipped'.findings = found
        /\ AnswersOf(shipped') # {}
    BY <1>2, <1>3, <1>4, <1>8
  <2>2. Confirmed(shipped)' /\ AnswersOf(shipped)' # {}
    BY <1>1, <1>5, <2>1, ClaimsKept
  <2>3. ShippedIsDeserved'
    BY <1>1, <1>2, <1>3, <2>1, NothingJudged
  <2> QED  BY <1>1, <1>2, <1>3, <2>1, <2>2, <2>3 DEF ShippedReport, Given, Readable, s, j
<1> QED  BY <1>7, <1>8

\* A report that is ready to be recounted stands.
LEMMA WeighedReport ==
    ASSUME ShippedReport, UNCHANGED subject, Weighed(shipped'),
           shipped.pc \in {"install", "speak"},
           DOMAIN shipped' = DOMAIN ShippedIdle, shipped'.pc = "recheck",
           shipped'.rc = shipped.rc, Readings(shipped') = Readings(shipped)
    PROVE  ShippedReport'
<1>1. NoCode \notin {0, 2} /\ shipped.rc = NoCode
  BY DEF ShippedReport, NoCode
<1>2. Weighed(shipped)' /\ ShippedIsDeserved'
  BY <1>1, ClaimsKept, NothingJudged
<1>3. /\ shipped'.tagged = shipped.tagged /\ shipped'.tags = shipped.tags
      /\ shipped'.version = shipped.version
      /\ shipped'.simple = shipped.simple /\ shipped'.json = shipped.json
  BY SameReadings
<1> QED  BY <1>1, <1>2, <1>3 DEF ShippedReport, Given, Readable

\* What was installed and compared, when nothing was found, is what was released.
LEMMA NothingFoundFits ==
    ASSUME NEW held, held.installed \in Versions, held.version \in Contents,
           held.tags \in SUBSET Versions, held.tagged => held.tags = subject.tags
    PROVE  /\ VersionFindings(held) \cup ContentFindings(held)
                 \in SUBSET (InstallCodes \ {"NOT_ON_INDEX"})
           /\ VersionFindings(held) \cup ContentFindings(held) = {} => Fits(held)
<1>1. ContentFindings(held) \subseteq InstallCodes \ {"NOT_ON_INDEX"}
  BY DEF ContentFindings, InstallCodes
<1>2. /\ VersionFindings(held) \subseteq InstallCodes \ {"NOT_ON_INDEX"}
      /\ VersionFindings(held) = {} =>
            /\ held.version \in {NoFile, held.installed}
            /\ LastTag(held) \in {NoVersion, held.installed}
  BY FoundByVersion
<1>3. ASSUME VersionFindings(held) \cup ContentFindings(held) = {}  PROVE Fits(held)
  <2>1. VersionFindings(held) = {} /\ ContentFindings(held) = {}
    BY <1>3
  <2>2. held.source # NoFile /\ subject.reached => held.source = subject.built[held.installed]
    BY <2>1 DEF ContentFindings
  <2>3. held.installed # NoVersion
    BY VersionAssumption DEF VersionAssumption, Versions, NoVersion
  <2>4. held.tagged => Highest(subject.tags) = LastTag(held)
    BY DEF LastTag
  <2> QED  BY <1>2, <2>1, <2>2, <2>3, <2>4 DEF Fits
<1> QED  BY <1>1, <1>2, <1>3

\* The second depth, up to what is installed.
LEMMA InstallReports ==
    ASSUME ShippedReport, Install
    PROVE  ShippedReport'
<1>1. /\ DOMAIN shipped = DOMAIN ShippedIdle /\ UNCHANGED subject /\ shipped.pc = "install"
      /\ Confirmed(shipped) /\ AnswersOf(shipped) # {} /\ ~shipped.harness
      /\ shipped.findings = shipped.phase1 /\ shipped.version \in Contents
      /\ shipped.tags \in SUBSET Versions
      /\ shipped.tagged => shipped.tags = subject.tags
  BY DEF ShippedReport, Install, ShippedAlone
<1>2. CASE shipped' = EndWith(shipped, {"INSTALL_FAILED"})
  <2>1. {"INSTALL_FAILED"} \in SUBSET (InstallCodes \ {"NOT_ON_INDEX"})
    BY DEF InstallCodes
  <2> HIDE DEF EndWith
  <2>2. LET r == EndWith(shipped, {"INSTALL_FAILED"}) IN
           /\ DOMAIN r = DOMAIN ShippedIdle /\ r.pc = "recheck" /\ r.rc = shipped.rc
           /\ Readings(r) = Readings(shipped) /\ Weighed(r)
    BY <1>1, <2>1, EndsWeighed
  <2> QED  BY <1>1, <1>2, <2>2, WeighedReport
<1>3. CASE shipped' # EndWith(shipped, {"INSTALL_FAILED"})
  <2> DEFINE version == Resolved(Asked.pin)
             got == [shipped EXCEPT !.installed = version]
             source == SourceFor(got.version, version)
             held == [got EXCEPT !.source = source]
             found == VersionFindings(held) \cup ContentFindings(held)
  <2>1. /\ version # NoVersion
        /\ shipped' = IF Asked.pin \notin {NoVersion, version} THEN
                          [got EXCEPT !.harness = TRUE, !.pc = "recheck"]
                      ELSE IF subject.server = "none" THEN
                          EndWith(held, found \cup {"NO_ENTRYPOINT"})
                      ELSE [held EXCEPT !.findings = found, !.pc = "speak"]
    BY <1>3 DEF Install
  <2>2. version \in Versions
    <3>1. Asked.pin \in Versions \cup {NoVersion}
      BY AskedAssumption DEF AskedAssumption
    <3> HIDE DEF version
    <3>2. version \in Versions \cup {NoVersion}
      BY <3>1, ResolvedFacts DEF version
    <3> QED  BY <2>1, <3>2
  <2> HIDE DEF version, source
  <2>3. /\ DOMAIN got = DOMAIN ShippedIdle /\ got.rc = shipped.rc
        /\ Readings(got) = Readings(shipped) /\ got.findings = shipped.findings
    BY <1>1 DEF ShippedIdle, Readings
  <2>4. /\ DOMAIN held = DOMAIN ShippedIdle /\ held.rc = shipped.rc
        /\ Readings(held) = Readings(shipped) /\ held.harness = shipped.harness
        /\ held.installed = version
    BY <1>1 DEF ShippedIdle, Readings
  <2>5. found \in SUBSET (InstallCodes \ {"NOT_ON_INDEX"}) /\ (found = {} => Fits(held))
    <3> HIDE DEF held
    <3>1. /\ held.version = shipped.version /\ held.tags = shipped.tags
          /\ held.tagged = shipped.tagged
      BY <2>4, SameReadings
    <3> QED  BY <1>1, <2>2, <2>4, <3>1, NothingFoundFits
  <2> HIDE DEF found
  <2>6. CASE Asked.pin \notin {NoVersion, version}
    <3> HIDE DEF got
    <3>1. shipped' = [got EXCEPT !.harness = TRUE, !.pc = "recheck"]
      BY <2>1, <2>6
    <3>2. /\ DOMAIN shipped' = DOMAIN ShippedIdle /\ shipped'.pc = "recheck"
          /\ shipped'.rc = shipped.rc /\ Readings(shipped') = Readings(got)
          /\ shipped'.findings = shipped.findings /\ shipped'.harness
      BY <2>3, <3>1 DEF ShippedIdle, Readings
    <3>3. Readings(shipped') = Readings(shipped)
      BY <2>3, <3>2
    <3>4. /\ Confirmed(shipped') /\ shipped'.phase1 = shipped.phase1
          /\ AnswersOf(shipped') = AnswersOf(shipped)
      BY <1>1, <3>3, SameReadings
    <3>5. "NOT_ON_INDEX" \notin shipped'.findings
      <4>1. MetadataFindings(shipped) \subseteq MetadataCodes
        BY FoundByMetadata
      <4> QED  BY <1>1, <3>2, <4>1 DEF Confirmed, MetadataCodes
    <3>6. Weighed(shipped')
      BY <1>1, <3>2, <3>4, <3>5 DEF Weighed
    <3> QED  BY <1>1, <3>2, <3>3, <3>6, WeighedReport
  <2> HIDE DEF held
  <2>7. CASE Asked.pin \in {NoVersion, version} /\ subject.server = "none"
    <3> DEFINE all == found \cup {"NO_ENTRYPOINT"}
    <3>1. all \in SUBSET (InstallCodes \ {"NOT_ON_INDEX"}) /\ all # {}
      BY <2>5 DEF InstallCodes
    <3>2. shipped' = EndWith(held, all)
      BY <2>1, <2>7
    <3> HIDE DEF all, EndWith
    <3>3. LET r == EndWith(held, all) IN
           /\ DOMAIN r = DOMAIN ShippedIdle /\ r.pc = "recheck" /\ r.rc = held.rc
           /\ Readings(r) = Readings(shipped) /\ Weighed(r)
      BY <1>1, <2>4, <3>1, EndsWeighed
    <3> QED  BY <1>1, <2>4, <3>2, <3>3, WeighedReport
  <2>8. CASE Asked.pin \in {NoVersion, version} /\ subject.server # "none"
    <3>1. shipped' = [held EXCEPT !.findings = found, !.pc = "speak"]
      BY <2>1, <2>8
    <3>2. /\ DOMAIN shipped' = DOMAIN ShippedIdle /\ shipped'.pc = "speak"
          /\ shipped'.rc = shipped.rc /\ Readings(shipped') = Readings(held)
          /\ shipped'.findings = found /\ shipped'.harness = shipped.harness
          /\ shipped'.installed = held.installed /\ shipped'.version = held.version
          /\ shipped'.tagged = held.tagged /\ shipped'.source = held.source
      BY <2>4, <3>1 DEF ShippedIdle, Readings
    <3>3. Readings(shipped') = Readings(shipped)
      BY <2>4, <3>2
    <3>4. /\ Confirmed(shipped') /\ AnswersOf(shipped') = AnswersOf(shipped)
          /\ shipped'.tagged = shipped.tagged /\ shipped'.tags = shipped.tags
          /\ shipped'.version = shipped.version
          /\ shipped'.simple = shipped.simple /\ shipped'.json = shipped.json
      BY <1>1, <3>3, SameReadings
    <3>5. Confirmed(shipped)' /\ AnswersOf(shipped)' # {}
      BY <1>1, <3>4, ClaimsKept
    <3>6. found = {} => Fits(shipped)'
      <4>1. Fits(held) => Fits(shipped')
        BY <3>2 DEF Fits
      <4> QED  BY <1>1, <2>5, <4>1, ClaimsKept
    <3>7. NoCode \notin {0, 2} /\ shipped.rc = NoCode
      BY <1>1 DEF NoCode, ShippedReport
    <3>8. ShippedIsDeserved'
      BY <3>2, <3>7, NothingJudged
    <3> QED  BY <1>1, <2>5, <3>2, <3>4, <3>5, <3>6, <3>7, <3>8 DEF ShippedReport, Given, Readable
  <2> QED  BY <2>6, <2>7, <2>8
<1> QED  BY <1>2, <1>3

\* The second depth, up to what the server answers.
LEMMA SpeakReports ==
    ASSUME ShippedReport, Speak
    PROVE  ShippedReport'
<1>1. /\ DOMAIN shipped = DOMAIN ShippedIdle /\ UNCHANGED subject /\ shipped.pc = "speak"
      /\ Confirmed(shipped) /\ AnswersOf(shipped) # {} /\ ~shipped.harness
      /\ shipped.findings \subseteq InstallCodes \ {"NOT_ON_INDEX"}
      /\ shipped.findings = {} => Fits(shipped)
  BY DEF ShippedReport, Speak, ShippedAlone
<1>2. PICK found : /\ shipped' = EndWith(shipped, found)
                   /\ found \in SUBSET (InstallCodes \ {"NOT_ON_INDEX"})
                   /\ shipped.findings \subseteq found
  <2>1. CASE shipped' = EndWith(shipped, shipped.findings \cup {"DOES_NOT_RUN"})
    <3>1. shipped.findings \cup {"DOES_NOT_RUN"} \in SUBSET (InstallCodes \ {"NOT_ON_INDEX"})
      BY <1>1 DEF InstallCodes
    <3> QED  BY <2>1, <3>1
  <2>2. CASE \E answer \in {"ok", "skipped", "blocked", "error", "no-answer", "empty"} :
                shipped' = EndWith(shipped, shipped.findings \cup ToolFinding(answer))
    <3>1. PICK answer \in {"ok", "skipped", "blocked", "error", "no-answer", "empty"} :
                shipped' = EndWith(shipped, shipped.findings \cup ToolFinding(answer))
      BY <2>2
    <3>2. ToolFinding(answer) \subseteq {"TOOL_ERROR", "TOOL_NO_ANSWER", "TOOL_EMPTY"}
      BY <3>1 DEF ToolFinding
    <3>3. {"TOOL_ERROR", "TOOL_NO_ANSWER", "TOOL_EMPTY"} \subseteq InstallCodes \ {"NOT_ON_INDEX"}
      BY DEF InstallCodes
    <3>4. shipped.findings \cup ToolFinding(answer) \in SUBSET (InstallCodes \ {"NOT_ON_INDEX"})
      BY <1>1, <3>2, <3>3
    <3> QED  BY <3>1, <3>4
  <2> QED  BY <2>1, <2>2 DEF Speak
<1> HIDE DEF EndWith
<1>3. LET r == EndWith(shipped, found) IN
         /\ DOMAIN r = DOMAIN ShippedIdle /\ r.pc = "recheck" /\ r.rc = shipped.rc
         /\ Readings(r) = Readings(shipped) /\ Weighed(r)
  <2>1. found = {} => Fits(shipped)
    BY <1>1, <1>2
  <2> QED  BY <1>1, <1>2, <2>1, EndsWeighed
<1> QED  BY <1>1, <1>2, <1>3, WeighedReport

\* The code that a report is given.
LEMMA RecheckReports ==
    ASSUME ShippedReport, ShippedRecheck
    PROVE  ShippedReport'
<1> DEFINE code == ShippedCode(shipped, prov')
<1>1. /\ DOMAIN shipped = DOMAIN ShippedIdle /\ UNCHANGED subject /\ shipped.pc = "recheck"
      /\ Weighed(shipped) /\ Given(shipped.simple) /\ Given(shipped.json)
      /\ shipped.tags \in SUBSET Versions /\ (shipped.tagged => shipped.tags = subject.tags)
  BY DEF ShippedReport, ShippedRecheck, ShippedAlone
<1>2. /\ DOMAIN shipped' = DOMAIN ShippedIdle /\ shipped'.pc = "done" /\ shipped'.rc = code
      /\ Readings(shipped') = Readings(shipped) /\ shipped'.findings = shipped.findings
      /\ shipped'.installed = shipped.installed /\ shipped'.source = shipped.source
      /\ shipped'.logged = shipped.logged
  BY <1>1 DEF ShippedRecheck, ShippedIdle, Readings
<1>3. /\ code \in {0, 2} => ~shipped.harness
      /\ code = 0 => shipped.findings = {}
  <2> DEFINE moved == Blocking(prov', TRUE)
  <2>1. code = IF moved THEN 4 ELSE IF shipped.harness THEN 127
               ELSE IF shipped.findings # {} THEN 2 ELSE 0
    BY DEF ShippedCode, ExitMoved
  <2> HIDE DEF code, moved
  <2> QED  BY <2>1
<1> HIDE DEF code
<1>4. /\ shipped'.tagged = shipped.tagged /\ shipped'.tags = shipped.tags
      /\ shipped'.version = shipped.version /\ shipped'.phase1 = shipped.phase1
      /\ shipped'.simple = shipped.simple /\ shipped'.json = shipped.json
      /\ Confirmed(shipped') /\ MetadataFindings(shipped') = MetadataFindings(shipped)
      /\ AnswersOf(shipped') = AnswersOf(shipped)
  BY <1>1, <1>2, SameReadings DEF Weighed
<1>5. Confirmed(shipped)' /\ shipped'.phase1 = MetadataFindings(shipped)'
      /\ AnswersOf(shipped)' = AnswersOf(shipped)
  BY <1>1, <1>4, ClaimsKept DEF Confirmed
<1>6. ClaimsAreConfirmed'
  BY <1>1, <1>2, <1>3, <1>4, <1>5 DEF ClaimsAreConfirmed, Weighed, Confirmed, AnswersOf,
     Absent, Readable
<1>7. FirstDepthCounts'
  BY <1>1, <1>2, <1>3, <1>4, <1>5 DEF FirstDepthCounts, Weighed
<1>8. CleanMeansShipped'
  <2>1. ASSUME code = 0, ~Asked.offline, ~Asked.metadataOnly
        PROVE  /\ ~Due(shipped)' /\ Fits(shipped)
    <3>1. Fits(shipped) /\ shipped.phase1 = {}
      BY <1>1, <1>3, <2>1 DEF Weighed
    <3>2. "UNRELEASED" \notin MetadataFindings(shipped')
      BY <1>4, <3>1 DEF Confirmed
    <3>3. ~Due(shipped')
      BY <3>2, FoundByMetadata
    <3> QED  BY <1>1, <3>1, <3>3 DEF Due
  <2>2. Highest(subject.tags)' = Highest(subject.tags)
    BY <1>1
  <2> QED  BY <1>1, <1>2, <1>4, <2>1, <2>2 DEF CleanMeansShipped, Fits
<1>9. Given(shipped.simple)' /\ Given(shipped.json)'
  BY <1>1, <1>4 DEF Given, Readable
<1> QED  BY <1>1, <1>2, <1>4, <1>6, <1>7, <1>8, <1>9 DEF ShippedReport, ShippedIsDeserved

\* What a step of the shipped probe adds to its report, it has read.
LEMMA ShippedStepReports ==
    ASSUME ShippedReport, Working("shipped"), TreeInv, ShippedStep
    PROVE  ShippedReport'
  BY ReadsReport, WeighReports, InstallReports, SpeakReports, RecheckReports DEF ShippedStep

\* Nothing that another does to the tree or the index changes what is reported.
LEMMA ShippedStays ==
    ASSUME ShippedReport, UNCHANGED shipped, shipped.pc = "idle" \/ UNCHANGED subject
    PROVE  ShippedReport'
<1>1. NoCode \notin {0, 2}
  BY DEF NoCode
<1>2. CASE shipped.pc = "idle"
  <2>1. shipped.rc = NoCode
    BY <1>2 DEF ShippedReport
  <2>2. ShippedIsDeserved'
    BY <1>1, <1>2, <2>1, NothingJudged
  <2> QED  BY <1>2, <2>2 DEF ShippedReport, Given, Readable
<1>3. CASE UNCHANGED subject
  <2>1. /\ Confirmed(shipped) => Confirmed(shipped)'
        /\ Fits(shipped) => Fits(shipped)'
        /\ Weighed(shipped) => Weighed(shipped)'
        /\ MetadataFindings(shipped)' = MetadataFindings(shipped)
        /\ AnswersOf(shipped)' = AnswersOf(shipped)
    BY <1>3, ClaimsKept
  <2>2. ShippedIsDeserved'
    <3>1. /\ LastTag(shipped)' = LastTag(shipped) /\ Current(shipped)' = Current(shipped)
          /\ (Due(shipped)' <=> Due(shipped)) /\ Highest(subject.tags)' = Highest(subject.tags)
      BY <1>3 DEF LastTag, Current, Due
    <3>2. ClaimsAreConfirmed => ClaimsAreConfirmed'
      BY <3>1 DEF ClaimsAreConfirmed, Readable
    <3>3. FirstDepthCounts => FirstDepthCounts'
      BY <2>1 DEF FirstDepthCounts
    <3>4. CleanMeansShipped => CleanMeansShipped'
      BY <1>3, <3>1 DEF CleanMeansShipped
    <3> QED  BY <3>2, <3>3, <3>4 DEF ShippedReport, ShippedIsDeserved
  <2> QED  BY <1>3, <2>1, <2>2 DEF ShippedReport, Given, Readable
<1> QED  BY <1>2, <1>3
--------------------------------------------------------------------------------
(* What the yank probe names.                                                  *)

\* A run that names nothing has passed over what it cannot judge, and nothing else.
Passed(y) ==
    \A newest \in (IF y.newest # 0 THEN {y.newest} ELSE 1..LastMajor) :
    \A v \in y.audited :
        Breaks(y, v, newest) =>
            \/ v \notin y.readable
            \/ Capped(Requires(v)) \/ Requires(v).floor = 0
            \/ newest \in Requires(v).excluded

\* A report that is to be given its code.
Judged(y) ==
    /\ \A v \in y.broken : Breaks(y, v, y.newest)
    /\ ~y.harness /\ y.findings = {} /\ ~y.unread => Passed(y)

\* The releases that were read, and the one that the others are held against.
YankReport ==
    /\ DOMAIN yank = DOMAIN YankIdle
    /\ yank.pc \in {"idle", "capture", "page"} => yank.audited = {}
    /\ yank.pc \in {"idle", "capture", "page", "metadata", "dependency"} =>
          yank.newest = 0 /\ yank.broken = {}
    /\ yank.pc \in {"metadata", "dependency"} =>
          /\ yank.releases \in Snapshots
          /\ yank.audited \subseteq Listed(yank.releases)
          /\ yank.reference = Reference(yank.releases, yank.audited)
    /\ yank.pc = "dependency" => yank.readable \subseteq yank.audited
    /\ yank.pc = "recheck" => Judged(yank)
    /\ NamedReleasesBreak

\* What a resolver takes is the newest that there is, when the requirement lets that in.
LEMMA TakenFacts ==
    ASSUME NEW newest \in Nat \ {0}, NEW v, Requires(v) \in Requirements
    PROVE  /\ Admits(Requires(v), newest) => Taken(v, newest) = newest
           /\ Taken(v, newest) > Requires(v).floor => newest > Requires(v).floor
<1> DEFINE floor == Requires(v).floor
           S == {m \in 1..newest : Admits(Requires(v), m)}
<1>1. Taken(v, newest) = Highest(S)
  BY DEF Taken
<1>2. floor \in Nat
  BY VersionAssumption DEF Requirements, VersionAssumption
<1>3. S \in SUBSET (1..newest) /\ newest \in Nat
  OBVIOUS
<1>4. Admits(Requires(v), newest) => newest \in S
  OBVIOUS
<1> HIDE DEF S
<1>5. /\ S = {} => Highest(S) = 0
      /\ S # {} => Highest(S) \in S /\ \A w \in S : w <= Highest(S)
  <2>1. CASE S = {}
    BY <2>1 DEF Highest, NoVersion
  <2>2. CASE S # {}
    BY <1>3, <2>2, HighestFacts
  <2> QED  BY <2>1, <2>2
<1> DEFINE top == Highest(S)
<1>6. /\ top = 0 \/ top \in 1..newest
      /\ newest \in S => newest <= top /\ top \in 1..newest
  BY <1>3, <1>5
<1>7. Taken(v, newest) = top
  BY <1>1
<1> HIDE DEF floor, top
<1>8. newest \in S => top = newest
  BY <1>3, <1>6
<1>9. top > floor => newest > floor
  BY <1>2, <1>3, <1>6
<1>10. Taken(v, newest) > floor => newest > floor
  BY <1>7, <1>9
<1> QED  BY <1>4, <1>7, <1>8, <1>10 DEF floor

\* The reference is the newest release that a newer one can be, for any that is live.
LEMMA ReferenceFacts ==
    ASSUME NEW releases \in Snapshots, NEW audited \in SUBSET Listed(releases),
           NEW v \in audited, NEW reference, reference = Reference(releases, audited)
    PROVE  LET newer == {w \in audited : w > v /\ releases[w] = "live"} IN
           /\ v \notin Withdrawn(releases) <=> releases[v] = "live"
           /\ newer # {} <=> v < reference
           /\ newer # {} => Highest(newer) = reference
<1> DEFINE newer == {w \in audited : w > v /\ releases[w] = "live"}
           live == audited \ Withdrawn(releases)
<1>1. Versions \subseteq Nat \ {0} /\ NoVersion = 0
  BY VersionAssumption DEF VersionAssumption, Versions, NoVersion
<1>2. audited \in SUBSET Versions
  BY DEF Listed
<1>3. \A w \in audited : w \notin Withdrawn(releases) <=> releases[w] = "live"
  <2>1. ASSUME NEW w \in audited  PROVE releases[w] \in {"live", "yanked"} /\ w \in Versions
    BY DEF Listed, Snapshots
  <2> QED  BY <2>1 DEF Withdrawn
<1>4. live \in SUBSET Versions /\ newer \in SUBSET Versions /\ newer \subseteq live
      /\ \A w \in live : w > v => w \in newer
  BY <1>2, <1>3
<1>5. \A w \in newer : w > v
  OBVIOUS
<1> HIDE DEF live, newer
<1>6. /\ reference \in Versions \cup {NoVersion}
      /\ reference # NoVersion => reference \in live
      /\ live = {} => reference = NoVersion
      /\ \A w \in live : w <= reference
  <2>1. reference = Highest(live)
    BY DEF Reference, live
  <2> QED  BY <1>4, <2>1, HighestOf
<1>7. /\ newer # {} => Highest(newer) \in newer
      /\ \A w \in newer : w <= Highest(newer)
  BY <1>4, HighestOf
<1>8. v \in Nat \ {0} /\ reference \in Nat
  BY <1>1, <1>2, <1>6
<1>9. ASSUME v < reference  PROVE reference \in newer
  <2>1. reference # NoVersion /\ reference > v
    BY <1>1, <1>8, <1>9
  <2> QED  BY <1>4, <1>6, <2>1
<1>10. ASSUME newer # {}  PROVE v < reference /\ Highest(newer) = reference
  <2> DEFINE best == Highest(newer)
  <2>1. best \in newer /\ best \in Nat /\ best <= reference /\ best > v
    BY <1>1, <1>4, <1>5, <1>6, <1>7, <1>10
  <2> HIDE DEF best
  <2>2. v < reference
    BY <1>8, <2>1
  <2>3. reference <= best
    BY <1>7, <1>9, <2>2 DEF best
  <2>4. best = reference
    BY <1>8, <2>1, <2>3
  <2> QED  BY <2>2, <2>4 DEF best
<1> QED  BY <1>3, <1>9, <1>10 DEF newer

\* The rule of the probe picks the releases that break, of those that it can judge.
LEMMA BoundariesBreak ==
    ASSUME Working("yank"), NEW y, y.releases \in Snapshots,
           y.audited \subseteq Listed(y.releases), y.readable \subseteq y.audited,
           y.reference = Reference(y.releases, y.audited), y.newest \in Nat,
           NEW v \in y.readable
    PROVE  /\ v \in Boundaries(y) => y.newest # 0 /\ Breaks(y, v, y.newest)
           /\ y.newest # 0 /\ Breaks(y, v, y.newest) =>
                 \/ v \in Boundaries(y)
                 \/ Capped(Requires(v)) \/ Requires(v).floor = 0
                 \/ y.newest \in Requires(v).excluded
           /\ \A newest : Breaks(y, v, newest) => Wanted(y) \/ Capped(Requires(v))
<1> DEFINE newer == {w \in y.audited : w > v /\ y.releases[w] = "live"}
           floor == Requires(v).floor
<1>1. Requires(v) \in Requirements
  <2>1. v \in Versions
    BY DEF Listed
  <2> QED  BY <2>1, SweepAssumption DEF SweepAssumption, Working, Requires
<1>2. /\ v \notin Withdrawn(y.releases) <=> y.releases[v] = "live"
      /\ newer # {} <=> v < y.reference
      /\ newer # {} => Highest(newer) = y.reference
  <2>1. y.audited \in SUBSET Listed(y.releases) /\ v \in y.audited
    OBVIOUS
  <2> DEFINE releases == y.releases  audited == y.audited  reference == y.reference
  <2>2. LET among == {w \in audited : w > v /\ releases[w] = "live"} IN
        /\ v \notin Withdrawn(releases) <=> releases[v] = "live"
        /\ among # {} <=> v < reference
        /\ among # {} => Highest(among) = reference
    <3> HIDE DEF releases, audited, reference
    <3>1. /\ releases \in Snapshots /\ audited \in SUBSET Listed(releases) /\ v \in audited
          /\ reference = Reference(releases, audited)
      BY <2>1 DEF releases, audited, reference
    <3> QED  BY <3>1, ReferenceFacts
  <2> QED  BY <2>2
<1> HIDE DEF newer
<1>3. v \in Boundaries(y) <=>
          /\ v \notin Withdrawn(y.releases)
          /\ v < y.reference
          /\ Requires(v).declared /\ ~Capped(Requires(v)) /\ floor # 0
          /\ Requires(y.reference).declared
          /\ ~Admits(Requires(y.reference), floor)
          /\ Admits(Requires(v), y.newest)
          /\ y.newest > floor
  BY DEF Boundaries
<1>4. \A newest : Breaks(y, v, newest) <=>
          /\ y.releases[v] = "live" /\ Requires(v).declared
          /\ Taken(v, newest) > floor
          /\ newer # {}
          /\ Requires(Highest(newer)).declared
          /\ ~Admits(Requires(Highest(newer)), floor)
  BY DEF Breaks, newer
<1>5. floor \in Nat
  BY <1>1, VersionAssumption DEF Requirements, VersionAssumption
<1>6. y.newest # 0 =>
        /\ Admits(Requires(v), y.newest) => Taken(v, y.newest) = y.newest
        /\ Taken(v, y.newest) > floor => y.newest > floor
  <2> DEFINE newest == y.newest
  <2>1. newest \in Nat
    OBVIOUS
  <2> HIDE DEF newest, floor
  <2>2. newest # 0 =>
          /\ Admits(Requires(v), newest) => Taken(v, newest) = newest
          /\ Taken(v, newest) > floor => newest > floor
    BY <1>1, <2>1, TakenFacts DEF floor
  <2> QED  BY <2>2 DEF newest
<1> HIDE DEF floor
<1>7. ASSUME v \in Boundaries(y)  PROVE y.newest # 0 /\ Breaks(y, v, y.newest)
  <2>1. y.newest # 0
    BY <1>3, <1>5, <1>7
  <2>2. Taken(v, y.newest) > floor
    BY <1>3, <1>6, <1>7, <2>1
  <2> QED  BY <1>2, <1>3, <1>4, <1>7, <2>1, <2>2
<1>8. ASSUME y.newest # 0, Breaks(y, v, y.newest), ~Capped(Requires(v)), floor # 0,
             y.newest \notin Requires(v).excluded
      PROVE  v \in Boundaries(y)
  <2>1. y.newest > floor
    BY <1>4, <1>6, <1>8
  <2>2. Admits(Requires(v), y.newest)
    <3>1. y.newest >= floor
      BY <1>5, <2>1
    <3> QED  BY <1>8, <3>1 DEF Admits, floor
  <2> QED  BY <1>2, <1>3, <1>4, <1>8, <2>1, <2>2
<1>9. ASSUME NEW newest, Breaks(y, v, newest), ~Capped(Requires(v))  PROVE Wanted(y)
  <2>1. Requires(y.reference).declared /\ Requires(v).declared /\ v \notin Withdrawn(y.releases)
    BY <1>2, <1>4, <1>9
  <2> QED  BY <1>9, <2>1 DEF Wanted
<1> QED  BY <1>7, <1>8, <1>9 DEF floor

\* Whether a release breaks is a matter of what was shown of it and of the subject.
LEMMA SameBreaks ==
    ASSUME NEW y, NEW z, y.releases = z.releases, y.audited = z.audited
    PROVE  \A v, newest : Breaks(y, v, newest) <=> Breaks(z, v, newest)
BY DEF Breaks

\* What a report claims is of the subject, which no step of the probe changes.
LEMMA JudgementKept ==
    ASSUME UNCHANGED subject
    PROVE  /\ \A v, newest : Breaks(yank, v, newest)' <=> Breaks(yank', v, newest)
           /\ Passed(yank)' <=> Passed(yank')
           /\ Judged(yank)' <=> Judged(yank')
<1>1. \A v : Requires(v)' = Requires(v)
  BY DEF Requires
<1>2. \A v, newest : Taken(v, newest)' = Taken(v, newest)
  BY <1>1 DEF Taken
<1>3. \A v, newest : Breaks(yank, v, newest)' <=> Breaks(yank', v, newest)
  BY <1>1, <1>2 DEF Breaks
<1>4. Passed(yank)' <=> Passed(yank')
  BY <1>1, <1>3 DEF Passed
<1>5. Judged(yank)' <=> Judged(yank')
  BY <1>3, <1>4 DEF Judged
<1> QED  BY <1>3, <1>4, <1>5

\* What is audited is listed.
LEMMA AuditedFacts ==
    ASSUME IndexTypeOK, NEW answer \in Answered("simple")
    PROVE  /\ answer.releases \in Snapshots
           /\ NewestOf(Listed(answer.releases)) \subseteq Listed(answer.releases)
<1>1. Empty \in Snapshots
  BY DEF Empty, Snapshots
<1>2. Served("simple") \in Snapshots
  <2>1. "simple" \in Views
    BY DEF Views
  <2>2. at["simple"] \in 1..Len(log) /\ log \in Seq(Snapshots)
    BY <2>1 DEF IndexTypeOK
  <2> HIDE DEF Snapshots
  <2> QED  BY <2>2 DEF Served
<1>3. answer.releases \in {Empty, Served("simple")}
  <2> DEFINE known == Served("simple")
  <2> HIDE DEF known
  <2>1. answer \in {Silent("not_published"), Silent("unreachable")} \cup
           [status : {"ok"}, releases : {known},
            info : {Latest(known)} \cup ({Installable(known)} \ {NoVersion})]
    BY DEF Answered, known
  <2>2. answer.releases \in {Empty, known}
    BY <2>1 DEF Silent
  <2> QED  BY <2>2 DEF known
<1>4. \A S : NewestOf(S) \subseteq S
  BY DEF NewestOf
<1> QED  BY <1>1, <1>2, <1>3, <1>4

\* Without a release to hold the others against, none breaks.
LEMMA NoneBreaks ==
    ASSUME NEW y, y.releases \in Snapshots, y.audited \subseteq Listed(y.releases),
           Reference(y.releases, y.audited) = NoVersion
    PROVE  \A newest : \A v \in y.audited : ~Breaks(y, v, newest)
<1> SUFFICES ASSUME NEW v \in y.audited, NEW newest, Breaks(y, v, newest)  PROVE FALSE
  OBVIOUS
<1> DEFINE releases == y.releases
           audited == y.audited
           newer == {w \in audited : w > v /\ releases[w] = "live"}
           reference == Reference(releases, audited)
<1>1. newer # {}
  BY DEF Breaks
<1>2. releases \in Snapshots /\ audited \in SUBSET Listed(releases) /\ v \in audited
  OBVIOUS
<1>3. v \in Nat \ {0} /\ reference = 0
  BY <1>2, VersionAssumption DEF Listed, Versions, VersionAssumption, NoVersion
<1>4. newer # {} <=> v < reference
  <2> HIDE DEF releases, audited, reference
  <2>1. reference = Reference(releases, audited)
    BY DEF reference
  <2> QED  BY <1>2, <2>1, ReferenceFacts
<1> HIDE DEF newer, reference
<1> QED  BY <1>1, <1>3, <1>4

\* Each step of the probe goes by the releases that it was shown.
LEMMA YankStepReports ==
    ASSUME IndexTypeOK, YankReport, Working("yank"), YankStep
    PROVE  YankReport'
<1>1. DOMAIN yank = DOMAIN YankIdle /\ UNCHANGED subject
  BY DEF YankReport, YankStep, YankAlone, YankCapture, FetchPage, LoadRequirements,
     FetchDependency, YankRecheck
<1>2. CASE YankCapture
  <2>1. /\ yank.pc = "capture" /\ yank'.pc = "page" /\ DOMAIN yank' = DOMAIN YankIdle
        /\ yank'.newest = yank.newest /\ yank'.audited = yank.audited
        /\ yank'.broken = yank.broken
    BY <1>1, <1>2 DEF YankCapture, YankIdle
  <2> QED  BY <2>1 DEF YankReport, NamedReleasesBreak
<1>3. CASE FetchPage
  <2>1. PICK answer \in Answered("simple") :
          LET releases  == answer.releases
              audited   == NewestOf(Listed(releases))
              reference == Reference(releases, audited)
              read == [yank EXCEPT !.releases = releases, !.audited = audited,
                                   !.reference = reference]
          IN yank' = IF answer.status = "unreachable" THEN
                             [yank EXCEPT !.harness = TRUE, !.pc = "recheck"]
                     ELSE IF answer.status = "not_published" THEN [yank EXCEPT !.pc = "recheck"]
                     ELSE IF reference = NoVersion THEN [read EXCEPT !.pc = "recheck"]
                     ELSE [read EXCEPT !.pc = "metadata"]
    BY <1>3 DEF FetchPage
  <2> DEFINE releases == answer.releases
             audited == NewestOf(Listed(releases))
             reference == Reference(releases, audited)
  <2>2. releases \in Snapshots /\ audited \subseteq Listed(releases)
    BY AuditedFacts
  <2>3. /\ yank.pc = "page" /\ DOMAIN yank' = DOMAIN YankIdle /\ yank'.newest = yank.newest
        /\ yank'.broken = yank.broken
        /\ \/ yank'.pc = "recheck" /\ yank'.harness
           \/ yank'.pc = "recheck" /\ yank'.audited = yank.audited
           \/ /\ yank'.pc = "recheck" /\ yank'.releases = releases
              /\ yank'.audited = audited /\ reference = NoVersion
           \/ /\ yank'.pc = "metadata" /\ yank'.releases = releases
              /\ yank'.audited = audited /\ yank'.reference = reference
    <3> HIDE DEF audited, reference
    <3>1. yank.pc = "page"
      BY <1>3 DEF FetchPage
    <3>2. LET read == [yank EXCEPT !.releases = releases, !.audited = audited,
                                   !.reference = reference]
          IN yank' = IF answer.status = "unreachable" THEN
                             [yank EXCEPT !.harness = TRUE, !.pc = "recheck"]
                     ELSE IF answer.status = "not_published" THEN [yank EXCEPT !.pc = "recheck"]
                     ELSE IF reference = NoVersion THEN [read EXCEPT !.pc = "recheck"]
                     ELSE [read EXCEPT !.pc = "metadata"]
      BY <2>1 DEF audited, reference
    <3> QED  BY <1>1, <3>1, <3>2 DEF YankIdle
  <2>4. yank.newest = 0 /\ yank.broken = {} /\ yank.audited = {}
    BY <2>3 DEF YankReport
  <2> HIDE DEF audited, reference
  <2>5. CASE yank'.pc = "metadata"
    BY <2>2, <2>3, <2>4, <2>5 DEF YankReport, NamedReleasesBreak, reference
  <2>6. CASE yank'.pc = "recheck"
    <3>1. yank'.harness \/ Passed(yank')
      <4>1. CASE yank'.audited = {}
        BY <4>1 DEF Passed
      <4>2. CASE yank'.releases = releases /\ yank'.audited = audited /\ reference = NoVersion
        <5>1. \A newest : \A v \in yank'.audited : ~Breaks(yank', v, newest)
          <6> DEFINE y == yank'
          <6>1. /\ y.releases \in Snapshots /\ y.audited \subseteq Listed(y.releases)
                /\ Reference(y.releases, y.audited) = NoVersion
            BY <2>2, <4>2 DEF reference
          <6> HIDE DEF y
          <6>2. \A newest : \A v \in y.audited : ~Breaks(y, v, newest)
            BY <6>1, NoneBreaks
          <6> QED  BY <6>2 DEF y
        <5> QED  BY <5>1 DEF Passed
      <4> QED  BY <2>3, <2>4, <2>6, <4>1, <4>2
    <3>2. Judged(yank')
      BY <2>3, <2>4, <3>1 DEF Judged
    <3>3. Judged(yank)'
      BY <1>1, <3>2, JudgementKept
    <3> QED  BY <2>3, <2>6, <3>3 DEF YankReport, NamedReleasesBreak
  <2> QED  BY <2>3, <2>5, <2>6
<1>4. CASE LoadRequirements
  <2>1. PICK readable \in SUBSET yank.audited :
          LET loaded == [yank EXCEPT !.readable = readable] IN
          yank' = IF yank.reference \notin readable
                    THEN [loaded EXCEPT !.harness = TRUE, !.pc = "recheck"]
                    ELSE [loaded EXCEPT !.pc = "dependency"]
    BY <1>4 DEF LoadRequirements
  <2>2. /\ yank.pc = "metadata" /\ DOMAIN yank' = DOMAIN YankIdle
        /\ yank'.newest = yank.newest /\ yank'.readable = readable
        /\ yank'.broken = yank.broken
        /\ yank'.releases = yank.releases /\ yank'.audited = yank.audited
        /\ yank'.reference = yank.reference
        /\ yank'.pc = "dependency" \/ (yank'.pc = "recheck" /\ yank'.harness)
    BY <1>1, <1>4, <2>1 DEF LoadRequirements, YankIdle
  <2>3. yank.newest = 0 /\ yank.broken = {}
    BY <2>2 DEF YankReport
  <2>4. yank'.pc = "recheck" => Judged(yank)'
    <3>1. yank'.pc = "recheck" => Judged(yank')
      BY <2>2, <2>3 DEF Judged
    <3> QED  BY <1>1, <3>1, JudgementKept
  <2> QED  BY <2>2, <2>3, <2>4 DEF YankReport, NamedReleasesBreak
<1>5. CASE FetchDependency
  <2>1. PICK newest \in (IF Wanted(yank) THEN {major, 0} ELSE {0}) :
          LET known == [yank EXCEPT !.newest = newest,
                                    !.unread = Wanted(yank) /\ newest = 0] IN
          yank' = [known EXCEPT !.broken = Boundaries(known),
                                !.findings = YankFindings(known), !.pc = "recheck"]
    BY <1>5 DEF FetchDependency
  <2> DEFINE unread == Wanted(yank) /\ newest = 0
             known == [yank EXCEPT !.newest = newest, !.unread = unread]
             broken == Boundaries(known)
             findings == YankFindings(known)
  <2>2. /\ yank.pc = "dependency" /\ yank.releases \in Snapshots
        /\ yank.audited \subseteq Listed(yank.releases)
        /\ yank.reference = Reference(yank.releases, yank.audited)
        /\ yank.readable \subseteq yank.audited
    BY <1>5 DEF FetchDependency, YankReport
  <2>3. yank' = [known EXCEPT !.broken = broken, !.findings = findings, !.pc = "recheck"]
    BY <2>1
  <2> HIDE DEF unread, broken, findings
  <2>4. /\ DOMAIN known = DOMAIN YankIdle /\ known.newest = newest
        /\ known.releases = yank.releases /\ known.audited = yank.audited
        /\ known.reference = yank.reference /\ known.readable = yank.readable
        /\ known.unread = unread
    BY <1>1 DEF YankIdle
  <2>5. newest \in Nat
    BY VersionAssumption DEF IndexTypeOK, VersionAssumption
  <2> HIDE DEF known
  <2>6. /\ DOMAIN yank' = DOMAIN YankIdle /\ yank'.newest = newest
        /\ yank'.releases = known.releases /\ yank'.audited = known.audited
        /\ yank'.readable = known.readable /\ yank'.pc = "recheck" /\ yank'.broken = broken
        /\ yank'.findings = findings /\ yank'.unread = unread
    BY <2>3, <2>4 DEF YankIdle
  <2>7. ASSUME NEW v \in known.readable
        PROVE  /\ v \in broken => newest # 0 /\ Breaks(known, v, newest)
               /\ newest # 0 /\ Breaks(known, v, newest) =>
                     \/ v \in broken
                     \/ Capped(Requires(v)) \/ Requires(v).floor = 0
                     \/ newest \in Requires(v).excluded
               /\ \A n : Breaks(known, v, n) => Wanted(known) \/ Capped(Requires(v))
    <3>1. /\ known.releases \in Snapshots /\ known.audited \subseteq Listed(known.releases)
          /\ known.readable \subseteq known.audited
          /\ known.reference = Reference(known.releases, known.audited)
          /\ known.newest \in Nat
      BY <2>2, <2>4, <2>5
    <3> QED  BY <2>4, <2>7, <3>1, BoundariesBreak DEF broken
  <2>8. broken \subseteq known.readable
    BY DEF broken, Boundaries
  <2>9. findings = {} => broken = {}
    BY DEF findings, broken, YankFindings, YankCodes
  <2>10. Wanted(known) <=> Wanted(yank)
    BY <2>4 DEF Wanted
  <2>11. \A v, n : Breaks(yank', v, n) <=> Breaks(known, v, n)
    BY <2>6, SameBreaks
  <2>12. ASSUME findings = {}, ~unread  PROVE Passed(yank')
    <3>1. CASE newest # 0
      BY <2>6, <2>7, <2>9, <2>11, <2>12, <3>1 DEF Passed
    <3>2. CASE newest = 0
      <4>1. ~Wanted(known)
        BY <2>10, <2>12, <3>2 DEF unread
      <4> QED  BY <2>6, <2>7, <2>11, <4>1, <3>2 DEF Passed
    <3> QED  BY <3>1, <3>2
  <2>13. Judged(yank')
    BY <2>6, <2>7, <2>8, <2>11, <2>12 DEF Judged
  <2>14. Judged(yank)'
    BY <1>1, <2>13, JudgementKept
  <2> QED  BY <2>6, <2>14 DEF YankReport, NamedReleasesBreak
<1>6. CASE YankRecheck
  <2> DEFINE code == YankCode(yank)
  <2>1. yank.pc = "recheck" /\ Judged(yank)
    BY <1>6 DEF YankRecheck, YankReport
  <2>2. /\ yank'.pc = "done" /\ DOMAIN yank' = DOMAIN YankIdle /\ yank'.rc = code
        /\ yank'.releases = yank.releases /\ yank'.audited = yank.audited
        /\ yank'.readable = yank.readable /\ yank'.newest = yank.newest
        /\ yank'.unread = yank.unread /\ yank'.broken = yank.broken
        /\ yank'.harness = yank.harness /\ yank'.findings = yank.findings
    BY <1>1, <1>6 DEF YankRecheck, YankIdle
  <2>3. code = 0 => ~yank.harness /\ yank.findings = {}
    BY DEF YankCode
  <2> HIDE DEF code
  <2>4. \A v, newest : Breaks(yank', v, newest) <=> Breaks(yank, v, newest)
    BY <2>2, SameBreaks
  <2>5. Passed(yank') <=> Passed(yank)
    BY <2>2, <2>4 DEF Passed
  <2>6. Judged(yank')
    BY <2>1, <2>2, <2>4, <2>5 DEF Judged
  <2>7. Judged(yank)'
    BY <1>1, <2>6, JudgementKept
  <2>8. NamedReleasesBreak'
    BY <2>2, <2>3, <2>7 DEF NamedReleasesBreak, Judged, Passed
  <2> QED  BY <2>2, <2>8 DEF YankReport
<1> QED  BY <1>2, <1>3, <1>4, <1>5, <1>6 DEF YankStep

\* A step that leaves the yank probe alone leaves what it reports true.
LEMMA YankStays ==
    ASSUME YankReport, UNCHANGED yank, yank.pc = "idle" \/ UNCHANGED subject
    PROVE  YankReport'
<1>1. CASE yank.pc = "idle"
  BY <1>1 DEF YankReport, NamedReleasesBreak
<1>2. CASE UNCHANGED subject
  <2>1. Judged(yank)' <=> Judged(yank)
    BY <1>2, JudgementKept
  <2>2. \A v, newest : Breaks(yank, v, newest)' <=> Breaks(yank, v, newest)
    BY <1>2, JudgementKept
  <2>3. \A v : Requires(v)' = Requires(v)
    BY <1>2 DEF Requires
  <2>4. NamedReleasesBreak'
    BY <2>2, <2>3 DEF YankReport, NamedReleasesBreak
  <2> QED  BY <2>1, <2>4 DEF YankReport
<1> QED  BY <1>1, <1>2

\* And so for the published probe, which goes by what there is of the dependency as well.
LEMMA PublishedStays ==
    ASSUME PublishedReport, UNCHANGED published,
           published.pc = "idle" \/ UNCHANGED <<subject, major>>
    PROVE  PublishedReport'
<1>1. CASE published.pc = "idle"
  BY <1>1 DEF PublishedReport, PublishedIsDeserved
<1>2. CASE UNCHANGED <<subject, major>>
  <2>1. /\ \A i \in DOMAIN subject.modules : Fares(i)' <=> Fares(i)
        /\ \A v : Requires(v)' = Requires(v)
        /\ ClassifySmoke(subject.script)' = ClassifySmoke(subject.script)
    BY <1>2, SameSubject
  <2>2. Imported => Imported'
    BY <1>2, ImportedStays
  <2>3. PublishedIsDeserved'
    <3>1. PublishedIsDeserved
      BY DEF PublishedReport
    <3>2. UNCHANGED <<published, subject, major>>
      BY <1>2
    <3> QED  BY <2>1, <3>1, <3>2 DEF PublishedIsDeserved, Fares
  <2>4. \A v, known : CapVerdict(Requires(v), known)' = CapVerdict(Requires(v), known)
    BY <2>1
  <2> QED  BY <1>2, <2>1, <2>2, <2>3, <2>4 DEF PublishedReport
<1> QED  BY <1>1, <1>2
--------------------------------------------------------------------------------
(* What is reported, in a sweep.                                               *)

\* The driver works at one probe, and each report says what was read.
ReportInv == IndexTypeOK /\ Driven /\ ShippedReport /\ YankReport /\ PublishedReport

\* The index keeps its shape, whatever is released and withdrawn.
LEMMA IndexKept ==
    ASSUME IndexTypeOK, Change \/ Propagate \/ ReleaseMajor
    PROVE  IndexTypeOK'
<1>1. MaxChanges \in Nat /\ LastMajor \in Nat
  BY VersionAssumption DEF VersionAssumption
<1>2. CASE Change
  <2>1. PICK v \in Versions, state \in {"live", "yanked"} :
          log' = Append(log, [Now EXCEPT ![v] = state])
    BY <1>2 DEF Change
  <2>2. Now \in Snapshots
    <3> HIDE DEF Snapshots
    <3> QED  BY DEF IndexTypeOK, Now
  <2>3. [Now EXCEPT ![v] = state] \in Snapshots
    BY <2>2 DEF Snapshots
  <2> HIDE DEF Snapshots
  <2>4. log' \in Seq(Snapshots) /\ Len(log') = Len(log) + 1
    BY <2>1, <2>3 DEF IndexTypeOK
  <2>5. Len(log') \in 1..(MaxChanges + 1) /\ UNCHANGED <<at, major>>
    BY <1>1, <1>2, <2>4 DEF Change, IndexTypeOK
  <2>6. at \in [Views -> 1..Len(log')]
    BY <2>4 DEF IndexTypeOK
  <2> QED  BY <2>4, <2>5, <2>6 DEF IndexTypeOK
<1>3. CASE Propagate
  <2>1. PICK view \in Views : at[view] < Len(log) /\ at' = [at EXCEPT ![view] = @ + 1]
                              /\ UNCHANGED <<log, major>>
    BY <1>3 DEF Propagate
  <2>2. at' \in [Views -> 1..Len(log)]
    BY <2>1 DEF IndexTypeOK
  <2> QED  BY <2>1, <2>2 DEF IndexTypeOK
<1>4. CASE ReleaseMajor
  BY <1>1, <1>4 DEF ReleaseMajor, IndexTypeOK
<1> QED  BY <1>2, <1>3, <1>4

\* So it does when the driver turns to a target.
LEMMA IndexTurned ==
    ASSUME NEW releases \in Snapshots, NEW newest \in 1..LastMajor, IndexIs(releases, newest)
    PROVE  IndexTypeOK'
<1>1. log' = <<releases>> /\ at' = [view \in Views |-> 1] /\ major' = newest
  BY DEF IndexIs
<1>2. MaxChanges \in Nat
  BY VersionAssumption DEF VersionAssumption
<1> HIDE DEF Snapshots
<1>3. log' \in Seq(Snapshots) /\ Len(log') = 1
  BY <1>1
<1> QED  BY <1>1, <1>2, <1>3 DEF IndexTypeOK

\* Nothing is reported by probes that rest.
LEMMA RestReports ==
    ASSUME shipped' = ShippedIdle \/ shipped' = [ShippedIdle EXCEPT !.pc = "capture"],
           yank' = YankIdle \/ yank' = [YankIdle EXCEPT !.pc = "capture"],
           published' = PublishedIdle \/ published' = [PublishedIdle EXCEPT !.pc = "install"]
    PROVE  ShippedReport' /\ YankReport' /\ PublishedReport'
<1>1. /\ shipped'.pc \in {"idle", "capture"} /\ shipped'.rc = NoCode
      /\ shipped'.findings = {} /\ ~shipped'.harness /\ DOMAIN shipped' = DOMAIN ShippedIdle
      /\ shipped'.simple.status = "unasked" /\ shipped'.json.status = "unasked"
      /\ shipped'.tags = {} /\ ~shipped'.tagged
  BY DEF ShippedIdle, Silent
<1>2. /\ yank'.pc \in {"idle", "capture"} /\ yank'.newest = 0 /\ DOMAIN yank' = DOMAIN YankIdle
      /\ yank'.audited = {} /\ yank'.broken = {}
  BY DEF YankIdle
<1>3. /\ published'.pc \in {"idle", "install"} /\ published'.imports = {}
      /\ published'.smoke = "skipped" /\ DOMAIN published' = DOMAIN PublishedIdle
  BY DEF PublishedIdle
<1>4. NoCode \notin {0, 2}
  BY DEF NoCode
<1>5. ShippedReport'
  <2>1. ShippedIsDeserved'
    BY <1>1, <1>4, NothingJudged
  <2> QED  BY <1>1, <1>4, <2>1 DEF ShippedReport, Given, Readable
<1>6. YankReport'
  BY <1>2 DEF YankReport, NamedReleasesBreak
<1>7. PublishedReport'
  BY <1>3 DEF PublishedReport, PublishedIsDeserved
<1> QED  BY <1>5, <1>6, <1>7

\* A driver that has no probe at work finds each of them idle.
LEMMA AllIdle ==
    ASSUME Driven, sweep.pc # "running"
    PROVE  /\ lockfile.pc = "idle" /\ shipped.pc = "idle"
           /\ yank.pc = "idle" /\ published.pc = "idle"
  BY DEF Driven, Working

\* And beside one that is at work, the others.
LEMMA OthersIdle ==
    ASSUME Driven
    PROVE  /\ shipped.pc # "idle" => /\ Working("shipped") /\ yank.pc = "idle"
                                     /\ published.pc = "idle" /\ lockfile.pc = "idle"
           /\ yank.pc # "idle" => /\ Working("yank") /\ shipped.pc = "idle"
                                  /\ published.pc = "idle" /\ lockfile.pc = "idle"
           /\ published.pc # "idle" => /\ Working("published") /\ shipped.pc = "idle"
                                       /\ yank.pc = "idle" /\ lockfile.pc = "idle"
           /\ lockfile.pc # "idle" => /\ Working("lockfile") /\ shipped.pc = "idle"
                                      /\ yank.pc = "idle" /\ published.pc = "idle"
  BY DEF Driven, Working

\* The end of a probe leaves all of them at rest.
LEMMA RestingReports ==
    ASSUME ReportInv, Resting, NEW status, Book(status)
    PROVE  ReportInv'
<1>1. /\ shipped' = ShippedIdle /\ yank' = YankIdle /\ published' = PublishedIdle
      /\ lockfile' = IdleLockfile
  BY DEF Resting
<1>2. shipped'.pc = "idle" /\ yank'.pc = "idle" /\ published'.pc = "idle" /\ lockfile'.pc = "idle"
  BY <1>1 DEF ShippedIdle, YankIdle, PublishedIdle, IdleLockfile
<1>3. {"pc", "probe"} \subseteq DOMAIN sweep' /\ sweep'.probe = sweep.probe
  BY DEF Book, ReportInv, Driven
<1>4. Driven'
  BY <1>2, <1>3 DEF ReportInv, Driven
<1>5. IndexTypeOK'
  <2>1. Empty \in Snapshots
    BY DEF Empty, Snapshots
  <2>2. 1 \in 1..LastMajor
    BY VersionAssumption DEF VersionAssumption
  <2>3. IndexIs(Empty, 1)
    BY DEF Resting, IndexIs
  <2> QED  BY <2>1, <2>2, <2>3, IndexTurned
<1>6. ShippedReport' /\ YankReport' /\ PublishedReport'
  BY <1>1, RestReports
<1> QED  BY <1>4, <1>5, <1>6 DEF ReportInv

\* A probe that is started has nothing to report yet.
LEMMA StartReports ==
    ASSUME ReportInv, StartProbe
    PROVE  ReportInv'
<1>1. /\ lockfile.pc = "idle" /\ shipped.pc = "idle" /\ yank.pc = "idle"
      /\ published.pc = "idle"
  BY AllIdle DEF StartProbe, ReportInv
<1>2. /\ sweep'.pc = "running" /\ sweep'.probe = sweep.probe
      /\ {"pc", "probe"} \subseteq DOMAIN sweep'
      /\ sweep.probe \in {"shipped", "yank", "lockfile", "published"}
      /\ subject' \in Subjects[sweep.probe]
  BY DEF StartProbe, ReportInv, Driven
<1>3. IndexTypeOK'
  <2>1. CASE sweep.probe = "lockfile"
    <3>1. UNCHANGED indexVars
      BY <2>1 DEF StartProbe
    <3> QED  BY <3>1 DEF indexVars, ReportInv, IndexTypeOK
  <2>2. CASE sweep.probe # "lockfile"
    <3>1. PICK releases \in Releases[sweep.probe],
               newest \in (IF sweep.probe = "shipped" THEN {1} ELSE 1..LastMajor) :
             IndexIs(releases, newest)
      BY <2>2 DEF StartProbe
    <3>2. releases \in Snapshots
      BY <1>2, <2>2, <3>1, SweepAssumption DEF SweepAssumption
    <3>3. newest \in 1..LastMajor
      BY VersionAssumption DEF VersionAssumption
    <3> QED  BY <3>1, <3>2, <3>3, IndexTurned
  <2> QED  BY <2>1, <2>2
<1>4. CASE sweep.probe = "shipped"
  <2>1. shipped' = [ShippedIdle EXCEPT !.pc = "capture"] /\ UNCHANGED <<yank, lockfile, published>>
    BY <1>4 DEF StartProbe, ShippedStart
  <2>2. Driven'
    BY <1>1, <1>2, <1>4, <2>1 DEF Driven, Working
  <2>3. ShippedReport'
    <3>1. /\ shipped'.pc = "capture" /\ shipped'.rc = NoCode
          /\ shipped'.findings = {} /\ ~shipped'.harness /\ DOMAIN shipped' = DOMAIN ShippedIdle
          /\ shipped'.simple.status = "unasked" /\ shipped'.json.status = "unasked"
          /\ shipped'.tags = {} /\ ~shipped'.tagged /\ NoCode \notin {0, 2}
      BY <2>1 DEF ShippedIdle, Silent, NoCode
    <3>2. ShippedIsDeserved'
      BY <3>1, NothingJudged
    <3> QED  BY <3>1, <3>2 DEF ShippedReport, Given, Readable
  <2>4. YankReport' /\ PublishedReport'
    BY <1>1, <2>1, YankStays, PublishedStays DEF ReportInv
  <2> QED  BY <1>3, <2>2, <2>3, <2>4 DEF ReportInv
<1>5. CASE sweep.probe = "yank"
  <2>1. yank' = [YankIdle EXCEPT !.pc = "capture"] /\ UNCHANGED <<shipped, lockfile, published>>
    BY <1>5 DEF StartProbe, YankStart
  <2>2. Driven'
    BY <1>1, <1>2, <1>5, <2>1 DEF Driven, Working
  <2>3. YankReport'
    <3>1. /\ yank'.pc = "capture" /\ yank'.newest = 0 /\ DOMAIN yank' = DOMAIN YankIdle
          /\ yank'.audited = {} /\ yank'.broken = {}
      BY <2>1 DEF YankIdle
    <3> QED  BY <3>1 DEF YankReport, NamedReleasesBreak
  <2>4. ShippedReport' /\ PublishedReport'
    BY <1>1, <2>1, ShippedStays, PublishedStays DEF ReportInv
  <2> QED  BY <1>3, <2>2, <2>3, <2>4 DEF ReportInv
<1>6. CASE sweep.probe = "published"
  <2>1. published' = [PublishedIdle EXCEPT !.pc = "install"]
        /\ UNCHANGED <<shipped, lockfile, yank>>
    BY <1>6 DEF StartProbe, PublishedStart
  <2>2. Driven'
    BY <1>1, <1>2, <1>6, <2>1 DEF Driven, Working
  <2>3. PublishedReport'
    <3>1. /\ published'.pc = "install" /\ published'.imports = {}
          /\ published'.smoke = "skipped" /\ DOMAIN published' = DOMAIN PublishedIdle
      BY <2>1 DEF PublishedIdle
    <3> QED  BY <3>1 DEF PublishedReport, PublishedIsDeserved
  <2>4. ShippedReport' /\ YankReport'
    BY <1>1, <2>1, ShippedStays, YankStays DEF ReportInv
  <2> QED  BY <1>3, <2>2, <2>3, <2>4 DEF ReportInv
<1>7. CASE sweep.probe = "lockfile"
  <2>1. UNCHANGED <<shipped, yank, published>>
    BY <1>7 DEF StartProbe
  <2>2. Driven'
    BY <1>1, <1>2, <1>7, <2>1 DEF Driven, Working
  <2>3. ShippedReport' /\ YankReport' /\ PublishedReport'
    BY <1>1, <2>1, ShippedStays, YankStays, PublishedStays DEF ReportInv
  <2> QED  BY <1>3, <2>2, <2>3 DEF ReportInv
<1> QED  BY <1>2, <1>4, <1>5, <1>6, <1>7

\* The driver, between its probes and at their ends.
LEMMA DriverReports ==
    ASSUME ReportInv, Driver \/ TimeOut
    PROVE  ReportInv'
<1>1. ASSUME ReadManifest \/ NoCheckout \/ Finish  PROVE ReportInv'
  <2>1. /\ lockfile.pc = "idle" /\ shipped.pc = "idle" /\ yank.pc = "idle"
        /\ published.pc = "idle"
    BY <1>1, AllIdle DEF ReadManifest, NoCheckout, Finish, ReportInv
  <2>2. UNCHANGED <<indexVars, subject, shipped, yank, lockfile, published>>
    BY <1>1 DEF ReadManifest, NoCheckout, Finish, Elsewhere
  <2>3. {"pc", "probe"} \subseteq DOMAIN sweep' /\ sweep'.probe = sweep.probe
    BY <1>1 DEF ReadManifest, NoCheckout, Finish, Book, ReportInv, Driven
  <2>4. Driven'
    BY <2>1, <2>2, <2>3 DEF ReportInv, Driven
  <2>5. IndexTypeOK'
    BY <2>2 DEF indexVars, ReportInv, IndexTypeOK
  <2>6. ShippedReport' /\ YankReport' /\ PublishedReport'
    BY <2>1, <2>2, ShippedStays, YankStays, PublishedStays DEF ReportInv
  <2> QED  BY <2>4, <2>5, <2>6 DEF ReportInv
<1>2. CASE StartProbe
  BY <1>2, StartReports
<1>3. CASE Collect
  BY <1>3, RestingReports DEF Collect
<1>4. CASE TimeOut
  BY <1>4, RestingReports DEF TimeOut
<1>5. CASE Crash
  BY <1>5, RestingReports DEF Crash
<1> QED  BY <1>1, <1>2, <1>3, <1>4, <1>5 DEF Driver

\* The probes.
LEMMA ProbeReports ==
    ASSUME ReportInv, TreeInv, Probe
    PROVE  ReportInv'
<1>1. CASE ShippedStep /\ UNCHANGED <<yank, lockfile, published, sweep>>
  <2>1. shipped.pc # "idle" /\ UNCHANGED <<indexVars, subject>>
    BY <1>1 DEF ShippedStep, ShippedAlone, ShippedCapture, ReadProject, ReadHistory,
       ReadChangelog, ReadText, FetchSimple, FetchJson, Weigh, Install, Speak, ShippedRecheck
  <2>2. /\ Working("shipped") /\ yank.pc = "idle" /\ published.pc = "idle"
        /\ lockfile.pc = "idle"
    BY <2>1, OthersIdle DEF ReportInv
  <2>3. ShippedReport'
    BY <1>1, <2>2, ShippedStepReports DEF ReportInv
  <2>4. YankReport' /\ PublishedReport'
    BY <1>1, <2>2, YankStays, PublishedStays DEF ReportInv
  <2>5. Driven'
    BY <1>1, <2>1, <2>2 DEF ReportInv, Driven, Working
  <2>6. IndexTypeOK'
    BY <2>1 DEF indexVars, ReportInv, IndexTypeOK
  <2> QED  BY <2>3, <2>4, <2>5, <2>6 DEF ReportInv
<1>2. CASE YankStep /\ UNCHANGED <<shipped, lockfile, published, sweep>>
  <2>1. yank.pc # "idle" /\ UNCHANGED <<indexVars, subject>>
    BY <1>2 DEF YankStep, YankAlone, YankCapture, FetchPage, LoadRequirements,
       FetchDependency, YankRecheck
  <2>2. /\ Working("yank") /\ shipped.pc = "idle" /\ published.pc = "idle"
        /\ lockfile.pc = "idle"
    BY <2>1, OthersIdle DEF ReportInv
  <2>3. YankReport'
    BY <1>2, <2>2, YankStepReports DEF ReportInv
  <2>4. ShippedReport' /\ PublishedReport'
    BY <1>2, <2>2, ShippedStays, PublishedStays DEF ReportInv
  <2>5. Driven'
    BY <1>2, <2>1, <2>2 DEF ReportInv, Driven, Working
  <2>6. IndexTypeOK'
    BY <2>1 DEF indexVars, ReportInv, IndexTypeOK
  <2> QED  BY <2>3, <2>4, <2>5, <2>6 DEF ReportInv
<1>3. CASE LockfileStep /\ UNCHANGED <<indexVars, subject, shipped, yank, published, sweep>>
  <2>1. lockfile.pc # "idle"
    BY <1>3 DEF LockfileStep, LockfileCapture, ReadPyproject, LookForLocks, ReadLock, AskTool,
       LockfileRecheck
  <2>2. /\ Working("lockfile") /\ shipped.pc = "idle" /\ yank.pc = "idle"
        /\ published.pc = "idle"
    BY <2>1, OthersIdle DEF ReportInv
  <2>3. ShippedReport' /\ YankReport' /\ PublishedReport'
    BY <1>3, <2>2, ShippedStays, YankStays, PublishedStays DEF ReportInv
  <2>4. Driven'
    BY <1>3, <2>1, <2>2 DEF ReportInv, Driven, Working
  <2>5. IndexTypeOK'
    BY <1>3 DEF indexVars, ReportInv, IndexTypeOK
  <2> QED  BY <2>3, <2>4, <2>5 DEF ReportInv
<1>4. CASE PublishedStep /\ UNCHANGED <<shipped, yank, lockfile, sweep>>
  <2>1. published.pc # "idle" /\ UNCHANGED <<indexVars, subject>>
    BY <1>4 DEF PublishedStep, PublishedAlone, FailPublished, HangPublished, InstallPublished,
       ScanModules, VerifyImports, CheckCaps, SmokeStart, Decide
  <2>2. /\ Working("published") /\ shipped.pc = "idle" /\ yank.pc = "idle"
        /\ lockfile.pc = "idle"
    BY <2>1, OthersIdle DEF ReportInv
  <2>3. PublishedReport'
    BY <1>4, <2>2, PublishedStepReports DEF ReportInv
  <2>4. ShippedReport' /\ YankReport'
    BY <1>4, <2>2, ShippedStays, YankStays DEF ReportInv
  <2>5. Driven'
    BY <1>4, <2>1, <2>2 DEF ReportInv, Driven, Working
  <2>6. IndexTypeOK'
    BY <2>1 DEF indexVars, ReportInv, IndexTypeOK
  <2> QED  BY <2>3, <2>4, <2>5, <2>6 DEF ReportInv
<1> QED  BY <1>1, <1>2, <1>3, <1>4 DEF Probe

\* Whoever changes the tree or the index.
LEMMA WorldReports ==
    ASSUME ReportInv, World
    PROVE  ReportInv'
<1>1. UNCHANGED <<subject, shipped, yank, lockfile, published, sweep>>
  BY DEF World
<1>2. IndexTypeOK'
  <2>1. CASE Change \/ Propagate \/ ReleaseMajor
    BY <2>1, IndexKept DEF ReportInv
  <2>2. CASE UNCHANGED indexVars
    BY <2>2 DEF indexVars, ReportInv, IndexTypeOK
  <2> QED  BY <2>1, <2>2 DEF World
<1>3. Driven'
  BY <1>1 DEF ReportInv, Driven, Working
<1>4. published.pc = "idle"
  BY DEF World, ReportInv, Driven, Working
<1>5. ShippedReport' /\ YankReport' /\ PublishedReport'
  BY <1>1, <1>4, ShippedStays, YankStays, PublishedStays DEF ReportInv
<1> QED  BY <1>2, <1>3, <1>5 DEF ReportInv

\* Before the sweep nothing is reported.
LEMMA InitReports == Init => ReportInv
<1> SUFFICES ASSUME Init  PROVE ReportInv
  OBVIOUS
<1>1. /\ shipped = ShippedIdle /\ yank = YankIdle /\ published = PublishedIdle
      /\ lockfile = IdleLockfile
  BY DEF Init
<1>2. /\ shipped.pc = "idle" /\ shipped.rc = NoCode
      /\ shipped.findings = {} /\ ~shipped.harness
      /\ shipped.simple.status = "unasked" /\ shipped.json.status = "unasked"
      /\ shipped.tags = {} /\ ~shipped.tagged
      /\ yank.pc = "idle" /\ yank.newest = 0 /\ yank.audited = {} /\ yank.broken = {}
      /\ published.pc = "idle" /\ published.imports = {}
      /\ published.smoke = "skipped" /\ lockfile.pc = "idle"
  BY <1>1 DEF ShippedIdle, YankIdle, PublishedIdle, IdleLockfile, Silent
<1>3. ShippedReport
  BY <1>1, <1>2 DEF ShippedReport, Given, Readable, ShippedIsDeserved, ClaimsAreConfirmed,
     FirstDepthCounts, CleanMeansShipped, NoCode
<1>4. YankReport
  BY <1>1, <1>2 DEF YankReport, NamedReleasesBreak
<1>5. PublishedReport
  BY <1>1, <1>2 DEF PublishedReport, PublishedIsDeserved
<1>6. Driven
  <2>1. PICK s \in Sweeps :
          sweep = [probe |-> s.probe, block |-> s.block, skips |-> s.skips, pc |-> "start",
                   queue |-> {}, outcomes |-> <<>>, rc |-> NoCode]
    BY DEF Init
  <2> QED  BY <1>2, <2>1, SweepAssumption DEF SweepAssumption, Driven
<1>7. IndexTypeOK
  <2>1. Empty \in Snapshots
    BY DEF Empty, Snapshots
  <2>2. log = <<Empty>> /\ at = [view \in Views |-> 1] /\ major = 1
    BY DEF Init, IndexInit
  <2>3. MaxChanges \in Nat /\ 1 \in 1..LastMajor
    BY VersionAssumption DEF VersionAssumption
  <2> HIDE DEF Empty, Snapshots
  <2>4. log \in Seq(Snapshots) /\ Len(log) = 1
    BY <2>1, <2>2
  <2> QED  BY <2>2, <2>3, <2>4 DEF IndexTypeOK
<1> QED  BY <1>3, <1>4, <1>5, <1>6, <1>7 DEF ReportInv

\* Every step, and every step that changes nothing, keeps what is reported true.
LEMMA NextReports == IInv /\ ReportInv /\ [Next]_vars => ReportInv'
<1> SUFFICES ASSUME IInv, ReportInv, [Next]_vars  PROVE ReportInv'
  OBVIOUS
<1>1. CASE Driver \/ TimeOut
  BY <1>1, DriverReports
<1>2. CASE Probe
  BY <1>2, ProbeReports DEF IInv
<1>3. CASE World
  BY <1>3, WorldReports
<1>4. CASE UNCHANGED vars
  <2>1. UNCHANGED <<log, at, major, subject, shipped, yank, lockfile, published, sweep>>
    BY <1>4 DEF vars, indexVars
  <2>2. IndexTypeOK' /\ Driven'
    BY <2>1 DEF indexVars, ReportInv, IndexTypeOK, Driven, Working
  <2>3. ShippedReport' /\ YankReport' /\ PublishedReport'
    BY <2>1, ShippedStays, YankStays, PublishedStays DEF ReportInv
  <2> QED  BY <2>2, <2>3 DEF ReportInv
<1> QED  BY <1>1, <1>2, <1>3, <1>4 DEF Next

\* In every behaviour, the three reports say what was read.
LEMMA ReportsHold == Spec => []ReportInv
<1>1. Init => IInv /\ ReportInv
  BY InitHolds, InitReports
<1>2. (IInv /\ ReportInv) /\ [Next]_vars => (IInv /\ ReportInv)'
  BY NextKeeps, NextReports
<1>3. (IInv /\ ReportInv) => ReportInv
  OBVIOUS
<1> QED  BY <1>1, <1>2, <1>3, PTL DEF Spec

\* What the shipped probe claims of the index (reconcile, metadata_findings and dedupe of
\* shipped_probe.py) holds by every answer that it was given; whatever its first depth
\* found is in its verdict; and it finds nothing only when what pip installed is what was
\* released, as far as that was looked at: for any number of versions, and whatever is
\* released, withdrawn and propagated, checked out and edited while it is at work.
THEOREM ShippedAlwaysDeserved == Spec => []ShippedIsDeserved
<1>1. ReportInv => ShippedIsDeserved
  BY DEF ReportInv, ShippedReport
<1> QED  BY <1>1, ReportsHold, PTL

\* The releases that the yank probe names (find_boundaries and choose_reference of
\* yank_probe.py) are broken, whatever upper bounds and exclusions the requirements have;
\* and one that it passes over was unreadable, has an upper bound, no lower one or excludes
\* the newest major: for any number of versions and majors.
THEOREM NamedReleasesAlwaysBreak == Spec => []NamedReleasesBreak
<1>1. ReportInv => NamedReleasesBreak
  BY DEF ReportInv, YankReport
<1> QED  BY <1>1, ReportsHold, PTL

\* A distribution passes only when it was installed, every module that was looked at
\* imports, it starts, is not overtaken by a later major and sends its own version; and it
\* is called broken, or unable to start, only for what PublishedIsDeserved names
\* (RUNTIME_SCAN, _verify_imports, classify_smoke and decide_status of published_probe.py):
\* for any number of modules, and of failures that are kept.
THEOREM PublishedAlwaysDeserved == Spec => []PublishedIsDeserved
<1>1. ReportInv => PublishedIsDeserved
  BY DEF ReportInv, PublishedReport
<1> QED  BY <1>1, ReportsHold, PTL
--------------------------------------------------------------------------------
(* Every entry of the manifest is accounted for.                               *)

\* What a probe other than published_probe tells the driver of a target.
Told == {"green", "findings", "not_measured", "missing"}

\* Whoever is no longer in the queue has an outcome.
Booked ==
    \A i \in Kept(sweep) \ sweep.queue :
        \E o \in Range(sweep.outcomes) : o.id = sweep.block.entries[i].id

SweepInv ==
    /\ DOMAIN sweep = {"probe", "block", "skips", "pc", "queue", "outcomes", "rc"}
    /\ sweep.probe \in {"shipped", "yank", "lockfile", "published"}
    /\ sweep.block.entries \in Seq(Range(sweep.block.entries))
    /\ \E S : sweep.outcomes \in Seq(S)
    /\ sweep.pc = "start" => sweep.outcomes = <<>>
    /\ sweep.pc \in {"next", "running"} =>
          ~Refused(sweep) /\ sweep.queue \subseteq Kept(sweep) /\ Booked
    /\ sweep.pc = "running" => sweep.queue # {}
    /\ sweep.probe # "published" => \A o \in Range(sweep.outcomes) : o.status \in Told
    /\ SweepIsComplete

\* Some positions have a first.
LEMMA LeastOf ==
    ASSUME NEW n \in Nat, NEW S \in SUBSET (1..n), S # {}
    PROVE  Min(S) \in S
<1> DEFINE T == {(n + 1) - v : v \in S}
<1>1. T \in SUBSET (1..n) /\ T # {}
  <2>1. ASSUME NEW v \in S  PROVE (n + 1) - v \in 1..n
    <3>1. v \in 1..n
      OBVIOUS
    <3> QED  BY <3>1
  <2> QED  BY <2>1
<1>2. PICK top \in T : \A w \in T : w <= top
  <2> HIDE DEF T
  <2> QED  BY <1>1, GreatestOf
<1>3. PICK least \in S : top = (n + 1) - least
  OBVIOUS
<1>4. ASSUME NEW w \in S  PROVE least <= w
  <2>1. (n + 1) - w <= (n + 1) - least
    BY <1>2, <1>3
  <2>2. w \in 1..n /\ least \in 1..n
    OBVIOUS
  <2> QED  BY <2>1, <2>2
<1> QED  BY <1>4 DEF Min

\* What a longer list holds.
LEMMA RangeOfAppend ==
    ASSUME NEW S, NEW s \in Seq(S), NEW e
    PROVE  /\ Append(s, e) \in Seq(S \cup {e})
           /\ Range(Append(s, e)) = Range(s) \cup {e}
<1> DEFINE T == S \cup {e}
<1>1. s \in Seq(T) /\ e \in T
  <2>1. S \subseteq T /\ e \in T
    OBVIOUS
  <2> HIDE DEF T
  <2> QED  BY <2>1
<1> HIDE DEF T
<1>2. /\ Append(s, e) \in Seq(T) /\ Len(s) \in Nat
      /\ DOMAIN s = 1..Len(s) /\ DOMAIN Append(s, e) = 1..(Len(s) + 1)
      /\ \A i \in 1..Len(s) : Append(s, e)[i] = s[i]
      /\ Append(s, e)[Len(s) + 1] = e
  BY <1>1
<1>3. Range(Append(s, e)) \subseteq Range(s) \cup {e}
  <2>1. ASSUME NEW i \in 1..(Len(s) + 1)  PROVE Append(s, e)[i] \in Range(s) \cup {e}
    <3>1. i \in 1..Len(s) \/ i = Len(s) + 1
      BY <1>2
    <3> QED  BY <1>2, <3>1 DEF Range
  <2> QED  BY <1>2, <2>1 DEF Range
<1>4. Range(s) \cup {e} \subseteq Range(Append(s, e))
  <2>1. e \in Range(Append(s, e))
    BY <1>2 DEF Range
  <2>2. ASSUME NEW i \in 1..Len(s)  PROVE s[i] \in Range(Append(s, e))
    <3>1. i \in 1..(Len(s) + 1)
      BY <1>2
    <3> QED  BY <1>2, <3>1 DEF Range
  <2> QED  BY <1>2, <2>1, <2>2 DEF Range
<1> QED  BY <1>2, <1>3, <1>4 DEF T

\* The call is the same throughout.
LEMMA SameCall ==
    ASSUME sweep'.probe = sweep.probe, sweep'.block = sweep.block, sweep'.skips = sweep.skips
    PROVE  /\ Section' = Section
           /\ Kept(sweep)' = Kept(sweep)
           /\ Refused(sweep)' <=> Refused(sweep)
<1>1. Section' = Section
  BY DEF Section
<1>2. Kept(sweep)' = Kept(sweep)
  BY <1>1 DEF Kept, Targets, ManifestTargets, OmittedBy, Allowed, AllowedBy, SkipNames
<1>3. Refused(sweep)' <=> Refused(sweep)
  BY <1>1 DEF Refused, SkipError, ManifestError, Unusable, UnknownSkips, SkipNames,
     ManifestTargets, Omissions, OmittedBy, OmissionName
<1> QED  BY <1>1, <1>2, <1>3

\* A target leaves the queue with an outcome.
LEMMA BookCounts ==
    ASSUME SweepInv, sweep.pc \in {"next", "running"}, sweep.queue # {},
           NEW status, Book(status), sweep.probe # "published" => status \in Told
    PROVE  SweepInv'
<1> DEFINE outcome == Outcome(Entry, status)
<1>1. /\ DOMAIN sweep' = DOMAIN sweep
      /\ sweep'.probe = sweep.probe /\ sweep'.block = sweep.block /\ sweep'.skips = sweep.skips
      /\ sweep'.queue = sweep.queue \ {Turn} /\ sweep'.pc = "next"
      /\ sweep'.outcomes = Append(sweep.outcomes, outcome)
  BY DEF Book, SweepInv
<1>2. /\ Section' = Section /\ Kept(sweep)' = Kept(sweep)
      /\ (Refused(sweep)' <=> Refused(sweep))
  BY <1>1, SameCall
<1>3. outcome.id = sweep.block.entries[Turn].id /\ outcome.status = status
  BY DEF Outcome, Entry
<1>4. PICK S : sweep.outcomes \in Seq(S)
  BY DEF SweepInv
<1> HIDE DEF outcome
<1>5. /\ sweep'.outcomes \in Seq(S \cup {outcome})
      /\ Range(sweep'.outcomes) = Range(sweep.outcomes) \cup {outcome}
  <2> DEFINE list == sweep.outcomes
  <2> HIDE DEF list
  <2>1. list \in Seq(S)
    BY <1>4 DEF list
  <2>2. /\ Append(list, outcome) \in Seq(S \cup {outcome})
        /\ Range(Append(list, outcome)) = Range(list) \cup {outcome}
    BY <2>1, RangeOfAppend
  <2> QED  BY <1>1, <2>2 DEF list
<1>6. Booked'
  <2>1. ASSUME NEW i \in Kept(sweep) \ (sweep.queue \ {Turn})
        PROVE  \E o \in Range(sweep'.outcomes) : o.id = sweep.block.entries[i].id
    <3>1. CASE i = Turn
      BY <1>3, <1>5, <3>1
    <3>2. CASE i # Turn
      <4>1. \E o \in Range(sweep.outcomes) : o.id = sweep.block.entries[i].id
        BY <3>2 DEF SweepInv, Booked
      <4> QED  BY <1>5, <4>1
    <3> QED  BY <3>1, <3>2
  <2>2. /\ Range(sweep.outcomes)' = Range(sweep'.outcomes)
        /\ sweep'.block.entries = sweep.block.entries
    BY <1>1
  <2> QED  BY <1>1, <1>2, <2>1, <2>2 DEF Booked
<1>7. SweepIsComplete'
  BY <1>1 DEF SweepIsComplete
<1>8. sweep'.probe # "published" => \A o \in Range(sweep'.outcomes) : o.status \in Told
  BY <1>1, <1>3, <1>5 DEF SweepInv
<1>9. ~Refused(sweep) /\ sweep.queue \subseteq Kept(sweep)
  BY DEF SweepInv
<1>10. /\ DOMAIN sweep' = {"probe", "block", "skips", "pc", "queue", "outcomes", "rc"}
       /\ sweep'.block.entries \in Seq(Range(sweep'.block.entries))
       /\ \E R : sweep'.outcomes \in Seq(R)
  BY <1>1, <1>5 DEF SweepInv
<1>11. ~Refused(sweep)' /\ sweep'.queue \subseteq Kept(sweep)'
  BY <1>1, <1>2, <1>9
<1> QED  BY <1>1, <1>6, <1>7, <1>8, <1>10, <1>11 DEF SweepInv

\* The code that a sweep ends with.
LEMMA CodeAccounts ==
    ASSUME SweepInv, Finish
    PROVE  SweepIsComplete'
<1> DEFINE code == IF sweep.probe = "published" THEN PublishedCode(sweep) ELSE SweepCode(sweep)
           entries == sweep.block.entries
<1>1. /\ sweep.pc = "next" /\ sweep.queue = {} /\ sweep'.rc = code
      /\ sweep'.probe = sweep.probe /\ sweep'.block = sweep.block /\ sweep'.skips = sweep.skips
      /\ sweep'.outcomes = sweep.outcomes
  BY DEF Finish, SweepInv
<1>2. ~Refused(sweep) /\ Booked
  BY <1>1 DEF SweepInv
<1>3. code # 1 => IsComplete(sweep)
  BY DEF PublishedCode, SweepCode, ExitIncomplete
<1>4. IsComplete(sweep) => \A o \in Range(sweep.outcomes) : o.status # "missing"
  <2> DEFINE missing == Missing(sweep.outcomes)
  <2>1. IsComplete(sweep) => Cardinality(missing) = 0
    BY DEF IsComplete, Complete
  <2>2. PICK S : sweep.outcomes \in Seq(S)
    BY DEF SweepInv
  <2>3. DOMAIN sweep.outcomes = 1..Len(sweep.outcomes) /\ Len(sweep.outcomes) \in Int /\ 1 \in Int
    BY <2>2
  <2>4. Finite!IsFiniteSet(DOMAIN sweep.outcomes)
    BY <2>3, Finite!FS_Interval
  <2>5. Finite!IsFiniteSet(missing)
    <3>1. missing \subseteq DOMAIN sweep.outcomes
      BY DEF Missing
    <3> HIDE DEF missing
    <3> QED  BY <2>4, <3>1, Finite!FS_Subset
  <2>6. Finite!Cardinality(missing) = 0 => missing = {}
    <3> HIDE DEF missing
    <3> QED  BY <2>5, Finite!FS_EmptySet
  <2>7. Cardinality(missing) = Finite!Cardinality(missing)
    <3> HIDE DEF missing
    <3> QED  BY DEF Cardinality, Finite!Cardinality
  <2>8. missing = {} => \A o \in Range(sweep.outcomes) : o.status # "missing"
    BY DEF Missing, Range
  <2> HIDE DEF missing
  <2> QED  BY <2>1, <2>6, <2>7, <2>8
<1>5. /\ entries # <<>>
      /\ \A skip \in sweep.skips : skip.reasoned
  BY <1>2 DEF Refused, ManifestError, SkipError
<1>6. ASSUME NEW i \in DOMAIN entries
      PROVE  LET entry == entries[i] IN
             \/ OmittedBy(entry, Section)
             \/ \E skip \in sweep.skips :
                    skip.reasoned /\ skip.name \in {entry.id, entry.value}
             \/ \E o \in Range(sweep.outcomes) : o.id = entry.id
  <2>1. CASE OmittedBy(entries[i], Section)
    BY <2>1
  <2>2. CASE Allowed(sweep, entries[i])
    BY <1>5, <2>2 DEF Allowed, AllowedBy, SkipNames
  <2>3. CASE ~OmittedBy(entries[i], Section) /\ ~Allowed(sweep, entries[i])
    <3>1. i \in Kept(sweep) \ sweep.queue
      BY <1>1, <2>3 DEF Kept, Targets, ManifestTargets
    <3> QED  BY <1>2, <3>1 DEF Booked
  <2> QED  BY <2>1, <2>2, <2>3
<1>7. code = 0 => \A o \in Range(sweep.outcomes) : o.status = "green" \/ Ok(o.status)
  <2>1. CASE sweep.probe = "published"
    BY <2>1 DEF PublishedCode, ExitIncomplete
  <2>2. CASE sweep.probe # "published"
    <3>1. code = 0 => /\ ~Some(sweep.outcomes, "findings")
                      /\ ~Some(sweep.outcomes, "not_measured")
      BY <2>2 DEF SweepCode, ExitIncomplete
    <3>2. \A o \in Range(sweep.outcomes) : o.status \in Told
      BY <2>2 DEF SweepInv
    <3> QED  BY <1>3, <1>4, <3>1, <3>2 DEF Some, Told
  <2> QED  BY <2>1, <2>2
<1> HIDE DEF code
<1>8. Section' = Section
  BY <1>1 DEF Section
<1>9. \A entry \in Range(entries) : \E i \in DOMAIN entries : entry = entries[i]
  BY DEF Range
<1>10. ASSUME code # 1
       PROVE  \A entry \in Range(entries) :
                 \/ OmittedBy(entry, Section)
                 \/ \E skip \in sweep.skips :
                        skip.reasoned /\ skip.name \in {entry.id, entry.value}
                 \/ \E o \in Range(sweep.outcomes) : o.id = entry.id /\ o.status # "missing"
  BY <1>3, <1>4, <1>6, <1>9, <1>10
<1> QED  BY <1>1, <1>5, <1>7, <1>8, <1>10 DEF SweepIsComplete, OmittedBy

\* A sweep that goes on, or has come to its end.
LEMMA SweepStays ==
    ASSUME SweepInv, UNCHANGED sweep
    PROVE  SweepInv'
<1>1. /\ Section' = Section /\ Kept(sweep)' = Kept(sweep)
      /\ (Refused(sweep)' <=> Refused(sweep))
  BY SameCall
<1>2. SweepIsComplete' /\ (Booked => Booked')
  BY <1>1 DEF SweepInv, SweepIsComplete, Booked, OmittedBy
<1> QED  BY <1>1, <1>2 DEF SweepInv

\* Every step keeps the account.
LEMMA NextAccounts == SweepInv /\ [Next]_vars => SweepInv'
<1> SUFFICES ASSUME SweepInv, [Next]_vars  PROVE SweepInv'
  OBVIOUS
<1>1. CASE ReadManifest
  <2>1. CASE Refused(sweep)
    <3>1. /\ DOMAIN sweep' = DOMAIN sweep /\ sweep'.pc = "done" /\ sweep'.rc = 1
          /\ sweep'.probe = sweep.probe /\ sweep'.block = sweep.block
          /\ sweep'.skips = sweep.skips /\ sweep'.outcomes = sweep.outcomes
      BY <1>1, <2>1 DEF ReadManifest, SweepInv
    <3>2. SweepIsComplete'
      BY <3>1 DEF SweepIsComplete
    <3> QED  BY <3>1, <3>2 DEF SweepInv
  <2>2. CASE ~Refused(sweep)
    <3>1. /\ DOMAIN sweep' = DOMAIN sweep /\ sweep'.pc = "next"
          /\ sweep'.queue = Kept(sweep)
          /\ sweep'.probe = sweep.probe /\ sweep'.block = sweep.block
          /\ sweep'.skips = sweep.skips /\ sweep'.outcomes = sweep.outcomes
      BY <1>1, <2>2 DEF ReadManifest, SweepInv
    <3>2. /\ Kept(sweep)' = Kept(sweep) /\ (Refused(sweep)' <=> Refused(sweep))
      BY <3>1, SameCall
    <3>3. Booked' /\ SweepIsComplete'
      BY <3>1, <3>2 DEF Booked, SweepIsComplete
    <3> QED  BY <2>2, <3>1, <3>2, <3>3 DEF SweepInv
  <2> QED  BY <2>1, <2>2
<1>2. CASE NoCheckout
  <2>1. sweep.pc = "next" /\ sweep.queue # {} /\ Book("missing") /\ "missing" \in Told
    BY <1>2 DEF NoCheckout, Told
  <2> QED  BY <2>1, BookCounts
<1>3. CASE StartProbe
  <2>1. /\ DOMAIN sweep' = DOMAIN sweep /\ sweep'.pc = "running" /\ sweep.pc = "next"
        /\ sweep'.queue = sweep.queue /\ sweep.queue # {}
        /\ sweep'.probe = sweep.probe /\ sweep'.block = sweep.block
        /\ sweep'.skips = sweep.skips /\ sweep'.outcomes = sweep.outcomes
    BY <1>3 DEF StartProbe, SweepInv
  <2>2. /\ Kept(sweep)' = Kept(sweep) /\ (Refused(sweep)' <=> Refused(sweep))
    BY <2>1, SameCall
  <2>3. Booked' /\ SweepIsComplete'
    BY <2>1, <2>2 DEF Booked, SweepIsComplete, SweepInv
  <2> QED  BY <2>1, <2>2, <2>3 DEF SweepInv
<1>4. \A rc : Classify(rc) \in Told
  BY DEF Classify, Told
<1>5. CASE Collect
  <2> DEFINE status == CASE sweep.probe = "shipped"  -> Classify(shipped.rc)
                         [] sweep.probe = "yank"     -> Classify(yank.rc)
                         [] sweep.probe = "lockfile" -> Classify(lockfile.rc)
                         [] OTHER                    -> published.status
  <2>1. sweep.pc = "running" /\ Book(status)
    BY <1>5 DEF Collect
  <2>2. sweep.probe \in {"shipped", "yank", "lockfile"} => status \in Told
    BY <1>4
  <2> HIDE DEF status
  <2>3. sweep.queue # {}
    BY <2>1 DEF SweepInv
  <2>4. sweep.probe \in {"shipped", "yank", "lockfile", "published"}
    BY DEF SweepInv
  <2> QED  BY <2>1, <2>2, <2>3, <2>4, BookCounts
<1>6. CASE TimeOut
  <2>1. sweep.pc = "running" /\ Book(Classify(124)) /\ sweep.queue # {}
    BY <1>6 DEF TimeOut, SweepInv
  <2> QED  BY <1>4, <2>1, BookCounts
<1>7. CASE Crash
  <2>1. sweep.pc = "running" /\ Book(Classify(1)) /\ sweep.queue # {}
    BY <1>7 DEF Crash, SweepInv
  <2> QED  BY <1>4, <2>1, BookCounts
<1>8. CASE Finish
  <2>1. /\ DOMAIN sweep' = DOMAIN sweep /\ sweep'.pc = "done"
        /\ sweep'.probe = sweep.probe /\ sweep'.block = sweep.block
        /\ sweep'.skips = sweep.skips /\ sweep'.outcomes = sweep.outcomes
    BY <1>8 DEF Finish, SweepInv
  <2>2. SweepIsComplete'
    BY <1>8, CodeAccounts
  <2> QED  BY <2>1, <2>2 DEF SweepInv
<1>9. CASE Probe \/ World \/ UNCHANGED vars
  <2>1. UNCHANGED sweep
    BY <1>9 DEF Probe, World, vars
  <2> QED  BY <2>1, SweepStays
<1> QED  BY <1>1, <1>2, <1>3, <1>5, <1>6, <1>7, <1>8, <1>9 DEF Next, Driver

\* So that it is kept throughout.
LEMMA AccountHolds == Spec => []SweepInv
<1>1. Init => SweepInv
  <2> SUFFICES ASSUME Init  PROVE SweepInv
    OBVIOUS
  <2>1. PICK s \in Sweeps :
          sweep = [probe |-> s.probe, block |-> s.block, skips |-> s.skips, pc |-> "start",
                   queue |-> {}, outcomes |-> <<>>, rc |-> NoCode]
    BY DEF Init
  <2>2. /\ sweep.block.entries \in Seq(Range(sweep.block.entries))
        /\ sweep.probe \in {"shipped", "yank", "lockfile", "published"}
    BY <2>1, SweepAssumption DEF SweepAssumption
  <2>3. /\ DOMAIN sweep = {"probe", "block", "skips", "pc", "queue", "outcomes", "rc"}
        /\ sweep.pc = "start" /\ sweep.outcomes = <<>>
    BY <2>1
  <2>4. sweep.outcomes \in Seq({}) /\ Range(sweep.outcomes) = {}
    BY <2>3 DEF Range
  <2> QED  BY <2>2, <2>3, <2>4 DEF SweepInv, SweepIsComplete
<1>2. SweepInv /\ [Next]_vars => SweepInv'
  BY NextAccounts
<1> QED  BY <1>1, <1>2, PTL DEF Spec

\* A sweep that does not end in 1 has accounted for every entry of its manifest, and one
\* that ends in 0 was told of no finding (sweep and Sweep.exit_code of coverage_run.py, the
\* end of published_probe.py's main, over Coverage.complete of coverage.py): for every
\* manifest, every skip and whatever becomes of the probes.
THEOREM SweepAlwaysComplete == Spec => []SweepIsComplete
<1>1. SweepInv => SweepIsComplete
  BY DEF SweepInv
<1> QED  BY <1>1, AccountHolds, PTL
--------------------------------------------------------------------------------
(* The shape of the state.                                                     *)

\* What git shows of a tree, and what a capture records of it, have their shapes.
LEMMA TreeFacts ==
    ASSUME NEW t \in Trees
    PROVE  /\ Porcelain(t) \in SUBSET Paths
           /\ Shown(t) \in Heads \X SUBSET Paths
           /\ Captured(t) \in Provenances
<1>1. Porcelain(t) \in SUBSET Paths
  BY DEF Porcelain
<1>2. t.head \in Heads
  BY DEF Trees
<1> QED  BY <1>1, <1>2 DEF Shown, Captured, Provenances

\* Looking again returns a provenance of the shape of the first.
LEMMA RecheckedFacts ==
    ASSUME NEW p \in Provenances, NEW t
    PROVE  Rechecked(p, t) \in Provenances
<1>1. (p.head # NoHead /\ (t.head # p.head \/ Porcelain(t) # p.digest)) \in BOOLEAN
  OBVIOUS
<1> QED  BY <1>1 DEF Rechecked, Provenances

\* The tree keeps its shape, whoever measures or changes it.
LEMMA TreeTyped ==
    ASSUME TreeTypeOK,
           \/ Capture
           \/ prov' = Rechecked(prov, tree) /\ UNCHANGED <<tree, first, shown, unseen, moves>>
           \/ UNCHANGED treeVars
           \/ \E t \in StartTrees : TreeIs(t)
           \/ CheckOut
           \/ \E edits \in SUBSET (Paths \X Contents) : Edit(edits)
    PROVE  TreeTypeOK'
<1>1. CASE Capture
  <2>1. Captured(tree) \in Provenances /\ Shown(tree) \in Heads \X SUBSET Paths
    BY TreeFacts DEF TreeTypeOK
  <2> QED  BY <1>1, <2>1 DEF Capture, TreeTypeOK
<1>2. CASE prov' = Rechecked(prov, tree) /\ UNCHANGED <<tree, first, shown, unseen, moves>>
  <2>1. prov' \in Provenances
    BY <1>2, RecheckedFacts DEF TreeTypeOK
  <2> QED  BY <1>2, <2>1 DEF TreeTypeOK
<1>3. CASE UNCHANGED treeVars
  BY <1>3 DEF treeVars, TreeTypeOK
<1>4. ASSUME NEW t \in StartTrees, TreeIs(t)  PROVE TreeTypeOK'
  <2>1. t \in Trees
    BY SweepAssumption DEF SweepAssumption
  <2>2. Shown(t) \in Heads \X SUBSET Paths
    BY <2>1, TreeFacts
  <2>3. NoProvenance \in Provenances
    BY DEF NoProvenance, Provenances, Heads
  <2>4. 0 \in 0..MaxMoves
    BY TreeAssumption DEF TreeAssumption
  <2> QED  BY <1>4, <2>1, <2>2, <2>3, <2>4 DEF TreeIs, TreeTypeOK
<1>5. ASSUME NEW t \in Trees, MoveTo(t)  PROVE TreeTypeOK'
  <2>1. Shown(t) \in Heads \X SUBSET Paths
    BY TreeFacts
  <2>2. moves' \in 0..MaxMoves
    BY <1>5, TreeAssumption DEF MoveTo, TreeTypeOK, TreeAssumption
  <2>3. unseen' \in BOOLEAN
    <3>1. Unseen(t) \in BOOLEAN
      BY DEF Unseen
    <3> QED  BY <1>5, <3>1 DEF MoveTo, TreeTypeOK
  <2> QED  BY <1>5, <2>1, <2>2, <2>3 DEF MoveTo, TreeTypeOK
<1>6. CASE CheckOut
  <2>1. PICK c \in Commits : MoveTo([head |-> c, files |-> [p \in Paths |->
                     IF p \in Noise THEN tree.files[p] ELSE Committed[c][p]]])
    BY <1>6 DEF CheckOut
  <2>2. [head |-> c, files |-> [p \in Paths |->
             IF p \in Noise THEN tree.files[p] ELSE Committed[c][p]]] \in Trees
    BY TreeAssumption DEF TreeTypeOK, Trees, Heads, TreeAssumption
  <2> QED  BY <1>5, <2>1, <2>2
<1>7. ASSUME NEW edits \in SUBSET (Paths \X Contents), Edit(edits)  PROVE TreeTypeOK'
  <2>1. PICK edit \in edits : MoveTo([tree EXCEPT !.files[edit[1]] = edit[2]])
    BY <1>7 DEF Edit
  <2>2. edit[1] \in Paths /\ edit[2] \in Contents
    BY <2>1
  <2>3. [tree EXCEPT !.files[edit[1]] = edit[2]] \in Trees
    BY <2>2 DEF TreeTypeOK, Trees
  <2> QED  BY <1>5, <2>1, <2>3
<1> QED  BY <1>1, <1>2, <1>3, <1>4, <1>6, <1>7

\* Each probe measures the tree at its ends and changes nothing of it.
LEMMA ProbesLeaveTree ==
    ASSUME TreeTypeOK, ShippedStep \/ YankStep \/ LockfileStep \/ PublishedStep
    PROVE  TreeTypeOK'
<1>1. \/ Capture
      \/ prov' = Rechecked(prov, tree) /\ UNCHANGED <<tree, first, shown, unseen, moves>>
      \/ UNCHANGED treeVars
  <2>1. CASE ShippedStep
    BY <2>1 DEF ShippedStep, ShippedCapture, ReadProject, ReadHistory, ReadChangelog,
       FetchSimple, FetchJson, Weigh, Install, Speak, ShippedRecheck
  <2>2. CASE YankStep
    BY <2>2 DEF YankStep, YankCapture, FetchPage, LoadRequirements, FetchDependency, YankRecheck
  <2>3. CASE LockfileStep
    BY <2>3 DEF LockfileStep, LockfileCapture, ReadPyproject, LookForLocks, ReadLock, AskTool,
       LockfileRecheck
  <2>4. CASE PublishedStep
    BY <2>4 DEF PublishedStep, PublishedAlone, FailPublished, HangPublished,
       InstallPublished, ScanModules, VerifyImports, CheckCaps, SmokeStart, Decide
  <2> QED  BY <2>1, <2>2, <2>3, <2>4
<1> QED  BY <1>1, TreeTyped

\* An answer of the index.
LEMMA AnswerTyped ==
    ASSUME IndexTypeOK, NEW view \in Views, NEW answer \in Answered(view)
    PROVE  answer \in Answers
<1>1. Empty \in Snapshots
  BY DEF Empty, Snapshots
<1>2. Served(view) \in Snapshots
  <2>1. at[view] \in 1..Len(log) /\ log \in Seq(Snapshots)
    BY DEF IndexTypeOK
  <2> HIDE DEF Snapshots
  <2> QED  BY <2>1 DEF Served
<1>3. /\ Latest(Served(view)) \in Versions \cup {NoVersion}
      /\ Installable(Served(view)) \in Versions \cup {NoVersion}
  BY NewestFacts
<1>4. CASE answer \in {Silent("not_published"), Silent("unreachable")}
  <2> HIDE DEF Snapshots
  <2> QED  BY <1>1, <1>4 DEF Silent, Answers
<1>5. CASE answer \notin {Silent("not_published"), Silent("unreachable")}
  <2> DEFINE known == Served(view)
  <2>1. answer \in [status : {"ok"}, releases : {known},
             info : {Latest(known)} \cup ({Installable(known)} \ {NoVersion})]
    BY <1>5 DEF Answered
  <2>2. known \in Snapshots /\ Latest(known) \in Versions \cup {NoVersion}
        /\ Installable(known) \in Versions \cup {NoVersion}
    BY <1>2, <1>3
  <2> HIDE DEF known, Snapshots
  <2> QED  BY <2>1, <2>2 DEF Answers
<1> QED  BY <1>4, <1>5

\* The shipped probe's reports, and what an edit of one leaves of its shape.
ShippedReports ==
    [pc : {"idle", "capture", "project", "history", "changelog", "simple",
           "json", "weigh", "install", "speak", "recheck", "done"},
     version : Contents, tagged : BOOLEAN, tags : SUBSET Versions,
     logged : BOOLEAN, work : SUBSET Kinds, changelog : Contents,
     source : Contents, simple : Answers, json : Answers,
     phase1 : SUBSET MetadataCodes,
     findings : SUBSET (MetadataCodes \cup InstallCodes), harness : BOOLEAN,
     installed : Versions \cup {NoVersion}, rc : {NoCode, 0, 2, ExitMoved, 127}]

\* A report to which a step adds codes and answers is a report.
LEMMA ShippedEdited ==
    ASSUME NEW r \in ShippedReports, NEW few \in SUBSET MetadataCodes,
           NEW many \in SUBSET (MetadataCodes \cup InstallCodes),
           NEW pc \in {"install", "speak", "recheck"}
    PROVE  /\ [r EXCEPT !.pc = pc] \in ShippedReports
           /\ [r EXCEPT !.harness = TRUE] \in ShippedReports
           /\ [r EXCEPT !.harness = TRUE, !.pc = pc] \in ShippedReports
           /\ [r EXCEPT !.findings = many] \in ShippedReports
           /\ [r EXCEPT !.findings = many, !.pc = pc] \in ShippedReports
           /\ [r EXCEPT !.phase1 = few, !.findings = many, !.pc = pc] \in ShippedReports
           /\ r.phase1 \subseteq MetadataCodes
<1> HIDE DEF Answers, MetadataCodes, InstallCodes
<1>1. [r EXCEPT !.pc = pc] \in ShippedReports
  BY DEF ShippedReports
<1>2. [r EXCEPT !.harness = TRUE] \in ShippedReports
  BY DEF ShippedReports
<1>3. [r EXCEPT !.harness = TRUE, !.pc = pc] \in ShippedReports
  BY DEF ShippedReports
<1>4. [r EXCEPT !.findings = many] \in ShippedReports
  BY DEF ShippedReports
<1>5. [r EXCEPT !.findings = many, !.pc = pc] \in ShippedReports
  BY DEF ShippedReports
<1>6. [r EXCEPT !.phase1 = few, !.findings = many, !.pc = pc] \in ShippedReports
  BY DEF ShippedReports
<1>7. r.phase1 \subseteq MetadataCodes
  BY DEF ShippedReports
<1> QED  BY <1>1, <1>2, <1>3, <1>4, <1>5, <1>6, <1>7

\* So is one that ends with a finding.
LEMMA EndWithTyped ==
    ASSUME NEW r \in ShippedReports, NEW found \in SUBSET (MetadataCodes \cup InstallCodes)
    PROVE  EndWith(r, found) \in ShippedReports
<1> DEFINE all == Deduped(r.phase1 \cup found)
<1>1. all \in SUBSET (MetadataCodes \cup InstallCodes)
  BY DEF Deduped, ShippedReports
<1>2. EndWith(r, found) = [r EXCEPT !.findings = all, !.pc = "recheck"]
  BY DEF EndWith
<1> HIDE DEF all
<1>3. {} \in SUBSET MetadataCodes
  OBVIOUS
<1>4. [r EXCEPT !.findings = all, !.pc = "recheck"] \in ShippedReports
  BY <1>1, <1>3, ShippedEdited
<1> QED  BY <1>2, <1>4

\* Every step of the shipped probe returns a report of its shape.
LEMMA ShippedTyped ==
    ASSUME IndexTypeOK, TreeTypeOK, ShippedTypeOK, Working("shipped"), ShippedStep
    PROVE  ShippedTypeOK'
<1> USE DEF ShippedTypeOK
<1>0. shipped \in ShippedReports
  BY DEF ShippedReports
<1>1. CASE ShippedCapture
  BY <1>1 DEF ShippedCapture
<1>2. CASE ReadProject
  <2> DEFINE content == tree.files["pyproject"]
  <2>1. content \in Contents
    BY FilesAssumption DEF TreeTypeOK, Trees, FilesAssumption
  <2> HIDE DEF content, Answers, Kinds, MetadataCodes, InstallCodes
  <2>2. \/ shipped' = [shipped EXCEPT !.rc = 127, !.pc = "done"]
        \/ shipped' = [shipped EXCEPT !.version = content, !.pc = "history"]
    BY <1>2 DEF ReadProject, ReadText, content
  <2>3. CASE shipped' = [shipped EXCEPT !.rc = 127, !.pc = "done"]
    BY <2>3
  <2>4. CASE shipped' = [shipped EXCEPT !.version = content, !.pc = "history"]
    BY <2>1, <2>4
  <2> QED  BY <2>2, <2>3, <2>4
<1>9. CASE ReadHistory
  <2>1. /\ subject.tags \subseteq Versions /\ subject.past \subseteq Kinds
        /\ subject.work \in [Heads -> SUBSET Kinds]
    BY SweepAssumption DEF Working, SweepAssumption
  <2>2. tree.head \in Heads
    BY DEF TreeTypeOK, Trees
  <2>3. PICK tagged, logged \in BOOLEAN :
          LET tags == IF tagged THEN subject.tags ELSE {} IN
          shipped' = [shipped EXCEPT
                        !.tagged = tagged, !.tags = tags, !.logged = logged,
                        !.work = IF logged THEN Beyond(tree.head, tags) ELSE {},
                        !.pc = "changelog"]
    BY <1>9 DEF ReadHistory
  <2> DEFINE tags == IF tagged THEN subject.tags ELSE {}
             work == IF logged THEN Beyond(tree.head, tags) ELSE {}
  <2>4. tags \in SUBSET Versions
    BY <2>1
  <2>5. work \in SUBSET Kinds
    <3> HIDE DEF Kinds, Heads
    <3> QED  BY <2>1, <2>2 DEF Beyond
  <2>6. shipped' = [shipped EXCEPT !.tagged = tagged, !.tags = tags, !.logged = logged,
                                   !.work = work, !.pc = "changelog"]
    BY <2>3
  <2> HIDE DEF tags, work, Answers, Kinds, MetadataCodes, InstallCodes
  <2>7. shipped' \in ShippedReports
    BY <1>0, <2>4, <2>5, <2>6 DEF ShippedReports
  <2> QED  BY <2>7 DEF ShippedReports
<1>10. CASE ReadChangelog
  <2> DEFINE content == tree.files["changelog"]
             pc == IF Asked.offline THEN "weigh" ELSE "simple"
  <2>1. content \in Contents /\ pc \in {"weigh", "simple"}
    BY FilesAssumption DEF TreeTypeOK, Trees, FilesAssumption
  <2>2. \/ shipped' = [shipped EXCEPT !.rc = 127, !.pc = "done"]
        \/ shipped' = [shipped EXCEPT !.changelog = content, !.pc = pc]
    <3> HIDE DEF ShippedTypeOK
    <3> QED  BY <1>10 DEF ReadChangelog, ReadText
  <2> HIDE DEF content, pc, Answers, Kinds, MetadataCodes, InstallCodes
  <2>3. CASE shipped' = [shipped EXCEPT !.rc = 127, !.pc = "done"]
    BY <2>3
  <2>4. CASE shipped' = [shipped EXCEPT !.changelog = content, !.pc = pc]
    BY <2>1, <2>4
  <2> QED  BY <2>2, <2>3, <2>4
<1>3. CASE FetchSimple
  <2>1. PICK answer \in Answered("simple") :
           shipped' = [shipped EXCEPT !.simple = answer, !.pc = "json"]
    BY <1>3 DEF FetchSimple
  <2>2. answer \in Answers
    BY AnswerTyped DEF Views
  <2> HIDE DEF Answers
  <2> QED  BY <2>1, <2>2
<1>4. CASE FetchJson
  <2>1. PICK answer \in (IF Asked.pypi THEN Answered("json") ELSE {Silent("not_applicable")}) :
           shipped' = [shipped EXCEPT !.json = answer, !.pc = "weigh"]
    BY <1>4 DEF FetchJson
  <2>2. answer \in Answers
    <3>1. Silent("not_applicable") \in Answers
      BY DEF Silent, Answers, Empty, Snapshots
    <3>2. Asked.pypi => answer \in Answers
      BY AnswerTyped DEF Views
    <3> QED  BY <3>1, <3>2
  <2> HIDE DEF Answers
  <2> QED  BY <2>1, <2>2
<1>5. CASE Weigh
  <2> DEFINE found == MetadataFindings(shipped)
             status == IndexStatus(shipped.simple, shipped.json)
             more == Deduped(found \cup {"NOT_ON_INDEX"})
             weighed == [shipped EXCEPT !.phase1 = found, !.findings = found, !.pc = "recheck"]
  <2>1. found \in SUBSET MetadataCodes /\ found \in SUBSET (MetadataCodes \cup InstallCodes)
        /\ more \in SUBSET (MetadataCodes \cup InstallCodes)
    <3>1. found \subseteq MetadataCodes
      BY FoundByMetadata
    <3> HIDE DEF found
    <3> QED  BY <3>1 DEF Deduped, InstallCodes
  <2> HIDE DEF found, more, status
  <2>2. \/ shipped' = weighed \/ shipped' = [weighed EXCEPT !.harness = TRUE]
        \/ shipped' = [weighed EXCEPT !.findings = more]
        \/ shipped' = [weighed EXCEPT !.pc = "install"]
    <3> HIDE DEF weighed
    <3>1. weighed.findings = found
      BY <1>0 DEF weighed, ShippedReports
    <3> QED  BY <1>5, <3>1 DEF Weigh, found, status, more, weighed
  <2>3. weighed \in ShippedReports
    BY <1>0, <2>1, ShippedEdited
  <2> HIDE DEF weighed
  <2>4. CASE shipped' = weighed
    BY <2>3, <2>4 DEF ShippedReports
  <2>5. CASE shipped' = [weighed EXCEPT !.harness = TRUE]
    <3>1. shipped' \in ShippedReports
      BY <2>1, <2>3, <2>5, ShippedEdited
    <3> QED  BY <3>1 DEF ShippedReports
  <2>6. CASE shipped' = [weighed EXCEPT !.findings = more]
    <3>1. shipped' \in ShippedReports
      BY <2>1, <2>3, <2>6, ShippedEdited
    <3> QED  BY <3>1 DEF ShippedReports
  <2>7. CASE shipped' = [weighed EXCEPT !.pc = "install"]
    <3>1. shipped' \in ShippedReports
      BY <2>1, <2>3, <2>7, ShippedEdited
    <3> QED  BY <3>1 DEF ShippedReports
  <2> QED  BY <2>2, <2>4, <2>5, <2>6, <2>7
<1>6. CASE Install
  <2> DEFINE version == Resolved(Asked.pin)
             got == [shipped EXCEPT !.installed = version]
             source == SourceFor(got.version, version)
             held == [got EXCEPT !.source = source]
             found == VersionFindings(held) \cup ContentFindings(held)
  <2>1. version \in Versions \cup {NoVersion}
    BY ResolvedFacts, AskedAssumption DEF AskedAssumption
  <2>2. found \in SUBSET (MetadataCodes \cup InstallCodes)
        /\ found \cup {"NO_ENTRYPOINT"} \in SUBSET (MetadataCodes \cup InstallCodes)
        /\ {"INSTALL_FAILED"} \in SUBSET (MetadataCodes \cup InstallCodes)
        /\ {} \in SUBSET MetadataCodes
    BY DEF VersionFindings, ContentFindings, InstallCodes
  <2>10. source \in Contents
    <3>1. NoFile \in Contents /\ tree.files["source"] \in Contents
      BY TreeAssumption, FilesAssumption DEF TreeAssumption, TreeTypeOK, Trees, FilesAssumption
    <3> QED  BY <3>1 DEF SourceFor
  <2> HIDE DEF version
  <2>3. got \in ShippedReports
    BY <1>0, <2>1 DEF ShippedReports
  <2> HIDE DEF got, source
  <2>11. held \in ShippedReports
    BY <2>3, <2>10 DEF ShippedReports
  <2> HIDE DEF held, found
  <2>4. \/ shipped' = EndWith(shipped, {"INSTALL_FAILED"})
        \/ shipped' = [got EXCEPT !.harness = TRUE, !.pc = "recheck"]
        \/ shipped' = EndWith(held, found \cup {"NO_ENTRYPOINT"})
        \/ shipped' = [held EXCEPT !.findings = found, !.pc = "speak"]
    <3> HIDE DEF ShippedTypeOK
    <3> QED  BY <1>6 DEF Install, version, got, source, held, found
  <2>5. EndWith(shipped, {"INSTALL_FAILED"}) \in ShippedReports
    BY <1>0, <2>2, EndWithTyped
  <2>6. EndWith(held, found \cup {"NO_ENTRYPOINT"}) \in ShippedReports
    BY <2>2, <2>11, EndWithTyped
  <2>7. [got EXCEPT !.harness = TRUE, !.pc = "recheck"] \in ShippedReports
    BY <2>2, <2>3, ShippedEdited
  <2>8. [held EXCEPT !.findings = found, !.pc = "speak"] \in ShippedReports
    BY <2>2, <2>11, ShippedEdited
  <2>9. shipped' \in ShippedReports
    BY <2>4, <2>5, <2>6, <2>7, <2>8
  <2> QED  BY <2>9 DEF ShippedReports
<1>7. CASE Speak
  <2>1. PICK found \in SUBSET (MetadataCodes \cup InstallCodes) : shipped' = EndWith(shipped, found)
    <3>1. {"DOES_NOT_RUN", "TOOL_ERROR", "TOOL_NO_ANSWER", "TOOL_EMPTY"} \subseteq InstallCodes
      BY DEF InstallCodes
    <3>2. \A answer : ToolFinding(answer) \subseteq InstallCodes
      BY <3>1 DEF ToolFinding
    <3> QED  BY <1>7, <3>1, <3>2 DEF Speak
  <2>2. shipped' \in ShippedReports
    BY <1>0, <2>1, EndWithTyped
  <2> QED  BY <2>2 DEF ShippedReports
<1>8. CASE ShippedRecheck
  <2> DEFINE code == ShippedCode(shipped, prov')
  <2>1. code \in {0, 2, ExitMoved, 127}
    BY DEF ShippedCode
  <2>2. shipped' = [shipped EXCEPT !.rc = code, !.pc = "done"]
    BY <1>8 DEF ShippedRecheck
  <2> HIDE DEF code, Answers, Kinds, MetadataCodes, InstallCodes
  <2> QED  BY <2>1, <2>2
<1> QED  BY <1>1, <1>2, <1>3, <1>4, <1>5, <1>6, <1>7, <1>8, <1>9, <1>10 DEF ShippedStep

\* The yank probe's report.
LEMMA YankTyped ==
    ASSUME IndexTypeOK, YankTypeOK, YankStep
    PROVE  YankTypeOK'
<1> USE DEF YankTypeOK
<1>1. CASE YankCapture
  <2> HIDE DEF Snapshots
  <2> QED  BY <1>1 DEF YankCapture
<1>2. CASE FetchPage
  <2>1. PICK answer \in Answered("simple") :
          LET releases  == answer.releases
              audited   == NewestOf(Listed(releases))
              reference == Reference(releases, audited)
              read == [yank EXCEPT !.releases = releases, !.audited = audited,
                                   !.reference = reference]
          IN yank' = IF answer.status = "unreachable" THEN
                             [yank EXCEPT !.harness = TRUE, !.pc = "recheck"]
                     ELSE IF answer.status = "not_published" THEN [yank EXCEPT !.pc = "recheck"]
                     ELSE IF reference = NoVersion THEN [read EXCEPT !.pc = "recheck"]
                     ELSE [read EXCEPT !.pc = "metadata"]
    BY <1>2 DEF FetchPage
  <2> DEFINE releases  == answer.releases
             audited   == NewestOf(Listed(releases))
             reference == Reference(releases, audited)
             read == [yank EXCEPT !.releases = releases, !.audited = audited,
                                  !.reference = reference]
  <2>2. releases \in Snapshots
    <3>1. answer \in Answers
      BY AnswerTyped DEF Views
    <3> HIDE DEF Snapshots
    <3> QED  BY <3>1 DEF Answers
  <2>3. audited \in SUBSET Versions
    BY DEF NewestOf, Listed
  <2>4. reference \in Versions \cup {NoVersion}
    <3>1. audited \ Withdrawn(releases) \in SUBSET Versions
      BY <2>3
    <3>2. reference = Highest(audited \ Withdrawn(releases))
      BY DEF Reference
    <3> HIDE DEF audited, reference
    <3> QED  BY <3>1, <3>2, HighestOf
  <2> HIDE DEF releases, audited, reference, Snapshots
  <2>5. \/ yank' = [yank EXCEPT !.harness = TRUE, !.pc = "recheck"]
        \/ yank' = [yank EXCEPT !.pc = "recheck"]
        \/ yank' = [read EXCEPT !.pc = "recheck"]
        \/ yank' = [read EXCEPT !.pc = "metadata"]
    BY <2>1 DEF releases, audited, reference
  <2>6. CASE yank' = [yank EXCEPT !.harness = TRUE, !.pc = "recheck"]
    BY <2>6
  <2>7. CASE yank' = [yank EXCEPT !.pc = "recheck"]
    BY <2>7
  <2>8. CASE yank' = [read EXCEPT !.pc = "recheck"]
    BY <2>2, <2>3, <2>4, <2>8
  <2>9. CASE yank' = [read EXCEPT !.pc = "metadata"]
    BY <2>2, <2>3, <2>4, <2>9
  <2> QED  BY <2>5, <2>6, <2>7, <2>8, <2>9
<1>3. CASE LoadRequirements
  <2> HIDE DEF Snapshots
  <2>1. PICK readable \in SUBSET yank.audited :
          LET loaded == [yank EXCEPT !.readable = readable] IN
          yank' = IF yank.reference \notin readable
                    THEN [loaded EXCEPT !.harness = TRUE, !.pc = "recheck"]
                    ELSE [loaded EXCEPT !.pc = "dependency"]
    BY <1>3 DEF LoadRequirements
  <2>2. readable \in SUBSET Versions
    OBVIOUS
  <2>3. CASE yank.reference \notin readable
    BY <2>1, <2>2, <2>3
  <2>4. CASE yank.reference \in readable
    BY <2>1, <2>2, <2>4
  <2> QED  BY <2>3, <2>4
<1>4. CASE FetchDependency
  <2>1. PICK newest \in (IF Wanted(yank) THEN {major, 0} ELSE {0}) :
          LET known == [yank EXCEPT !.newest = newest,
                                    !.unread = Wanted(yank) /\ newest = 0] IN
          yank' = [known EXCEPT !.broken = Boundaries(known),
                                !.findings = YankFindings(known), !.pc = "recheck"]
    BY <1>4 DEF FetchDependency
  <2>2. newest \in 0..LastMajor
    BY VersionAssumption DEF IndexTypeOK, VersionAssumption
  <2> DEFINE unread == Wanted(yank) /\ newest = 0
             known == [yank EXCEPT !.newest = newest, !.unread = unread]
             broken == Boundaries(known)
             findings == YankFindings(known)
  <2>3. known.readable \subseteq Versions
    <3> HIDE DEF Snapshots
    <3> QED  OBVIOUS
  <2>4. broken \in SUBSET Versions
    <3> HIDE DEF known
    <3> QED  BY <2>3 DEF Boundaries
  <2>5. findings \in SUBSET YankCodes
    BY DEF YankFindings
  <2>6. yank' = [known EXCEPT !.broken = broken, !.findings = findings, !.pc = "recheck"]
    BY <2>1
  <2>7. unread \in BOOLEAN
    OBVIOUS
  <2> HIDE DEF unread, broken, findings, Snapshots, YankCodes
  <2> QED  BY <2>2, <2>4, <2>5, <2>6, <2>7
<1>5. CASE YankRecheck
  <2> DEFINE code == YankCode(yank)
  <2>1. code \in {0, 2, 127}
    BY DEF YankCode
  <2> HIDE DEF code, Snapshots
  <2> QED  BY <1>5, <2>1 DEF YankRecheck, code
<1> QED  BY <1>1, <1>2, <1>3, <1>4, <1>5 DEF YankStep

\* The lockfile probe's report.
LEMMA LockfileTyped ==
    ASSUME TreeTypeOK, LockfileTypeOK, LockfileStep
    PROVE  LockfileTypeOK'
<1> USE DEF LockfileTypeOK
<1>1. CASE LockfileCapture
  BY <1>1 DEF LockfileCapture, LockfileIs
<1>2. CASE ReadPyproject
  <2>1. tree.files["pyproject"] \in Contents
    BY FilesAssumption DEF TreeTypeOK, Trees, FilesAssumption
  <2> QED  BY <1>2, <2>1 DEF ReadPyproject
<1>3. CASE LookForLocks
  <2> DEFINE present == LocksOf(tree)
  <2>1. present \in SUBSET {"uv", "poetry"}
    BY DEF LocksOf
  <2> HIDE DEF present
  <2>2. \/ lockfile' = [lockfile EXCEPT !.status = "no_lockfile", !.pc = "recheck"]
        \/ lockfile' = [lockfile EXCEPT !.present = present, !.pc = "read"]
    BY <1>3 DEF LookForLocks, present
  <2> HIDE DEF LockCodes
  <2>3. CASE lockfile' = [lockfile EXCEPT !.status = "no_lockfile", !.pc = "recheck"]
    BY <2>3
  <2>4. CASE lockfile' = [lockfile EXCEPT !.present = present, !.pc = "read"]
    BY <2>1, <2>4
  <2> QED  BY <2>2, <2>3, <2>4
<1>4. ASSUME NEW few \in SUBSET LockCodes,
             lockfile' = NextLock([lockfile EXCEPT !.findings = few])
      PROVE  LockfileTypeOK'
  <2> DEFINE read == [lockfile EXCEPT !.findings = few]
             rest == read.present \ {FirstOf(read.present)}
             pc   == IF rest = {} THEN "recheck" ELSE "read"
  <2>1. lockfile' = [read EXCEPT !.present = rest, !.pc = pc]
    BY <1>4 DEF NextLock
  <2>2. rest \in SUBSET {"uv", "poetry"} /\ pc \in {"recheck", "read"}
    OBVIOUS
  <2> HIDE DEF rest, pc, LockCodes
  <2>3. read \in [pc : {"idle", "capture", "declare", "look", "read", "tool", "recheck", "done"},
                  declared : Contents, present : SUBSET {"uv", "poetry"},
                  findings : SUBSET LockCodes, status : {"ok", "no_lockfile"},
                  harness : BOOLEAN, rc : {NoCode, 0, 2, 3, ExitMoved, 127}]
    OBVIOUS
  <2> HIDE DEF read
  <2> QED  BY <2>1, <2>2, <2>3
<1>5. CASE ReadLock
  <2> DEFINE kind == FirstOf(lockfile.present)
             content == tree.files[kind]
             few  == lockfile.findings \cup Compared(lockfile.declared, kind, content)
             read == [lockfile EXCEPT !.findings = few]
  <2>1. few \in SUBSET LockCodes
    BY DEF Compared, LockCodes
  <2>2. lockfile' = IF content \in {NoFile, Broken}
                      THEN [lockfile EXCEPT !.harness = TRUE, !.pc = "recheck"]
                      ELSE IF NoTools THEN NextLock(read) ELSE [read EXCEPT !.pc = "tool"]
    BY <1>5 DEF ReadLock
  <2> HIDE DEF content, few, LockCodes
  <2>3. CASE lockfile' = [lockfile EXCEPT !.harness = TRUE, !.pc = "recheck"]
    BY <2>3
  <2>4. CASE lockfile' = NextLock(read)
    BY <1>4, <2>1, <2>4
  <2>5. CASE lockfile' = [read EXCEPT !.pc = "tool"]
    BY <2>1, <2>5
  <2> QED  BY <2>2, <2>3, <2>4, <2>5
<1>6. CASE AskTool
  <2>1. PICK answered \in BOOLEAN :
          lockfile' = NextLock([lockfile EXCEPT !.findings =
              IF answered /\ tree.files[FirstOf(lockfile.present)] # tree.files["pyproject"]
                THEN @ \cup {"LOCK_STALE"} ELSE @])
    BY <1>6 DEF AskTool
  <2> DEFINE few == IF answered /\ tree.files[FirstOf(lockfile.present)]
                                       # tree.files["pyproject"]
                      THEN lockfile.findings \cup {"LOCK_STALE"} ELSE lockfile.findings
  <2>2. few \in SUBSET LockCodes
    BY DEF LockCodes
  <2>3. lockfile' = NextLock([lockfile EXCEPT !.findings = few])
    BY <2>1
  <2> HIDE DEF few
  <2> QED  BY <1>4, <2>2, <2>3
<1>7. CASE LockfileRecheck
  <2> DEFINE code == LockfileCode(lockfile, prov')
  <2>1. code \in {0, 2, 3, ExitMoved, 127}
    BY DEF LockfileCode
  <2> HIDE DEF code
  <2> QED  BY <1>7, <2>1 DEF LockfileRecheck, code
<1> QED  BY <1>1, <1>2, <1>3, <1>5, <1>6, <1>7 DEF LockfileStep

\* What is known of a distribution.
LEMMA PublishedTyped ==
    ASSUME PublishedTypeOK, PublishedStep
    PROVE  PublishedTypeOK'
<1> USE DEF PublishedTypeOK
<1>1. CASE FailPublished
  BY <1>1 DEF FailPublished, PublishedIdle, ImportVerdicts, SmokeStates, Statuses
<1>2. CASE InstallPublished
  <2> DEFINE version == Resolved(NoVersion)
  <2>1. version \in Versions \cup {NoVersion}
    BY ResolvedFacts
  <2> HIDE DEF version
  <2> QED  BY <1>2, <2>1 DEF InstallPublished, version
<1>8. CASE HangPublished
  BY <1>8 DEF HangPublished
<1>3. CASE ScanModules
  <2> DEFINE pc == IF Noted = {} THEN "caps" ELSE "verify"
  <2>1. published' = [published EXCEPT !.pc = pc] /\ pc \in {"caps", "verify"}
    BY <1>3 DEF ScanModules
  <2> HIDE DEF pc
  <2> QED  BY <2>1
<1>4. CASE VerifyImports
  <2>1. PICK answered \in SUBSET Retried :
          LET warm(i) == IF i \in answered THEN subject.modules[i].warm ELSE "unanswered" IN
          published' = [published EXCEPT
                           !.imports = {ClassifyImport(subject.modules[i].cold, warm(i)) :
                                           i \in Retried},
                           !.pc = "caps"]
    BY <1>4 DEF VerifyImports
  <2> DEFINE warm(i) == IF i \in answered THEN subject.modules[i].warm ELSE "unanswered"
             verdicts == {ClassifyImport(subject.modules[i].cold, warm(i)) : i \in Retried}
  <2>2. \A cold, after : ClassifyImport(cold, after) \in ImportVerdicts
    BY DEF ClassifyImport, ImportVerdicts
  <2>3. verdicts \in SUBSET ImportVerdicts
    <3> HIDE DEF warm, ImportVerdicts
    <3> QED  BY <2>2
  <2>4. published' = [published EXCEPT !.imports = verdicts, !.pc = "caps"]
    BY <2>1
  <2> HIDE DEF verdicts, ImportVerdicts, SmokeStates, Statuses
  <2> QED  BY <2>3, <2>4
<1>5. CASE CheckCaps
  <2>1. PICK known \in {0, major} :
          published' = [published EXCEPT
                           !.cap = CapVerdict(Requires(published.installed), known),
                           !.pc = IF NoSmoke THEN "decide" ELSE "smoke"]
    BY <1>5 DEF CheckCaps
  <2> DEFINE cap == CapVerdict(Requires(published.installed), known)
             pc == IF NoSmoke THEN "decide" ELSE "smoke"
  <2>2. cap \in {"capped", "armed", "unknown", "major-available"} /\ pc \in {"decide", "smoke"}
    BY DEF CapVerdict
  <2>3. published' = [published EXCEPT !.cap = cap, !.pc = pc]
    BY <2>1
  <2> HIDE DEF cap, pc, ImportVerdicts, SmokeStates, Statuses
  <2> QED  BY <2>2, <2>3
<1>6. CASE SmokeStart
  <2>1. PICK smoke \in {"error", ClassifySmoke(subject.script)} :
          published' = [published EXCEPT !.smoke = smoke, !.pc = "decide"]
    BY <1>6 DEF SmokeStart
  <2>2. smoke \in SmokeStates
    BY DEF ClassifySmoke, SmokeStates
  <2> HIDE DEF ImportVerdicts, SmokeStates, Statuses
  <2> QED  BY <2>1, <2>2
<1>7. CASE Decide
  <2> DEFINE status == DecideStatus(published, subject.ua)
  <2>1. status \in Statuses
    BY DEF DecideStatus, IdentityStatus, Statuses, Identities
  <2> HIDE DEF status, ImportVerdicts, SmokeStates, Statuses
  <2> QED  BY <1>7, <2>1 DEF Decide, status
<1> QED  BY <1>1, <1>2, <1>3, <1>4, <1>5, <1>6, <1>7, <1>8 DEF PublishedStep

\* What is written down of the targets, and the driver's own account.
Recorded ==
    [id : {e.id : e \in UNION {Range(s.block.entries) : s \in Sweeps}},
     status : {"green", "findings", "not_measured", "missing"} \cup Statuses]
Positions == UNION {DOMAIN s.block.entries : s \in Sweeps}
Accounts ==
    [probe : {"shipped", "yank", "lockfile", "published"},
     block : {s.block : s \in Sweeps}, skips : {s.skips : s \in Sweeps},
     pc : {"start", "next", "running", "done"},
     queue : SUBSET Positions, outcomes : Seq(Recorded), rc : {NoCode, 0, 1, 2, 3}]

\* The target whose turn it is is one of the manifest's.
LEMMA TurnFacts ==
    ASSUME SweepInv, sweep \in Accounts, sweep.pc \in {"next", "running"}, sweep.queue # {}
    PROVE  Turn \in sweep.queue /\ Entry.id \in {e.id : e \in UNION {Range(s.block.entries) : s \in Sweeps}}
<1> DEFINE entries == sweep.block.entries
<1>1. sweep.queue \subseteq DOMAIN entries
  BY DEF SweepInv, Kept, Targets, ManifestTargets
<1>2. Len(entries) \in Nat /\ DOMAIN entries = 1..Len(entries)
  BY DEF SweepInv
<1>3. Turn \in sweep.queue
  BY <1>1, <1>2, LeastOf DEF Turn
<1>4. PICK s \in Sweeps : sweep.block = s.block
  BY DEF Accounts
<1>5. Entry \in Range(s.block.entries)
  BY <1>1, <1>3, <1>4 DEF Entry, Range
<1> QED  BY <1>3, <1>5

\* An outcome is written down.
LEMMA BookTyped ==
    ASSUME SweepInv, sweep \in Accounts, sweep.pc \in {"next", "running"}, sweep.queue # {},
           NEW status \in {"green", "findings", "not_measured", "missing"} \cup Statuses,
           Book(status)
    PROVE  sweep' \in Accounts
<1> DEFINE outcome == Outcome(Entry, status)
           left == sweep.queue \ {Turn}
           more == Append(sweep.outcomes, outcome)
<1>1. sweep' = [sweep EXCEPT !.queue = left, !.pc = "next", !.outcomes = more]
  BY DEF Book
<1>2. outcome \in Recorded
  BY TurnFacts DEF Outcome, Recorded
<1>3. left \in SUBSET Positions
  BY DEF Accounts
<1>4. more \in Seq(Recorded)
  <2> HIDE DEF outcome
  <2> QED  BY <1>2 DEF Accounts
<1> HIDE DEF left, more
<1> QED  BY <1>1, <1>3, <1>4 DEF Accounts

\* The driver's account keeps its shape.
LEMMA AccountTyped ==
    ASSUME SweepInv, sweep \in Accounts, PublishedTypeOK, Next
    PROVE  sweep' \in Accounts
<1>1. CASE ReadManifest
  <2>1. CASE sweep' = [sweep EXCEPT !.rc = 1, !.pc = "done"]
    BY <2>1 DEF Accounts
  <2>2. CASE sweep' = [sweep EXCEPT !.queue = Kept(sweep), !.pc = "next"]
    <3> DEFINE kept == Kept(sweep)
    <3>1. kept \in SUBSET Positions
      <4>1. kept \subseteq DOMAIN sweep.block.entries
        BY DEF Kept, Targets, ManifestTargets
      <4>2. PICK s \in Sweeps : sweep.block = s.block
        BY DEF Accounts
      <4> HIDE DEF kept
      <4> QED  BY <4>1, <4>2 DEF Positions
    <3> HIDE DEF kept
    <3>2. sweep' = [sweep EXCEPT !.queue = kept, !.pc = "next"]
      BY <2>2 DEF kept
    <3> QED  BY <3>1, <3>2 DEF Accounts
  <2> QED  BY <1>1, <2>1, <2>2 DEF ReadManifest
<1>2. CASE NoCheckout
  <2>1. sweep.pc = "next" /\ sweep.queue # {} /\ Book("missing")
    BY <1>2 DEF NoCheckout
  <2> QED  BY <2>1, BookTyped
<1>3. CASE StartProbe
  BY <1>3 DEF StartProbe, Accounts
<1>4. \A rc : Classify(rc) \in {"green", "findings", "not_measured", "missing"} \cup Statuses
  BY DEF Classify
<1>5. sweep.pc = "running" => sweep.queue # {}
  BY DEF SweepInv
<1>6. CASE Collect
  <2> DEFINE status == CASE sweep.probe = "shipped"  -> Classify(shipped.rc)
                         [] sweep.probe = "yank"     -> Classify(yank.rc)
                         [] sweep.probe = "lockfile" -> Classify(lockfile.rc)
                         [] OTHER                    -> published.status
  <2>1. sweep.pc = "running" /\ Book(status)
    BY <1>6 DEF Collect
  <2>2. published.status \in Statuses
    BY DEF PublishedTypeOK
  <2>3. status \in {"green", "findings", "not_measured", "missing"} \cup Statuses
    BY <1>4, <2>2
  <2> HIDE DEF status
  <2> QED  BY <1>5, <2>1, <2>3, BookTyped
<1>7. CASE TimeOut
  <2>1. sweep.pc = "running" /\ Book(Classify(124))
    BY <1>7 DEF TimeOut
  <2> QED  BY <1>4, <1>5, <2>1, BookTyped
<1>8. CASE Crash
  <2>1. sweep.pc = "running" /\ Book(Classify(1))
    BY <1>8 DEF Crash
  <2> QED  BY <1>4, <1>5, <2>1, BookTyped
<1>9. CASE Finish
  <2> DEFINE code == IF sweep.probe = "published" THEN PublishedCode(sweep)
                     ELSE SweepCode(sweep)
  <2>1. code \in {0, 1, 2, 3}
    BY DEF PublishedCode, SweepCode, ExitIncomplete
  <2>2. sweep' = [sweep EXCEPT !.pc = "done", !.rc = code]
    BY <1>9 DEF Finish
  <2> HIDE DEF code
  <2> QED  BY <2>1, <2>2 DEF Accounts
<1>10. CASE Probe \/ World
  BY <1>10 DEF Probe, World
<1> QED  BY <1>1, <1>2, <1>3, <1>6, <1>7, <1>8, <1>9, <1>10 DEF Next, Driver

\* The probes start from a shape, and are put back to it.
LEMMA IdleTyped ==
    /\ Silent("unasked") \in Answers
    /\ ShippedIdle \in ShippedReports
    /\ Empty \in Snapshots
  <1>1. Silent("unasked") \in Answers /\ Empty \in Snapshots
    BY DEF Silent, Answers, Empty, Snapshots
  <1>2. NoFile \in Contents
    BY TreeAssumption DEF TreeAssumption
  <1> HIDE DEF Answers
  <1> QED  BY <1>1, <1>2 DEF ShippedIdle, ShippedReports

\* Between two targets every report is back in its idle shape.
LEMMA RestTyped ==
    ASSUME shipped' \in {ShippedIdle, [ShippedIdle EXCEPT !.pc = "capture"]} \/ UNCHANGED shipped,
           yank' \in {YankIdle, [YankIdle EXCEPT !.pc = "capture"]} \/ UNCHANGED yank,
           lockfile' \in {IdleLockfile, [IdleLockfile EXCEPT !.pc = "capture"]}
              \/ UNCHANGED lockfile,
           published' \in {PublishedIdle, [PublishedIdle EXCEPT !.pc = "install"]}
              \/ UNCHANGED published,
           ShippedTypeOK, YankTypeOK, LockfileTypeOK, PublishedTypeOK
    PROVE  ShippedTypeOK' /\ YankTypeOK' /\ LockfileTypeOK' /\ PublishedTypeOK'
<1>1. ShippedTypeOK'
  <2>1. ShippedIdle \in ShippedReports
    BY IdleTyped
  <2>2. [ShippedIdle EXCEPT !.pc = "capture"] \in ShippedReports
    <3> HIDE DEF ShippedIdle, Answers
    <3> QED  BY <2>1 DEF ShippedReports
  <2>3. CASE shipped' \in {ShippedIdle, [ShippedIdle EXCEPT !.pc = "capture"]}
    <3>1. shipped' \in ShippedReports
      BY <2>1, <2>2, <2>3
    <3> QED  BY <3>1 DEF ShippedReports, ShippedTypeOK
  <2>4. CASE UNCHANGED shipped
    BY <2>4 DEF ShippedTypeOK
  <2> QED  BY <2>3, <2>4
<1>2. YankTypeOK'
  <2>1. CASE yank' \in {YankIdle, [YankIdle EXCEPT !.pc = "capture"]}
    <3>1. Empty \in Snapshots /\ 0 \in 0..LastMajor
      BY IdleTyped, VersionAssumption DEF VersionAssumption
    <3> HIDE DEF Snapshots, Empty
    <3>2. CASE yank' = YankIdle
      BY <3>1, <3>2 DEF YankIdle, YankTypeOK
    <3>3. CASE yank' = [YankIdle EXCEPT !.pc = "capture"]
      BY <3>1, <3>3 DEF YankIdle, YankTypeOK
    <3> QED  BY <2>1, <3>2, <3>3
  <2>2. CASE UNCHANGED yank
    BY <2>2 DEF YankTypeOK
  <2> QED  BY <2>1, <2>2
<1>3. LockfileTypeOK'
  <2>1. NoFile \in Contents
    BY TreeAssumption DEF TreeAssumption
  <2>2. CASE lockfile' = IdleLockfile
    BY <2>1, <2>2 DEF IdleLockfile, LockfileTypeOK
  <2>3. CASE lockfile' = [IdleLockfile EXCEPT !.pc = "capture"]
    BY <2>1, <2>3 DEF IdleLockfile, LockfileTypeOK
  <2>4. CASE UNCHANGED lockfile
    BY <2>4 DEF LockfileTypeOK
  <2> QED  BY <2>2, <2>3, <2>4
<1>4. PublishedTypeOK'
  BY DEF PublishedIdle, PublishedTypeOK, ImportVerdicts, SmokeStates, Statuses, Identities
<1> QED  BY <1>1, <1>2, <1>3, <1>4

\* The tree keeps its shape in a sweep.
LEMMA SweepTree ==
    ASSUME TreeTypeOK, sweep.probe \in {"shipped", "yank", "lockfile", "published"}, Next
    PROVE  TreeTypeOK'
<1>1. CASE UNCHANGED treeVars \/ \E t \in StartTrees : TreeIs(t)
  BY <1>1, TreeTyped
<1>2. CASE Resting
  <2>1. (CHOOSE t \in StartTrees : TRUE) \in StartTrees
    BY SweepAssumption DEF SweepAssumption
  <2> QED  BY <1>1, <1>2, <2>1 DEF Resting
<1>3. CASE Probe
  BY <1>3, ProbesLeaveTree DEF Probe
<1>4. CASE World
  <2>1. CASE sweep.probe \in {"lockfile", "shipped"} /\ (CheckOut \/ Edit(Edits[sweep.probe]))
    <3>1. Edits[sweep.probe] \in SUBSET (Paths \X Contents)
      BY <2>1, SweepAssumption DEF SweepAssumption
    <3> QED  BY <2>1, <3>1, TreeTyped
  <2> QED  BY <1>1, <1>4, <2>1 DEF World
<1>5. CASE ReadManifest \/ NoCheckout \/ StartProbe \/ Finish
  BY <1>1, <1>5 DEF ReadManifest, NoCheckout, StartProbe, Finish, Elsewhere
<1>6. CASE Collect \/ Crash \/ TimeOut
  BY <1>2, <1>6 DEF Collect, Crash, TimeOut
<1> QED  BY <1>3, <1>4, <1>5, <1>6 DEF Next, Driver

\* So do the reports of the probes.
LEMMA SweepReports ==
    ASSUME IndexTypeOK, TreeTypeOK, ShippedTypeOK, YankTypeOK, LockfileTypeOK, PublishedTypeOK,
           Driven, sweep.probe \in {"shipped", "yank", "lockfile", "published"}, Next
    PROVE  ShippedTypeOK' /\ YankTypeOK' /\ LockfileTypeOK' /\ PublishedTypeOK'
<1>1. CASE Probe
  <2>1. ShippedTypeOK'
    <3>1. CASE ShippedStep
      <4>1. shipped.pc # "idle"
        BY <3>1 DEF ShippedStep, ShippedCapture, ReadProject, ReadHistory, ReadChangelog,
           FetchSimple, FetchJson, Weigh, Install, Speak, ShippedRecheck
      <4> QED  BY <3>1, <4>1, ShippedTyped DEF Driven
    <3>2. CASE UNCHANGED shipped
      BY <3>2 DEF ShippedTypeOK
    <3> QED  BY <1>1, <3>1, <3>2 DEF Probe
  <2>2. YankTypeOK'
    BY <1>1, YankTyped DEF Probe, YankTypeOK
  <2>3. LockfileTypeOK'
    BY <1>1, LockfileTyped DEF Probe, LockfileTypeOK
  <2>4. PublishedTypeOK'
    BY <1>1, PublishedTyped DEF Probe, PublishedTypeOK
  <2> QED  BY <2>1, <2>2, <2>3, <2>4
<1>2. CASE World \/ ReadManifest \/ NoCheckout \/ Finish
  <2>1. UNCHANGED <<shipped, yank, lockfile, published>>
    BY <1>2 DEF World, ReadManifest, NoCheckout, Finish, Elsewhere
  <2> QED  BY <2>1, RestTyped
<1>3. CASE Resting
  BY <1>3, RestTyped DEF Resting
<1>4. CASE StartProbe
  <2>1. /\ shipped' \in {ShippedIdle, [ShippedIdle EXCEPT !.pc = "capture"]} \/ UNCHANGED shipped
        /\ yank' \in {YankIdle, [YankIdle EXCEPT !.pc = "capture"]} \/ UNCHANGED yank
        /\ lockfile' \in {IdleLockfile, [IdleLockfile EXCEPT !.pc = "capture"]}
              \/ UNCHANGED lockfile
        /\ published' \in {PublishedIdle, [PublishedIdle EXCEPT !.pc = "install"]}
              \/ UNCHANGED published
    BY <1>4 DEF StartProbe, ShippedStart, YankStart, LockfileStart, PublishedStart
  <2> QED  BY <2>1, RestTyped
<1>5. CASE Collect \/ Crash \/ TimeOut
  BY <1>3, <1>5 DEF Collect, Crash, TimeOut
<1> QED  BY <1>1, <1>2, <1>4, <1>5 DEF Next, Driver

\* Every state of a sweep has its shape: no report holds a finding of another probe, no
\* version that is on no index, and no code but its own; and whatever the driver writes down
\* is of an entry of its manifest (coverage_run.py and the reports of the four probes).
THEOREM SweepTyped == Spec => []TypeOK
<1> DEFINE SInv == ReportInv /\ SweepInv
<1>1. Init => TypeOK
  <2> SUFFICES ASSUME Init  PROVE TypeOK
    OBVIOUS
  <2>1. IndexTypeOK
    BY InitReports DEF ReportInv
  <2>2. TreeTypeOK
    <3>1. tree \in Trees /\ first = tree
      BY SweepAssumption DEF Init, SweepAssumption
    <3>2. Shown(tree) \in Heads \X SUBSET Paths
      BY <3>1, TreeFacts
    <3>3. NoProvenance \in Provenances /\ 0 \in 0..MaxMoves
      BY TreeAssumption DEF NoProvenance, Provenances, Heads, TreeAssumption
    <3> QED  BY <3>1, <3>2, <3>3 DEF Init, TreeTypeOK
  <2>3. ShippedTypeOK
    <3>1. shipped \in ShippedReports
      BY IdleTyped DEF Init
    <3> QED  BY <3>1 DEF ShippedReports, ShippedTypeOK
  <2>4. YankTypeOK
    <3>1. Empty \in Snapshots /\ 0 \in 0..LastMajor /\ yank = YankIdle
      BY IdleTyped, VersionAssumption DEF VersionAssumption, Init
    <3> HIDE DEF Snapshots, Empty
    <3> QED  BY <3>1 DEF YankIdle, YankTypeOK
  <2>5. LockfileTypeOK
    <3>1. NoFile \in Contents /\ lockfile = IdleLockfile
      BY TreeAssumption DEF TreeAssumption, Init
    <3> QED  BY <3>1 DEF IdleLockfile, LockfileTypeOK
  <2>6. PublishedTypeOK
    <3>1. published = PublishedIdle
      BY DEF Init
    <3> QED  BY <3>1 DEF PublishedIdle, PublishedTypeOK, ImportVerdicts, SmokeStates, Statuses,
                         Identities
  <2>7. sweep \in Accounts
    <3>1. PICK s \in Sweeps :
            sweep = [probe |-> s.probe, block |-> s.block, skips |-> s.skips, pc |-> "start",
                     queue |-> {}, outcomes |-> <<>>, rc |-> NoCode]
      BY DEF Init
    <3>2. /\ s.probe \in {"shipped", "yank", "lockfile", "published"}
          /\ s.block \in {c.block : c \in Sweeps} /\ s.skips \in {c.skips : c \in Sweeps}
      BY SweepAssumption DEF SweepAssumption
    <3>3. <<>> \in Seq(Recorded) /\ {} \in SUBSET Positions
      OBVIOUS
    <3> QED  BY <3>1, <3>2, <3>3 DEF Accounts
  <2> QED  BY <2>1, <2>2, <2>3, <2>4, <2>5, <2>6, <2>7 DEF TypeOK, Accounts, Positions, Recorded
<1>2. TypeOK /\ SInv /\ SInv' /\ [Next]_vars => TypeOK'
  <2> SUFFICES ASSUME TypeOK, SInv, SInv', [Next]_vars  PROVE TypeOK'
    OBVIOUS
  <2>1. CASE Next
    <3>1. /\ IndexTypeOK /\ TreeTypeOK /\ sweep \in Accounts
          /\ ShippedTypeOK /\ YankTypeOK /\ LockfileTypeOK /\ PublishedTypeOK
      BY DEF TypeOK, Accounts, Positions, Recorded
    <3>2. sweep.probe \in {"shipped", "yank", "lockfile", "published"}
      BY DEF SweepInv
    <3>3. IndexTypeOK'
      BY DEF ReportInv
    <3>4. TreeTypeOK'
      BY <2>1, <3>1, <3>2, SweepTree
    <3>5. ShippedTypeOK' /\ YankTypeOK' /\ LockfileTypeOK' /\ PublishedTypeOK'
      BY <2>1, <3>1, <3>2, SweepReports DEF ReportInv
    <3>6. sweep' \in Accounts
      BY <2>1, <3>1, AccountTyped
    <3> QED  BY <3>3, <3>4, <3>5, <3>6 DEF TypeOK, Accounts, Positions, Recorded
  <2>2. CASE UNCHANGED vars
    <3>1. /\ UNCHANGED sweep /\ UNCHANGED <<tree, prov, first, shown, unseen, moves>>
          /\ UNCHANGED <<shipped, yank, lockfile, published>>
      BY <2>2 DEF vars, treeVars
    <3>2. IndexTypeOK'
      BY DEF ReportInv
    <3>3. ShippedTypeOK' /\ YankTypeOK' /\ LockfileTypeOK' /\ PublishedTypeOK'
      BY <3>1 DEF TypeOK, ShippedTypeOK, YankTypeOK, LockfileTypeOK, PublishedTypeOK
    <3>4. TreeTypeOK'
      BY <3>1 DEF TypeOK, TreeTypeOK
    <3> QED  BY <3>1, <3>2, <3>3, <3>4 DEF TypeOK
  <2> QED  BY <2>1, <2>2
<1> QED  BY <1>1, <1>2, ReportsHold, AccountHolds, PTL DEF Spec
================================================================================
