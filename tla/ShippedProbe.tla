------------------------------ MODULE ShippedProbe ------------------------------
(***************************************************************************)
(* scripts/shipped_probe.py: is what users install what the repository     *)
(* says it released.  The first depth compares the repository's version,   *)
(* tags and unreleased work with the two APIs of the index; the second     *)
(* installs the distribution and speaks to its server.                     *)
(***************************************************************************)
EXTENDS PackageIndex, Provenance

CONSTANT Asked       \* the arguments passed on to the probe

ASSUME AskedAssumption ==
    Asked \in [metadataOnly : BOOLEAN, offline : BOOLEAN, pypi : BOOLEAN,
               pin : Versions \cup {NoVersion}]
ASSUME FilesAssumption ==
    {"pyproject", "changelog", "source"} \subseteq Paths \ Noise /\ NoFile \notin Versions

VARIABLES
    subject,     \* what the target is: its git history, its releases, its artifact
    shipped      \* the run of the probe: its report, and where it is

\* What a commit that is not released yet may be.
Kinds == {"breaking", "user-facing", "housekeeping"}

ShippedIdle ==
    [pc |-> "idle", version |-> NoFile, tagged |-> FALSE, tags |-> {}, logged |-> FALSE,
     work |-> {}, changelog |-> NoFile, source |-> NoFile, simple |-> Silent("unasked"),
     json |-> Silent("unasked"), phase1 |-> {}, findings |-> {}, harness |-> FALSE,
     installed |-> NoVersion, rc |-> NoCode]

MetadataCodes == {"NO_TAGS", "PUBLISH_GAP", "RELEASE_YANKED", "UNRELEASED",
                  "UNTAGGED_VERSION", "CHANGELOG_UNRELEASED"}
InstallCodes == {"NOT_ON_INDEX", "INSTALL_FAILED", "STALE_ON_INDEX", "INDEX_AHEAD",
                 "TAG_NOT_ON_INDEX", "TAG_DIFFERS", "STALE_ARTIFACT", "NO_ENTRYPOINT",
                 "DOES_NOT_RUN", "TOOL_ERROR", "TOOL_NO_ANSWER", "TOOL_EMPTY"}

ShippedTypeOK ==
    shipped \in [pc : {"idle", "capture", "project", "history", "changelog", "simple",
                       "json", "weigh", "install", "speak", "recheck", "done"},
                 version : Contents, tagged : BOOLEAN, tags : SUBSET Versions,
                 logged : BOOLEAN, work : SUBSET Kinds, changelog : Contents,
                 source : Contents, simple : Answers, json : Answers,
                 phase1 : SUBSET MetadataCodes,
                 findings : SUBSET (MetadataCodes \cup InstallCodes), harness : BOOLEAN,
                 installed : Versions \cup {NoVersion}, rc : {NoCode, 0, 2, ExitMoved, 127}]
--------------------------------------------------------------------------------
(* reconcile: one answer from two.                                             *)

Both(s, j) == Readable(s) /\ Readable(j)

IndexStatus(s, j) ==
    IF Both(s, j) THEN
        IF j.info \in Candidates("simple", s) THEN "ok" ELSE "unconfirmed"
    ELSE IF Readable(s) \/ Readable(j) THEN "ok"
    ELSE IF s.status = "unasked" THEN "skipped"
    ELSE IF "not_published" \in {s.status, j.status} THEN "not_published"
    ELSE "unreachable"

\* The version that a report shows, and the mutant of what a gap is measured against.
IndexVersion(s, j) ==
    IF Readable(s) THEN (IF Installable(s.releases) # NoVersion
                            THEN Installable(s.releases) ELSE Latest(s.releases))
    ELSE IF Readable(j) THEN j.info ELSE NoVersion

\* A withdrawal is believed when both APIs agree on every one, or only one was read.
YankSource(s, j) ==
    IF Both(s, j) THEN
        IF Withdrawn(s.releases) = Withdrawn(j.releases) THEN "simple" ELSE "unconfirmed"
    ELSE IF Readable(s) THEN "simple"
    ELSE IF Readable(j) THEN "json-fallback"
    ELSE "unavailable"

Yanked(s, j) == IF Readable(s) THEN Withdrawn(s.releases) ELSE Withdrawn(j.releases)

\* What a gap is measured against: the newest version that any readable API reports.
NewestReported(s, j) ==
    LET seen == (IF Readable(s) THEN Candidates("simple", s) ELSE {})
                    \cup (IF Readable(j) THEN Candidates("json", j) ELSE {})
    IN IF seen = {} THEN IndexVersion(s, j) ELSE Highest(seen)
--------------------------------------------------------------------------------
(* metadata_findings, build_findings and dedupe.                               *)

LastTag(r) == Highest(r.tags)
Current(r) == IF LastTag(r) # NoVersion THEN LastTag(r) ELSE r.version

\* Of the work since the last tag: breaking at any age, user-facing at once, the rest
\* when the oldest of it is older than the limit.
Due(r) == \/ r.work \cap {"breaking", "user-facing"} # {}
          \/ r.work # {} /\ subject.old
Overdue(r) == r.work # {} /\ subject.old

MetadataFindings(r) ==
    {code \in MetadataCodes :
        CASE code = "NO_TAGS" -> r.tagged /\ r.tags = {}
          [] code = "PUBLISH_GAP" ->
                /\ IndexStatus(r.simple, r.json) \in {"ok", "unconfirmed"}
                /\ LastTag(r) # NoVersion /\ NewestReported(r.simple, r.json) # NoVersion
                /\ LastTag(r) > NewestReported(r.simple, r.json)
          [] code = "RELEASE_YANKED" ->
                /\ YankSource(r.simple, r.json) \in {"simple", "json-fallback"}
                /\ Current(r) \in Yanked(r.simple, r.json)
          [] code = "UNRELEASED" -> Due(r)
          [] code = "UNTAGGED_VERSION" ->
                r.tagged /\ r.version # NoFile /\ r.version \notin r.tags /\ Overdue(r)
          [] OTHER -> r.changelog # NoFile /\ Overdue(r)}

\* compare_versions, with what was installed.
VersionFindings(r) ==
    {code \in InstallCodes :
        CASE code = "STALE_ON_INDEX" -> r.version # NoFile /\ r.installed < r.version
          [] code = "INDEX_AHEAD" -> r.version # NoFile /\ r.installed > r.version
          [] code = "TAG_NOT_ON_INDEX" -> LastTag(r) # NoVersion /\ LastTag(r) > r.installed
          [] code = "TAG_DIFFERS" -> LastTag(r) # NoVersion /\ LastTag(r) < r.installed
          [] OTHER -> FALSE}

\* compare_content has found another body of code under the same number, where it reaches.
ContentFindings(r) ==
    IF r.source # NoFile /\ subject.reached /\ r.source # subject.built[r.installed]
        THEN {"STALE_ARTIFACT"} ELSE {}

\* dedupe: a gap that the index itself shows supersedes the one that the install shows.
Deduped(findings) ==
    IF "PUBLISH_GAP" \in findings THEN findings \ {"TAG_NOT_ON_INDEX"} ELSE findings

\* Report.exit_code.
ShippedCode(report, p) ==
    IF Blocking(p, TRUE) THEN ExitMoved
    ELSE IF report.harness THEN 127
    ELSE IF report.findings # {} THEN 2
    ELSE 0
--------------------------------------------------------------------------------
ShippedStart == shipped' = [ShippedIdle EXCEPT !.pc = "capture"]

\* What every step of the report leaves alone.
ShippedAlone == UNCHANGED <<indexVars, subject>>

ShippedCapture ==
    /\ shipped.pc = "capture"
    /\ Capture
    /\ shipped' = [shipped EXCEPT !.pc = "project"]
    /\ ShippedAlone

\* A file that is read as text, and the exception that ends the program when it cannot be.
ReadText(content, read) ==
    shipped' = IF content = Broken THEN [shipped EXCEPT !.rc = 127, !.pc = "done"] ELSE read

\* The version of pyproject.toml, if there is one.
ReadProject ==
    /\ shipped.pc = "project"
    /\ LET content == tree.files["pyproject"] IN
       ReadText(content, [shipped EXCEPT !.version = content, !.pc = "history"])
    /\ ShippedAlone /\ UNCHANGED treeVars

\* What git logs on HEAD beyond the last tag, or of all of it.
Beyond(head, tags) ==
    subject.work[head] \cup (IF tags = {} THEN subject.past ELSE {})

\* release_tags and commits_since.  A call of git that fails lists no tags, which is told
\* from there being none, and logs no commits, which is not; where there is no commit both
\* fail.  A shallow clone without tags has not listed them, as far as git says that it is
\* one.  Bound: nobody tags a release meanwhile.
ReadHistory ==
    /\ shipped.pc = "history"
    /\ \E tagged, logged \in BOOLEAN :
          LET tags == IF tagged THEN subject.tags ELSE {} IN
          /\ tree.head = NoHead => ~tagged /\ ~logged
          /\ shipped' = [shipped EXCEPT
                           !.tagged = tagged, !.tags = tags, !.logged = logged,
                           !.work = IF logged THEN Beyond(tree.head, tags) ELSE {},
                           !.pc = "changelog"]
    /\ ShippedAlone /\ UNCHANGED treeVars

\* count_changelog_unreleased: a file that holds something has unreleased entries.
ReadChangelog ==
    /\ shipped.pc = "changelog"
    /\ LET content == tree.files["changelog"] IN
       ReadText(content, [shipped EXCEPT !.changelog = content,
                                         !.pc = IF Asked.offline THEN "weigh" ELSE "simple"])
    /\ ShippedAlone /\ UNCHANGED treeVars

FetchSimple ==
    /\ shipped.pc = "simple"
    /\ \E answer \in Answered("simple") :
          shipped' = [shipped EXCEPT !.simple = answer, !.pc = "json"]
    /\ ShippedAlone /\ UNCHANGED treeVars

FetchJson ==
    /\ shipped.pc = "json"
    /\ \E answer \in (IF Asked.pypi THEN Answered("json") ELSE {Silent("not_applicable")}) :
          shipped' = [shipped EXCEPT !.json = answer, !.pc = "weigh"]
    /\ ShippedAlone /\ UNCHANGED treeVars

\* The end of the first depth.  An index that could not be reached ends the run without
\* a verdict; a distribution that is not there ends it with one.
Weigh ==
    /\ shipped.pc = "weigh"
    /\ LET found   == MetadataFindings(shipped)
           status  == IndexStatus(shipped.simple, shipped.json)
           weighed == [shipped EXCEPT !.phase1 = found, !.findings = found, !.pc = "recheck"]
       IN shipped' =
            IF status = "unreachable" THEN [weighed EXCEPT !.harness = TRUE]
            ELSE IF Asked.metadataOnly \/ Asked.offline THEN weighed
            ELSE IF status = "not_published" THEN
                    [weighed EXCEPT !.findings = Deduped(@ \cup {"NOT_ON_INDEX"})]
            ELSE [weighed EXCEPT !.pc = "install"]
    /\ ShippedAlone /\ UNCHANGED treeVars

EndWith(report, found) ==
    [report EXCEPT !.findings = Deduped(report.phase1 \cup found), !.pc = "recheck"]

\* compare_content: only under one version number on both sides, and only when the artifact
\* has a package and the checkout one of that name, is there something to compare.
SourceFor(version, installed) ==
    IF version # NoFile /\ installed = version /\ subject.built[installed] # NoFile
        THEN tree.files["source"] ELSE NoFile

\* install_from_index into a fresh venv, then what is installed is compared.
Install ==
    /\ shipped.pc = "install"
    /\ \/ shipped' = EndWith(shipped, {"INSTALL_FAILED"})    \* no venv, a timeout, pip
       \/ LET version == Resolved(Asked.pin)
              got     == [shipped EXCEPT !.installed = version]
              held    == [got EXCEPT !.source = SourceFor(got.version, version)]
              found   == VersionFindings(held) \cup ContentFindings(held)
          IN /\ version # NoVersion
             /\ shipped' =
                  IF Asked.pin \notin {NoVersion, version} THEN
                          [got EXCEPT !.harness = TRUE, !.pc = "recheck"]
                  ELSE IF subject.server = "none" THEN
                          EndWith(held, found \cup {"NO_ENTRYPOINT"})
                  ELSE [held EXCEPT !.findings = found, !.pc = "speak"]
    /\ ShippedAlone /\ UNCHANGED treeVars

\* speak_mcp: initialize, tools/list, and the first tool that needs no argument.  An
\* error that reads like this machine's own egress is nobody's finding.
ToolFinding(answer) ==
    CASE answer = "error"     -> {"TOOL_ERROR"}
      [] answer = "no-answer" -> {"TOOL_NO_ANSWER"}
      [] answer = "empty"     -> {"TOOL_EMPTY"}
      [] OTHER                -> {}

Speak ==
    /\ shipped.pc = "speak"
    /\ \/ /\ subject.server = "silent"
          /\ shipped' = EndWith(shipped, shipped.findings \cup {"DOES_NOT_RUN"})
       \/ /\ subject.server = "lists"
          /\ \E answer \in {"ok", "skipped", "blocked", "error", "no-answer", "empty"} :
                shipped' = EndWith(shipped, shipped.findings \cup ToolFinding(answer))
    /\ ShippedAlone /\ UNCHANGED treeVars

ShippedRecheck ==
    /\ shipped.pc = "recheck"
    /\ prov' = Rechecked(prov, tree)
    /\ shipped' = [shipped EXCEPT !.rc = ShippedCode(shipped, prov'), !.pc = "done"]
    /\ ShippedAlone /\ UNCHANGED <<tree, first, shown, unseen, moves>>

ShippedStep ==
    \/ ShippedCapture \/ ReadProject \/ ReadHistory \/ ReadChangelog
    \/ FetchSimple \/ FetchJson
    \/ Weigh \/ Install \/ Speak \/ ShippedRecheck
--------------------------------------------------------------------------------
(* Properties                                                                  *)

\* What is claimed of the index holds by every one of its answers, though a release or
\* a withdrawal was still on its way when they were given: a gap is of a tag that is
\* newer than whatever they let install and that the Simple API does not list at all;
\* a withdrawal is in both; a distribution that is said to be missing was found by
\* neither; and where neither had anything to say there is no verdict.
ClaimsAreConfirmed ==
    shipped.pc = "done" =>
        LET answers == {a \in {shipped.simple, shipped.json} : Readable(a)}
            absent  == "not_published" \in {shipped.simple.status, shipped.json.status}
        IN /\ "PUBLISH_GAP" \in shipped.findings =>
                 /\ answers # {}
                 /\ \A a \in answers : LastTag(shipped) > Installable(a.releases)
                 /\ Readable(shipped.simple) =>
                       LastTag(shipped) \notin Listed(shipped.simple.releases)
           /\ "RELEASE_YANKED" \in shipped.findings =>
                 /\ answers # {}
                 /\ \A a \in answers : Current(shipped) \in Withdrawn(a.releases)
           /\ "NOT_ON_INDEX" \in shipped.findings => answers = {} /\ absent
           /\ shipped.rc \in {0, 2} /\ ~Asked.offline => answers # {} \/ absent

\* However the second depth ends, a verdict has all that the first one found.
FirstDepthCounts ==
    shipped.rc \in {0, 2} => MetadataFindings(shipped) \subseteq shipped.findings

\* A full run ends without a finding only when users get what was released, as far as
\* that was looked at: unless git failed, no work that is due waits for a release, and
\* the last tag is what pip installed; so is the version of the tree, where it states
\* one; and under that number the installed code is that of the checkout, unless there
\* was no package to pair with one of the checkout, or they differ only beyond the number
\* of files that are compared.
CleanMeansShipped ==
    shipped.rc = 0 /\ ~Asked.offline /\ ~Asked.metadataOnly =>
        /\ shipped.logged => ~Due(shipped)
        /\ shipped.installed # NoVersion
        /\ shipped.tagged => Highest(subject.tags) \in {NoVersion, shipped.installed}
        /\ shipped.version \in {NoFile, shipped.installed}
        /\ shipped.source # NoFile /\ subject.reached =>
              shipped.source = subject.built[shipped.installed]

\* The verdict of the probe is deserved: what it claims, and that it claims nothing.
ShippedIsDeserved == ClaimsAreConfirmed /\ FirstDepthCounts /\ CleanMeansShipped

\* What the report was made of is of one tree: the version, the log, the changelog and,
\* where it was compared, the code.
ShippedOf(t) ==
    /\ shipped.version = t.files["pyproject"]
    /\ shipped.changelog = t.files["changelog"]
    /\ shipped.logged => shipped.work = Beyond(t.head, shipped.tags)
    /\ shipped.source \in {NoFile, t.files["source"]}
================================================================================
