# Formal verification of mcp-continuous-auditor

This directory holds the TLA+ models of the auditor, the TLC runs that check them on
small instances, and the proofs that the TLA+ proof system checks for every instance.
Paths such as `scripts/budget_guard.py` are relative to the repository.

    tlc -workers 2 -config MCBudgetCircuit.cfg MCBudgetCircuit      # one run
    tlapm BudgetCircuitProofs.tla                                   # one proof module

Contents: [1 the system](#1-the-system) · [2 the modules](#2-the-modules) ·
[3 the runs](#3-the-runs) · [4 fairness](#4-fairness) · [5 the proofs](#5-the-proofs) ·
[6 findings](#6-findings) · [7 what is left out](#7-what-is-left-out) · [8 the plan](#8-the-plan)

## 1. The system

The auditor checks MCP servers of other people every night, files what it finds as GitHub
issues, and once a week proposes improvements of its own test suite. It is a set of short
scripts. Almost none of them share memory; they share *files that outlive a run* (a budget
state, a summary, a kept checkout, caches, a drop box), *issues on GitHub*, and *exit codes*.
Nearly every hazard of the system is about one of these three: a file that an earlier,
killed or overlapping run left behind; an issue that another run opened or closed between a
look and an act; a code that means something else to its reader than to its writer.

### 1.1 Components

| component | source | state it keeps | operations | hard because |
|---|---|---|---|---|
| Budget guard | `scripts/budget_guard.py` | one JSON file: breaker (closed, open, half-open), streak of hard failures, token window | preflight, record, reset; reading a missing or damaged file | several jobs use one file; a job may never record; the bill comes after the permission |
| Nightly classifier | `scripts/nightly_audit_report.py` | none | gate codes, test count and promptfoo output to findings, outcome, exit code; the same from an untrusted evidence file | nine gates with different codes for "could not look"; one of them silent among many that answer |
| Nightly audit | `scripts/nightly-audit.sh` | the checkout kept from night to night, report and summary files | preflight, provision, ten steps in order, classify, record | killed by the cron job's timeout; `uv sync` repairs what a gate judges; early exits leave old files |
| Findings sync | `scripts/sync_findings_issues.py` | GitHub issues, one per label, found by a marker | look, open, comment, close | look-then-act without a lock; half-failed calls; closing on a gate that did not measure |
| Drift guards | `scripts/drift_issue.py`, `live_probe.py`, `recall_canary.py`, `regen_guard.py`, two workflow templates | GitHub issues, one per guard; the committed red-team set | probe, classify in three states, route | "did not run" must be neither a finding nor an all-clear |
| Improve loop | `scripts/improve-loop.sh`, `improve_acceptance.py`, `improve_loop_support.py` | its own budget file, the kept checkout, cached measurements, a journal, a branch | provision, measure, propose, judge, commit, report, push, draft | killed between any two commands; caches that outlive the commit they were measured on |
| Broker and Worker | `deploy/microvm/run-audit-cycle.sh`, `run-worker.sh`, `channel/` | drop box of run directories, budget file | preflight, boot one throwaway VM, receive evidence, poll, record | three processes and two timeouts; evidence is untrusted |
| Telegram intake | `scripts/telegram_intake.py`, the relay, the workflow | Telegram's update queue, issues | poll, acknowledge, process; webhook and dispatch | acknowledged before processed; redelivery |
| Server gates | `scripts/transport_boot_probe.py`, `rebind_probe.py` | the process under test, its port | derive the transports, start the target's command lines one after the other, wait for the port, speak MCP, ask under names that must be refused | the process forks, dies, hangs or answers late; the port was free only when it was chosen |
| Provenance | `scripts/probe_provenance.py` | the commit and `git status` of a checkout, taken twice | capture, recheck, withdraw the verdict | the tree changes while a probe reads it |
| Lockfile probe | `scripts/lockfile_probe.py` | none | read `pyproject.toml` and the locks, compare, ask the resolver | every file is read on its own, the resolver reads them again |
| Published artifact probes | `scripts/shipped_probe.py`, `yank_probe.py`, `published_probe.py` | none; a fresh venv per run | read two APIs of the package index, install, import, start, compare | the APIs and pip see a change each in its own time; any answer may be missing |
| Coverage and its driver | `scripts/coverage.py`, `coverage_run.py` | the outcomes of a sweep | read the manifest, leave out what is allowed, start one probe per target with a deadline, count | a target that silently falls out of the count; a code that means something else to its reader |
| Sweep of the nightly audit | `scripts/nightly-audit.sh` 202-301 | per-target records | one child run per target of its own list | the same |
| Other probes and scans | `identity`, `parity`, `doc_claim`, `spec`, `live_schedule`, `reference_drift`, `schema_field`, `value_domain`, `vendored_copy`; `portfolio_scan.py`, `pr_health.py`, `audit_pin_drift.py`, `dogfood_gate.py` | none | compare, classify, exit code | three- and four-way answers |
| Improve writer, notification, egress, provisioning, gateway, checks, promptfoo provider | `scripts/improve_writer.py`, `telegram_notify.py`, `deploy/`, `tensorzero/`, `scripts/checks/`, `promptfoo/` | outside the program | | not modelled, section 7 |

### 1.2 How they interact

    cron ──► nightly-audit.sh ──preflight/record──► budget file ◄── improve-loop.sh ◄── cron
                 │  gate codes                         ▲   (a file of its own)
                 ▼                                     │ record
        nightly_audit_report.py ◄── evidence ── _receive-one.sh ◄── Worker VM
                 │ summary (on disk until the next run)│
                 ▼                                     └── run-audit-cycle.sh
        sync_findings_issues.py ──► GitHub issues ◄── drift_issue.py ◄── weekly workflows
                                          ▲
                                          └── telegram_intake.py ◄── poll / relay

    nightly-audit.sh ──► transport_boot_probe ──► rebind_probe ──► the target's server, on a port
    coverage_run.py ──► lockfile / shipped / yank probe ──┬─► a checkout, which others write
                    one process per manifest entry        ├─► package index: Simple, JSON, pip
    published_probe.py --manifest (drives itself) ────────┘

All calls between scripts are processes with an exit code; the only call-backs are the
half-open trial of the breaker and the redelivery of Telegram. The exit codes are one family
(0 clean, 2 a finding, 3 nothing to measure, 4 the tree moved, 127 could not look), and
`nightly-audit.sh`, `coverage_run.py` and `published_probe.py` each read it in their own way.

### 1.3 What makes each component correct

* *Budget guard*: a streak at the threshold never leaves the breaker closed; the window is
  overshot by no more than the jobs already let in can cost; no job starts inside a
  cooldown; and the breaker never shuts for good.
* *Classifier and nightly audit*: the verdict is that of the worst answer; a gate that gave
  no answer is neither a pass nor a finding; evidence that lost a part is never read better
  than the whole; a repair made by the harness never hides a drift of the target; a summary
  on disk is that of the run that claims it.
* *Issue routing*: at most one issue per marker up to runs that overlap; closed only with a
  reason in it and only on evidence; a lasting finding is tracked again and again, whatever
  fails elsewhere, unless a call that never returns keeps its turn from coming.
* *Improve loop*: only edits of the suite are ever committed, whatever a killed run left; a
  verdict is the one D1-D3 deserve although measurements are cached; the report names what
  the branch holds; the bill of a run is bounded.
* *Broker cycle*: what is recorded as a success was delivered, whole, while the cycle was at
  work; silence trips the breaker; a cycle ends whatever its Worker and handlers do.
* *Telegram intake*: a request is filed once per handover; a failure costs only the update it
  struck, a crash only the batch of its run; every other request is filed in the end.
* *Server gates*: the exit code is about the target: green only when every transport it
  configures comes up and answers, red only when one does not, whatever a guessed flag did; a
  refusal is credited to the allow-list only when it is the allow-list's, on every network
  transport; both gates end, if need be by the bound that the nightly audit puts on them.
* *Artifact probes*: a claim about the index holds by every answer it gave; a clean verdict means
  that users get what was released, as far as the two could be compared; a release is named as
  broken only if a resolver would break it, and one that breaks is passed over for named reasons
  only; an import that works is not held against a package.
* *Provenance*: a verdict read from a checkout is of one tree, the one the report names.
* *Coverage*: a sweep that does not end in 1 has accounted for every entry of its manifest, and
  one that ends in 0 has no finding; a sweep ends, except where its probe waits without a deadline.

## 2. The modules

Every module is translated from the code; the comments in it say what a definition stands for.

| module | models | state | actions |
|---|---|---|---|
| `BudgetGuard` | the content of the state file and what each command turns it into | none (operators) | |
| `RunGate` | *abstract specification*: a gate with a hold lock and a spending lock | `held`, `spent`, `inside` | Enter, Refuse, Settle, Vanish, Lift, Second |
| `BudgetCircuit` | the state file shared by jobs that overlap | `guard`, `running` | Admit, Skip, Record, Abort, Reset, LoseStateFile, Tick |
| `NightlyReport` | the classifier, as pure operators | none | |
| `NightlyAudit` | one target, night after night | `guard`, run variables, `summary`, `last`, the checkout (`ref`, `lockfile`, `tracked`, ...) | launch (three ways), Provision, RunGate, Sync, Classify, Finish, Killed, Night, Push |
| `IssueSync` | one tracking issue per key, call by call | `tracks`, `explained`, `jobs`, `outages` | LeaveUntouched, Look, Call, CallFails, Die, CutOff, MaintainerCloses |
| `FindingsRouting` | summaries to labels to issues, on top of `IssueSync` and `NightlyReport` | `night`, `read` | Route, NextNight |
| `DriftRouting` | both weekly guards, on top of `IssueSync` | `weeks`, `committed`, `proposed` | Weekly, RouteWeek, MaintainerMerges |
| `BrokerCycle` | overlapping cycles, their Workers, the handlers, the drop box; on top of `BudgetGuard` and `NightlyReport` | `guard`, `cycles`, `vm`, `box` | SkipCycle, StartCycle, Boot, BootFails, WorkerEnds, Connect, Classify, EndSummary, Found, PollAgain, GiveUp, Record, KillCycle, Tick |
| `TelegramIntake` | Telegram's queue, the relay, the workflow's runs and their groups | `queue`, `webhook`, `waiting`, `runs`, `issues` | Arrive, SwitchMode, Deliver, DeliverFails, StartPush, Fetch, Acknowledge (and its two failures), Ignore, Handle, RequestFails, Reply, ReplyFails, Die |
| `ImproveLoop` | the weekly loop with its judge, on top of `BudgetGuard` | `guard`, suite, checkout, cache, run, remote branch | one per command that changes state, and Kill |
| `ServerProcess` | the process a gate starts, its port, `_terminate` | `proc`, `port`, `strays` | Listen, Fork, ChildListens, Exit, Die, Steal |
| `ServerBoot` | the transport boot gate, on top of `ServerProcess` | `target`, `boot`, `result`, `rc` | Derive, PickPort, Spawn, SpawnFails, Connected, ExitedUnheard, WaitTimesOut, Ask, Conclude, Raises, BootTimesOut |
| `RebindProbe` | the rebinding gate, which runs after `ServerBoot` against the same target | `rebind`, `heard`, `control`, `rebindRc` | StartRebind, PickPass, SpawnPass, PassConnected, NeverUp, Resolve, Probe, ConcludeRebind, RebindRaises, RebindTimesOut |
| `PackageIndex` | the releases on the index and how far each surface (Simple, JSON, pip) has seen them | `log`, `at`, `major` | Change, Propagate, ReleaseMajor |
| `Provenance` | a checkout that others write, capture and recheck | `tree`, `prov` | Capture, CheckOut, Edit |
| `LockfileProbe` | the lockfile probe, on top of `Provenance` | `lockfile` | one per file read, AskTool, LockfileRecheck |
| `ShippedProbe` | the shipped probe, on top of `PackageIndex` and `Provenance` | `subject`, `shipped` | ShippedCapture, ReadProject, ReadHistory, ReadChangelog, FetchSimple, FetchJson, Weigh, Install, Speak, ShippedRecheck |
| `YankProbe` | the yank probe, likewise | `yank` | YankCapture, FetchPage, LoadRequirements, FetchDependency, YankRecheck |
| `PublishedProbe` | the published probe over one distribution | `published` | InstallPublished, ScanModules, VerifyImports, CheckCaps, SmokeStart, Decide, FailPublished, HangPublished |
| `Coverage` | the manifest, its omissions, the allowed skips, the count | none (operators) | |
| `PortfolioSweep` | a driver over the four probes, target after target | `sweep` | ReadManifest, NoCheckout, StartProbe, Collect, TimeOut, Crash, Finish |

Composition: `BudgetCircuit`, `NightlyAudit`, `ImproveLoop` and `BrokerCycle` each own a state
file and apply the operators of `BudgetGuard` to it; the first is shown to implement `RunGate`.
`FindingsRouting` feeds the summaries that `NightlyReport` computes into `IssueSync`;
`DriftRouting` shares `IssueSync` and gives it its own answers; `BrokerCycle` classifies what
arrives with the operators of `NightlyReport`. `RebindProbe` extends `ServerBoot`: the second
gate starts where the first one ends; a child that outlived its leader stays on the port it had.
`PortfolioSweep` composes `Coverage`, the four probes, the index and the checkout: while a probe
is at work, releases are published and withdrawn, and the tree is checked out and edited.

### 2.1 From code to state

**Budget guard.** Timestamps are ages (`now - opened_at`, `now - window_started_at`), because
the code compares each with one limit only; ages and the streak stop growing at that limit.
One command (read, compute, replace the file) is one step. A job may end without recording:
every `hard_fail` of the callers exits before the record, and so does a kill.

**Nightly audit.** What a gate *experienced* (clean, defect, hung, unrunnable, crashed,
exempt, off, ...) is kept beside the exit code that `nightly-audit.sh` takes from it. `Code` is
the translation the script makes, `BuildSummary` what the report makes of the codes; the
property compares its outcome with the experiences, so both translations are under test. A gate
may also have died with a traceback (`crashed`) or seen the tree move under it (`moved`, exit 4);
only two gates have such a code rewritten to 127, and where none does, the property says so
instead of leaving the experience out.
The checkout is kept. `git reset --hard` is run only if `origin/<ref>` resolves, so `ref` says
whether the target is audited on a branch or at a tag or commit (`pinned`), and `Resets` where
the reset has an effect: it leaves a lockfile alone that the target never shipped (`tracked`).
`ProvisionedLock` is what the gate then finds; on a pinned ref that is what `uv sync` left the
night before. `Sync` is the re-locking of `uv sync`.

**Issue routing.** A routing run keeps the answers it started with, a queue of keys and the
calls it has planned for the first of them; between two calls anything may happen. A call may
fail and may have taken effect all the same. `Unroutable` keys model a permission that is
missing, `Stalling` keys a call that never returns (`sync_findings_issues.py` 231 opens its URL
without a timeout): such a run stops there until it is ended from outside (`CutOff`), and the
labels after it wait for another run. A maintainer may close an issue at any moment.

**Improve loop.** A tree is a set of edits: candidates (one test each, in `promptfoo/`) and
mutants of the pool (edits of the target's source). A commit is named by what it holds. The
judge is modelled by what it computes: which tests are red on a tree, with chance deciding
the flaky ones in each of the up to `2 + 2 + 2|Pool|` runs of the suite one judgement
makes. A kill may leave any of the edits that were applied at that moment. Caches are keyed
by the SHA, so they survive a run on the base commit and never match a new one.

**Broker cycle.** A cycle (`cycles[c]`) is one run of `run-audit-cycle.sh`: preflight and
snapshot, booting, waiting for its VM, polling the drop box, recording. `vm` says who waits for
the Worker that is up; all Workers boot with one vsock address, so there is one at a time, but
it may have lost its cycle ("orphan"). A run directory holds how far its handler is, the
verdict of the Broker's own classifier on what came through, and `fresh`, the cycles in whose
snapshot it is missing. A handler that is killed takes no further step; it is never relied on.

**Telegram intake.** A run of the workflow is in a concurrency group: the polls share one, each
update has its own. Of a group one run is at work (`runs`) and one may wait (`waiting`). A
poll fetches, acknowledges the newest id, and handles the batch in order; a dispatched run
handles its one update. A call that fails may have had its effect. `handovers` and `excused`
are histories that the properties compare with `issues`.

**Server gates.** A target is a value: what its own command line and a guessed flag do once they
are started (serve, fork and end, end with 0, fail, hang, print without end, not exist), what its
server answers to each MCP call, and what it makes of each name it is asked under, on each network
transport (`inbound[tr]`). An answer may be `Endless`: a socket timeout limits each piece of it
and nothing limits the whole. Over HTTP and SSE the gate is then stuck, as it is in `_drain`
while a process that does not listen goes on printing; `Stuck` names these states, and
`BootTimesOut` and `RebindTimesOut` are the `run_bounded` of the nightly audit, which may strike
at any moment. `boot.queue` is the set of
transports still to be tried (`First` says which comes next), `boot.attempt` the variant of the
command line, `boot.first` the
exit code of the target's own one, which alone decides what a transport that never listened
means. `Stopped` is `_terminate` with its early return: when the leader has ended, its group is
not looked at, and a child goes on as one of `strays`, on the port it was told of: the variants
of one transport share a port, so a stray may answer for a later variant, but not for another
transport (`FreePort`). One accident happens per gate: a server dies, an answer is late, or a
stranger takes the port; `disturbed` and `stolen` are histories.
The probe of the rebinding gate hears one outcome per case and pass; `PassVerdict`, `ControlOf`
and `CodeOf` are `_pass_verdict`, `probe_transport` and `classify`.

**Index and checkout.** `log` is the history of the releases, `at[view]` how much of it a surface
has seen, so `Served(view)` may lag behind and each on its own. An answer (`IndexView`) is a
page, a 404, or nothing usable. A checkout is a commit and the content of a few files;
`Porcelain` is `git status --porcelain`, which shows paths and not contents, and leaves out what
a probe itself writes. `first`, `shown` and `unseen` are histories: the tree at capture, what git
has shown since, and whether a change returned to something that it had shown before, which is
what the digest of `probe_provenance.py` documents as out of its reach.

**Probes.** Each probe is a record with a program counter and the part of its report that later
steps read; one step per file it reads, request it makes or process it starts. `subject` holds
what cannot change meanwhile: requirements of each release, how its modules import, what its
scripts do, tags, and what the log says of each commit. A version is a number, a requirement on
one dependency the major of its lower bound, the one that its upper bound keeps out, whichever
that is, and the majors that it excludes.

* `LockfileProbe`: a file is a version, or missing, unreadable, without an entry for the
  dependency (`Without`), or with one that cannot be compared (`Odd`).
* `ShippedProbe` reads the version (`ReadProject`), tags and log (`ReadHistory`), the CHANGELOG
  (`ReadChangelog`) and, when the code is compared, the sources, each at a moment of its own and
  from the tree as it is then. `git` may fail, which the code reads as no tags or no commits. The
  comparison of the code has limits of its own: nothing is compared when no package of the wheel
  pairs with the checkout, and it stops at a cap (`subject.built`, `subject.reached`).
* `PublishedProbe`: the scan passes over what lies within a package that did not import and keeps
  the first `KeptErrors` failures; each of these is tried again alone (`cold`) and after its
  package (`warm`), and either may give no answer. A script that still runs is told to end, and
  what it prints then is read for a traceback as well.

**Sweep.** `sweep.queue` holds the positions in the manifest that are still to come, after
omissions and skips (`Turn` is the first of them), `outcomes` what was booked; the exit code of a
probe is translated by `Classify`, and a deadline (124) or a crash (1) is a code like any other. A
probe of a distribution reads the tree the driver was started in, because the driver passes
`--dist` and no `--target`. `published_probe --manifest` drives itself and has no deadline: three
of its waits need not end, and `HangPublished` is that they do not.

## 3. The runs

| run | module | states | question |
|---|---|---|---|
| `budget_circuit` | `MCBudgetCircuit` | 632 | do two overlapping jobs keep the circuit breaker's and the window's promises, and is a run always let in again? |
| `nightly_audit` | `MCNightlyAudit` | 887,078 | is the verdict of a night that of its worst gate, whatever hangs, crashes, is switched off or is left from the night before? |
| `broker_cycle` | `MCBrokerCycle` | 301,191 | do overlapping, killed and silent cycles keep the Broker's record honest, and does every cycle end? |
| `telegram_intake` | `MCTelegramIntake` | 182,902 | do polls, dispatches and changes of mode file each request once per handover and lose nothing but what a dying run held? |
| `findings_routing` | `MCFindingsRouting` | 37,395 | do two syncs that overlap, fail and die keep the label issues honest and eventually right? |
| `drift_routing` | `MCDriftRouting` | 83,930 | do the two weekly guards keep one issue each, closed on evidence only? |
| `improve_loop` | `MCImproveLoop` | 86,001 | does the improve loop keep its promises over kills, restarts, merges and cached measurements? |
| `server_gates` | `MCServerGates` | 50,459 | is the exit code of the boot gate and of the rebinding gate about the target, whatever dies, hangs, forks or is late? |
| `portfolio_sweep` | `MCPortfolioSweep` | 332,154 | are the verdicts of the four probes deserved while index and checkout change, and does the driver account for every target and end? |

The remaining runs are the findings of section 6: each checks one sentence of the repository
that the code does not keep, and TLC shows the behaviour.

### 3.1 Bounds, and why they are enough

* `MCBudgetCircuit`: two jobs (the least that overlap); costs 0, exactly the ceiling, above
  it; a window of three ceilings, so it fills over several runs before it overflows;
  threshold 2, so that a streak has a middle; widths that pass each of the three fan-out
  caps on its own. Ages are bounded by the limits they are compared with.
* `MCNightlyAudit`: up to two gates of one run deviate (`MaxDeviations`). The outcome is
  decided by pairs: a gate without an answer against one with a defect; every pair of
  experiences of every two gates occurs. Threshold and cooldown 1: the guard's own
  arithmetic is the business of `MCBudgetCircuit`, here it only has to open and close, and a run
  costs nothing. The target ships no lockfile, one that agrees or one that has drifted, may change
  which between two nights, and is audited on a branch or at a pinned ref.
* `MCFindingsRouting`: all four labels, two syncs, three issue numbers (one more than the
  syncs, so a third duplicate would have a number), two outages (one per half of a close),
  and three nights that differ in what they say of each label: all clean, red, and not
  measured. One label is unroutable; the calls for another hang, with one before and one after
  it in the order of the labels. One sync is the cron agent's (`Scheduled`), one an operator's.
* `MCDriftRouting`: both guards at once, one outage, and one representative of each way a
  probe can report (`differed` and `differed_failed` give the same three signals, and so do
  `crashed` and a step that failed early).
* `MCImproveLoop`: five candidates, one of each kind and two that overlap in what they
  prove; two mutants, so that D3 has an order; three iterations and two keeps, so that the
  iteration limit and the keeps limit both end a run; a main branch that accepts two merged
  candidates (`MaxMerged`). The window holds one token and a proposal costs one, so a run
  that enters overshoots by its other iterations, which is the bound claimed. A branch is
  pushed once a day; a second push of the same day is refused, as by GitHub.

* `MCBrokerCycle`: two cycles, so that they overlap, and a box of two directories (`MaxBox`): a
  Worker that connects twice, an orphan's delivery beside that of the next Worker, an old
  directory beside a new one. When the box is full, a directory that no cycle at work can find
  makes room for the next. The settle window is one poll; threshold 2, so that a streak has a
  middle. The window is never anything but empty (end of section 6), so time passes only for the
  cooldown.
* `MCTelegramIntake`: three updates, two of them requests with a stranger's between them, so that
  a batch has an update before and one after a failure; two outages (a lost answer and a
  failure after it) and two changes of mode (push and back).

* `MCServerGates`: targets that differ in one respect at a time: every pair of what the own
  command line and the guessed flag do; eight servers that answer MCP differently, two of them
  without end, under all three transports; ten ways to treat the names, one of them an endless
  answer, with and without the knob in the tree; three whose two network transports treat them
  differently (`Uneven`); and two more, one whose transports each do something else (`Mixed`: what
  is left of one must not count for the next) and one that serves its tools without a handshake
  only (`Bare`). One
  guessed flag (`Flags`), because every later one takes the same branch. One accident per gate
  (`Accident`): the verdict of a pass needs all of its answers, so a second one changes nothing
  that the first has not.
* `MCPortfolioSweep`: two versions, so that there is an older and a newer one, and three majors,
  so that a bound or an exclusion may lie between two others or above them; one change of the
  index (`MaxChanges`) and two of the tree (`MaxMoves`), so that a change can come back; within
  one probe run the index changes or the tree does, not both: no probe reads one because of the
  other. Two commits whose requirements and locks differ, a directory that is
  no checkout, and a file that probes write themselves. For the lockfile probe any file may be
  rewritten with anything, a broken one included; for the shipped probe one edit each of
  `pyproject.toml`, the CHANGELOG and the sources, which it reads at three moments, and four
  histories: work that users see, none, housekeeping after an older tag, a breaking change without
  a tag. `KeptErrors` is 2 where the code keeps 24, with up to three modules that fail, one of them
  because its package does: what counts is that there is one more than are kept.
  Ten calls of a sweep: a manifest with two checkouts of which one is missing, an omitted null,
  an archived repository, an entry that cannot be read, skips by id, by name, without a reason
  and of nothing, and no manifest. The arguments passed on to `shipped_probe` are those of the
  driver: full depth, online, PyPI, no pin.

Counters without a bound in the code are bounded by `MaxDeviations`, `MaxOutages`, `MaxMerged`,
`MaxBox`, `MaxSwitches`, `Last`, `MaxChanges`, `MaxMoves`; the size of the index by `LastVersion`
and `LastMajor`; tokens by what the gate lets in.
Symmetry is not used: each model value plays a different part.

### 3.2 Mutants

Each property of a passing run has a mutant in `PROJECT.json`: a plausible slip in the code
(an off-by-one of the threshold, the close call before the comment, a gate that is not
counted, a cache keyed by the branch, `git add -A` without its path), written beside the
definition it would replace. TLC finds every one of them. `PipelineSyncFirst` is a second one of
`RepairNeverHidesDrift`, beside the listed `ProvisionedLockUnreset`: the property falls both when
the gate comes after `uv sync` and when the checkout is not reset.

## 4. Fairness

Safety is checked without fairness. Where a run checks liveness its specification is `FairSpec`
(`FairDriftSpec` for the weekly guards):

* `BudgetCircuit`: the clock runs; every job ends (each gate runs under `timeout(1)`, the cron
  job under `timeoutSeconds`, so a job records or dies); the nightly cron job comes back and
  asks the guard. Nothing is assumed of other jobs, of success, or of the operator.
* `FindingsRouting`: the cron agent routes each verdict (`nightly-audit.json`), and a run that it
  started goes on or is ended: its calls have no timeout of their own (`sync_findings_issues.py`
  231), but they are made in the turn of the agent, which ends after `timeoutSeconds` (`CutOff`).
  A run that an operator starts is owed nothing: it need not start, and may hang for ever. So
  nothing is promised of a label after one whose calls hang (`Reached`). Not assumed: that
  calls succeed (a bounded number fails), that any maintainer acts, that nights agree.
* `BrokerCycle`: a script that runs goes on, and a Worker ends by `BOOT_TIMEOUT` at the latest.
  Nothing is assumed of handlers: the settle window is counted, not awaited.
* `TelegramIntake`: Telegram delivers until it gets a 2xx, the schedule polls, GitHub starts what
  it has queued, and each call of a run returns or fails. Runs may die, but only `MaxOutages`
  times.
* `DriftRouting`: the schedule comes round, and each call of a routing step returns, fails, or
  hangs until GitHub ends the job at its time limit.
* `RebindProbe` (`FairGatesSpec`): a gate goes on where each of its waits has a deadline
  (`wait_for_port`, the reader of stdio, each connection and each piece of an answer, 5 s between
  SIGTERM and SIGKILL). The read of a whole answer (`transport_boot_probe.py` 1210, 1257, 1262)
  and `_drain` (1082) have none; where the gate is in one that need not end (`Stuck`,
  `RebindStuck`), it is not taken to go on, and what ends it is `GATE_TIMEOUT`, the bound that
  `nightly-audit.sh` (609, 652) sets on each gate. Elsewhere nothing is assumed of that bound,
  though it may strike. Nothing is assumed of the server: it may never listen, never answer, never
  stop answering and never end.
* `PortfolioSweep`: the driver goes on, and its deadline of 900 s per probe comes (`TimeOut`).
  Nothing is assumed of the probes it starts: a socket timeout does not end a page that arrives
  byte by byte. `published_probe --manifest` has no such driver. Its steps are taken to be
  taken as long as one can be, and one of them is `HangPublished`: the venv's own pip, a page of
  the index that drips, and the last `communicate()` (1011) have no deadline. `SweepEnds` excepts
  a sweep that hangs in one of these, and no other.

Weak fairness suffices everywhere: an action that a program is about to take stays possible
until it takes it. `NightlyAudit` and `ImproveLoop` promise no progress and claim none.

## 5. The proofs

All with tlapm, SMT and Zenon for the steps and LS4 for temporal reasoning.

| theorem | module | says | for every |
|---|---|---|---|
| `TypeCorrect` | `BudgetCircuitProofs` | the state file keeps its shape and range | limit, cost and set of jobs |
| `StreakAlwaysTrips` | `BudgetCircuitProofs` | `StreakTrips` | threshold, cooldown |
| `OverspendAlwaysBounded` | `BudgetCircuitProofs` | `OverspendBounded` | finite set of jobs, any cost up to `MaxCost` |
| `GateRefined` | `BudgetCircuitProofs` | `ImplementsGate`: the circuit implements `RunGate` | all of these |
| `NightTyped` | `NightlyAuditProofs` | the night's `TypeOK` | limit and cost |
| `VerdictAlwaysTheWorst` | `NightlyAuditProofs` | `VerdictIsTheWorstAnswer` | number of gates that go wrong at once, limit and cost |
| `EvidenceAlwaysFailsClosed` | `NightlyAuditProofs` | `EvidenceFailsClosed` | the same |
| `RepairNeverHides` | `NightlyAuditProofs` | `RepairNeverHidesDrift`, of a target audited on a branch | the same |
| `RoutingTyped` | `RoutingProofs` | `TypeOK` of tracker and runs | set of keys (unroutable and stalling ones too), runs and numbers, number of outages |
| `IssuesStayDeduplicated` | `RoutingProofs` | `DuplicatesBounded` | the same |
| `AlwaysClosedWithAReason` | `RoutingProofs` | `ClosedWithAReason` | the same |
| `AlwaysClosedOnEvidence` | `RoutingProofs` | `ClosedOnEvidence` | the same, and every set of nights |
| `OneIssueAlways` | `RoutingProofs` | `OneIssuePerGuard` | set of numbers, number of outages, ways the probes may go |
| `WeeksAlwaysCloseOnEvidence` | `RoutingProofs` | `WeeksCloseOnEvidence` | the same |
| `LoopTyped` | `ImproveLoopProofs` | the loop's `TypeOK` | pool, writer, limits and number of merges |
| `OnlyTheSuiteIsEverCommitted` | `ImproveLoopProofs` | `OnlyTheSuiteIsCommitted` | the same |
| `OverspendAlwaysBounded` | `ImproveLoopProofs` | the loop's `OverspendBounded` | the same, any bill up to `MaxBill` |
| `ReportAlwaysMatches` | `ImproveLoopProofs` | `ReportMatchesTheBranch` | the same |
| `VerdictsAlwaysDeserved` | `ImproveLoopProofs` | `VerdictsAreDeserved` | the same, and every mode |
| `GatesTyped` | `NightlyAuditProofs` | `GatesTypeOK` of both server gates | any set of targets, number of guessed flags |
| `CodeDeserved` | `NightlyAuditProofs` | `CodeIsDeserved` | the same |
| `RefusalsAttributed` | `NightlyAuditProofs` | `RefusalsAreAttributed`, on every network transport | the same |
| `SuccessAlwaysDelivered` | `BrokerCycleProofs` | `SuccessWasDelivered` | set of cycles, settle window and size of the box |
| `SilenceAlwaysTrips` | `BrokerCycleProofs` | `SilenceTrips` | the same, threshold and cooldown |
| `IntakeTyped` | `TelegramIntakeProofs` | the intake's state keeps its shape; one run waits per group | number of updates, outages and switches |
| `RequestsFiledOncePerHandover` | `TelegramIntakeProofs` | `FiledOncePerHandover` | the same, and any sets of requests and strangers |
| `NoRequestVanishes` | `TelegramIntakeProofs` | `NothingVanishes` | the same |
| `SweepTyped` | `PortfolioSweepProofs` | `TypeOK` of sweep, probes, index and checkout | portfolio, index and number of changes |
| `VerdictsAreOfOneTree` | `PortfolioSweepProofs` | `VerdictIsOfOneTree` | number of changes of the tree, commits, files, contents, manifest, index |
| `ShippedAlwaysDeserved` | `PortfolioSweepProofs` | `ShippedIsDeserved` | the same |
| `NamedReleasesAlwaysBreak` | `PortfolioSweepProofs` | `NamedReleasesBreak` | the same |
| `PublishedAlwaysDeserved` | `PortfolioSweepProofs` | `PublishedIsDeserved` | the same, any number of modules and of failures kept |
| `SweepAlwaysComplete` | `PortfolioSweepProofs` | `SweepIsComplete` | manifest, list of skips, crash and deadline |

`BudgetGuardProofs` holds the facts about the commands of the guard that the four models with a
state file share; its lemmas are cited there and nothing in them depends on who calls.

Assumptions are those the modules declare and TLC evaluates: limits are naturals, threshold, window
and cooldown at least 1; sets of jobs, runs and candidates are finite; candidates and mutants are
different edits; the labels of `_CLASSES` are among the keys and the scheduled runs among the runs
(`LabelsAssumption`), unroutable and stalling keys are keys (`SyncAssumption`), and each weekly
guard is a key with a run of its own (`GuardsAssumption`: one workflow, one marker); a full box has
at least one place; committed files have contents of the model, versions are numbers
(`VersionsAreNumbers`), no version is the mark of a file that is missing (`FilesAssumption`), and
the trees a sweep starts from, the edits under it, its manifests, the subjects of its probes and the
indexes they meet are of the model (`SweepAssumption`); a target says of each transport what its
command line does and of each call what its server answers (`BootAssumption`), and of each name in
each pass what it makes of it, under each network transport (`RebindAssumption`).

**Along which argument.**

*Budget guard.*

* `StreakTrips` is inductive together with the type invariant: the only step that lengthens the
  streak is a record, which trips at the threshold; the only step that closes the breaker
  clears the streak.
* `OverspendBounded` is inductive as stated, because it already charges every running job with
  its largest bill: admission needs `used < TokensWindow` and adds one job, a record turns a
  charge into a smaller bill. The proof needs cardinalities of `running` with one job more
  or less.
* `GateRefined` maps the breaker to the seconds it still holds. Skipping past an expired
  cooldown or window is a stutter or `Refuse`; a record is `Settle`, a lost file `Lift`.

*Nightly audit.* A fact about operators, that the classifier applied to the codes of what the gates
experienced answers as the worst of them did, meets an invariant of the run (`RunInv`): when a run
is classified every gate has come to its turn (`Progress`, which ties the gates that have answered
to what is left of the pipeline), and each experienced only what a gate of its kind can
(`Possible`). `Charged` names the two experiences that are no answer and are counted as a defect
all the same: a traceback where the code is not rewritten, and exit 4 of the shipped gate. TLC lets
two gates of a run go wrong; the theorem has no such limit. `RepairNeverHides` needs `Cloned`: on a
branch whose target ships a lockfile, the checkout's is the target's from the reset until
`uv sync` comes to its turn, whatever an earlier night left.

*Server gates.* Proved in `NightlyAuditProofs`, since the nightly audit starts them.

* `CodeIsDeserved` speaks of the end. `BootInv` speaks of an attempt at work: who listens on its
  port was started for this transport, unless a stranger came (`PortTells`, with the strays of
  earlier variants); the exit code of the own command line tells what that did (`CodeTells`), and
  `boot.first` carries it over the guessed flags (`FirstTells`); the answers so far leave open
  only verdicts that the server deserves (`AnswersTell`). So each verdict is deserved when it is
  given (`ResultsDeserved`), and at the end every transport has one (`Queued`). Two things came
  to light in writing it: a stray of one transport could answer for the next in the model, which
  no port allows; and the property took a stateless server, whose late handshake was passed over,
  for one that does not work. Model and property say so now, and `Mixed` and `Bare` are targets
  on which TLC refutes the older forms.
* `RefusalsAreAttributed` needs less: what a pass has heard is what the target makes of the names
  in their order, or silence (`HeardTells`); a pass that enforces has four answers and none of
  them silent, so it is the target's. Each conclusion is right when it is drawn (`ControlTells`),
  and none is missing at the end (`Covered`).

*Issue routing.* Both routings share one invariant of the machinery, `SyncInv`: what a run saw when
it looked is still true when it acts (`Sound`), whoever else was at work; the issue it found is of
its key or closed by now, a closing plan belongs to an answer of clear, and an issue about to be
closed is explained.

* `DuplicatesBounded` is not inductive: a run about to create adds an issue later. `Counted` says
  that the open issues of a key and the runs about to open one are together no more than the runs.
* `ClosedWithAReason` and `ClosedOnEvidence` follow from `SyncInv` and from what a run has read
  (`Informed`: its answers are those of the night it was started on).
* `OneIssueAlways` is `Counted` for the one run that may open an issue for a guard. That a week
  runs its own guard only, and that an answer of clear is still about this week, is `DriftInv`.

*Improve loop.*

* `OnlyTheSuiteIsCommitted` needs what may lie in the checkout: `loose` holds suite edits
  and mutants, never a candidate outside `promptfoo/`, because the judge checks the scope
  before it applies anything; and a candidate on its way to a commit has passed that check.
* `OverspendBounded` charges a run with the calls its iterations leave it (`CallsToCome`).
* `ReportMatchesTheBranch` needs `JournalInv`: what a run has committed, HEAD holds beyond the
  base of the branch, and nothing else as long as the checkout is not tainted.
* `VerdictsAreDeserved` is about a judgement, whose parts were measured earlier, perhaps by an
  earlier run. `Measured` says of every number that is kept, in the cache or in the run, that it
  is what the suite it is kept for would give again.

*Broker.*

* `SuccessWasDelivered` rests on `DeliveryInv`: a verdict other than a hard failure is only given
  to a whole delivery (a fact about the classifier), a directory that a cycle may find was made
  while it was at work, and what a cycle has read stays in the box until it has recorded.
* `SilenceTrips` is not inductive, because it says nothing of a streak below the threshold.
  `SilenceInv` says that every silent cycle in a row is in the breaker's streak.

*Telegram.* `FiledOncePerHandover` and `NothingVanishes` speak of issues already filed, and a run
that has its update in hand files later. The invariant keeps an account per update (`Accounted`):
its issues, the run that waits with it and the runs that have yet to handle it (`Ahead`) are
together no more than its handovers. That a poll pays into the account once needs `PolledIsGone`
(what a poll acknowledged is never queued again) and `BatchIsOld` (nothing still queued is older
than a batch to be acknowledged, so the offset, max + 1, acknowledges that batch and no more).
`Cared` is the other side: what left the queue has a run or an excuse.

*Sweep and probes.*

* `VerdictIsOfOneTree` speaks of a probe that has ended, so the invariant speaks of one at work:
  as long as git shows the tree as it was captured, and has shown no change that came back, the
  tree holds what it held (`TreeInv`) and all that was read so far is of it (`LockfileInv`,
  `ShippedInv`). A change keeps that because git shows it, or has shown it before, and that is
  what `unseen` records; the recheck compares before the exit code is taken, so a verdict that
  is not withdrawn is of an untouched tree. `Exclusive` says that the probes do not overlap:
  the sweep runs them one after the other. TLC checks it with two changes of the tree; writing
  the proof showed that the account of changes that come back was too weak for a third.
* The three verdicts about the index rest on `ReportInv`: what each probe claims so far follows
  from the answers it has in hand, not from the index, which has moved on. The newest release of
  a set is a `CHOOSE`, so first it has to exist: `GreatestOf` gets it for every finite set from
  the well-foundedness of strict inclusion, without an induction over data. For the shipped probe
  `Confirmed` says what holds of its claims, `Fits` of what was installed, and `Weighed` that the
  findings of the first depth outlive the second. For the published one `Imported` says what the
  verdicts over the imports tell of the modules.
* `SweepIsComplete` rests on `SweepInv`: a target that is no longer in the queue has an outcome.
  When the queue is empty every entry of the manifest is omitted, skipped or booked, and the
  exit code of an account that does not add up is 1.
* `TypeOK` comes last: the fields of a report have their shape because of what was read, so its
  proof starts from `ReportInv` and from the tree's invariant.

**Only model-checked**: all liveness (`KeepsAdmitting`, `EventuallyTracked`,
`WeeksEventuallyTracked`, `EveryCycleEnds`, `RequestsAreFiled`, `GatesEnd`, `SweepEnds`), which
is out of the prover's reach. Every invariant and every action property of a passing run is
proved. Induction over data is out of the prover's reach too: where a proof needs a fact about a
sequence that grows step by step (the box, the outcomes of a sweep), the invariant carries it from
step to step.

## 6. Findings

Met while modelling; each is a run that TLC refutes.

* `nightly_summary`: `hard_fail` calls the report script without `--lockfile`, which argparse
  requires; the failure is ignored, so an early exit writes no summary, and the cron agent
  reads the one of an earlier night.
* `nightly_lock`: for a target without a lockfile the gate of the second night judges the
  `uv.lock` that `uv sync` wrote in the first, because `git reset --hard` leaves it alone.
* `improve_unjudged`: a candidate that a killed judge left in the checkout is carried by
  `checkout -B`, committed with the next kept candidate and published.

Seen beside them, without a run.

*Guard and nightly audit.* A breach opens the breaker with a short streak; the trial that fails
after the cooldown leaves it half-open, and later runs pass (`budget_guard.py` 384, against
`docs/budget/guardrails.md` 64-65). A gate that is switched off exits 0 and counts as measured and
clear, so the issue it opened is closed (`nightly-audit.sh` 646). `hard_fail` ends a run without a
record, so an environment that fails before the gates never trips the breaker (348). The exit code
4 of the shipped gate, a tree that moved, is passed on as it is (737-742) and charged to the target
as a finding, which for the lockfile gate `nightly_audit_report.py` 212-216 calls exactly the error
that the code exists to avoid. A lockfile gate that dies with a traceback exits 1, is not rewritten
to 127 as the two server gates are (520-523), and is charged likewise. At a tag or a commit
`origin/<ref>` does not resolve, nothing is reset (486-489), and the lockfile that `uv sync`
repaired one night is what the gate judges the next.

*Findings sync.* No call has a timeout (`sync_findings_issues.py` 231): one that hangs keeps every
label after it unrouted until the run is ended from outside.

*Drift guards.* `generate.sh` may write nothing, and the artifact check finds the committed set of
an earlier week (`regen_guard.py` 205, against its docstring 47-51).

*Improve loop.* The call of the writer that ends the loop is paid and never recorded
(`improve-loop.sh` 168); a kill inside the judge of a later iteration may leave an edit on which
every later `checkout -B` fails (138); the branch for an open circuit (115-118) is never reached,
since `$?` after `if ! ...` is that of the negation.

*Broker.* Only the newest new directory is looked at, so a connection that delivers nothing hides
the delivery before it, and of two cycles that overlap both record one delivery
(`run-audit-cycle.sh` 83). The record carries no token figure although `promptfoo.json` lies in
the run directory, so in the microVM topology the ceilings that lines 6-8 say it wires cannot
trip.

*Server gates.* `_terminate` returns early when the leader has ended, so a child it forked
outlives the gate (`transport_boot_probe.py` 758, against its docstring 756); another process may
take the port between its choice and its use (1017). SSE is green without a `tools/list`; over
HTTP any failed `initialize`, one that is only late included, and not only "method not found",
leads to the attempt without a handshake (1389-1396). "Not configured" may be said although one
pass refused every hostile name (`rebind_probe.py` 746-791, against 76-80 and 85-87): where a list
is honoured with a token only, for instance. An answer without end, or a process that does not
listen and goes on printing, keeps either gate until the bound of `nightly-audit.sh` ends it
(`transport_boot_probe.py` 1082, 1210, 1257, 1262), and what the gate had started, in a session of
its own, lives on.

*Artifact probes.* The driver starts `shipped` and `yank` with `--dist` alone, so the comparison
is with the repository the driver was started in (`coverage_run.py` 229-247, against
`docs/probes/README.md` 86). A failed venv and a timeout of pip are findings (`shipped_probe.py`
1598-1635), against a docstring that says 127. An index that is not confirmed is said to carry no
claim (804-811), yet the comparison with what pip installed is made all the same; and a JSON
answer alone, whose newest version passes over a withdrawn one, gives a publish gap for a tag
that it lists. A `git log` that fails is read as "no commits", so that nothing is due
(`shipped_probe.py` 909), and a `rev-parse` that fails as a checkout that is not shallow, so that
tags that were not fetched are "no tags" (484). Where no package of the artifact pairs with the
checkout, or beyond the cap, the code is not compared and the run may end in 0 all the same
(1078, 1717-1743). Without a release that is not withdrawn, withdrawals without a reason go
unreported (`yank_probe.py` 885-892, against the exit codes in its docstring); a page of the
dependency that cannot be read means, silently, that no release is broken. A release with any
upper bound is passed over, one above the later major included (254, 725), and so is one that
excludes just the newest major (746). `published_probe` lets a
cap it could not look up pass as green, and reads nothing into an exclusion. It keeps the first
24 imports that failed (301), so that one behind 24 excused ones passes, and does not try what lies
within a package that did not import. A traceback that a server prints when the probe itself ends
it (784, 1006-1012) condemns a server that had announced itself.

*Coverage.* `published_probe --allow-skip` takes names that match nothing, which
`docs/probes/README.md` says are refused; in the contract of the identity probe 1 is a finding,
and an uncaught traceback ends in 1; repositories of one name and two owners share a checkout; in
the sweep of the nightly audit a target that was skipped counts as audited (`nightly-audit.sh`
206).

## 7. What is left out

* *Lost updates of the budget file.* Two commands at once may lose one of them
  (`budget_guard.py` 200 has no lock). No promise survives any number of lost updates, so one
  command is one step.
* `BUDGET_GUARD=off`, `IMPROVE_PUBLISH=0`: paths with less state than the ones modelled.
* Notification (`telegram_notify.py`), the improve writer's model call, wording of reports.
* More than 100 open issues of one label; reopening a closed issue.
* What is outside the program: firewall rules, image building, gateway containers, the
  evaluation inside promptfoo. Their results are inputs of the models.
* File-to-file comparisons without state: `scripts/checks`, the ruff pins, the dogfood gate, the
  identity, parity, document, schema, reference and vendored-copy probes, `portfolio_scan.py`.
  What reaches another component is their exit code, which `coverage_run.py` reads as it does
  those of the probes that are modelled. `pr_health.py` and `audit_pin_drift.py` answer once and
  keep nothing.
* The sweep that `nightly-audit.sh` makes over its own target list (202-301).
* How a command line is derived from a target's files, the parsing of TOML, HTML and JSON, the
  order of PEP 440 versions that are no final releases, extras and environment markers.
* A tree that changes in a way `git status` does not show: the digest covers paths, as documented.
* Torn writes of the state file are `LoseStateFile`; a torn journal line is skipped as in the
  code.

## 8. The plan

Order: what decides about money and about other people's repositories first.

1. *Done*: `BudgetGuard`, `RunGate`, `BudgetCircuit`; `NightlyReport`, `NightlyAudit`;
   `IssueSync`, `FindingsRouting`, `DriftRouting`; `ImproveLoop`; `BrokerCycle`;
   `TelegramIntake`; with the proofs of all their invariants and action properties.
2. *Done*: `Coverage`, `PackageIndex`, `Provenance`, `LockfileProbe`, `ShippedProbe`,
   `YankProbe`, `PublishedProbe`, `PortfolioSweep`; likewise.
3. *Done*: `ServerProcess`, `ServerBoot`, `RebindProbe`: the two gates that start the target;
   likewise.
4. The sweep of `nightly-audit.sh` over its target list; `pr_health.py` with its rate limit.
