# J.A.V.R.I.S. in TLA+

A verification development for the two programs in this repository: the
execution kernel (`src/JARVIS-MAIN/.../src/jarvis`, "the kernel") and the
desktop HUD (`src/JARVIS-GUI/.../src/javris`, "the HUD"). The modules here are
read from the code; TLC checks them on small instances, TLAPS proves every
safety property of theirs for every value of the constants.

Paths below are relative to `src/jarvis/` (kernel) and `src/javris/` (HUD).

## 1. Inventory

The kernel turns a request into a plan (a *playbook* of the catalog, or several
parts proposed by an LLM), asks its approval policy, runs the plan's commands
one by one, writes everything to an SQLite journal, and can undo what it did.
It is driven by a command line, by a stdio server (`jarvis mcp serve`), by a
loopback HTTP "doorway" (`jarvis serve`) and by timers. The HUD is one Qt event
loop that spawns the stdio server (or talks to the doorway) and puts a person
in front of it.

| component | state | operations | talks to | correct when |
|---|---|---|---|---|
| execution kernel `core/orchestrator.py` | kill-switch flag, the task it works on | run_intent, run_plan, undo, automatic rollback, signal handler | journal, policy, runner, planner | nothing acts without the consent its tier needs; what acted is journaled; a failure stops the plan; an undo is applied once and completely |
| journal `journal/sqlite.py` | tasks, steps, undo artifacts, notes | one committed call each | all processes share one file | the record is complete and honest |
| approval policy `safety/approval.py` | none | decide | prompt, `--yes`, `allow` | tiers 0, 1 pass, 2 asks, 3 never |
| subprocess runner `execution/runner.py` | the current child | run, terminate_current | the machine | every command ends, its process group with it |
| planner catalog `planner/playbooks.py`, `file_cmds.py`, `inspect_cmds.py`, `fileops.py`, `intent/` | none | build, undo, verify | kernel | the tier of a reverse step is not above the plan's |
| LLM planner, answers `planner/llm.py`, `knowledge/` | none | propose, answer | providers | proposals are only playbooks |
| provider breaker, failover `providers/breaker.py`, `router.py` | one JSON file, in-memory probe marks | allow, record, release | several processes | a circuit opens only when earned; a dead backend is left alone for its cooldown |
| skill packs `planner/skills.py` | pack and receipt files | install, remove, match | kernel | a pack without its receipt is never used |
| charters `safety/charter.py` | firing log, status, budget | precheck, record_firing, pause | timers, journal | budget is never exceeded; a paused charter does not fire |
| memory, context `memory/`, `context/` | files | remember, forget, feedback | planner | bounded, and what is forgotten is gone |
| brief, suggestions `brief/`, `suggest/` | notification ledger | run_once | journal, desktop | a briefing is not repeated |
| desktop actions `gui/` | none | open, focus, close, type | policy, backend, journal | consent before the act |
| stdio server `cli/mcp_server.py` | none between frames | preview, do, and read-only tools | kernel | strictly in order; `allow` is the only consent |
| doorway `cli/serve.py` | none; a thread per request | the same tools | kernel | a tool's failure is answered in band |
| HUD controller `controller.py` | HUD state, policy, prompt, staged and last requests, last plan | connect, lines, approve, decline, replies | client, consent, plan | both gates hold; the prompt shows what it approves |
| HUD client `bridge/client.py` | process, handshake, calls awaited | start, call, expire, stop | the stdio server | an answer reaches its own call |
| HUD resident client `bridge/resident_client.py` | address, readiness, calls | start, stop, dispatch | the doorway | nothing of an old connection reaches a new one |
| HUD attention `attention.py` | streaks, the alert | update | telemetry | one alert, no flapping, none missed |
| HUD voice capture `bridge/voice_client.py` | recorder process | start, cancel, timeout | an external recorder | one recording at a time, its file removed |
| HUD telemetry `telemetry/` | the samples before, the latest readings | sample | /proc, /sys | a rate is of one interval; what is not known is not shown |
| integrity `safety/integrity.py` | the baseline file | write_baseline, doctor | the files JARVIS obeys | clean exactly when the files in scope are those of the baseline |
| HUD command router, QML | none that matters | parse, draw | | |

What is hard here: several processes write one journal with one commit per
call, each may die between two commits; a signal may come between two commands
as well as during one; the rollback re-enters the undo handler in the middle of
another handler; the HUD keeps four separate fields about "the request at hand"
between event-loop slots, gives up calls the server will still make, and may
lose the server at any point. Around the kernel, most services keep a file or
two that is read, changed and written again with no lock, and that the owner
may edit by hand. On the desktop and in /proc the world goes on between a look
and the act that relies on it. `hazards` in `PROJECT.json` lists these at their
lines, with the properties that would notice, and says of those that have none why.

## 2. Modules

| module | models | proofs |
|---|---|---|
| `TaskLedger` | abstract: a task is opened, acts while open, offers a reverse path after its last act, is refused (inert) or closed; a reverse path is spent once | |
| `Orchestrator` | the kernel over its journal, policy and runner | `Orchestrator_proofs` |
| `OrchestratorInv` | its inductive invariant | `Orchestrator_proofs` |
| `HudConsent` | controller, client, both gates, the pipes and the server behind them | `HudConsent_proofs` |
| `ProviderBreaker` | the circuit breaker, its state file and its two users; its inductive invariant | `ProviderBreaker_proofs` |
| `Runner` | one command with its process group, its timeout and the kill-switch | `Acting_proofs` |
| `Charter` | a standing order between its timer and its owner | `Acting_proofs` |
| `Packs` | a skill or app pack and its receipt, from the draft to the use | `Acting_proofs` |
| `MemoryStore` | the memories, one file each, under a limit | `Stores_proofs` |
| `ContextLedger` | the context store with its hashes and digests | `Stores_proofs` |
| `Brief` | a briefing, its report, its notification and its ledger | `Stores_proofs` |
| `Desktop` | one action on a desktop that others use too | `Acting_proofs` |
| `Catalog` | the plans and undo plans of the playbooks, run and undone on a machine | `Catalog_proofs` |
| `Doctor` | the integrity baseline and `jarvis doctor` | `Stores_proofs` |
| `ResidentLink` | the HUD's two ways to a kernel, doorway and spawned, with its fallback | `HudLinks_proofs` |
| `VoiceCapture` | push-to-talk: recorder, transcriber, timer, cancel | `HudLinks_proofs` |
| `Attention` | the alert in the HUD's centre | `HudLinks_proofs` |
| `Telemetry` | counters, samples, rates, and what the HUD says of them | `HudLinks_proofs` |
| `MCOrchestrator`, `MCHud`, `MCBreaker`, `MCDesktop` | instances, bounds, documented claims | |
| `MCServices` | `Charter`, `Packs`, `MemoryStore`, `ContextLedger`, `Brief`, `Desktop`, `Catalog`, `Doctor`, `Runner` in one run | `Services_proofs` |
| `MCHudLinks` | `ResidentLink`, `VoiceCapture`, `Attention`, `Telemetry` in one run | `HudLinks_proofs` |

The components of `MCServices`, and those of `MCHudLinks`, share no state in the
program either: each has files or fields of its own, and what one does to
another (a task that appears in the journal, a reading that is high) is an input
of the other's module. So these two modules compose them side by side: `part`
picks the component a behaviour is of, and the others rest. No interleaving is
lost that could matter, and one run covers them all.

### Orchestrator

A process (a member of `Procs`) walks through the handlers by its label `pc`.
A step ends where the code commits to the journal or where something else can
come between, so a process that dies (`Die`) leaves exactly what was committed.
`status`, `steps`, `artifact`, `noted` are the journal; `plan`, `target`,
`granted`, `spawned`, `answer` remember what was asked and what became of it;
`cur`, `idx`, `term`, `intr`, `saved` are local to a process.

| code | actions |
|---|---|
| run_intent, run_plan up to the journal | `Submit`, `Built`/`NotBuilt`, `Gate` (cautious mode), `Approve`/`Decline`, `RefuseBegin`, `RefuseEnd`, `Begin`, `Snapshot` |
| `_execute` | `Install`/`InstallRaises`, `SkipStep`, `SpawnStep`, `NotStarted`, `ChildEnds`, `Signal`, `LoopEnds` |
| VERIFY, store_undo, finish_task | `Verify`, `VerifyRaises`, `Settle`, `Finish` |
| undo, `_maybe_auto_rollback` | `AskUndo`, `Rollback`, `CheckUndo`, `RefuseUndo`, `MarkApplied`, `MarkUndone` |
| surroundings | `Die`, `ToggleCautious` |

A plan is a record of what the kernel tells apart: tiers, number of steps,
which are optional, the reverse plan. run_intent takes the playbook's tier into
account, run_plan only the steps' tiers (`TierOf`, `Storable`), as the code
does. A rollback re-enters undo for the task at hand: `saved` holds the status
`_maybe_auto_rollback` returns to, and `Leave` is the return. The doorway's
request threads are `Doorway`: `signal.signal` raises there. The calls of one
commit with another in run_plan's refusal and in `_refuse_journaled` are the
same two commits (`RefuseBegin`, `RefuseEnd`).

### HudConsent

One action per event-loop slot. `staged`, `lastDo`, `lastPreview`, `lastPlan`,
`lastPlanReq` and `confirm` are the controller's fields; `proc`, `ready`,
`timer`, `pending` the client's; `inbox` and `outbox` the pipes, served strictly
in order by `KernelPlays` and `KernelAnswers`. What the fields *really* are
about is kept beside them (`about`, `lastPlan` holds the request the plan
describes), which is what `PromptMatches` compares. `asked`, `acked`, `waived`,
`consents`, `executed` count what has happened. The kernel's decision is
reduced to the tier of the request and `allow`; it may also refuse, fail or not
match a request at any time (skills, inputs and the machine change).
`hasty` says that the owner has dispatched a line before the previous one was
settled: the controller does nothing to prevent it, and several properties
hold only as long as the owner does not.

### ProviderBreaker

An invocation (of a process in `Procs`) reads the state file once (`Start`),
asks `allow` before each call (`Call`, `Denied`), and ends with at most one
recorded outcome. `jarvis ask` goes through `complete_with_failover`: several
candidates, a retry of the first (`CallFails`, `GiveUp`); `jarvis explain`
through `guarded_complete`: one candidate, no retry. `CallReturns` is the
answer with what becomes of it: usable, an honest "cannot", malformed.

| code | variables, actions |
|---|---|
| breaker.state | `file`, `torn`, `clash` |
| `_records`, `_probing` of a `ProviderBreaker` object | `mem`, `probing` |
| `allow` | `Allows`, `MarkProbe` |
| `record_failure`, `record_success` | `Record` up to the truncation, `Write` the rest; `RecordNothing` where nothing is saved |
| `_ask_flow`, `answer_with_ai`: whom to blame | `verdict`, set by `GiveUp` and `CallReturns` |
| a kill, Ctrl-C | `Die` |

A record keeps its failures up to the threshold (more change nothing) and the
age of `opened_at` up to the cooldown (an older one changes nothing): both
saturations lose no behaviour. `release_probe` has no action: after it an
explain invocation never asks `allow` again. Two writers may leave a file that
does not parse (`clash`); a file that does not parse is read as empty. `heard`,
`failed`, `strikes`, `clean`, `asked` remember what really happened and are
read by no guard.

### Runner

What `Orchestrator` takes for one step (`SpawnStep`, `ChildEnds`) in detail: a
command with its leader, a helper in its group and a stray that has left it,
which fork, close their pipes, ignore SIGTERM and exit as they like.

| code | actions |
|---|---|
| _prepare_argv, Popen, echo | `NotStarted`, `Popen`, `TakesHold`, `EchoFails` |
| communicate, the timeout, the grace period | `Returns`, `TimesOut`, `GraceEnds` |
| terminate_current, in the signal handler | `SwitchPulled`, `SwitchReturns`, `SwitchKills` |
| an interrupt without the handlers (verification, voice) | `Abandoned` |
| _kill_group | `Terminated`, `Killed`, or `Refused`: a PermissionError |
| the processes | `Forks`, `LetsGo`, `Exits` |

It has no constants, so the run covers it exhaustively; it is proved all the same.

### Charter

`fpc[p]` is the label of a firing process, `opc` of the owner's command; a
change of the state file is a read and a write of the whole, with no lock.
Safety and budget count over the same journal (`tasks`), of which the last
`Window` are looked at and the first `aged` are older than a month.

| code | actions |
|---|---|
| `charter run`, precheck | `Fire` (the contract is read), `NotActive`, `Clear`, `Refuse` and `WritePause` |
| the request as a task of the kernel | `Begin`, `NoTask`, `DryRun`, `End` |
| record_firing | `Record` (read), `WriteRecord` |
| `charter pause`, `resume`, `revoke` | `Ask`, `OwnerWrites` |
| `charter install`, an editor | `Install`, `Edit` |
| surroundings | `Crash`, `OtherTask`, `Age`, `CatalogMoves` |

### Packs

One pack, of either `kind`. A receipt is the bytes it was taken of.

| code | actions |
|---|---|
| install of a skill or app | `Show`, `Declined`, `Vet`/`VetFails`, `Truncate`, `WritePack`, `Pin` |
| remove | `RemovePack`, `RemoveReceipt` |
| grow: drafts, prune, export | `DraftSkill`, `DraftFact`, `Prune`, `Export` |
| match_skill, load_packs | `Look`, `ReadBytes`, `ReceiptOk`, `Use`, `Skip`, `Served` |
| surroundings | `Quits`, `EditPack`, `EditSource` |

The matcher of skills reads the pack three times (to validate it, to hash it, to
use it) and the loader of apps once: each read is an action.

### MemoryStore, ContextLedger, Brief

`MemoryStore`: list_memories is `Glob` and one read per file; remember goes on
with `Room`, `Full` or `ReadRaises`, then `Create` (the file is there and
empty) and `Fill`; forget is `Forget`, `Unlink`, `Forgotten`. `ClientDies`
leaves an empty file.

`ContextLedger`: each write is one SQLite transaction, so one action: `Put`
(record_feedback, set_preference, add_rule: the row, its hash, the digests of all
tables), `Remove`, `ForgetEverything`. `Outside` is somebody else's write to the
file. verify_integrity is a series of reads: `BeginVerify`, and for each table
`ReadRows` (with `ContentOk`) and `ReadDigest` (with `DigestOk`), between any two of
which another process may write; `alarm` is its answer. `truth` remembers what the
store was told, `midway` that it wrote a table between its rows and its digest,
and `drifted` are the rows that have been visibly wrong since it began.

`Brief`: run_once is `Compose` (decide), `EmptyLatest` and `WriteLatest` (the file is
truncated and then filled), `Notify`, and one line of the ledger
(`RecordNotified`, `RecordSilence`); `RunDies` between any two.

### Desktop

`Aim` finds the target and discloses it; `Approve`, `Deny` are the policy;
`Recheck`, `RecheckFails` are _recheck_focus. Then the mechanisms: `Activate`,
`CloseFirst` (the backend called while close prepares its command), `CloseAgain`
(the command), `SetText`/`SetTextFails` (AT-SPI) with the fallback `Inject` and
`InjectEnds`, or `NothingLeft`; `RunApp`, `Shoot`. `VerifyRaises` is the look after a
focus that fails, `Note` writes to the journal, `Return` ends, `Kill` dies (or an
exception of the runner or the journal leaves). `FocusMoves`, `Opens` and
`Disappears` may happen between any two of them; `strayed` are the windows that
came into play after the last look.

Between its looks the code remembers a title. `Twins` are the windows of the same
title, which pass _recheck_focus; `Containing` those the search by a text may also
find; `Matching` those the title matches where the window manager takes it as a
pattern, which it need not do for its own window; `Hits` is what a backend then finds.

### Catalog

The operators `Mkdir` ... `SysInfo` are the builders of the playbooks: refusals, steps
and undo plan out of what they find in `world`. `Plan` puts both into the
journal; `Step` runs one command of the plan, `StepFails` ends it, `Undo`
revalidates, runs and verifies the reverse command. Between a plan and its
steps other plans may run, and may leave a world the first did not plan for.
A file is a number of lines, a directory a number of things in it; where nothing
is (`Nothing`), the number of directories that are missing above; the paths of a
behaviour are not nested in each other and share no missing directory.
`backup` is the one backup file_cmds keeps per path.

### Doctor

`disk` is what the files in scope and beside it hold. write_baseline is
`BeginBaseline`, `Hash` per file (`HashRaises` where a file goes between is_file and the
read of its bytes), `WriteBaseline`; `jarvis doctor` is `BeginDoctor`, `Compare` per file (`Lost` where a file went between the listing
and its hash: the exception leaves verify), `Verdict`. `Change` is the world,
`moved` says that the scope changed under a command. `Suspicion` is what
verify_integrity of the context store says.

### ResidentLink

An action is one slot with the signals it emits on the way, which Qt delivers at
once. `transport`, `attempt` are the controller's, `rready`, `token`, `probes`,
`calls` the resident client's, `kproc` the spawned kernel's.

| code | actions |
|---|---|
| connectAgent, its refusals | `ConnectResident`, `TokenVanishes`, `ConnectKernel` |
| the health probe's reply | `Healthy`, `Unhealthy` (with `_on_kernel_disconnected`: the fallback) |
| calls and replies | `Call`, `Reply`, `Rejected` (401: the token changed) |
| the spawned kernel | `KernelUp`, `KernelGone` |
| disconnectAgent | `DisconnectResident`, `DisconnectKernel` |
| cli/serve.py | `DoorOpens`, `DoorCloses`, `TokenRemoved` |

A probe is not in the client's list of replies, so nothing cancels it; `late`
says that one was answered after its connection had been stopped.

### VoiceCapture, Attention, Telemetry

`VoiceCapture`: `StartCapture`, `NoCapture`, `Cancel`, `TimesOut` are calls;
`Recorded`, `Transcribed`, `Fails`, `HeardByNobody` the signals of a process,
handled by whatever the client holds by then; `Ends` is the process's own end.
A killed process is waited for two seconds. `Breaks` is an error other than a failed
start, on which the client drops its process without killing it. `loose` says
that a process was let go of while it ran, in either way or because it was slow
to start.

`Attention`: `Poll` is update with a sample, `SetMode` the controller's change
of mode, which evaluates the same sample again. A level is one of a few around
the thresholds; `polled` counts, without reading the code's streaks, for how
many samples a metric has been high and peripheral.

`Telemetry`: sample with everything it calls, and `_poll`, are two actions:
`BeginPoll` reads the clock and the cores, `EndPoll` the network, behind the disks,
which may hold it up; what is in between is `sampled`. `Works`, `IowaitFalls`,
`Hotplug`, `Traffic`, `Leaves`, `Arrives` (with a count, if it comes from another
namespace), `SourceFails`, `Passes` are the machine and go on meanwhile. `worked`
adds up what the cores did since a reading began, `moved` the bytes since the
network was last read; `truth` is what the snapshot shown should be of.

## 3. Runs

| run | instance | shows |
|---|---|---|
| `orch_safety` | 2 processes that may die, 3 task ids, plans of one step (a tier-2 one with rollback, a tier-3 one) | consent, journal and undo, the inductive invariant, and that the kernel implements `TaskLedger` |
| `orch_steps` | a main thread and a doorway thread, 2 task ids, plans of two steps, optional steps, rollback | records are complete, a failure stops the plan, a begun intent finishes |
| `hud_gates` | three requests (irreversible, irreversible tier 2, tier 3) of which two in a behaviour, 4 calls | both gates |
| `breaker` | two processes, two backends, threshold 2, cooldown 1 tick, ask and explain, kills at any point | who may be called when, and whose circuit opens |
| `services` | two firings; two installers; two commands, four memories, limit 2; two tables; two briefings; three windows, two of one title; two tasks over two paths or two packages and a unit; three files; one command | the services beside the kernel |
| `hud_links` | two tokens, two probes and two calls at once; five processes; two metrics, four levels, three modes; two cores, two interfaces, four changes | the HUD's links, dictation, alert and readings |
| `v_*` | | violations, section 6 |

Bounds. *Tasks* are drawn once each; three are needed for a task, its undo and
a rival undo (or two tasks and a rollback). `CanDraw` keeps an id for each
rollback that may still come, so that a process never waits for an id the
program would simply draw. *MaxSteps* 2 has a first, a last, an optional and a
skipped step; the handlers never look further than one step ahead. *Procs* 2:
the journal is the only thing processes share, and the proof covers any number.
*MaxCalls* 4 covers preview, do, refusal, do with consent: all of one request,
or two requests that overlap. `Room` keeps an id for the do that follows a
preview and for an approval, so the bound never separates a preview from its do.
`SYMMETRY` permutes tasks and processes in `orch_safety` only: it has no
liveness property, and no definition distinguishes them. `VIEW GateView` drops
what no guard reads (the displayed state and, of each counter, all but the
differences the invariants compare); TLC then identifies only states with the
same future and the same verdict of `GateTwo`, `PromptMatches`, `OncePerAsk`,
`ConsentIsSpent` and `PromptIsLive`. When `hasty` is set only the kernel's
consent is still compared. `TwoRequests` keeps a behaviour to two of the three
requests: every property is about one request, and the other is what the four
fields of the controller may mistake it for.

`breaker` has a *Threshold* of 2, the smallest at which a circuit can be half
way to opening, and a *Cooldown* of one tick, which has a before and an after;
two backends give a primary and a failover, two processes an overlap.
`RemoteWorks`: where invocations have overlapped or been killed while they wrote
(`clean` is false), the second backend has not failed; both failing at once is
covered while invocations keep apart, and by the proof. There is no symmetry:
the constraint tells the backends apart. `v_dead_left_alone` uses the code's
threshold of 3.

`services`. *Firings* 2, *Budget* 1, *MaxTasks* 3: two firings that are cleared
at the same moment, a budget that is used up, and a third task beside it. The
journal never outgrows *Window* here: beyond it the count forgets firings, and
`BudgetHolds` promises nothing. `FewTasks`: the contract and the catalog stay as
they are while two firings overlap or after the first task. *Installers* 2, and
the matcher beside at most one (`FewAtOnce`); contents are good, another good
one, one that passes the schema but not its cases, and a bad one, which are all
the verdicts there are. *Entries* 4 over *MaxMemories* 2: the limit, one over,
and a command that thinks there is room. `FewLines`: a file is empty, changed
and changed again. `FewStray`: one window at a time comes into play under an
action; `FewValues`: one of the context store's keys has a single value, and at
most one row at a time is not what the store was told. Three windows: two of one
title, and one whose title, taken as a pattern, matches the other two and not itself. A path may lack its directory, so that
`mkdir -p` makes it.
What the constraints leave out is covered by the proofs, which know none of
them.
`CHECK_DEADLOCK FALSE`, here and in `hud_links`: a behaviour is over when its
bound (tasks, lines, starts, changes) is used up, or when a command is. `View`
drops the variables of the resting parts, which stay what they were initially.

`hud_links`. *Tokens* 2 (a doorway that was restarted), *MaxProbes* and
*MaxCalls* 2 (one of the old connection, one of the new), *MaxStarts* 5 (two
captures of two processes and one more), four *Levels* (one on each side of each
threshold), streaks of three as in the code, *MaxChanges* 4 between, around and
during any number of polls: a core or an interface that leaves, returns and works
in between takes three. *Carried*: an interface comes with no bytes or one.

Deadlock is checked in the other runs, where it says little: a process that is
idle can always toggle cautious mode, the HUD can always change its policy,
and time can always pass; that begun work ends is said by `IntentsFinish`.

Properties of the kernel:

- `EffectsAuthorised`: a command runs only with the consent its tier needs,
  through every path (`skip_consent`, refusals, the four computations of a tier).
- `RefusedIsInert`, `EffectsJournaled`, `JournalIsHonest`, `FinishedIsComplete`,
  `NothingAfterFailure`: what the journal says of a task is what happened, and
  what happened is in the journal even if the process died.
- `UndoneIsBacked`, `HistoryIsKept`: a consumed artifact has an undo task whose
  reverse steps did not fail behind it, and is never available again.
- `LedgerSpec`: refinement of `TaskLedger`: a task acts only while it is open,
  and never after its reverse path was offered.
- `IntentsFinish` (liveness).

Properties of the HUD:

- `ConsentIsSpent`: however the owner hurries, a tier-2 request runs at most
  once for each approval of its own text at the kernel's question; tier 3 never.
- `GateTwo`, `OncePerAsk`, `PromptMatches`: for an owner who settles one line
  before the next, irreversible requests are acknowledged each time they run, a
  request runs at most once per line, and the prompt shows the plan of the
  request it names. Abandoned calls, late answers and restarts are included.
- `PromptIsLive`: a prompt never outlives the process it is about.

Properties of the breaker:

- `OpenIsEarned`: a circuit is open, in the file or in an invocation, only for a
  backend that failed in as many invocations as the threshold says, in spite
  of lost updates, torn files, kills, and failures charged to a primary that was
  not called. The failures need not be consecutive: a stale write-back may undo
  a success of another process.
- `StormGuard`: within an invocation only the primary is called twice, only
  after a failure, never while half-open.
- `ExplainLeavesAlone`: as long as only explain is used, invocations do not
  overlap and none is killed while it writes, a backend that failed often
  enough in a row is not called before the cooldown is over, counted from its
  last failure. For ask the same is false, section 6.

Properties of the services:

- `HaltHolds`: a pause, a revocation or a failed firing holds until the owner
  resumes or installs, though a firing on its way rewrites the whole file. It
  excludes two changes that overlapped (`raced`): there the last write wins.
- `BudgetHolds`: never more firings in the window than the budget and one for each
  other firing cleared at the same moment, while the journal is no longer than
  what the count looks at.
- `UsedIsVetted`: the matcher uses only packs that passed every check of their
  kind, whatever crashed, raced or was edited; for a skill the last check is not
  the last read, and a pack swapped between the two is used.
- `MemoryBounded`: the limit is passed by fewer memories than there are commands.
- `HonestUseVerifies`, `DriftIsReported`: verify_integrity raises an alarm over the
  store's own writes only if one fell between the rows of its table and their
  digest, and reports a row that was not what the store was told from its first
  look to its last, but for three kinds it cannot see.
- `LatestIsLedgered`: the report on disk is the one the ledger last says was notified.
- `AskedBeforeActing`, `ReachesTarget`, `ActionIsRecorded`: consent, target and
  record of a desktop action, on a desktop that goes on changing and with
  mechanisms that fail over. focus never asks, and close acts once before it does.
  A window that was not disclosed is reached only if it came into play after
  the last look, or if its title misleads the code (`Mistaken`). Not recorded are a
  focus whose second look raises and a close whose first call was all.
- `UndoRestores`: an undo that reports success has put the machine back, however
  far the task got. `NotAllowedFor` lists the seven cases in which it does not
  (section 6).
- `DoctorIsRight`: clean exactly if the scope is the baseline.
- `GroupIsCleanedUp`: after a timeout or the kill-switch nothing of a command's
  group is left but what ignores SIGTERM; where run waits without a limit the
  group is dead; a command that raises while it runs is one that cannot be
  signalled, or had no switch or terminal.

Properties of the HUD's other parts:

- `LinkIsHeld`: the resident link is up only as the current transport and with a
  token, so that no call goes out without one and no disconnect misses it.
- `NothingLeftBehind`: audio is on the disk only under a capture, and nothing
  records but the process held, unless one outlived its kill, was slow to start
  or was let go of on an error.
- `CentreIsRight`: the alert is known, peripheral and at the level shown or on its
  way out; and nothing stays high for the samples that raise it while the centre
  is empty.
- `ShownIsMeasured`: the load shown is what the cores did between the last two
  readings of them, all of it and nothing else, however they came and went. A
  rate is of the bytes between the last two readings of the network, with those
  an interface brought along, over the seconds between the two beginnings: the
  two intervals differ by as much as a reading was held up in between.

Each property has a mutant of the code, an operator `Mut_...` beside the
definition it changes, under which TLC finds the property violated in the same
run: `PROJECT.json` names them.

`GateTwo` counts as waived what the code sends without a question on purpose:
everything under KERNEL_ONLY, and a request whose preview failed inside the
kernel (there is no plan to judge, and the kernel's gate remains).

## 4. Fairness

`FairSpec` assumes weak fairness of `Step(p)` for each process: a process that
was asked goes on. The runner's timeout (TERM, then KILL after a grace period)
ends every command it may signal and whose pipes end with its group; `Runner`
shows which do not (a root command, a process that has left the group with the
pipes), and the assumption is that these end by themselves;
the prompt is read by a person who is assumed
to answer; SQLite calls return or raise. Nobody has to ask, to signal or to die,
and `orch_steps` has no deaths: a death leaves a task "running" for ever, by
design of the journal (`TaskLedger` therefore promises no closing). The other
modules state no fairness: their properties are safety, and the code has no
scheduler that would justify more (a person, a timer of systemd, a remote
model, a window manager).

## 5. Proofs

Every invariant and every action property of a passing run is a theorem, for
every value of the constants that satisfies the assumptions of its module; so
is the refinement. One module of proofs goes with each part of the system:

| module | about | theorems |
|---|---|---|
| `Orchestrator_proofs` | the kernel | `Invariance`, `ConsentTheorem`, `RefusalTheorem`, `JournalTheorem`, `HistoryTheorem`, `StopTheorem`, `CompleteTheorem`, `HonestyTheorem`, `UndoTheorem`, `Refinement` |
| `HudConsent_proofs` | the HUD's gates | `TypesHold`, `LivePrompt`, `ConsentSpent`, `PromptRight`, `PlayedOncePerAsk`, `GateTwoHolds` |
| `ProviderBreaker_proofs` | the breaker | `BreakerInvariance`, `EarnedTheorem`, `StormTheorem`, `DeadTheorem` |
| `Acting_proofs` | charters, packs, the runner, the desktop | `HaltTheorem`, `BudgetTheorem`, `PacksTheorem`, `RunnerTheorem`, `DesktopConsent`, `DesktopAim`, `DesktopRecord` |
| `Stores_proofs` | memories, context store, brief, doctor | `MemoryBoundTheorem`, `HonestTheorem`, `DriftTheorem`, `BriefTheorem`, `DoctorTheorem` |
| `Catalog_proofs` | plans and undo plans | `UndoRestoresTheorem`, `CatalogTypesTheorem` |
| `HudLinks_proofs` | link, dictation, alert, readings, and the four together | `LinkTheorem`, `VoiceTheorem`, `CentreTheorem`, `MeasuredTheorem`, `HudLinksTheorem` |
| `Services_proofs` | the nine services together | `ServicesTypesTheorem`, `ServicesTheorem` |

Everywhere the argument has the same form: an inductive invariant that contains
or implies the property, one lemma for each action that can disturb it, and
one temporal step. What follows is why the invariants are stronger than the
properties.

### The kernel

For any sets of processes, tasks and requests and any plan length, from
`RequestsAssumption` (a plan's tier is not below its reverse plan's: the
catalog's property that skip_consent relies on) and `IdsAssumption`.
`IInv == Control /\ Records /\ Progress /\ Backed` is in `OrchestratorInv`, and
TLC checks it in `orch_safety`.

- `Control` (why the kernel may act): `Held`, a process that is not idle holds a
  task that was drawn and not answered, and one that rolls back will come back
  to the task it rolls back; `Apart`, two processes never work on the same task,
  nor does one roll back a task the other works on; `Drawn`, an id not drawn has
  left no trace; `Traces`, what an artifact and a started command say of their
  task; `Place`, for each label, the status of the task, whether it has acted, is
  authorised and noted. `EffectsAuthorised` is not inductive without `Place`: a
  command is started long after the policy was asked.
- `Records` (what the rows say) and `Progress` (where the loop is): the loop's
  index separates the rows that are written from those that are not, and the
  verdict a process carries tells whether a required step failed. From them
  `NothingAfterFailure`, `FinishedIsComplete` and `JournalIsHonest`.
- `Backed`: behind a consumed artifact there is an undo task whose rows are all
  good, and whoever still works on it has only the good end left. From it
  `UndoneIsBacked`; the existential has a witness that moves: a rollback that
  marks the artifact makes its own undo task the one.

`Refinement` (`Spec => LedgerSpec`) maps each action to a step of the ledger or a
stutter; `HistoryTheorem` follows from `Control` step by step.

### The HUD's gates

For any requests, any profile of them and any number of calls. However the
owner hurries: `Typed`, `Fresh` (an id is used once, and the frames wait in
the order they were sent), `Live` (readiness, awaited calls and a prompt all
imply a process that is up) and `Spent`: `ConsentIsSpent` is not inductive,
because a frame that waits in the pipe will be played, so it counts as if it
had been. Frames are counted by the ids of those that wait (`Waiting`), which
makes a step of the server one element less.

While one line is settled before the next (`~hasty`): `Serial` says that there is
one call at a time and none under an open prompt, that what is in the pipes
under the awaited id is about the request on record, and that prompt and plan
agree with the record; from it `PromptMatches`. `Debts` charges to each line asked
for what was played, what waits to be played, and one more while a refusal is on
its way, a prompt is open or a preview is awaited (`Owed`); for what cannot be
undone it charges the same, without the lines not acknowledged yet, to
acknowledgements and waivers (`Due`). From it `OncePerAsk` and `GateTwo`.

`TypeOK` bounds every counter by `MaxCalls`, which no step keeps by itself:
`Bounds` says that an awaited call and an open prompt already stand for the
count they may become.

### The breaker

For any processes, any finite set of backends, any threshold and cooldown.
`Counted` (no record counts more failures than there were) is not inductive
alone: a failure is charged to the primary whatever the last candidate did, so
`Blamed` says that whom an invocation will blame has failed in it or is open
already, and `Probed` and `Placed` say where it is in its candidates and what it
has marked. TLC checks this invariant in `breaker`. `DeadTheorem` needs one
more, `Mirror`: without ask, and as long as no invocations overlap and none was
killed at the file, one invocation is on at most, what it remembers and what
the file says are both `strikes`, the true record of failures in a row, and what
it will record is what it heard.

### What acts

- Charters: until two changes overlap (`raced`) there is one writer, and what it
  has read is what the file says (`OneWriter`), so that what it writes back
  loses no pause. `BudgetKept` counts the firings that count together with those
  that are cleared and have not begun: each was cleared while fewer than the
  budget counted, so all of them exceed it by fewer than may fire.
- Packs: a receipt is only taken of bytes that passed every check, and between
  its reads the matcher knows the pack unless somebody wrote it (`Receipted`,
  `Matched`).
- Runner: once the group was struck, what is left of it ignores SIGTERM, and a
  process that does not end forks only such ones (`Struck`); before the command
  is held there is nothing to strike (`Early`).
- Desktop: for each label what was asked and done (`Place`), and what a
  mechanism would reach (`Aimed`): while a window is to be focused or closed, no
  other whose title contains its title but a stray; once the focus was
  checked, only a window of the same title or a stray has it. So a backend finds
  the target, a stray, or what merely matches the pattern (`HitsAre`).

### What is kept in files

- `MemoryBounded` counts whole files, and a command that has found room has yet
  to write. Counting these commands too is still not inductive: a memory that is
  forgotten leaves room to every command that had it in its listing. So `Claims`
  bounds, for every m not below the limit, the memories together with the
  commands that have found room under m or may still find it.
- The context store: a digest that was taken is of the truth, but for rows whose
  hash is not of it (`blind`), and where none was taken the store was told
  nothing else (`Faithful`); while nobody else writes, content and digests agree
  (`Sound`). What verification has read is what is there, unless somebody has
  written it since, and of a row that has been wrong all along it has found what
  the digest is not of (`Looking`, `Misread`).
- The brief: until runs cross one at a time writes, and from its report to its
  line the report is its own (`OneWrites`, `ItsReport`).
- The doctor: while it compares and nothing moves it knows the baseline and what
  is there, and has found a drift exactly if what it has compared differs
  (`Comparing`).

### The catalog

For any machines, paths, packages and requests. What is left of a plan and
what undoes it are functions of the request and of the machine it was planned
on (`AsPlanned`, `Doer`, `Reverse`); a task nobody came between has done nothing or
what it was to do (`Reached`, `Done`); a backup a task made is of what its plan
found (`Saved`). `UndoRestores` is then a fact about two functions of a machine:
undoing after doing is the identity, for each operation but in the seven cases of
`NotAllowedFor` (section 6), each of which the proof needs.

### The HUD's other parts

- `KInv`: a probe of the connection being made belongs to a token and to the
  resident transport (`Probing`), and a link that is up has ended the attempt, so
  that the fallback leaves it alone (`Settled`).
- `VInv`: unless a process was let go of while it ran, the one that runs, or
  whose end has yet to be heard, is the one held (`OneOnly`).
- `AttentionInv`: no metric has been high for longer without a change of mode
  than with one. That a worst metric exists at all is a lemma on bounded numbers.
- `TelemetryInv`: the sampler's last readings are behind the counters by exactly
  what has happened since they were taken, for each core (`CoresKept`), in
  sum (`CpuKept`), for the bytes (`NetKept`) and the clock (`TimeKept`), unless
  iowait fell or an interface left; and what a reading that is held up has found
  of the cores is what they did before it began (`SampledRight`). The sums are `SumFunction` of the community
  modules, over any finite set of cores and of interfaces.

### Together

`MCServices` and `MCHudLinks` compose components side by side. A step of one leaves
the others at rest, so a behaviour of all is a behaviour of each
(`PartsBehave`), and what is proved of each holds of the whole.

### Assumptions and induction

What the constants are assumed to be is named beside them, and TLC evaluates it
in each run of the module. Beyond types, finiteness and bounds: the placeholders
(`NoRequest`, `NoPlaybook`, `NoWindow`, ...) are not values of what they stand for the
absence of, nor is the owner a firing (`Owner`) or `NoBaseline` a baseline, not
even of no file; metrics and levels are numbers up to `Top`; the thresholds of an
alert are in order; the paths in the doctor's scope are told apart.
Nothing is assumed of how components behave, but for `RequestsAssumption`.

The induction theorems of the library take an operator as a parameter, which the
provers here cannot instantiate. Where a fact needs induction (the largest of
bounded numbers, that a recursive function or a sum over a finite set is what
its equation says) the proof takes a least counterexample instead, which
`WFMin` gives of a set. That is enough for `SumFunction` and for `Present`, a recursive
function; nothing here is declared RECURSIVE.

### Only model-checked

`IntentsFinish`: liveness under fairness is out of the prover's reach, so it
holds for the bounds of `orch_steps`. The `v_*` runs are counterexamples and
need no proof. That the instances of the runs satisfy the assumptions is what
TLC says of them.


## 6. Where the code and its texts disagree

These are runs of their own, each with a counterexample.

- `v_cut_off`: a request thread of the doorway cannot install signal handlers;
  the exception leaves run_intent after begin_task, the task stays "running" and
  the caller gets no answer.
- `v_succeeded_ran_all`: a kill-switch between two steps skips the rest without
  a verdict, and the task may be verified and called "succeeded".
- `v_applied_once`: two processes that undo the same task both apply it.
- `v_shown_first`: a second do line while a preview is in flight is judged by
  the first one's plan.
- `v_dead_left_alone`: after the cooldown a hung backend costs its full timeout
  in every `jarvis ask`: the probe's own mark refuses its retry, the refusal is
  what remains of the failure, and refusals are not recorded. (With two
  backends a second way leads there: a plan served by the other one is
  recorded as a success of the primary.)
- `v_close_asked`: close calls the backend while it prepares the command line it
  is about to ask for, so the window is gone whatever the owner answers.

Met while reading, and written into the models as the code has it, without a
run of its own:

- runner: only ProcessLookupError is forgiven when a group is killed, so the
  timeout of a root command raises out of run, the step is journaled as one that
  "failed to start" and the command runs on; a signal between Popen and `_current`,
  or after the leader's end, kills nothing; after SIGKILL communicate waits for a
  process that left the group with the pipes; an echo that cannot be written leaves
  `_current` set and the command running;
- kernel: the undo artifact is stored after the steps, `journal/sqlite.py` says
  before;
- charter: `max_steps_per_run` is never enforced; an invalid document is refused
  without the pause; `resume` does not look for "revoked", although revoke says
  that firings refuse for ever; the budget counts among the newest thousand
  tasks only; two overlapping changes of the state file may lose a pause (`raced`);
- packs: install reads the file again after it was shown; a phrase of 119 or
  120 characters installs and never loads; the wizard leaves an installed pack
  behind when its build fails; the last check of a skill is not its last read
  (`swapped`);
- context store: verify_integrity reads the rows of a table and its digest in
  separate SELECTs, so that a write of another process in between is reported as
  TAMPERED, although only the store wrote (`midway`);
- brief: the report is truncated before it is written, so that a death in between
  leaves it empty;
- desktop: the look after the prompt compares titles, so that another window of
  the same title is typed into; i3, sway and Hyprland take a title as a pattern,
  so that other windows may be focused or closed, or none; where the look after a
  focus raises, a focus that succeeded is not journaled;
- catalog, cases where a successful undo does not restore: a move onto something
  that existed, an append whose only backup was taken by a later one, an install
  of packages some of which were there, a removal of packages some of which were
  not, start of what was active, enable of what was enabled, a `mkdir -p` that made
  directories above (its undo removes the last one only); the verification of
  a package's undo looks at the first name only;
- resident link: the late answer of a probe marks a stopped client ready, with
  an empty token; after a disconnect a late failure of a probe still spawns the
  fallback kernel; disconnect stops only the current transport; a call that is
  never answered is given up silently;
- voice: pw-record is given no duration, so that recording always ends by the
  timeout; the move from PROCESSING to STANDBY is not in the HUD's table, so the
  HUD keeps showing PROCESSING; the late end of a process is taken for that of
  its successor; an error drops a process that may still be recording;
- attention: a change of mode evaluates the sample again, so an alert may be
  raised after fewer seconds than the module says; a warning is not displaced by
  another metric that becomes critical;
- telemetry: `models.py` says that a snapshot is of one instant, but the clock is
  read first and the network last, behind the disks: a file system that does not
  answer for some seconds shows their bytes as a rate of the interval before
  it, and the next rate is too low; the bytes an interface comes with are shown
  as a rate; a core whose samples cannot be compared is shown as idle, although
  `models.py` says that consumers must never render unavailable as zero; a rate
  is too low when an interface left and the sum of the rest still grew;
- integrity: learned apps are not in the doctor's scope, although their module
  and ADR-0026 say so; a baseline is taken file by file and may be of a mix that
  never was; a file that goes between listing and hashing makes verify raise,
  which says that it never does; write_baseline raises when a file
  goes between is_file and its read.

## 7. Not modelled, and why

*Reads.* Dry runs, the stdio server's read-only tools and resources, usage statistics and
exports of the journal, suggestions, routines, fingerprint, desktop reading and
the knowledge base change nothing; the HUD's other verbs (explain, status, suggest)
move only the displayed state.

*Input and output.* An LLM's text and its validation (a proposal enters as a plan of run_plan), the
HTTP of the two provider services, the parsing of /proc and of arguments,
the kernel's voice tools, QML, wording and layout. The command router is a stateless
parser. The static checks of a command or a path are stateless too: their
verdict is the choice between `Built` and `NotBuilt`.

*Abstracted.* Composite plans of the catalog are planned part by part before any part runs;
`Catalog` has single plans, and what a part finds changed is what
`fresh` excludes. A second signal while the handler waits, and a process that
SIGKILL does not end at once, are left out of `Runner`. The wall clock of the
breaker only goes forward; a file that cannot be written raises out of the
invocation, which is `Die`. A hash is what it was
taken of. Forged receipts and baselines are left out. No QML element calls connectAgent at
this commit: it is modelled as the owner's act.

*Left out.* Origin checks and the pages of the doorway, canaries, the fetch cache, the
installation of timers, evals, training and tools (offline scripts).

## 8. Plan

Done: the kernel with its refinement; both ways of the HUD to a kernel; the
gates; the breaker; every service that keeps files; the undo plans of the
catalog; dictation, alert and readings; the doctor; the runner. Every safety
property of the passing runs, and the refinement, proved.

Left, in this order:

1. Composite plans, and the discharge of `RequestsAssumption` from `Catalog`:
   that no builder plans a reverse step of a higher tier.
2. The doorway's request gate and the stdio server's other tools.
3. A run of `Runner` as the refinement of the kernel's `SpawnStep`, `ChildEnds`.
