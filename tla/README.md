# HarnessBox: specifications, model checking and proofs

HarnessBox is an orchestrator for coding agents. A local server
(`src/packages/sdk/src/harnessbox/_server`) keeps *workspaces*: a git branch, a
cloud sandbox (an E2B machine) and any number of *conversations*, each with a
long-lived agent CLI process in the sandbox. Clients prompt a conversation,
watch the workspace's event stream, and pause, resume, stop, destroy or retry a
workspace; an idle timer pauses it on its own.

This directory specifies what is hard to test in that server, and in the programs
around it that keep state of their own (the public SDK's sandbox, the stream
parser, the schema migrations, the manager of the local server process, the
`hbox` terminal), as TLA+ modules, checks it with TLC on small instances and
proves its main invariants with TLAPS for every instance. In what follows `sdk/` stands for
`src/packages/sdk/src/harnessbox/`.

Contents: [inventory](#inventory), [modules](#modules-and-how-they-correspond-to-the-code),
[runs](#runs-bounds-and-what-they-show), [fairness](#fairness),
[proofs](#what-is-proved), [where code and docs disagree](#where-the-code-and-its-docs-disagree),
[not modelled](#what-is-not-modelled), [plan](#plan).

## Inventory

The server is one `asyncio` event loop. Code between two `await`s is atomic;
everything else (other requests, the idle timer, background provisioning, a
client's disconnect as `CancelledError`, the agent's output) may happen at an
`await`. sqlite runs in worker threads behind a lock of its own.

| component | state | operations | what must hold |
|---|---|---|---|
| `WorkspaceManager` (`sdk/_server/workspace_manager.py`) | none of its own; composes the next five | create, provision, prompt, pause, resume, stop, destroy, retry, auto-pause callback | idle state and registry state move together |
| `WorkspaceRegistry` (`registry.py`) | `_workspaces` (record with `runtime_state`, sandbox object), `_locks` per workspace, `_provision_configs`; the row in storage | register, provision, prepare_retry, load, ensure_sandbox, connect, pause, resume, stop, destroy, emit runtime.state | operations exclude each other on a machine; `runtime_state` follows `lifecycle.py`; record, row and announcement agree; ACTIVE has a sandbox object |
| `IdleOrchestrator` (`idle.py`) | `_idle_timers`, `_active_turns`, `_draining`, `_conditions` | start/cancel timer, turn_started/ended/errored, begin/end_drain, wait_for_turns_idle, remove_workspace | counter = running turns; a drain is woken; drain flag does not outlive its operation; an idle ACTIVE workspace has a countdown |
| `SessionRouter` (`session_router.py`) | none; one generator per prompt | admission, user prompt event, streaming, end of turn by every path | no turn runs on a machine that is being suspended; every admitted turn is given back |
| `AgentManager` (`agent_manager.py`) | `_agents`, `_locks` per conversation | send_message, _spawn_agent, terminate_agent, shutdown_all | one turn at a time per conversation; one process per conversation; no lock is kept |
| `AgentProcess` (`sdk/process.py`) | `_running`, `_pid`, `_stdout_queue`, `_turn_active`, cost | start, send_prompt, stream_turn, send_command, poll_status, stop | an answer is read by the one who asked |
| `EventBuffer` (`sdk/events.py`) | `_sequence`, `_ring`, `_subscribers` | push, subscribe, replay, stream, close | numbers are unique and ordered |
| `EventReplay`, `GET /events` (`event_replay.py`, `routers/sessions.py`) | a cursor per response | storage replay, hand-over to the live buffer, waiting for a buffer | no gap, no repetition over reconnects |
| sqlite storage (`_storage/sqlite.py`) | tables of projects, workspaces, conversations, events | save/update/list workspaces, append/prune/page events, max sequence | `(workspace, sequence)` and `(remote, branch)` are unique |
| migrations (`_storage/migrations`) | the schema, `schema_version`, old rows | eight numbered migrations, run by every server that opens the file | the version names only what was done; a serving server has its columns; rows are converted |
| `SandboxSession`, `Sandbox` (`_internal/session.py`, `sandbox.py`) | `_state`, `_paused_sandbox_id`, a lock, event buffer | setup, activate, pause, resume, kill, end, mark_dead | its state follows the machine's; the machine stays reachable |
| E2B provider (`_providers/e2b.py`) | handle on the machine, timeout bookkeeping, egress probe | create, connect, pause, resume, kill, commands, extend timeout | what is killed or paused is what runs; an extension adds time |
| SDK runtime (`_internal/runtime.py`) | agent process, kept metrics | turns that resume a paused sandbox and start a dead agent again | every turn returns; no cost is lost |
| stream parser (`streaming.py`) | `ParserState`: replay flag, blocks by index, tools by id, turn count | one NDJSON line to one event | an event belongs to the item its line is about; no item stays open |
| workspace factory and mounts | none | branch name, clone, push in the sandbox | order of git commands |
| hbox server manager (`hbox/server_manager.py`) | `server.json`, the child process | ensure (attach or spawn), stop | one server, it is recorded, none after `/exit` |
| hbox terminal (`hbox/app.py`, `client.py`) | workspace id, last known state, repository | `/add-repo`, `/pause`, `/resume`, `/status`, a bare text | a creation is answered; a text gets through |
| web dashboard (`src/apps/web`) | sessions reducer, SSE connection per session | actions, reconnects | events applied in order |
| security, credentials, config, cost, status, hosted API stubs | data | parsing and generation | outside the concurrent core |

How they interact. An HTTP handler calls `WorkspaceManager`, which tells
`IdleOrchestrator` to start or cancel the countdown and delegates to
`WorkspaceRegistry`. The registry takes the workspace's lock, asks
`IdleOrchestrator` to drain, terminates agents through `AgentManager`, drives
`SandboxSession` and with it the provider, and writes the row. A prompt goes
through `ensure_sandbox` (registry), is admitted by `IdleOrchestrator` under the
workspace's lock, and then reads `AgentManager.send_message`, which pushes every
event to the `EventBuffer`; the router appends it to storage after it yielded
it. `GET /events` reads storage, then the buffer. An `hbox` terminal finds or
spawns a server through the server manager (the server migrates the database
before it binds its port), creates a workspace, and waits on its event stream.
The SDK's `Sandbox` does without all of this: session, runtime and provider in
one object. Its process and parser are the server's too.

What is hard here: the idle timer's task is *cancelled* by other operations
wherever it is, also while it holds the lock; clients disconnect at any await;
provisioning takes no lock; state is read before an await and used after it;
rows are written after the lock is released; a server restart keeps only the
rows; lock objects and conditions are looked up by id in dictionaries that other
tasks clean up; a terminal acts on a state it last heard of; two processes share
one `server.json` and one database file; E2B suspends a machine by its own clock. `PROJECT.json` lists each of these hazards at its line, with the
properties that cover it.

## Modules and how they correspond to the code

| module | stands for | kind |
|---|---|---|
| `RuntimeState` | `sdk/lifecycle.py`: the seven runtime states and the table of transitions | abstract specification |
| `WorkspaceLifecycle` | one workspace: manager, registry, idle orchestrator, router, session, provider handle, row | component composition |
| `AgentTurns` | `AgentManager` and `AgentProcess` of one workspace | component |
| `EventLog` | `EventBuffer`, event storage, `EventReplay`, the response to `GET /events` | component |
| `Migrations` | `MigrationRunner` and v001..v008, run by several servers that may die | component |
| `StreamParser` | `parse_line`, the reader of `AgentProcess` and the CLI whose lines they read | component |
| `E2BProvider` | one E2B machine and the provider object, with time | component |
| `SdkSandbox` | `Sandbox`, `SandboxSession`, `AgentRuntime`: EXTENDS `E2BProvider` | composition |
| `LocalServer` | `ServerManager` and the servers it spawns: INSTANCEs `Migrations` for their start | composition |
| `HboxRepl` | `hbox` terminals, the HTTP client, several workspaces of one server | composition |
| `MC...` | names for sets of faults and, for `AgentTurns`, the conversations of turns | instances for TLC |
| `..._proofs` | theorems of the module they are named after (`RuntimeContract_proofs`: of `WorkspaceLifecycle` too) | proofs |

### WorkspaceLifecycle

A *task* is one request, one prompt, the provisioning task or the idle timer;
`pc[t]` is the await it is suspended on, and an action is the code from one await
to the next, with everything it changes. The variables are the fields of the
code: `state` is `WorkspaceInstance.runtime_state`, `sess` the
`SandboxSession`'s state, `vm` and `attached` the machine and the provider's
handle on it, `registered`, `stored` and `announced` the registry's entry, the
row and the last `runtime.state` event, `lock` the workspace lock, `draining`,
`condReg` and `active` the orchestrator's dictionaries for this id, `pinned` the
prompts that hold a conversation lock.

`CancelTimer` is `asyncio.Task.cancel` on the timer: the auto-pause stops at its
await, its `finally` ends the drain and its `async with` releases the lock, and
a write or provider call under way may or may not have happened. `GotoStarting`
and `GotoCancelling` are `start_timer` and `cancel_timer` as part of another
task's step. Draining is one loop shared by pause, stop and destroy:
`BeginDrain`, `AfterDrainCheck` (the `wait_for` predicate), `Woken`
(`notify_all`, which only reaches a registered condition), `Release` (the
`finally`). A prompt goes `SandboxRequest` -> connect/resume -> `ResolveConversation`
-> `Admit` -> `TouchLastActive` -> turn -> `TurnEnded` -> `GiveTurnBack` ->
`PollStatus`, and may be aborted anywhere. Between `TurnEnded` and `GiveTurnBack` the
router has seen the end of the turn and writes to storage; a disconnect there
(`AbortEnding`) leaks the turn, as one, or a failing write, before the `try` does
(`AbortEarly`, `TouchLastActive`). A leaked turn counts forever and runs nothing.
`Restart` is the end of the server process and `load_workspaces` of the next one.

### AgentTurns

Turns are calls of `send_message`; a process is named by the turn that spawned
it and a lock object by who created it where, so that *replacing* an entry of
`_locks` (which `_spawn_agent` does while the spawning turn holds the old lock)
is visible. `queue[l]` is the holder of lock `l` followed by its waiters:
`asyncio.Lock` is fair. A line on `stdin` is who wrote it and what it asked
(prompt, `/context`, `/cost`); a line on `stdout` says which line it answers,
which is exactly what the code cannot know. `shutdown_all` reads the process
before it waits for the lock, as the code does. `AgentProcess.stop` only clears
`_running`; the CLI goes with its machine.

`Sequential` is the discipline of a client that waits for the end of a turn
before it prompts the same conversation again; the server does not enforce it.

### EventLog

`Push` is one `EventBuffer.push`, `Persist` the append that follows the `yield`,
`Abort` a client that disconnects at that `yield`. A response to `GET /events`
goes through `Request`, `Fetch`/`SendStored` (pages of storage, the limit),
`Subscribe` (ring beyond the last replayed number, and a queue), `SendRing`,
`SendLive`; a workspace without a buffer is replayed from storage alone
(`"stored"`) and then ends or polls for its buffer. `Close` is the pause closing
the buffer, `Restart`/`Connect` the new buffer seeded from the table's maximum.
`got` and `start` are history variables: what the client received, over all its
responses. `late` is one too: some row was appended below one that was
there already, which two turns at once do.

### Migrations

A migration is a sequence of statements: Python's `sqlite3` opens a transaction
before the first UPDATE or INSERT only, so each CREATE, ALTER and DROP before it
commits on its own. `at[s]` is the migration and statement server `s` runs next,
`Die` a crash between two of them, and the next start reads the version that was
recorded. A statement fails when the file does not allow it (a column that is
there already, one an index still reads).

### StreamParser

The CLI writes lines ahead of the reader; each line carries which input it
answers and which content block it is about, of which the code sees only the
block's index (`Take` reads the head of the queue, the `On...` and `Parse...`
actions are the branches of `parse_line`). `/context` and `/cost` are read raw
between turns; a timeout leaves their lines to the parser (`behind`).

### E2BProvider and SdkSandbox

Every provider call is a request that takes effect at E2B (`...Effect`) and a
return that changes the object (`...Return`, `DropHandle`), as steps of their own.
`Extend` is `maybe_extend_timeout` with its clock; `AutoPause` is E2B suspending
a machine whose time is over, `Wake` E2B waking it for a request. `SdkSandbox`
puts `Sandbox`'s callers (under its lock, but for setup and end) and one sender
of prompts on such a machine. `interrupted` records a restart of the agent that
was itself cut off. Restrictions: one sender, pause and resume only after setup,
and time passes only while a turn streams or everything is idle (a unit is long
next to a request). A `SandboxDeadError` ends a turn in two steps: the error event,
then, once the reader has taken it, `OnSandboxDead`.

### LocalServer

`ReadRecord` .. `WriteRecord` are `ensure()`, from `server.json` to the probe, the
spawn, the poll of the port and the two steps of writing the file; `Stop...`
is `/exit`. A server is named after the session that spawned it, runs
`Migrations`' steps, then binds its port or exits. `disturbed` records that two
sessions were starting or stopping at once, that a probe missed a live server, or
that Ctrl-C broke a call; the invariants are about runs without, see
[below](#where-the-code-and-its-docs-disagree).

### HboxRepl

One operation of the server is one step here (`Provision`, `Save`,
`PauseWorkspace`, `Wake`, `AdmitTurn`, `EndTurn`, `Restart`, which may be a graceful
shutdown), since `WorkspaceLifecycle` takes them apart; what is kept of the event
log is whether the ring has the ACTIVE event and what was stored after it. The
client's wait is taken apart: `Subscribe` with its four cases, `Poll`, `Hear`,
`Fetch`. A REPL's commands read `cached`, which only some answers refresh.
`Unauthorized` is an `/add-repo` without credentials.

### Variants

A definition whose comment starts with "Variant" is a plausible bug in the
definition below it (a dropped guard, a missing reset, a stale read). None is
used by a specification. `PROJECT.json` pairs every checked property with the
variant that violates it, so that no property holds by the shape of the model.

## Runs, bounds and what they show

Passing runs (distinct states; each takes at most a few minutes with two
workers):

| run | instance | states | properties |
|---|---|---|---|
| `faults` | two prompts, one pause, resume, destroy and retry, timer, cold start, all faults, one restart | 6.7 M | `LockOwner` `DrainOwned` `ActiveHasSandbox` `PauseDrainsTurns` `TurnsAccounted` `TransitionsLegal` |
| `idle` | two prompts, timer, resume, stop; failing turns and resumes | 25 k | `IdleTimerArmed` `RecordsAgree` `SessionAgrees` `RuntimeContract` `EventuallyPaused` `EveryTaskSettles` |
| `agents_sequential` | three turns in two conversations, one shutdown; failing spawns and writes, exits, given-up turns | 258 k | `OwnAnswer` `EveryTurnEnds` |
| `agents_concurrent` | two turns in each of a running and a new conversation; failing writes, exits, disconnects | 2.2 M | `WarmSerialized` `OneProcess` |
| `events_stream` | four events, two readers, ring 2, pages of 1, storage limit 2 | 79 k | `NothingMissed` `NeverBackwards` `CaughtUp` |
| `events_restart` | two concurrent turns of two events, one reader, ring 2, queue 1, pages of 1, three rows, all faults, one restart | 332 k | `InOrder` `NumbersAreFresh` |
| `migrations_race` | three starts of a server on a file of version 0, 1, 2, 3, 5 or 7, a row of each old status | 71 k | `VersionSound` `ServingHasSchema` `RowsConverted` `AloneSucceeds` |
| `parser_turns` | two turns, two blocks, two replayed commands, one API retry, two lines ahead; timeouts, given-up turns | 715 k | `EventsReachTheirItem` `ToolResultKind` `ItemsSettled` `OwnResultInTime` `TurnEnds` |
| `local_sessions` | three sessions, two at a time, two ports, one migration to run | 272 k | `NoOrphanUndisturbed` `OneServer` `ExitStops` `EnsureReturns` |
| `sdk_calls` | two callers, three calls, two prompts; eight kinds of fault | 1.1 M | `Reachable` `CostKept` `ExtensionAddsTime` `EverythingReturns` |
| `hbox_terminal` | one terminal, two workspaces, two troubles, one restart | 179 k | `AnsweredUnlessOvertaken` `TextGetsThrough` |

Type invariants are theorems where a module has proofs; in the other modules
`TypeOK` is stated and not among a run's properties.

Why these bounds. The lifecycle's hazards are races of two operations with one
turn and the timer: two prompts give a counter that goes up to two and down
again, a turn that ends while another one starts, and a prompt that waits while
another runs; one request of each kind can meet each other one at every await,
because all tasks start at any time. Lost wake-ups, leaks and double returns show
with one more turn than tasks that wait. `MaxRestarts = 1` puts a restart at
every point of the `faults` instance. Three
turns are what the conversation lock needs: a holder of the old lock, a waiter
for it, and a turn that finds the new one. In `EventLog` the ring is smaller than
the history, the page smaller than the replay and (in `events_restart`) the queue
and the table smaller than the events, so that every eviction and drop happens.
In `Migrations` three starts give a race of two and a third that finds what they
left; the start versions are those from which the three interesting migrations
(v003's split, v004's drop, v007's projects) are still to run. In `StreamParser` two
blocks are a tool and the text after it, or two with the same index in two turns.
In `LocalServer` the third session meets what two that raced or crashed have left.
In `SdkSandbox` the units of time are such that a machine expires, and is
extended, within one turn; two prompts and three calls are a pause or kill inside
a restart of the agent. In `HboxRepl` the second workspace is the one a terminal
creates when its first has ended or after a restart; two troubles let another
client stop a workspace it resumed. `Branches = {}` there, because a second
workspace of a named branch never gets a row (below) and is refused by design.

What the runs assume, and the code does not promise:

- `events_stream` has one turn at a time, appends that succeed, a reader that is
  at most `ReplayLimit + RingSize` events behind (2024 in the code), a queue
  that is never full (4096 in the code) and pages of one row, so that the replay
  ends only at an empty page. `NothingMissed` needs each of these: two concurrent
  turns append out of order (below); a reader further behind loses what is neither
  among the first `replay_limit` rows nor in the ring; a full queue drops; and after
  a page that is not full the replay goes over to the ring as soon as that page has
  been sent, so what was pushed meanwhile and has left the ring again is lost (with
  pages of two in this instance TLC finds that).
- `InOrder` and `NeverBackwards` speak of the time before a row is appended below
  one that is in the table (`late`): below.
- `idle` has no pause *request* (a stop and a pause together lose a wake-up,
  below), and excludes storage faults and disconnects: an admitted turn that is
  cancelled at either write of `last_active` is leaked, and a drain then waits
  forever; `TurnsAccounted` in `faults` covers both cases with a counter that
  includes the leaked turns.
- `TransitionsLegal` speaks of runs before a stop or destroy, and of a restart
  unless a provisioning was retried (a failed one may write ERROR late).
- `agents_sequential` excludes timeouts and disconnects, after which an answer
  nobody reads is left in the queue. `OwnResultInTime` has the same exception: it
  speaks of the turns of the running process while no timeout left it behind (a
  process that gives up is replaced, and the results that the old one mixed up stay
  with its turns).
- `sdk_calls` leaves out a failing start of the agent and exhausted API retries: a
  restart after either loses the metrics (below).
- A result ends its turn in `parser_turns` and in the lifecycle. `stream_turn` asks for
  a cost or a duration too (`process.py:225`), which the CLI's results carry; one with
  neither would be read past.
- `AnsweredUnlessOvertaken` excepts a creation whose ACTIVE event is followed by a
  stored one before the client subscribes (below).

Deadlock is checked in `idle`, the runs of `AgentTurns`, `parser_turns` and
`local_sessions`. It is switched off where the system may really stop for good:
a drain behind a leaked turn (`faults`), an event log whose turns are over, a
migrated database, calls and turns that are used up.

The run that shows a disagreement is `kill_under_turn`; see below.

## Fairness

`WorkspaceLifecycle`: strong fairness of each task's own steps once its request
was issued. The event loop runs whatever is runnable, and `asyncio.Lock` wakes
its waiters in order, so a task that finds the lock free again and again gets it;
weak fairness would let the idle timer starve a request. Nothing is assumed of
clients: no request need arrive, nobody need disconnect, and no fault need happen
or stop happening. Turns end (fairness of `TurnEnded` or `TurnErrored`, and then of
`GiveTurnBack`, as steps of the prompt) because `stream_turn` has an absolute deadline.

`AgentTurns`: weak fairness of each turn's and shutdown's steps, since the lock
is an explicit queue, and of a living CLI's answers.

`EventLog`: weak fairness of appends and of each response's steps. Turns need not
produce events.

`Migrations` has safety properties only. `StreamParser`: weak fairness of the CLI,
of the reader's lines and of the status commands. `LocalServer`: weak fairness of a
session inside `ensure()` or `stop()`, whose loops have deadlines; nothing of the
servers, which may hang. `SdkSandbox`: weak fairness of each task's steps and of
time. `HboxRepl`: weak fairness of provisioning, saves, countdowns, turns and the
client's reads; strong fairness of a user who goes on typing texts between other
commands, and of admission (the countdown of minutes may fall between the check
of a prompt and its admission, but not every time). No timeout need fire.

## What is proved

All theorems hold for any number of prompts, requests, turns, conversations,
readers and restarts, any sizes, and any set of faults unless said otherwise. The
only assumptions are the named `ASSUME`s of the modules (the sets of tasks are
disjoint, the prompts are a finite set, sizes are positive), which TLC evaluates
in every run.

`WorkspaceLifecycle_proofs`

- `TypeCorrect`: `Spec => []TypeOK`. The interesting part is `active \in Nat`:
  the clamp in `turn_ended`.
- `LifecycleExclusion`, `DrainEnds`: `[]LockOwner`, `[]DrainOwned`. Both follow
  from `LockInv == TypeOK /\ LockOwner /\ DrainOwned`, which is inductive as it
  stands: an operation that enters the locked section takes the lock,
  and each way out, cancellation of the timer included, leaves section, lock and
  drain flag in one step. The lemmas `Outside`, `Inside`, `Acquiring`, `Releasing`,
  `Cancelling` are those ways, once each.
- `ActiveIsConnected`: `[]ActiveHasSandbox`. It needs `SandboxInv`: whoever is
  about to assign ACTIVE (a resume in its locked section) still has the sandbox it
  saw, because only a restart drops it, and a restart ends the task.
- `TurnsAreAccounted`, `PauseWaitsForTurns`: `[]TurnsAccounted` and
  `[]PauseDrainsTurns`. `PauseInv` adds that the counter is the number of admitted
  turns, and that while a pause is past its drain the counter is zero and the flag
  up, so `turn_started` refuses; both until a stop or destroy is requested, which
  forgets the counter. A turn is admitted from `turn_started` to `GiveTurnBack`, or to
  the `finally`, and the two ways to miss both (a disconnect or a failing write before
  the `try`, a disconnect after the end was seen) keep it counted: so the counter is
  never below the turns that run, and above them by the leaked ones.

`RuntimeContract_proofs`

- `LifecycleImplementsRuntimeState`: from a provisioned workspace and without
  restarts (`~ColdStart`, `MaxRestarts = 0`), `Spec => RuntimeContract`, the refinement of `RuntimeState`
  by the lifecycle. The registry checks `runtime_state` on entering the locked
  section and assigns it several awaits later; `LiveInv` says the check still holds
  then, by mutual exclusion.
- `TransitionsAreLegal`: `Spec => TransitionsLegal` without any assumption: cold
  start, failed and retried provisioning, restarts, every fault. `LegalInv` has three
  parts. `LegalSections`: what the state is while a task is in a section that relies
  on it, the setup (which takes no lock) included, of which there is one at a time.
  `LegalProcess`: provisioning belongs to the first server process, and connecting,
  which looks at no state, happens only in a later one, because in the first a
  workspace without a sandbox has no row. `LegalRow`: what the row says, and that a
  workspace with a row is ACTIVE or PAUSED while nobody retried, since that is what a
  restarted server makes its state from.
- `IdleTimerIsArmed`, `RecordsAreInAgreement`, `SessionIsInAgreement`:
  `[]IdleTimerArmed`, `[]RecordsAgree`, `[]SessionAgrees`, for any prompts, resumes,
  stops, destroys, retries and pauses. They assume `Undisturbed`: a provisioned
  workspace with a row, no restart, no client that disconnects, a provider that
  pauses, and either no pause *request* or no auto-pause. Each is needed: a prompt
  that disconnects in its resume leaves no countdown and an old row, a failed pause
  leaves a PAUSED session in an ACTIVE workspace, and so does a pause request that
  cancels an auto-pause. `AgreeInv` says, in every state, which two records may
  differ and who is about to close the difference: `SessionInv` and `RecordInv` for
  session, row and event, `TimerInv` that a workspace without a turn has its countdown or a
  task that will start one or admit a turn, and `KilledInv` for what a stop or destroy has
  and has not done yet. That a turn being given back never cancels an auto-pause
  that has begun to suspend comes from `PauseInv`: there is no turn then.

`AgentTurns_proofs`

- `TypeCorrect`: `[]TypeOK`, which includes that a turn that writes or reads has a
  process. It needs `LockInv`: a task that works is the first in the queue of the
  lock it took.
- `WarmTurnsAreSerialized`: `[]WarmSerialized`, if no shutdown and no given-up turn
  removes the agent (`Shutdowns = {}`, `"exhausted" \notin Faults`). `WarmInv` says
  that the entry of `_locks` is then never replaced, so all turns of the
  conversation queue for one lock. Without the assumption the statement is false:
  a respawn replaces the lock, as in `agents_concurrent`.
- `ProcessesStayRegistered`: `[]OneProcess`, if nothing shuts agents down, none is
  given up and every spawn succeeds (`Shutdowns = {}`, no `"spawn"` and no
  `"exhausted"` in `Faults`). `OneInv` says that all turns of a conversation without
  a process queue at the same lock, so that one of them spawns it.
- `TurnsReadTheirOwnAnswers`: `[]OwnAnswer`, for clients that prompt a conversation
  one turn at a time (`Sequential`), without timeouts and disconnects. `OwnInv` says
  that a process either owes nothing, its stdin and stdout empty, or has one
  question under way, of the turn that works on it. With a timeout the statement is false (*Late
  answer* below).

`EventLog_proofs`

- `TypeCorrect`: `[]TypeOK`, with the bounds of ring, queues and table and with what
  `Sorted`, `Page`, `RingAfter`, `Prune` and `RingAppend` return.

- `NumbersStayFresh`: `[]NumbersAreFresh`. An append with a number the table has is
  skipped without an error (`sqlite.py:413`), so this is what keeps events from being
  lost there. `FreshInv` strengthens it: the counter is at or above every row while
  there is a buffer, and the events on their way to the table have numbers at or
  below the counter, no two the same and none in the table. A restart loses both
  the counter and the events on their way, and `Connect` restores the first half.
- `ResponsesInOrder`: `[]InOrder`, through restarts, pruning, dropped events and
  failed appends, and `ClientsNeverBackwards`: `[]NeverBackwards` if the server is not
  restarted. `OrderInv` places the parts of a response: what was sent is
  ascending and not above what is fetched, the fetched part ascends and is not above
  what is queued, all of it is known to the counter (or, without a buffer, not above
  the table), and what is replayed goes on after the last number sent. The hard part is
  storage's OFFSET (`PageInv`): the rows of the table up to the last fetched one (`Passed`) are
  never more than the offset, so the next page starts beyond it. A pruned row makes
  them fewer; only a late append makes them more, hence the condition `~late`.
- `NothingIsMissed`: `[](Fits /\ ~late => NothingMissed)` if the server is not restarted,
  for any turns and readers, any replay limit and page size, failed appends, aborted
  turns, disconnections and pauses. `Fits` says that the buffer has numbered no more
  events than ring, queue and table hold (the first 1024 in the code). Beyond it the
  statement depends on how much is pushed while a page is being sent, which no
  constant bounds; the run `events_stream` goes beyond it, with a ring of two for
  four events. `GapInv` strengthens it: every event that is stored or on its way to
  the table was sent to the client, or waits in its page, ring copy or queue, or has
  been overtaken by a stored one (so that appending it would be late), or, only for
  a response that does not subscribe, is above all the client has and waits for. The
  page needs the converse of `PageInv` too: the offset skips no more than `Passed`
  (`PlaceInv`), so a row is on the next page or behind it (`PageComplete`); and the
  hand-over needs that the ring has each event at its own number (`RingWhole`).

`Migrations_proofs`

- `VersionIsSound`, `ServersHaveSchema`, `RowsAreConverted`: for any number of
  servers, any crashes and any start versions. `SafeInv` adds to the three
  properties that every position `at[s]` is in the table, and that the file holds
  every table and column the queries name (`Queried`) that a statement before the
  position of a migrating server makes (`DoneBefore`), whichever server ran it: no
  statement drops one of those.
- `StartsSucceedAlone`: `[]AloneSucceeds`, that no statement of any migration fails
  as long as starts neither overlap nor crash. `AloneInv` says exactly which columns,
  tables and indexes the file has when the only server that migrates is before a given
  statement: those made and not dropped by the statements before it.

`StreamParser_proofs`

- `TypeCorrect`, and for any number of turns, blocks, tools, repeated commands,
  retries and lines ahead of the reader: `DeltasReachTheirItem`
  (`[]EventsReachTheirItem`), `ResultsHaveTheirKind` (`[]ToolResultKind`),
  `TurnsSettleTheirItems` (`[]ItemsSettled`) and `TurnsEndWithTheirResult`
  (`[]OwnResultInTime`). All are about a process that nobody stopped reading early.
  What has to be said is about lines that were printed and not read yet, so each
  part of `StreamInv` is a statement about a queue `q` and the parser that will read
  it, kept by one line more at the end (what the CLI prints) and by one less at the
  front (what is parsed): `Placed`, that at every delta and stop of a block the
  parser will have that block under its index; `CallsKnown`, that before the result
  of a call there is a line that names its tool; `Settling`, that an item in progress
  is given up, being written, or ended by a line to come; `Repeats`, that a repeated
  command is three lines with the parser before, after or at one of them; and
  `OneInput`, that one input is under way, in `stdin`, in the CLI or answered by
  the last line. The lemmas `...More` and `...Less` are these two halves, once for
  each part; a step of the CLI is one or several lines more.

`SdkSandbox_proofs`

- `ExtensionsAddTime`, about `E2BProvider`: `maybe_extend_timeout` sets the machine's time to
  what is left by the *turn's* clock plus the extension, and never looks at the
  machine's own. `ProviderInv` says that in a turn that has
  not extended yet, and in which nothing else set the machine's time, what the
  machine has left and what has passed fit into the timeout; so what is left is at
  most what the extension computes.
  It assumes `TimeoutAssumption`, that neither a connect nor `create()` gives more time
  than the timeout the provider was made with. With a `timeout` under E2B's default of
  300 s the statement is false. `Sandbox` passes one timeout to both the provider it
  makes and to `create()`; a provider of the caller's own (`sandbox.py` takes one) may
  have been made with a shorter one, and then it is false too. The run has a machine
  created with less time than its provider thinks.
- `SandboxStaysReachable`: `[]Reachable`, for any callers, prompts and faults. The
  handle of the provider is dropped by a pause and a kill alone. `SdkInv` says why a
  drop meets no other call: whoever pauses, resumes or kills holds the sandbox's
  lock; a setup, which takes no lock, is the only one and precedes every pause; and
  the sandbox is not active while its machine is being suspended.
- `SandboxUsesProvider`, `SandboxExtensionsAddTime`: the sandbox implements
  `ProviderSpec`, so that what `ExtensionsAddTime` says of the provider under any use
  holds of the machine of a sandbox.
- `CostSurvivesRestarts`: `[]CostKept`, if API retries are never exhausted. `CostInv`
  says where the total is at every step of a restart of the agent: in the kept
  metrics while they are handed over, else in what `cost` returns; and an agent
  that is replaced in another way has counted nothing yet.

`LocalServer_proofs`

- `NoServerOrphaned`, `SessionsShareServer`, `ExitLeavesNoServer`:
  `[]NoOrphanUndisturbed`, `[]OneServer`, `ExitStops`, for any number of sessions, at
  any number of a time, any number of ports and any version of the database. While
  nothing is disturbed, `Calm` is inductive: one session at a time is in `ensure()` or
  `stop()` (`OneBusy`), what it read of the record is still what the record says
  (`SeenRecord`), no server but its own lives when it spawns (`Alone`), and
  every live server is recorded, awaited or being stopped (`NoOrphan`). No part
  holds without the others: a spawn keeps `NoOrphan` because of `Alone`, and a session
  comes to spawn alone because a server that nobody records does not exist.
  That the database's migrations change nothing here is all that is used of
  `Migrations`.

Only model-checked: the liveness properties (`EveryTaskSettles`,
`EventuallyPaused`, `EveryTurnEnds`, `CaughtUp`, `TurnEnds`, `EnsureReturns`,
`EverythingReturns`, `AnsweredUnlessOvertaken`, `TextGetsThrough`), which are out of
the prover's reach; `NothingMissed` beyond `Fits`, for the sizes of its run; and
everything about `HboxRepl`.

## Where the code and its docs disagree

Shown by a run (`findings` in `PROJECT.json` quotes the lines):

1. `kill_under_turn`. `destroy_workspace` and `stop_workspace` call
   `remove_workspace` first, which drops the turn counter; the drain then finds
   no turn and the machine is killed under a running one. `CONTEXT.md` says
   destruction coordinates with all active turns.

Stated in a module and false there (no run checks these; each is found violated
when it is made an invariant or property of a small instance):

2. `StoppedStaysDead` (`WorkspaceLifecycle`). Provisioning takes no lock and assigns
   ACTIVE whatever the state has become (`registry.py:288`): a workspace stopped while
   STARTING comes back.
3. `TurnsSerialized` (`AgentTurns`). Spawning an agent replaces the conversation's lock
   (`agent_manager.py:117`); of three overlapping first turns two run at once and
   share a stdout queue, where `CONTEXT.md:21` has turns serialized.
4. `NothingMissed` with two turns at once (`EventLog`). They append in another order
   than they pushed; a reader that reconnects in between skips the late row for good
   (`event_replay.py:75`). `InOrder` without its `~late`: a row appended below the pages
   already read shifts the OFFSET of the next (`sqlite.py:488`), which sends an event a
   second time.
5. `MigrationsAtomic` (`Migrations`). "Each migration runs in a transaction; on failure
   the version stays" (`migrations/__init__.py:30`), but DDL commits by itself: after a
   crash inside v003 every later start fails with "duplicate column name". Two servers
   that race may also write a version late. And v003 keeps the statuses `ending` and
   `failed`, which are no runtime states.
6. `RightServer` (`LocalServer`). Another server may bind the port between the choice
   and the bind; `ensure()` then records its own, dead, child with that port.
7. `EarlyExitReported` (`LocalServer`). The child that exited is never waited for, so
   its pid stays, and the check for an early exit passes until the deadline.
8. `CreationAnswered` (`HboxRepl`). The ACTIVE event is pushed (`registry.py:291`) before
   the row exists (`:295`), so the foreign key drops it from storage. Once any later
   event is stored, a client that subscribes then replays from storage past it,
   and waits for its 120 s timeout, where the docstring of the endpoint
   (`routers/sessions.py:446`) promises the events of the provisioning.

Seen while modelling, and left to the reader without a run of their own:

- *Lost wake-up.* A stop or destroy request pops the condition that the drain of a
  pause request is parked on (`idle.py:93`): the last turn ends, nobody notifies the
  drain, and the stop waits behind it for the lock.
- *Leaked turn*, at two places. `update_workspace(last_active)` (`session_router.py:76`)
  is between `turn_started` and the `try`; it may raise (a prompt before the row exists)
  or be cancelled. And `turn_ended_seen` is set (`:164`) before the writes at `:168` and
  `:175`, the turn given back after them (`:183`): a client that disconnects meanwhile
  passes their `except Exception`, and the `finally` (`:185`) leaves a turn alone whose
  end was seen. Either way the turn is never given back, a later pause waits forever,
  and no countdown starts.
- *No row.* A second workspace of the same `(remote, branch)`, and so any second one
  without a repository, fails in `save_workspace`, which is only logged; every prompt
  of it then raises at the same line and leaks a turn, and its machine is never paused.
- *Dropped announcement.* A provisioning that fails the first time has no row, and its
  ERROR event is dropped by the foreign key, where `_emit_runtime_state`'s docstring
  says that very transition must still be recorded.
- *Crash between kill and write.* Stop kills the machine and writes DEAD after it
  released the lock; a server that dies in between loads the workspace as PAUSED.
- *Dead resumes.* After a restart a stopped workspace has no sandbox object, and
  `_connect_sandbox` does not look at the runtime state: a resume request brings
  a DEAD workspace back, from its snapshot if the machine is gone; an ERROR one too.
- *Old machine left.* Recovery from a snapshot after a lost egress leaves the machine
  it replaces running. Killing a paused workspace or sandbox kills nothing:
  `E2BProvider.pause` dropped the handle that `kill` needs. A setup that fails, or a
  kill during it, leaves the new machine; so does a `SandboxDeadError` taken from a
  passing error whose text has "502" or "timeout" in it, since `kill` of a DEAD
  sandbox does nothing.
- *Wedged pause.* A pause request cancels an auto-pause under way; if the session is
  already PAUSED and the workspace still ACTIVE, every later pause fails.
- *No countdown.* A prompt that resumes the workspace and then disconnects leaves it
  ACTIVE without a countdown.
- *Refused prompt.* A prompt that meets an auto-pause is refused instead of
  resuming the workspace.
- *Dead process kept.* After three failed writes a process is marked not running and
  stays registered: every later turn of the conversation fails, although the
  docstring of `AgentManager` promises a new process.
- *Late answer.* A status command that timed out leaves its answer in the queue, and
  the next turn ends with it.
- *Given-up CLI left running.* `send_message` returns at the
  `API_RETRIES_EXHAUSTED` event, before `stream_turn` reaches
  `_terminate_after_retries`.
- *Number used again.* An event that was pushed and given to a client, and not yet
  appended when the server died, has its number used again after the restart.
- *Late write.* The failure of a provisioning writes ERROR after the retry's ACTIVE, so
  that a restart loads a working workspace as ERROR.
- *Shutdown under turns.* `graceful_shutdown` pauses machines without a drain.
- *Split line.* `on_stdout` (`process.py:83`) ends every chunk with a newline: a line
  that comes in two chunks is lost.
- *Permission endpoint.* It asks `sandbox_conn._agent_process`, which only the SDK
  runtime sets: in the server it always answers 400.
- *Harness check.* `PATCH` of a conversation's harness checks and then acts across an
  await (`routers/sessions.py:238`). A prompt with another workspace's
  conversation id takes that row over.
- *Orphan server.* A live server that does not answer the probe within a second loses
  its record; so do two sessions that start at once, and Ctrl-C during `ensure()`. A
  timed-out `ensure()` kills a server in the middle of a migration (see 5). `stop()`
  by the session that spawned the server always waits its five seconds, and may
  signal a pid that has another owner by then.
- *Terminal.* A terminal that still has "paused" for an ACTIVE workspace drops every
  text until the countdown pauses it; one whose workspace is DEAD drops them until
  the next `/add-repo`; a creation that times out leaves its workspace on the server.
- *SDK sandbox.* `pause` neither stops nor reattaches the agent: the next turn hears
  nothing until its deadline. A restart of the agent that is cut off, or that follows
  exhausted retries, loses the metrics. `end()` takes no lock. A `resume` of an ACTIVE
  sandbox fails the turn that waits for the same. `resume()` of a DEAD one connects before
  it is refused. "3x the original timeout" counts extensions only.

## What is not modelled

- `get_or_create_workspace` (pooling by `(remote, branch)`), which no endpoint calls,
  and `shutdown_all`, which only the tests call.
- `runtime.state` events without a buffer (numbered from the table's maximum): those of
  a provisioning that failed before it had a sandbox, and of a stop or destroy of a
  workspace that has none.
- A buffer replaced while responses still read the old one.
- Conversations' rows, attachments, token counts, status texts and deltas: data the
  properties do not tell apart.
- In `HboxRepl`, a drain (a pause waits for its turns in one step) and the terminal's
  settings (`/git-auth`, `/harness`, `/model`, `/project`). In `SdkSandbox`, one-shot
  turns, two senders at once (together they can exceed the extension cap), and
  `SandboxSession`'s event buffer. In `LocalServer`, a pid that the system gives to
  another program.
- `reattach_all`, which nothing calls; the permission endpoint, which looks at a
  process that is never set.
- `load_workspaces` reads the latest hundred rows only; the models have fewer.
- Everything in `PROJECT.json` with status `not_modelled`, with its reason there.

## Plan

Done: the modules above, their runs and proofs. What is left, in order:

1. Proofs: `NothingMissed` beyond `Fits`, for the behaviours in which no response turns
   to a ring that has lost what it needs.
2. `EventLog`: buffer replacement.
3. `SdkSandbox` as a refinement of `RuntimeState`, except for the races of `end()`.
4. A contract of `AgentTurns` that the turn part of `WorkspaceLifecycle` relies on.
5. `WorkspacePool`: `get_or_create` by `(remote, branch)` against the unique index, if
   an endpoint comes to call it.
6. `SessionsView`: the web reducer and its SSE connections, composed with
   `EventLog`'s responses.

The number of runs is kept small on purpose: a component gets one or two, and
instances that ask the same question are merged.
