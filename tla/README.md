# Verification project for clanker

clanker is an agent harness written in Zig: it runs a language model in a turn loop, gives it tools that
live in a WebAssembly sandbox, talks to peers, keeps sessions, and improves its own source tree in
isolated worktrees; a web UI shows and steers all of it.  This directory holds TLA+ models of the parts
whose correctness depends on interleavings, failures and orders: the Zig stores and locks that processes
share, and the handlers of the web UI, which meet the server's answers in any order.  With them come the
TLC runs that check them on small instances, and TLAPS proofs of what matters most for every instance.
Paths below are relative to the repository root; a file of the web UI is named without its `ui/app/`.

## Inventory

| Component | Source | State it keeps | Operations | What is hard | What makes it correct |
| --- | --- | --- | --- | --- | --- |
| Background jobs | `src/sandbox/jobs.zig` | two tables of jobs, held late completions, gauges, `gpa_ref`, one spin lock | start, wait, kill, list, register, finish, deinit | waiter threads change a row without the lock; callers hold rows outside it; workers report before they are registered | no record is freed under a user, a thread is joined once, the gauge is exact, waits are answered |
| Subprocess registry | `src/agent/subprocess.zig` | pid rows by session and id | register, forget, terminate, terminateSession | signals by pid after the child was reaped | a signalled pid is the child's |
| Schedule | `src/schedule/`, `tools/zig/schedule*.zig` | the entries file, the run ledger | add, remove, enable, update, run-due, run now | two processes and the guest write one file; a crash between claim and record | an entry fires at most once per window; a result lands on its entry |
| Run lock | `src/util/run_lock.zig` | a lock file with its owner's pid | acquire, release | stale owners are removed by deleting the path | one run per working tree |
| Store locks | `src/util/cas_lock.zig`, `file_lock.zig`, `atomic_write.zig` | lock files, renames | acquire, write | lock inodes shared with guests; a crash between write and rename | read-modify-write cycles do not lose updates |
| Improvement engine | `src/improve/engine.zig` | history, staging tree, grants | one round: propose, apply, gate, judge, promote or restore | many early exits, each must leave the tree as it was | a rejected round changes nothing; a human revert is final |
| Worktree merge-back | `src/improve/worktree.zig` | branches and checkouts | create, merge back, resync, clean up | the base branch moves while the run works | no accepted commit is lost |
| Mesh | `src/peers/mesh.zig`, `src/serve/mesh_net.zig` | members, pending joins, reader threads | accept, admit, join, leave, expire | readers, acceptor and joiner share a fixed table | a row stands for a live connection |
| Chatrooms, session sync | `src/peers/` | message logs, cursors | send, relay, fetch, merge | duplicates, reordering, gaps | merges converge, nothing is lost or doubled |
| Session store | `src/agent/session*.zig` | journal, snapshot, index | append, load, fork, compact | crash between journal and snapshot | a reload shows what was acknowledged |
| Live event bus | `src/serve/live.zig` | ring of events, subscribers | publish, subscribe, resume | a slow subscriber is overrun | a gap is reported, order is kept |
| A2A reply cache | `src/serve/a2a_reply_cache.zig` | replies by message id | begin, finish, abandon, evict | a retry while the first request runs | a message is executed once |
| Agent loop | `src/agent/loop.zig` and neighbours | transcript, steer queue, guards, goal state | turn, tool calls, compaction, interrupt | cancellation and steering while a turn runs | every tool call is answered once, in order |
| LLM client | `src/llm/client.zig`, `rate_limit.zig` | backoff, fallback chain, token caches | send, retry, fall back, throttle | retries after partial answers | bounded attempts, one answer |
| Kernel, debug adapter | `src/sandbox/kernel.zig`, `src/debug/dap.zig` | child processes and pending requests | start, execute, interrupt, stop | late answers after a timeout | an answer is matched to its request |
| ACP and MCP | `src/acp/`, `src/mcp/` | pending requests, permissions | prompt, cancel, permission | cancel against answer | one answer per request |
| Guest tools | `tools/zig/` | boards, goals, notes, written by compare-and-swap | claim, close, depend, sweep | two agents claim one card | a card has one owner |
| Web UI: rooms, message rows | `app.js` | the log of a room, ids seen, one poll timer, replies in the browser's store | open, poll, live event, send, pin, react, edit | answers of the room left arrive in the one opened; a poll restarts itself | nothing is shown twice or in the wrong room; a room on screen is polled |
| Web UI: conversation | `app.js`, `core/composer.js`, `core/chatprefs.js` | transcript, draft store, pins, one run | open, type, run, fork, import, reload | one composer and one transcript serve every conversation | no typed text is lost; the screen is the open conversation's |
| Web UI: live run | `app.js`, `core/steer.js`, `src/cli.zig` | the ledger of steered messages, question cells | steer, ask, answer, end | requests beside a stream are not in its order | each message's fate is told; a chosen option was heard |
| Web UI: board and goals | `features/board.js`, `features/goals.js`, `tools/zig/cards.zig` | cards in a room's log, a goals store, copies of both | move, drop, work, iterate, archive | two stores kept in step by requests | a card and its goal tell the same story |
| Web UI: pages and plug-ins | `features/`, `core/`, `lib/`, `ui/plugins/` | lists, selections, drafts, flags, timers | load, open, edit, poll | few requests carry a token; buttons are disabled until an answer | what is drawn is of what was asked for; nothing waits for ever |
| Records, stats, gate, evals, config, CLI, TUI, rendering | `src/records`, `src/stats`, ... | files, tables | parse, render | text, not protocols | not modelled |

`PROJECT.json` lists every component with its sources and status, and every hazard with its line.

## Plan

The order follows what depends on what and how much a mistake costs.  The project keeps to a dozen runs:
one passing run for each question, so a new component joins a run where the question is the same.

1. `Jobs`, with `JobsProofs` (done).
2. `CasWrite`, the write under a lock file that every store shares, with `LockProofs` (done).
3. `RunLock`, whose theorems are in `LockProofs` too (done).
4. `Schedule` on top of what `CasWrite` shows, with `ScheduleProofs` (done).
5. The web UI, which is most of the shipped code: `Rooms`, `Conversation`, `LiveRun` (which implements
   `Questions`), `Board`, and `Pages` over one module for each page (done).
6. Proofs for the web UI: `RoomsProofs`, `TurnProofs` (of `LiveRun` and `Conversation`), `BoardProofs`, and
   page by page `ViewProofs` and `PagesProofs` (done).  Left are `InStep` of `Board` and `Sound` of `Pages`.
7. What is left of the Zig side, in this order: `Worktree` and the improvement round on top of it; `Mesh`;
   the reply cache and the live event bus, whose loss of events `Rooms` takes as an input; the LLM client
   and the agent loop; kernel, debug adapter and ACP requests.

## How a component is laid out

`X.tla` holds the state, the actions and the properties, and a proof module the theorems:

| Proof module | Theorems about |
| --- | --- |
| `JobsProofs`, `ScheduleProofs`, `RoomsProofs`, `BoardProofs` | the module of that name |
| `LockProofs` | `CasWrite` and `RunLock`, the two that lock with `flock` |
| `TurnProofs` | `LiveRun` and `Conversation`, a turn of a conversation from both ends |
| `ViewProofs`, `PagesProofs` | the modules of `Pages`: lemmas of the first 17, then of the other 8 with a property beside `Sound`, and the theorems |

A proof module extends the modules it is about, which is why `RunLock` and `LiveRun` have names of their own
for `Init`, `Next`, `Spec` and `TypeOK` (`LockInit`, `LiveSpec`, ...).  `MCConversation` has the values that
the cfg of `Conversation` cannot write; the other modules are run as they are.  `TypeOK` says in each module
what the variables hold, and `TypeCorrect` (`LockTypeCorrect`, `LiveTypeCorrect`), for every module but
`Questions` and those of `Pages`, is the theorem that they do.  An operator whose name starts with `Bug`
is the definition that follows it with a plausible mistake; `PROJECT.json` names the property that notices.
The constants a run gives values to are under a named assumption.  Processes are values of sets, `pc` is the
place of each in the code, one action is what the code does between two points at which another thread or
process can intervene.

## Jobs

`Jobs.tla` models `src/sandbox/jobs.zig` with the pid rows of `src/agent/subprocess.zig` and the
starter and worker of a background subagent in `src/sandbox/host.zig`.  `row`, `session`, `handle`,
`done` and `waiting` are the fields of a record, `born` its place in the table, `registered` the pid
rows, `lateAt` the `late_subs` list, `gauge` and `completions` the metrics, `allocator` whether
`gpa_ref` is set, `mu` the lock.  A caller is a tool thread; `pc`, `target` and `hasThread` are its
place in `startExec`, `ckSubagent`, `waitExec`, `waitSub` or `kill`, the job it is about, and whether
its stack holds the `std.Thread`.  The gauge is charged before the waiter exists (`ChargeGauge`,
`LaunchWaiter`), since the waiter charges its completion without `mu`, and what is owed by a waiter that
could not be started is taken back (`WaiterFails`).  A critical section that cannot block is one action guarded by
`mu = Nobody`; one that joins threads (`reapDone`) takes and releases `mu` in two actions.  The waiter
thread's three writes are three actions because none of them takes `mu`.  A child process may end at
any time, may ignore SIGTERM, and dies of SIGKILL; a signal to a pid already reaped is recorded in
`stray`.  The exit is `deinit`: two signal passes, then the rows are popped and destroyed.

| Run | Instance | Question |
| --- | --- | --- |
| `jobs_exec` | 3 exec children, 2 callers, cap 1, nothing retained | are records, handles, gauge and table sound in every order of start, wait, kill, session end and exit |
| `jobs_sub` | 4 subagents, 2 callers, cap 2, 1 retained | do completions that race their registration leave exact counters and no ghost row; do the joins under the lock wait only for threads that no longer need it |
| `jobs_live` | one of each, 2 callers, fair threads | does a kill return whatever the child does; is a wait on an ended job answered |

Bounds.  One child more than the cap and the retained rows makes a start reap; two callers are enough for two
claims of one row and for the admission race.  All callers work for one session: a second one only makes the
races rarer, as rows of different sessions meet in nothing but the lock and the caps; the theorems are about
any number.  `Bounded` (the cap and the table) and `OneJoiner` are asked with nothing retained, where every
start reaps; `GaugeExact` is asked of both kinds of job, each in its run; the completions that are held
belong to subagents only.  `MaxLate` is the number of subagents, so that the list is never full; in the code
it is 16 (`jobs.zig:559`) and may be, which `RoomToHold` in the theorem below is about.  Fairness is weak, per thread: a thread that
can step does (the scheduler); a child or a nested agent need not end.

Proved (`JobsProofs.tla`), for any finite sets of jobs and callers, any sessions and any caps.  The
invariants build on each other: `Typed`, types together with "a caller works on a job of its kind"; and
`Orderly`, a record under construction has one starter (`Staged`), a handle is in the record or with one
caller at a place that joins it (`Held`), and the critical sections that span steps keep `mu` (`Locking`).
- `JoinedOnce`: from `Held`, whatever main joins before `deinit`.
- `MemorySafe`: no record is freed under its users, when main joins every caller before `deinit`
  (`Background = {}`, the case the code is written for; the other fails, see below).  `Safe` says why: a
  claimed row is listed and counts its caller (`Claimed`), so the reap skips it; a waiter thread that still
  runs has its handle somewhere it will be joined (`Owned`), so a destroyed row's thread is over; main
  destroys only when no call is in flight (`Exiting`).
- `JoinsUnderLock`: `ReapNeverWaitsForLock`, since a completion is the last thing a worker does (`Reported`).
- `GaugeIsExact`: the gauge is the number of the jobs in `Charged`, and every step charges nothing, one more
  job or one job less (`Recharged`), so the proof counts once and not for each action.
- `NoGhosts`: a completion that raced its registration waits in `late_subs` until it is attached (`Told`).
  It assumes that `late_subs` has room when a worker reports (`RoomToHold`), since a full list drops the
  completion and leaves a ghost, and `Background = {}`.
- `StaysBounded`: the cap is overshot by no more than the starts that raced, and so is the table.  Starts
  under way are counted with what they will add (`CapFits`, `RowsFit`); the rows a reap leaves are those
  running, those claimed, each by a caller of its own, and the latest `MaxRetained`, which the stamps
  (`Stamped`) order.

Where the source says one thing and does another.  Each of these was found as a counterexample of this
model; the statements named are definitions of `Jobs`, and adding one as an INVARIANT of a run shows the
trace.
- `NoStraySignal`: between the reap of a child and the forget of its row (`jobs.zig:165-166`) a session
  end signals the pid, which the system may have given to another process; `jobs.zig:10` says
  that the row is forgotten after the wait so that a recycled pid is never signalled.  It is the first of
  the hazards, and no run has a property for it: what holds, `ExitedIsForgotten`, is the weaker statement
  that no row outlives the waiter.
- `RegistrationAddsOnlyStarts`: a completion that raced its registration is charged when it is held
  (`jobs.zig:656`) and again when the row is registered (613).
- `startExec` checks the cap before it spawns and not again before it appends (457-470), where
  `jobs.zig:198` says "the authoritative check runs again under `mu`": concurrent starts overshoot, and
  `Bounded` says by how much.
- With a nested agent on a thread nobody joins (`Background = {c1}`) `NoUseAfterFree` fails: `deinit`
  (`jobs.zig:848`) frees a row that such an agent still waits on (230).
- A completion whose id cannot be copied is dropped (`jobs.zig:678`), and its row then counts as running
  for ever; the model has no failing allocation there.

Not modelled: `list`, the result texts, log lines, and allocation failures other than the append's.

## Writes under a lock file

`CasWrite.tla` models how one state file is written: a guest through `ck_fs_write_if`
(`src/sandbox/host.zig`), which loads first and compares under the lock, and a native session
(`src/schedule/store.zig` over `src/util/cas_lock.zig`), which does all under the lock.  `name` is the
inode the lock file's name leads to, `opened` the inode each process has open, `holder` whose flock it
is: opening and locking are two steps, and a removed name leaves waiters on an inode nobody else finds.
`content` is the set of writers whose contribution the file holds, and a guest's write is a truncation
and a write.  `aged` and `stamped` are what the hourly `sweepAgedLocks` and the janitor guest
(`tools/zig/janitor.zig`) go by.  A killed process loses its descriptors and with them its flocks.

| Run | Instance | Question |
| --- | --- | --- |
| `cas_writers` | 2 guests, 1 session, 1 sweep, 1 janitor, writers killable | until a lock file is removed, do the writers exclude each other and keep each acknowledged write; does a guest give up only against real contention; does the sweep unlink only what nobody holds; is a held lock always about to be released |

Bounds.  Two guests and a session give every pair of kinds of writer.  A fresh inode is needed only when
the name is empty, which happens three times (at first and after two removals); hence three inodes.
`Attempts` is 2 against 3 in the code, and a failed guest has then lost to both others.  No fairness:
all properties are about safety; `HeldByTheLiving` is the safety part of "the lock is released".

Proved (`LockProofs.tla`), for any numbers of processes, inodes and attempts: types; mutual exclusion
until a removal (`Exclusive`), by `Locked`: every open descriptor is on the one inode the name leads to,
and the writer inside holds its flock; no lost update in a calm run (`WritesKept`), by `Kept`: what is
about to be saved extends what is there, and an acknowledged write is there or in what the writer that
has just truncated is about to write; `NeverAbandoned`; that a guest gives up only when others won
(`FailsOnlyContended`), by `Contended`: a guest that has tried n times has seen n writes of others land, or
what it loaded is still what the file holds; and that the sweep unlinks under the flock
(`SweepsUnderLock`), by `Probing`: a sweeper between its probe and its delete holds the flock of the inode
the name leads to.

Without "until a removal" and "in a calm run" the properties fail.  `MutualExclusion`, without the first, is
violated by a writer that opened the lock file before the sweep unlinked it (`host.zig:5150`) and one that
then made a new file, the hazard that `host.zig:5094-5096` says the unlink under the lock rules out; adding it
as an INVARIANT of `cas_writers` shows the trace.  The janitor deletes an aged lock file on its age alone
(`janitor.zig:428`) although `host.zig:5087` says age alone must never license the delete.  A guest killed
between the truncation and the write (`host.zig:4984`) leaves an empty file, which reads as an empty schedule,
although `src/schedule/store.zig:7` calls neither the lock nor the atomic write optional.  Two sweeps at once
can each remove a name: both find the `.swept` marker old (`host.zig:5114`).  `cas_lock.acquire` goes on
without a lock where it cannot create or lock the file (`cas_lock.zig:155`).

Not modelled: `acquire`'s fallback to no lock, partial and failing writes, the spacing of sweeps by the
`.swept` marker, the append locks of `append_line.zig`.

## The run lock

`RunLock.tla` models `src/util/run_lock.zig`.  `path` is the inode the path of the lock leads to, `fd` the one
each process has open, `flock` and `body` an inode's flock and the pid in it, `owner` what `readOwner` returned,
`at` the place in the code.  `atomic` is the platform: where `open`
itself takes the flock, or where a file exists for a moment without it.  Both are initial states of every
run.

| Run | Instance | Question |
| --- | --- | --- |
| `runlock_starts` | 3 processes: one may die anywhere, one may release or fail to write its pid | of those that start together does one win, is its pid on the path, is nobody refused for a dead run, is every acquire answered |
| `runlock_stale` | violation | two processes find the same stale lock, the slower deletes what the faster has just taken, and both run |

Bounds.  A stale lock, a process that clears it and one that interferes are three processes.  A fresh
inode is needed only while the path is empty and at most two others have a file open: three inodes.
Fairness is strong and per process.  The waits for the flock are the only steps that another process can
disable; that the kernel serves a waiter of a flock that is free again and again is what strong fairness
says, and for all other steps it is the same as weak fairness.  Dying, failing and leaving are never
required.

Proved (`LockProofs.tla`), for any number of processes: types; `OneWinner` and `WinnerNamed`, by the
invariant `Won`, which holds while nobody is gone on an atomic platform: one process writes or holds, the
path leads to its file, and its flock or its pid keeps every reader away from the clearing.

Two more disagreements.  On the other platform two starters suffice to break the lock, contrary to
`run_lock.zig:73-80` and 113-119: the reader gets the flock of the empty file first.  And a release
(line 30) between another's failed create and its `readOwner` opens the window of `runlock_stale` without
any dead process.

Not modelled: the reuse of a pid by an unrelated process, which keeps a stale lock honoured; platforms
without `/proc`.

## Schedule

`Schedule.tla` models `clanker schedule`: `runDue`, `runOne` and `fireOne` of `src/schedule/runner.zig`,
the sessions and the ledger of `store.zig`, and the edits of `tools/zig/schedule.zig`.  `store` is
`state/schedule.json` by id, `from` in an entry is `last_run` or, before that is set, `created`; `ledger`
is the set of jobs with a record in `log.jsonl`, where a job is an id together with how often that id was
given (`gen`); `sweeping` holds `run-due.lock`.  A spec is the set of its windows, a number each, and a
process reads the clock once, when its command starts (`command.zig:66`), so what it later writes may be
older than what others wrote.  A sweep is `Starts`, `Locks`, `Claims`, one `Fires` for each claim,
`Records`; a manual run is the same without the lock and with `ClaimsOne`.  A native session is one step
and a guest is two (`Loads`, then one of the edits or `Mismatches`): this is what `CasWrite` shows of the
two kinds of writer.  A process may be killed at any place, and its save or its ledger append may fail.

| Run | Instance | Question |
| --- | --- | --- |
| `schedule_store` | 2 crons of which one is killable, 1 manual run whose writes may fail, 1 editor with any request, ids 1 and 2 | is a window claimed once, does no outcome and no edit undo a decision, does "running" mean a run and an outcome a record, is a due entry served |

Bounds.  With the clock at most 2 and one entry to begin with, enabled or not, a window is claimed and the
next one served late; a sweep may start with an older clock than another's claim.  Two sweeps are enough
for an overlap, a sweep and an editor for a lost update; the editor may add a second entry and give the id
of a removed one again.  `MaxTries` is 2 against 3 in the code; one failed write (`MaxFails`).  Fairness is
weak, of each sweep as a whole: cron goes on calling `run-due`, a call goes on, a model run ends.
`DueIsServed` is then "whoever is killed with the lock, the entry is claimed by a later sweep, or an
operator changed it".

Two exceptions are written into the properties, as the code has them.  `ClaimedOnce` leaves out a job in
`rewound`: `schedule run` and `enable` write the time they were started (`runner.zig:210`,
`tools/zig/schedule.zig:73`), and if a sweep claimed a later window in between, `last_run` moves back and
that window fires again, although `runner.zig:16` says a claimed window is not re-fired.
`OutcomeHasARecord` leaves out a record whose append failed, which `appendRecord` logs and drops, and an
id that was given twice, as phase two finds entries by id: `nextId` takes one more than the highest id in
use (`schedule_logic.zig:155`), so a removed highest id is given again, and the ledger's records of the old
job are then the new one's, where line 146 says ids are never reused.  `IdKeepsItsMeaning` states that and
shows the trace when it is added as an INVARIANT.  `update` changes the cron but not the date the
entry counts from, so windows of the new spec that passed since the last run are due at once, unlike
after an `enable`.

Proved (`ScheduleProofs.tla`), for any sweeps, runners, editors, ids, clock and specs.  `Typed` adds to
the types where each process may be and what it then knows.  Every step is one of six kinds (`Cases`),
and one lemma for each says what it does to the entries, so that the four invariants are proved from those
and not from the actions.  `NeverTwice` needs `Spent`: a claimed window is of a job that was given, and
not after the date its entry counts from.  `DecisionKept` and `RunningRuns` are inductive with the types.
`OutcomeRecorded` needs `Outcomes`: a claim in hand is of a job that was given, one that has run has left
its record, and in phase two all have run.  Liveness (`DueIsServed`) is only model-checked.

Not modelled: the cron grammar and time zones, the counters of runs and failures, the task and the model
of an entry, the trim of a ledger over 4 MiB, a file that no one can parse (every command ends with an
error, as `SaveFails` does).  The outcomes ok and error are one, "ended".

## The web UI

One page runs in one browser tab: a handler runs to its end before the next starts, so an action is a
handler, and what interleaves is the user, timers, the live event stream and the answers of the server.
A request is asked for in one action and answered in a later one; where the answer carries what the server
read, the model has a third action for the moment of the read (`Reads`, `Does`, `Serves`), because a list
read before a change may arrive after it.  The server's part of a request is the handler in `src/cli.zig`,
as far as the page can tell its answers apart, and one step even where the handler reads a file and then
writes it (`Settings`, `ModelTable`, `ToolRow`): two requests of one page are not interleaved inside the
server.  Where such a write may be made and its answer lost, the model has it (`ModelTable`, `ToolRow`,
`SchedulePage`, `LiveRun`, `Board`).  A definition whose name is
a function's is that function; the others are named for the event: `XRead` is the answer to X, `XFails` its
failure, `XLost` an answer that never comes.  In the page modules the state of a page is one record.

### Rooms

`Rooms.tla` models the Channels view of `app.js`: `OpenRoom`, `PickRoom`, `Joined`, `Ingest`, `Polled`,
`Live`, `Send`, `Refresh`, `Create`, `Pin`, `Reveal`, and what hiding the tab or leaving the view does to
the poll (`Hide`, `ShowOther`).  `handle` is `chatPoll`: null, a timer that will fire, or one that fired
and whose handle was not cleared.  A pending request has a continuation (`cont`), what the code does in
the `then` or `finally` that follows it.  `mixed` is history: the visit to this room began with answers
for another room due.

| Run | Instance | Question |
| --- | --- | --- |
| `rooms_visits` | 2 rooms, one of them created meanwhile, 2 messages, pages and memory of 1, 2 requests at once, 4 acts | is no message drawn again before `chat_seen_cap` others, is what is on screen the selected room's, is a room on screen polled or about to be |

Bounds.  A page of one message makes two polls necessary for two messages and a memory of one id makes the
id check fail as early as it may.  A page is the last so many in the log, which need not be the latest by
the clock, so it may be any (`Answer`).  Two requests at once is a poll beside what the user asked for.  No
fairness: `NeverLeftUnpolled` is the safety half of "the poll goes on", that there is always a timer or a
request whose end starts one.

Proved (`RoomsProofs.tla`), for any rooms and finite set of messages, any page size, memory and number of
requests: types; `PolledAlways`, by `Chained`, that a timer that fired has its poll in flight and that without
a timer some request will set one, and `Loads`, that this is so from the view's first load on (`Creations`: a
room that is being created will be opened when the list has it); `NothingForeign`, by `Unmixed`, that
requests, pins, rows and timer are all of the selected room; and `RepeatsFarApart`, by `Remembered`: the ids
in `seenOrder` are those of the last rows, as many as the cap allows, so a row that is drawn again has left
them.  The last needs that a finite set of numbers has a greatest element, for the time up to which a poll has
read, which `Greatest` proves by a smallest counterexample.

What the code lets through, which `OfTheRoom` therefore excepts: an answer for the room that was open is
put into the log of the one opened since, and moves `chatLastTs` on, so messages of the new room may be
skipped.  Also: the sidebar's click marks a room read before `openChatRoom` reads the cutoff, so the "New
messages" divider is never drawn there; a pin whose message is on screen throws when it is clicked; a
failed Refresh empties the log and not `chatSeen`; more than a page of messages in one second are skipped,
as the poll asks for what is later than a second; the answer to a send clears what was typed since; if the
list of rooms failed, a room created opens without an option that selects it.

### Conversation

`Conversation.tla` models the chat view: which conversation the composer continues (`sessionId`), its text
(`task`), the draft store (`drafts`, a text or `Blank` for each conversation, and `older`, the order in which
the entries were touched, which decides what is dropped) and its timer, the transcript, the run in flight, and
the model select with the pins of `core/chatprefs.js`, of which the model is kept and the effort is not: an
entry that pins an effort alone is why a first turn may leave the model unpinned (`PinFirstTurn`).  `Switch`, `NewChat`, `Reload`, `Copy` (fork and
branch), `Import`, `Delete`, `Compact`, `Submit`, `RunAgain` and `Edit` are the acts; `Told`, `Done`,
`Completes` and `Breaks` are the stream of a run.  The transcript is a sequence of cards, each with the
conversation whose turn it shows; a replay of a history is drawn in chunks, so it may be interrupted.

| Run | Instance | Question |
| --- | --- | --- |
| `conversation_turns` | 2 stored conversations, 2 fresh ids, 2 texts, 2 models, 2 drafts, 2 requests at once, 4 acts | is no typed text lost, is the transcript the open conversation's, is a pin the server can serve shown and sent |

Bounds.  Four acts reach switch, type, switch back and a run or a reload between them; two drafts make the
third push one out.  Each property names its exceptions, as history variables that say when they happened:
`hasty` (a conversation written to or left before its draft was back), `crossed` (an answer for what was
open before was let in).

Proved (`TurnProofs.tla`), for any conversations, texts, models, drafts and requests at once.
`Sorts`: types, and that the store holds at most `MaxDrafts` texts in an order that is total (`Bounded`);
that setting a draft drops one needs that a finite ordered set has a first member (`First`).
`PinsHonoured` is inductive with the types.  `ScreenIsTheOpenOnes` needs `AskedOf`, that an answer not yet
overtaken is about the open conversation and that none of a history can come during a run, and `OnScreen`,
which adds whose the run is before it is done.  `NothingTypedIsLost` needs `Held`: a text to be kept that
is in the open conversation's draft but not in the composer is on its way there (`Returning`) and the
composer is empty meanwhile; with `Running`, that a run in flight holds its text, and `Fresh`, that an id
never given out has no draft.

What those exceptions are in the code.  A switch followed by "New chat" before the history answers deletes
the stored draft of the conversation switched to, as `flushDraft` saves the composer that was just emptied.
A history that answers late is drawn over whichever transcript is open (a switch back and forth); so is the
history a compaction asks for.  The answers of a fork and of a deletion act on the conversation that is
open when they come, and an import leaves the old transcript.  A run that was forked drops the copy's
draft when it is done.  Text typed by "Edit & resend" during a run is emptied at its end.  Not state, but met
on the way: since the Tailwind port several handlers look for classes that no element has (`.turn-depth`, so
that "Branch" always asks for `/branch/1`; `.turn-author`, `.caret`, `.turn-you-head`); status events are
drawn as failures, so a run that was steered counts as one that did not hold.  An eviction of pins at
`max_prefs`, the attached-file chips and the rendering of a turn are not modelled.

### The live run

`LiveRun.tla` is the two ends of one run's stream: the page with `core/steer.js`, and the server thread in
`src/cli.zig` (`SteerSlot`, `PendingAsk`, `askAwait`, `askResolve`).  `stream` is the events on their way,
in order; `posts` and `reply` are the requests beside it, whose delivery, refusal and loss are actions of
their own, in any order.  `Questions.tla` says what a run may rely on when it asks something: a question is
settled once, by an option that was offered or by time, and in the end.  `KeepsPromise` is that `LiveRun`
implements it: a question is "settled" when its cell has an answer or was closed.

| Run | Instance | Question |
| --- | --- | --- |
| `liverun_steers` | 2 runs, 2 messages, a queue of 1, 1 question with 2 options | does the page say of every message what became of it, does "applied" name the message the run took, does a chosen option mean the run heard it, are the promises of `Questions` kept |

Bounds.  Two runs let a late request of the first meet the second, two messages and a queue of one make a
refusal.  Fairness is weak, of `Awaited`: the wait has a deadline and returns.  Nothing else is required to
happen.

Proved (`TurnProofs.tla`), for any number of runs, finite set of messages, options and size of the queue:
types; `FatesTold`, by `Followed`: the ledger holds each message typed for the run on screen once, and no
other; `ChoicesHeard`; `AnswersAsPromised`, that the first state and every step of `LiveRun` are one of
`Questions` or leave it alone, which is the safety part of `KeepsPromise`; and `EchoesNamed`.  The last is
about two queues and a stream between them.  While no request has strayed (`WhileStraight`), each message met
only its own run, requests were let through in the order they were typed, the run's queue is in the order of
the ledger and what was taken comes before what was not, and there is an unmarked message for every echo on
its way; so the first that waits is the one taken.  In any case as many are marked as were taken at most
(`Counted`).

`EchoNamesIt` excepts what the code cannot tell apart: the stream says that a message was applied and not
which (`core/steer.js:41`), so where two requests overtake each other, or one is refused late, or reaches
the next run, the line of another message is marked (`strayed`).  The note "never applied" may be wrong
after an abort, as the thread goes on.  A question whose event is longer than 4096 bytes is never sent, and
the run waits its 120 seconds; the model's questions are short.

### The board and the goals

`Board.tla` models what `features/board.js` and `features/goals.js` do to keep two stores in step: `cards`,
the card of each goal in each room as `tools/zig/cards.zig` folds the log, and `status`, the goals store,
with the page's copies of both.  `posts` is the requests in flight, oldest first; one may be served or
answered out of order within `Window`, or be lost, which `trouble` records.  `postMove`, `boardToGoal`,
`goalPinnedColumn`, `workOnGoal`, `workCardAsGoal`, `iterateGoal` and `logGoalRun` are the code's.  The board
refuses a move to Done while the card's checklist has open items (`board.zig:430-431`): anybody adds and
ticks items at any time, so at each such post they are all ticked or not (`Accepts`), and a move of the
goals' own that is refused for it is recorded as "checklist" (`HeldBack`).  The posts that copy a goal's
tasks to the checklist (`syncGoalPublicTasks`) are left out.

| Run | Instance | Question |
| --- | --- | --- |
| `board_sync` | 1 goal, 2 rooms, 3 acts, a window of 2, 1 kind of trouble | do a card and its goal tell the same story once an act has run its course, is the board on screen the room's, is a goal never kept off the board |

Bounds.  Both syncs work goal by goal, so one goal meets all of what they do to each other; two rooms let
the picker move on.  Three acts are an act, one that overlaps it and one on what they left; 1.95 million
states.

Proved (`BoardProofs.tla`), for any finite set of goals, any rooms, any number of acts, any window and
trouble.  To the requests every step is one of five kinds (`EveryStep`): the user adds some (`Adds`),
a run's is marked (`Marks`), the picker asks for another board (`Picks`), one is served (`Serve`) or its
answer is read (`Takes`).  Each theorem is proved from these.  `CardOrRequest` needs that a creation that
was answered left a card, and that no card is ever taken away (`Given`).  `ScreenIsTheRooms` needs, while
nothing is overtaken or lost, that requests are served in the order they were made (`InOrder`), that the
last board on its way is the board as it is, and the one on screen when there is none (`Latest`,
`Current`), that a board of another room is followed by one of the room chosen (`Heading`), and that a
board is never refused (`Welcome`).

`InStep` needs every one of its conditions, since the code is out of step without them: acts that overlap
(Re-sync as a run ends moves the card of a reviewed goal to ready; the two moves of a restart are not
ordered), a room switch (the other room's cards are moved by nothing), a stop while the thread works on.  A
goal that is done stays out of step with a card whose checklist is not: the move that follows the goal is
refused, and until a sync finds the items ticked the card stays where it was.  `InStep` excepts that goal
and that reason only; after a refusal of a card the user drags, or of any other move, both tell the same
story.
Others met on the way: a goal asked for in one room never gets a card in another; only abandoned goals are
skipped where the comment says that done ones get no posthumous card; the quick-add of a lane loses the
lane; a stream that ended after an error shows "finished, waiting for review"; "move all" reports success
whatever was answered.

### The other pages

`Pages.tla` is 27 modules under one `Next`: a behaviour is a behaviour of the page that is `subject`.  They
share nothing in the code but the window, so nothing is lost by checking them one beside the other, and five
properties are asked of all of them, each page with its own definition of the name.

| Run | Question |
| --- | --- |
| `pages` | `Settled`: nothing waits for what will not come; `Truthful`: what is drawn is of what it is drawn for; `InStep`: what two handlers write agrees; `Kept`: no answer undoes what the user did; `Sound`: what is computed is right |

| Module | Code | What is modelled | What the code lets through |
| --- | --- | --- | --- |
| `Runs` | `features/runs.js`, `lib/runs-list.js` | list, filter, the run opened, its step, comparison, live ticks, errors | requests carry no token; Clear after a comparison, a resize and a tick draw over what was selected; a run waited for whose list failed is opened by the next Refresh |
| `Graph` | `lib/graph.js` | stages and graph of a run of up to 6 steps | a run without a model call has no node for its answer |
| `ModelTable` | `features/models.js` | the row, its checkbox and the panel that edits the entry | both write the whole entry, so the later loses what the other wrote; Save writes the old object's `enabled`; a toggle that was written and whose answer was lost takes the row back and leaves it the opposite of the file until the list is read again (`crossed`) |
| `ModelSearch` | `features/models.js` | the list of a provider, the catalog, the snippet saved | rows listed by one provider are offered under the next; a late catalog answer is of an older query |
| `CardDetail`, `CardParts` | `features/board.js` | drafts of the dialog, its posts and redraws; labels and checklist | the description's Save and Cancel leave the draft, which comes back; two refused toggles of a box leave it wrong; labels are computed from the board as drawn |
| `Arena`, `ArenaStage` | `features/arena.js`, `arena3d` | match, polls, live events; the 3D module that is imported once | an answer or a live event after leaving starts the poll again, which `app.js:4643-4645` says leaving stops; nothing in the repository publishes the live event the page listens for; "idempotent" mounts are not while three.js loads |
| `Office`, `Janitor`, `Paths` | `office` | the log replayed, agents walking and grabbed; piles; the path search | the second message of a second is dropped when they come in two polls; a grab drops the refresh of the board; "oldest first" takes the first pile of the first room |
| `Files` | `files` | folder, file, filter, sort, workspace | opening a file while a folder loads leaves Up disabled until another load |
| `Music` | `music` | playlist, track, object URLs, seek bar | a track that ends while the bar is held leaves `scrubbing` set |
| `ToolRow` | `core/tools.js` | one tool's switch and settings | a redraw while a toggle is out gives a second, enabled button |
| `Shell` | `app.js`, `core/plugins.js` | loaders of views, a plug-in's script and mount | a script that failed counts as loaded; a view asked for before the list opens even if the user went elsewhere |
| `Knowledge` | `features/knowledge.js` | collections, the one open, sync, prune, delete | a prune sends the path typed for one collection to the one open when it is confirmed; an open read before a delete opens the deleted |
| `Health` | `health` | samples, rates, restarts | a live sample and an answer that cross read as a reset; a restart is not seen if the counters passed the last sample |
| `Compare` | `compare` | comparisons, the pick | a pick's answer draws over whichever is open |
| `Searches` | `search`, `core/search.js`, `features/knowledge.js` | three debounced fields and their tickets | each differs in what it cancels |
| `SchedulePage` | `schedule` | entries and their switch | a list read before a change may arrive after it |
| `Mentions` | `app.js`, `core/slash.js` | the popup of @, # and / | the keys find no item, as no item has the class they look for |
| `Picker` | `core/modelpicker.js` | the picker over the hidden select | after a failed load it keeps its rows, and a pick then empties pin and default |
| `Rail` | `app.js` | the conversation list, workspaces, archive, drag | "New chat" empties the very array it redraws, until the next load; changes act on the conversation open when they are confirmed |
| `Settings` | `features/system.js` | the config editor and the MCP panel, which write one file | a load that answers late is put under the new file's name and counts as clean; Save meanwhile writes the old text into the new file |
| `Threads` | `app.js` | reactions, edits, removal and the local replies of a row | each row has its own copy of the replies' store; leaving the field after Enter posts an edit twice |
| `Mesh` | `mesh` | members, pending joins, the four verbs | the lists of one load are read at two moments; a load that ends while a verb works re-enables the buttons |
| `Attach` | `core/attachments.js` | pictures read, videos sampled, the hand-over to a run | what is attached while a run works is dropped at its end unsent; a video being sampled is split between two messages |

Bounds (`Pages.cfg`).  Two of everything a page lists, two requests of a kind at once, two loads where
loads matter: the first answer late and the second asked for meanwhile is what goes wrong on these pages,
and a third only repeats it.  `MaxSteps` 6 makes two stages with tools; a room of 3 by 3 tiles with up to 4
walls has ways around and none; three clicks (`MaxClicks`) are an edit, a second one that overlaps it and
a save or a removal; `GiveUp` is 2 against 5 in the code.  The definition of each property in
a page's module says in which orders the column on the right comes true, and holds in all others.  An order
that went wrong is forgiven once what was read since is whole: `crossed` of `ModelTable` ends with the next
list read while nothing was being written.  2.2 million states.

Of a match the run asks not whether it is polled off screen, as the code does poll there, but that what is
polled was running when last heard of and did not fail too often, so that such a poll ends with the match
(`Settled` of `Arena`).

Proved (`ViewProofs.tla`, `PagesProofs.tla`), for any of the bounds (`PagesAssumption`): four of the five,
`SettledAlways`, `TruthfulAlways`, `InStepAlways` and `KeptAlways`, each with the exceptions its pages name.  For each page X there is one
invariant `XInv` and four lemmas: it holds at the start (`XInit`), every action of the page keeps it
(`XStep`), the page's properties follow from it (`XHolds`), and so it stays while the page is the subject
(`XStays`).  A theorem puts the pages together.  None of the properties is inductive, and what has to be added
is, page after page, one of a few things:
- what a request on its way was asked for and by whom: the last search out is for the text last searched for
  (`FindLast`), of the folder's requests one at most is of the last generation (`FilesLast`), a pick is of
  the comparison that is open and of the flag that guards it (`CompareAsked`);
- how a list that was read compares with what the server holds by now: a load since which nothing changed
  has read what is there (`PlanFresh`, `SysFresh`, `MeshFresh`, `KnowClean`), and with one change on its
  way the list differs in that one (`ToolFollows`, `ModelsAlone`, `ThreadOwed`);
- what a history variable stands for: until two requests cross, every sample on its way is younger than the
  one drawn and older than the counter, and the bus has the oldest of them (`HealthLine`);
- that the resource behind a row is that row's alone: an object URL is of one track only, so that the track
  that goes takes its own with it (`MusicOwned`); no conversation is listed twice (`RailUnique`); the
  pile the janitor goes for is one of the room he is in (`JanitorWay`);
- that something once there stays: `graph.js` once loaded, so that a later drawing happens at once
  (`RunsLoads`); a second whose message was told is passed by no cursor before (`OfficeCursor`).

Of `Sound` only the attachments are within reach: `CappedAlways` is that part of it, that a message never
gets more images than `max_images`.  Its other two parts say what a fold over the steps of a run and a search of paths
compute, which is an induction over data.

Not modelled of the web UI: the Fleet page, whose `initFleet` looks for its roster by an id that is a class
string, finds none and returns; prompts, todos and activity, each one list loaded and shown; markdown,
theme, voice input, drawing, layout and the command palette.  `viewHidden` of the office, health,
activity and mesh plug-ins looks for a class that no element has and is always false, so their polls go on
off screen; the models have it so.

## What is proved and what is checked

The theorems hold for every value of the constants that satisfies the named assumptions; TLC evaluates
those in every run.  Two have hypotheses besides: `MemorySafe` and `NoGhosts` that main joins every caller
before `deinit`, and `NoGhosts` that `late_subs` does not overflow; the section on `Jobs` says what happens
otherwise.

Only model-checked are:
- liveness (`KillAlwaysReturns`, `WaitAnswered`, `Answered`, `DueIsServed`, and the part of `KeepsPromise`
  that a question is settled in the end), which is out of the proof system's reach;
- `InStep` of `Board`.  It speaks of states in which an act has run its course, so its invariant has to say
  for every act, at each point of its course and in each order its requests may be served in, what the two
  stores and the requests still in flight come to.  The kinds of step that carry the other two theorems
  are too coarse for that;
- `Sound` of `Pages` but for the attachments, since `Graph` folds over the steps of a run and `Paths` searches breadth first: what they
  compute for every input is an induction over data, which the installed provers cannot do.

`PROJECT.json` lists what is not modelled, with the reason.
