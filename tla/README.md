# Heronry: TLA+ models and proofs

Heronry is a board on which people and AI agents ("seats") work together. The board
(`v8/src/edp8`) keeps the records; the pool (`edp-pool`) starts, parks, resumes and closes
the shells the seats run in; the broker (`edp-broker`) holds their inboxes; the contracts
package (`edp-contracts`) has what they share. This directory holds TLA+ models of that
code, the TLC runs that check them, and proofs for TLAPS.

Line numbers below are those of the sources next to this directory.

## Inventory

| Part | State it keeps | Operations | What is hard | What makes it correct |
| --- | --- | --- | --- | --- |
| pool: session registry (`edp_pool/service.py`) | session rows, handle locks, `_resuming_inflight`, the state file | spawn, release, reap, park, resume, resume_closed, usage/reconcile, sweep_crashed, restart, updater's pass | requests run in threads; a shell is launched and killed outside the mutex; the pool may stop anywhere | one live seat per handle; caps and ceiling hold; no shell is forgotten; a close is honoured |
| pool: resume watchdog (`resume_watchdog.py`) | per-seat watermark, back-off, in-memory | tick, resume on mail, retry | mail that arrives between the watermark and the park; failing resumes | a parked seat with unread mail is resumed |
| pool: pause watchdog (`pause_watchdog.py`) | per-seat idle clock | tick | racing a turn that has just begun | a busy seat is not paused |
| pool: spawners, terminals (`spawner.py`, `pty_launcher.py`, `shadow*.py`, `proctree.py`) | process handles, terminals | launch, alive, kill | process trees, exit codes | a kill ends the tree it was meant for |
| broker: inboxes, aliases, streams (`edp_broker/service.py`, `store.py`) | one file of lines per inbox, the high-water marks, the alias table, one event per recipient, a cursor per stream | publish, read, stream, register an alias | appends and reads in worker threads; senders' clocks; torn writes; addresses that move; reconnection | no accepted mail is skipped, it arrives in order, no wake-up is lost |
| broker: channels (`store.py`) | a table name → members | put, merge, delete | nothing: each handler loads, changes and saves on the event loop without an await | a merge loses no write |
| board (`board.py`, `workflow.py`, `store.py`, `service.py`) | tickets, criteria, messages, docs, gates, requirements in sqlite | the routes, and the board's own cascade after each of them | each route runs in a worker thread without a lock, so looks and whole-row puts of several requests interleave; which of several facts comes last: a verdict, a hand-off, a sign-off, a release, a gate's answer | nothing waits for ever, nothing is taken back, an ended epic is settled |
| board: delivery and feed (`delivery.py`, `broker_adapter.py`, `feed_driver.py`) | queues per stream, cursors, seen ids, reservations of two threads | commit, fan-out, replay, the broker's copy, merge, reconnect | overflow, duplicates on two planes, a death between the print and the save | all that is owed is printed, a message once |
| board: idempotent creates (`idempotency.py`, `tool_idem.py`) | keyed results in flight and done | begin, finish, fail, expire | a retry during the first call; a crash in between | one create per key |
| board: admission lane (`admission.py`) | a directory of tickets, a lock directory with a lease | acquire, touch, release, reclaim | several processes; a holder or a waiter that dies or sleeps | one holder, in order, nobody starves |
| updater (`updater.py`, `update_helper.py`, `update_lock.py`) | the lock file, the installed version, the database, the parked seats, the outcome | lock, park, stop, install, start, put back, resume | two processes in turn; any step fails or raises; the helper dies; the pool and a person act beside it | version and data go together, the outcome is true, seats come back |
| launcher and supervisor (`launcher.py`, `supervisor.py`, `run_state.py`, `control.py`, `cli.py`) | a run record per service, what is paused or given up, misses and restarts, a control port | start, stop, restart, adopt, recover a leftover, probe, ensure or stop the supervisor | commands beside the supervisor, starts that are cut short, processes that hang or lose their listener | a stop holds, a supervised service comes back |
| agents' tools, MCP server, search, knowledge, guests, Slack, codex and Pi seats, administration, web UI, desktop app, editor extension | mostly none beyond the board's | wrappers, views, filters | — | see `components` in PROJECT.json for each |

How they interact: the board calls the pool over HTTP (`pool_adapter.py`) to spawn, resume
and close a seat, and writes to the broker when a message is addressed to one. The resume
watchdog, a thread of the pool, polls the broker's inboxes and calls `resume` in the pool's
own process. A seat closes itself with a release over HTTP. The updater parks every seat by
HTTP with a mark on the row and stops the pool; the restarted pool resumes the marked rows.

## What is modelled now

### `PoolSessions` — the registry of the pool

One action is one critical section of `_transition_lock`, or one step taken outside it:

| Code | Actions |
| --- | --- |
| `spawn`, `_admit_handle_locked` (1155-1383) | `SpawnAdmit`, `SpawnRefuse` |
| `SubprocessSpawner.launch` (outside the mutex) | `LaunchReturns`, `LaunchRaises` |
| `_launch_reserved` (1385-1493) | `SpawnRegister`, `SpawnRollback`, then `ReleaseAfterLaunch` |
| `release` (1495-1541) | `ReleaseCall` → `KillSession` → `ReleaseUnlock` |
| `reap` (2526-2570) | `Reap` → `KillSession` |
| `park_session` (1866-1975) | `Park` |
| `resume` (1977-2178) | `ResumeCall` → `BeginResume` (reads the lock before the mutex; without one it goes on to `resume_closed`, 1989-1991) → `ResumeNoOp`, `ResumeRestore`, or `ResumeFork` → launch → `ResumeRegister` or `ResumeFails` |
| `resume_closed` (2186-2300) | `BeginClosed` → `ResumeClosed` or `ResumeClosedRefuse` → launch → `ResumeRegister` or `ResumeClosedFails` |
| `usage` → `reconcile_sessions` (1018-1048, without the mutex) | `ReconcileLook` → `ReconcileMark` → `ReconcileCheck` (the lock compared, 1044) → `ReconcileDelete` (1045) → the next row, or `ReconcileSave`; other threads fall between any two |
| `sweep_crashed` (1725-1768, without the mutex) | `SweepLook` → `SweepMark` or `SweepPass` |
| `_reload`, `mark_interrupted` (627-640, 783-804) | `Restart` |
| `resume_updater_parked` (806-830) | `UpdaterResume`, `UpdaterEnds` |

`state`, `latch`, `forUpdate`, `proc` are four fields of a session row, `newer` the order of its
two timestamps, `locks` the handle locks; `disk` is the state file, written by `Persist` wherever
the code writes it (not by `ResumeFork`: a resuming row is in memory only). `known` is the spawner's
own table, `runs` the processes that exist. `pc`, `op`, `on` say where each thread stands.

Abstractions, each of them wider than the code or without effect on the properties:
- A session id is `<<handle, generation>>`: the code mints a uuid and writes the handle on the
  row once.
- A role cap, a class cap and the total cap are three uses of one rule, so a cap belongs to a
  `Group` of handles.
- A fingerprint is a pid with its creation time: it never names two processes. It answers "alive",
  "dead", or "unknown" when there is none; a probe refused by the operating system is not modelled.
- A launch returns a shell or raises. It may raise after the shell ran, in which case the launcher has
  killed it.
- Time: a reservation may be given up at any moment when `LaunchMayOutliveGrace` holds, else
  only when nobody launches it any more. The waits inside a launcher are 45 s and 30 s, the
  grace is 180 s by default, so the normal case is FALSE.
- A restart is one step: the pool stops, a subset of the shells survives, the file is loaded and
  `mark_interrupted` runs before a request is served.
- A refusal that changes nothing is no step. A refused spawn that reconciled the registry
  first is (`SpawnRefuse`). The resume refused by its plan check changes nothing.
- `usage()` goes on from row to row, in any order; it may also stop after any row, since which rows it finds dead is up to the shells.
- The updater's pass takes the mark off and reads the lock in one step; the code does so in two
  steps of one thread, and a resume looks at the row again in any case (`ResumeApplies`).

`Ops` is the set of operations the environment calls. The sets of `MCPoolSessions` restrict the callers, not the code, and
each property is checked under the widest set of calls it survives; with one more the code has the fault that the list under
"What the restricted runs leave out" names. `ClosedResumesOverlap` = FALSE lets whoever brings a closed seat back, by `resume_closed` or by a `resume` that
found no lock, be the only one at work on its handle; TRUE, in `pool_two_shells`, lets such resumes overlap, as in the code.

### `SeatPerHandle` — what the registry promises

A session id is fresh, seated, left or gone; a session takes its handle's seat only when nobody else sits
there, or in the same step in which the sitter leaves; a session whose launch failed never returns.
`PoolSessions!Phase` is the refinement mapping: starting, active, parked and resuming rows sit.

### `BrokerInbox` — the broker's inboxes and streams

The broker is one process: an event loop, and worker threads for appends and reads. One action is one
stretch of a worker, or what the loop does between two awaits:

| Code | Actions |
| --- | --- |
| `publish` (service.py 101-131), `append` up to the lock (store.py 198-203) | `Route` (resolves the address, or refuses an unresolved `owner/alias`) |
| `append` under `_append_lock` (store.py 210-216) | `Stamp` (tail, ts moved forward, mark), then `Write`, or `WriteTorn` when the write fails half-way |
| `publish` after the append (123-131) | `Notify` (resolves the address anew, sets two events, returns the id) |
| `alias` (283-295) | `PutAlias` |
| `events` and its generator (236-281) | `Connect` → `Read` → `Yield`… → `Wait` → `Wake` or `KeepAlive` → `Read`; `Drop` |
| a stop and a start (83-92, `InboxStore.__init__`) | `Restart` |

`lines` holds, per file, the mail whose line can be parsed; `torn` says that the file ends in part of a line.
`lastTs` is `_last_ts`, `flag` the events of `StreamHub`, `lock` the holder of `_append_lock`. Per
publish request `pc`, `to`, `ts`, `target`; per stream `at`, `batch` (read and not yet sent), `cursor`,
`received`. `glued` and `tears` are history: acknowledged mail lost to a torn line, and how many lines were torn.

Abstractions:
- A line no reader can parse is not in `lines`: `read` and `_tail_ts` both skip it.
- A ts is a natural number. Every sender under `src/` stamps UTC, so two ts can always be compared.
- Requests take ids in the order in which they begin; what they do after that is interleaved freely.
- A read is one step. A line that is being written while a read runs does not parse and is met by the next one.
- A failed write leaves part of the line. A write that leaves nothing changes only the mark, one that leaves the
  whole line without its newline is the case of a torn line that still parses; neither is modelled.
- The client's cursor survives a lost connection and a restart of the broker, as the rx driver's does. `Drop`
  stands for a connection that breaks and for one that reaches `max_seconds`.
- `Registered[a]` lists the targets an alias gets, in turn. The assumptions say that no target of an alias
  shares a file with another or with the alias itself; that holds for what the pool registers (a colon handle to its
  dash inbox, `parent/child` to a session).
- Two addresses may have one file (`FileOf`): `_safe` maps `plan:a1` and `plan_a1` to one name.

### `Mailbox` — what a reader is promised

Mail is posted to mailboxes; a reader receives it in the order posted, once each, and passes over none but
mail whose address moved meanwhile. A mailbox is the set of what was posted to it (`posted`) and the pairs of
that set in the order of posting (`before`). The mapping takes for them the lines whose target is the stream's recipient and their order
in the file, the mail whose address resolves elsewhere by now for `moved`, and what the stream received for `got`.

### `InferenceLane` — one turn at a time across processes

Each process runs `admission.py` (and its twin in `v8/.pi/extensions/edp8.ts` 695-793) on the same directory. One
action is one call that others can see:

| Code (`admission.py`) | Actions |
| --- | --- |
| `acquire` 128-164 | `NameTicket` (132-133) → `Enqueue` (134-136) → `Poll` (138-144) → `LookAtLock` (145) → `ReclaimFile`, `ReclaimDir` (146) → `Take` (147-150) → `WriteHolder` (151-156); `GiveUp` (157-164) |
| `touch` 56-60 | `Touch` |
| `release` 62-70 | `ReadLease` → `RemoveFile` → `RemoveDir` |
| the passing of time, a process that ends | `ClockTicks`, `LockGoesStale`, `TicketGoesCold`, `TicketAges`, `Killed` |

`ticket` is the set of callers with a file in the queue; `older` orders the names, those too that are made (133) and whose file is not yet written
(134): by the millisecond, and within one (`fresh`) by priority and the random id. `cold` and `aged` are what the ages of a ticket mean; `lock` is the directory, the
holder in its lease, and whether the lease is stale. History: `ahead`, which tickets were in the queue, a millisecond or more before, when a caller came; `reclaimed`, whose
lock was taken away as stale; `raced`, that a lock was made while another caller was between its look at a lock and its removal by path.
A `world` says who asks for the lane and who for a human, who may be killed (anywhere) and who suspended (in its turn or while it waits). The machine's clock is taken
to go forward.

### `Tickets` — one epic's tree, requests beside each other

The routes run in worker threads (service.py 1061-1065) and hold no lock: the store's lock (store.py 87-118) covers one read or one put, the board's
`_lock` only what a few requests put inside it (`ticket_create` 618-641, `criterion_create` 1566-1593, `_link_create` 2020-2024, `gate_answer` 2563,
`requirements.mark` and `link` 87, 158), and a transaction only the last three. So a request is a stack of frames, what it has still to do
(`calls`), and a step takes the first frame: it is one look at the tables, which may push frames, or one put. A row is put whole, as it was read, with
the one change (`PutRow`). The frames `Unlock` and `Commit`, at the bottom of what runs inside, stand for the board's lock and for a transaction.

| Code (`board.py` unless said otherwise) | Definitions |
| --- | --- |
| `ticket_create` 540-648 | `TicketCreate` |
| `ticket_update` 921-1044 | `TicketUpdate` (reads the row, 937) → `Guard` (1011) → `Put` (1017) → the cascade → `Reread` (1036-1039); `SetDesign`, `Edit` → `PutBack` (1017) → `Carry` (1043) |
| `criterion_create` 1537-1601 | `CriterionCreate` (1539, 1562) → `AddLine` (1566-1593) → `Recarry` (1600) |
| `criterion_update` 1603-1823 | `CriterionEvidence`, `CriterionVerdict` (read the line, 1621) → `PutLine` (1709) → `Reopen` (1772) → `Reread` (1773) |
| `_auto_advance` 1802-1823 | `Reread` → `Advance` (the lines, 1811) → `Requirements` (1817) → `Put` (1820) → the cascade |
| `_after_status` 1192-1264 | `After`: `Retire` (1198), `Release` (1203) → `Ready` (1184-1186, 1216-1217) → `Put` (1188, 1219); `Parent` (reads 1223, 1226) → `Follow` (1232, 1238) or `AdvanceEpic`; `AllIn` (1258) → `ToReview` (1261); `Kids` (1208) |
| `_advance_epic_phase` 695-716 | `AdvanceEpic`: `Put` (709) → its own cascade → `Advance` (716) |
| `auto_carry` 1077-1099, `_close_open_gates` 2671-2677 | `Carry`, `Retire` |
| `link_create` 1998-2044 | `LinkCreate` (2014) → `Link` (2022) → `Reconcile` (2033-2039) → `Ready`…, or `WalkBack` (2041) → `Unlock` |
| `gate_open` 2468-2498, `gate_answer` 2561-2632 | `GateOpen` → `Carry` → `AskGate` (2481) → `OpenGate` (2496); `GateAnswer` → the cascade, `Held` → `Each` (2629-2631) → `Unlock`, in one transaction |
| `message_send` 2370-2416 | `MessageSend` → `Reread` (2415) |
| `requirements.py` 81-209 | `RequirementMark`, `RequirementLink` (a transaction each, one step) |
| `schemas.py` 1019-1035, `workflow.py` 609-690 | `Transitions`, `MayArrive`, `LintClean` |

Every property that an overlap of requests can break is stated with the overlap it does not survive, and with no other. Two history variables say where one took place: `news[th]`,
what turned against the request of thread `th` while it was at work (a requirement marked, the gate opened, a ticket blocked again), and `astray[t]`, what was left in ticket `t` that nobody
looks at again (a put over another request's, a line that came after the hand-off). The list is under "In the board's tickets" below.

Abstractions:
- Reads that follow each other with no put of the same request between them are one look, but a row that is put back later is read in a step of
  its own or earlier: `_after_status` reads the parent and its kids in one step (1223, 1226), a release a successor's blockers and the gate (1185-1186).
- Who may ask (roles and assignees) is left out, so more is asked than the code allows. Caps, retyping, acceptance and scope gates, the
  architect's fallback, topics, `link_delete`, links to other trees and evidence versions are left out; the owner's override is the constant
  set `Overridden`; the open requirements are one Boolean; a design is set only on a ticket read as drafted (a bound).
- A process that dies half-way through a cascade is left out, and so are the waits of `_emit` for the board's lock, which move no put.

### `Feed` — from a commit on the board to a line in a seat

| Code | Actions |
| --- | --- |
| `_emit` and the store's callbacks (board.py 456-462, store.py 87-131) | `Commit`, then `WriterStep`: `FanOut` (4444-4450), and when the queue was full `DropOldest` (4451) → `MarkResync` (4454) → `PutAgain` (4456) |
| the broker's copy (delivery.py 59-93), queued by the event's own fan-out (board.py 4442-4484) | `Publish` |
| the feed route (service.py 2245-2272) | `Connect` → `Replay`… → `Ready` → `Take` (gets an event, 2259) → `Live` or `Resync` (looks at the mark, 2263) → `Take`…; `EndStream`, `Disconnect` |
| the listener's board thread (feed_driver.py 676-707, 552-571) | `Mark`; `BoardClaims` → `BoardPrints` → `BoardCommits` → `BoardAdvances` |
| its broker thread (710-735, 573-596) | `BrokerReads` → `BrokerClaims` → `BrokerPrints` → `BrokerCommits` → `BrokerAdvances`; `BrokerWriteFails` (588-593) |
| its death and start (309-332) | `Crash` |

Events are "plain", "message" (whose preview may cut it) or "own" (the seat's own act). `inbox` holds the
broker's copies; the ts of a copy is its position, which `BrokerInbox` justifies: stamps rise along a file. `boardSeq`, `brokerTs`, `seen`
and `partial` are the saved state, `reserved` what a thread is printing. `cut` and `full` are history: the lines printed; so are `dropped`, what was dropped from
the queue of the stream that is up, and `passedOver`, the events a later one was streamed before. A commit's callbacks run in their writer's thread (store.py 117), any
number of writers and the stream's loop beside each other.
Abstractions: one call of `put_nowait` or `get_nowait` is one step (the deque's own); a write that fails on the board's thread ends the listener (as `Crash`), on the broker's thread it ends the thread; the
broker's stream resumes at `brokerTs` when it breaks; saves succeed; `seen` is not cut to its last entries; events the seat is not
concerned with are left out, and so are events from before the first saved cursor.

### `Update` — one update, its two processes, and who acts beside them

The calling process takes the lock and hands over to a helper. `helper` is where the work stands and its variables; in a
tool environment the caller does the first part of the work itself.

| Code | Actions |
| --- | --- |
| update_lock.py `live`, `held` 63-78; `join`, `add_pid` 93-110 | `Alive`, `Held`; `With` |
| updater.py `_take_lock` 916-926, `apply` 934-942 | `CallerLocks`, `CallerRefuses`, `CallerGivesUp` |
| updater.py `_apply` 999-1051, `confirm_started` 885-911 | `CallerWorks`, `CallerStops`, `CallerFails`, `CallerDetaches`, `CallerAddsPid`, `CallerEnds`, `CallerMissesHelper` |
| update_helper.py `main` 304-334, `_steps` 337-383 | `Finish`, `HelperJoins`, `CallerGone`, `CallerStays`, `ResumeDone`, `HelperCrashes` |
| `_park_all` 524-552, `_resume_now` 579-596 | `ListSeats`, `ParkSeat`, `ParkFails`; `ResumeSeat`, `ResumeFails` |
| `_msi_update` 805-942, `_end_parked_shells` 995-1026 | `InstallerVerified` … `InstallTimesOut`, `AfterStart`, `OutcomeState` |
| `relaunch` 766-775, launcher.py `start` 391-470 | `Starts`, `StartsUnhealthy`, `StillRuns` |
| `back` 854-896, `_restore` 279-301 | `BackStops`, `NoWayBack`, `Reinstall`, `ToolReinstall`, `Restore`, `Repair`, `NoRepair`, `BackWorked` |
| `_msi_steps` 777-803 | `HelperRaises` with `Recover`; `CutShort` is what a step has done when it is cut short |
| a killed helper | `HelperKilled` |
| launcher.py `start` by a person 391-399 | `UserStarts` |
| pool service.py 783-830, 1866-1975, 1977-2178; resume_watchdog.py 371-408 | `Interrupted`, `PoolPass`, `Parked`, `Resumed`, `MailResumes` |

A row of the pool is abstracted to active, parked or dead, with the updater's mark and whether its shell lives; what
`PoolSessions` says of the steps in between is not repeated. An install has a registered version and files, which a
failed or interrupted transaction may leave mixed. Abstractions: the caller is not killed; writes of the lock
file and of the outcome succeed and each is one step; board and pool start and stop as one; the seats are past their launch; a shell does
not exit on its own; the wait for an idle installer is long enough; a person's look at the lock and the start it allows are
one step; the code server, the windows and the compatibility check are left out.

### `Launcher` — how a service is kept running

One service with a port, its processes, the run record, the supervisor, and commands that act through it or by themselves. An action is
what an actor does between two looks at the machine:

| Code | Actions |
| --- | --- |
| cli.py `_via_control` 207-215, `start` 218-249, `stop` 347-381, `restart` 384-430; control.py 138-172 | `Ask`, `AskAll`, `AskOther`, `Fallback`, `Interrupt` (Ctrl+C) |
| supervisor.py `dispatch` 273-290, `resume` 91-99 | `Granted` |
| supervisor.py `tick` 59-89, run_state.py `mark_probe` 167-182, `relaunch` 160-168 | `TickProbe` → `TickMark` → `TickDecide` → the steps of a stop and a start |
| supervisor.py `run`, `main` 101-117, 323-333 | `SupExits`, `SupDies` |
| launcher.py `stop` 790-833, `_targets` 516-530, `unrecorded` 587-604, `_ours` 708-719 | `StopFindsNothing`, or `StopLook` → `StopKill` → `StopVerify` |
| launcher.py `start` 391-458, `leftovers`, `_recover` 607-705, `_adopt_race_winner` 374-388; run_state.py `adopt` 135-157 | `StartLook` → `RecoverAdopts` or `RecoverClears`; `StartPort` → `Detach` → `WaitAnswered`, `WaitExited`, `WaitTimesOut` → `RaceAdopts`, `RaceIsLost`, `WriteRecord`, `WriteFails` |
| launcher.py `ensure_supervisor` 841-874, `stop_supervisor` 877-892 | `Ensure`, `SupStopped` |
| a process of the service | `ComesUp`, `Breaks`, `AnswersAgain` |

A process is coming up, answers, hangs (it listens and does not answer), or is deaf (it lives without its listener, design 18.3). `record` holds the
pid and the root of `<svc>.json`; `sup` the supervisor's memory, lost with it; `act[a].via` says that the supervisor does `a`'s
request, under its lock. `quiet` and `held` are history: a stop that no start overlaps, and that it succeeded.
Abstractions: a kill kills; the two writes of a new record are one step, and of the supervisor's read-modify-writes of it only
`mark_probe` is split; a new supervisor answers at once, and two are not brought up at the same time; a control call
does not time out; other homes, other versions of the service, update locks, the pool's seats under a restart and `heronry stop supervisor` alone are
left out. A process that would come up is stopped for being slow only as a fault.

## Runs

| Run | What happens in it | Checks |
| --- | --- | --- |
| pool_seats | spawn, release, reap, park, exit, restart on two handles, cap 1, ceiling 1 | `SeatHoldsLock`, `LiveCeiling` |
| pool_resume | three threads: spawn, release, park, resume (of closed seats too), exit, updater, calm restarts | `TypeOK`, `ReservationHoldsLock`, `OneShellPerHandle`, `NoShellIsLost`, implements `SeatPerHandle` (`SeatsOnePerHandle`) |
| pool_close | spawn, release, reap, usage, sweep, exit; launches may outlive the grace; fair | `CloseHonoured`, `GivenUpLaunchEnds` |
| pool_two_shells | spawn, release and two overlapping resumes of the closed seat | violates `OneShellPerHandle` |
| broker_mail | three publishes to two addresses sharing a file, an alias that moves twice, one stream, one fault; fair | `TypeOK`, `NothingSkipped`, `AckedIsStored`, `SoleReaderAwake`, `EveryMailArrives`, implements `Mailbox` (`DeliversInOrder`) |
| lane_turns | three callers, one may be killed anywhere and one asks for a human; or two, one suspended, one killed; fair | `TypeOK`, `OneHolder`, `HolderKeepsLock`, `NoOvertaking`, `WaiterIsServed` |
| lane_two_holders | a killed holder and two waiters that both saw its lock stale | violates `OneLane` |
| tickets_walk | two threads that serve requests step by step, in eight worlds: an epic being drafted, its gate, a hand-off under review, late lines, links, a lagging epic, an epic's end, a quick task | `TypeOK`, `NoStrandedReview`, `NothingLeftWaiting`, `LastReleaseReviews`, `ReadyIsEarned`, `EndedIsSettled`, `FinalIsFinal` |
| feed_stream | three events, one of each kind, a queue of two, one broken stream, one death of the listener; fair | `TypeOK`, `NeverBehindBoth`, `NeverTwice`, `LiveStreamIsComplete`, `EveryEventArrives` |
| update_swap | a bundle or a tool environment, two seats; any command fails, one exception and a second, or the helper is killed; fair | `TypeOK`, `OldRunsOnOldData`, `LockCoversUpdate`, `OutcomeIsTrue`, `SeatsComeBack` |
| update_left_parked | the pool answers a resume and cannot launch the shell | violates `OutcomeIsTrue` |
| launcher_keeps | two commands and the supervisor on one service of a bundle; two things go wrong (a process breaks, a command is interrupted, the supervisor dies, a record is not written, a start is slow); fair | `TypeOK`, `StopHolds`, `ComesBack` |

Bounds of the pool's runs (`pool_seats` 249,268 states, `pool_resume` 25,334, `pool_close` 36,469). Two threads: every property compares two actors, or an actor and a row, and a thread that is
idle may begin anything, so a third adds no new pair. `pool_resume` has three: two that overlap on one session and one that closes it. Two generations per handle: the old session and the new
one. In the runs that watch shells, three of them, one more than the sessions that may run, so that a forgotten shell can be told from its
successor. `pool_seats` has two handles, because the ceiling counts across them, and a ceiling of one, so that every second
launch meets it. Symmetry is used over shells, threads, generations and (in `pool_seats`, where nothing tells them apart) handles;
not in `pool_close`, which checks liveness. A calm restart comes at any time, in the middle of a resume too, but not between a launch and
its record, nor between a close and its kill.

Bounds of `broker_mail`. Three messages: a torn line, the one glued to it, and the one after; two for any pair of
appends that race, and a third already received. Two values of the senders' clocks give equal, rising and falling
stamps. One fault (a restart, a torn write or a lost connection) at every point; the proofs are for any number. One
stream, because streams share nothing but the event of their recipient, and the property about that event
is about a stream that has it alone. No symmetry: the order of the messages counts and liveness is checked.

Bounds of `lane_turns` (109,128 states). Three callers (a holder, a waiter, and one that overtakes or reclaims), of which one may be killed anywhere and one asks for a
human; and two, of which one is suspended and the other killed: the lease's holder and the one that replaces it. Callers ask again without bound.

Bounds of `tickets_walk` (493,966 states). Two threads: every fault and every property relates a request at work to one other put. Each of the eight worlds of
`MCTickets` starts where one kind of race is near and names the requests that are made there, four or five in all (`left`), in any order, any of them again
and again. Every guard and every step of the cascade relates a ticket to its parent, its children or the two ends of a link, and each world has one such neighbourhood;
story `s` has two lines, the others one. Each exception of the properties was checked to be reached: without it the run fails. The threads are symmetric; no liveness is checked.

Bounds of `feed_stream` (806,226 states). Three events over a queue of two: the third overflows it, while one is at hand and one waits; one fault and one
death at every point. The kinds come in one order, since the commits of different kinds differ only in what the listener does with them. A queue that is full again when
a writer puts its event back (4456-4458) needs a second overflow, which these bounds do not reach; the proofs cover it.

Bounds of `update_swap` (46,378 states). Two seats, so that a step may reach one and not the other. Nothing else is bounded: an update is finite. The
first exception leads to recovery, a second one ends it.

Bounds of `launcher_keeps` (224,294 states). Two commands at a time and two in all, besides the supervisor: a stop and what undoes it, or two that overlap. Two
faults: one that breaks the service and one that breaks its repair. Three processes: the one recorded, one left over, one being started. Two misses
and one restart in place of three and five reach the crash loop in the same way. No symmetry, because liveness is checked.

`CHECK_DEADLOCK FALSE`: in the pool's runs the generations are a bound, so a run ends when all are used; in the broker's
and the feed's the messages are, in the launcher's the commands; an update ends. `lane_turns` and `tickets_walk` check deadlock.

Fairness:

- `pool_close`: a thread that has begun an operation keeps being scheduled, one weak fairness condition per thread. A request thread is an
  operating-system thread and every wait in a launcher has a timeout (spawner.py, `pty_launcher.py`), so a launch returns or
  raises. Nothing is assumed of callers, shells, restarts or the updater.
- `broker_mail`: one weak fairness condition per stream. The event loop and its workers run, the
  keep-alive timeout of 15 s fires (service.py 276-279), and a client that lost its connection connects again (service.py
  244-246: "the rx driver reconnects"). Nothing is assumed of publishers, aliases or faults.
- `lane_turns`: weak for each caller's polling loop, for a turn's end, which the harness brings about in any case (admission.py 62-70), and for the
  clocks. Nobody must ask, give up, oversleep or die.
- `feed_stream`: weak for the writers' callbacks, publishing, the stream (one coroutine), the two threads and the retry loops, which run for ever; a
  listener whose output has no reader is started again. Faults are never owed.
- `launcher_keeps`: weak for the commands, the supervisor's loop and a process that is coming up; strong for the grant of a request, since the supervisor's
  lock is free for the 15 s between two rounds, again and again. Commands, faults and recoveries of a hung process are never owed.
- `update_swap`: weak for the steps of the caller and of the helper, each of which is one sequential process with timeouts. Nothing is
  assumed of failures, of a person, of mail or of the pool's pass.

### What the restricted runs leave out, and what happens there

Each call set is what it is because with one more operation the code no longer has the property. Three disagreements
with what the repository says of itself are runs of their own:

- **pool_two_shells**: `resume` of a handle without a lock goes on to `resume_closed` (1989-1991), which does not enter the session into `_resuming_inflight`; a second
  resume that meets the resuming row before the first has launched takes it for one that a restart left, finds no live process and launches a second shell, against 1980-1982 ("cannot double-spawn") and 444-445.
- **lane_two_holders**: two waiters see the same dead lock; the second reclaims (admission.py 146) after the first has made its own, and removes
  that. `OneLane`, "ONE cross-process inference lane" (admission.py:1), does not hold. What `lane_turns` checks and the proofs show for every world is that there is no
  other way: `OneHolder` and `HolderKeepsLock` hold until a lock is made in that gap (`raced`). The gap of `release` (65-70) is of the same kind: a holder that slept past its lease
  and wakes compares it before the reclaim and removes the replacement's lock after it, against 20-21 ("a reclaimed-as-stale lease never deletes its replacement's lock").
- **update_left_parked**: an answer of the pool counts as a resume (update_helper.py 590), also when it says the seat was left parked.

Others were met while modelling and have no run. In the pool:

- So in `pool_resume` whoever brings a closed seat back is alone on its handle. `resume_closed` called by its own route (2853) may
  take the lock of a seat that a release is about to kill, and its shell is lost; `pool_resume` reaches `resume_closed` through `resume` only. Nor does it
  remove `park_for_update`, while 2085 says any resume consumes the mark.
- `usage` reconciles without the mutex: it looks at a row (1036), marks it, compares the handle's lock (1044) and deletes it (1045). A spawn admitted after the comparison
  has its reservation's lock deleted, and a second spawn is admitted beside it: `ReservationHoldsLock` and `SeatHoldsLock` fail in ten states as soon as usage is called
  together with spawn. So `pool_seats` and `pool_resume` have no usage.
- `reap` defers to a starting row but not to a resuming one; the resume registers the reaped row as active, without a
  lock (2155; contrast 2538-2541). So `pool_seats` has no resume.
- A restart during a launch leaves a starting row that no thread launches and every cap counts (1283; contrast 1085-1087), and a shell that was
  launched but not yet recorded survives with nobody who knows it; a restart between a close and its kill leaves the closed session's shell running. So
  the restarts of `pool_resume` are calm.
- After a restart the spawner knows no shell, so the lock of a session that was just closed is taken over before its shell is killed; before a restart
  it is not. `OneShellPerHandle` excepts a shell that is about to be killed.
- A release deferred on a resuming row and saved is still on the row after a restart; the next resume closes itself after
  registration (2255-2257 clears it elsewhere for that reason).
- `resume` of a dead row and `resume_closed` are not compared with `max_live_shells`, while 656-657 calls it the
  hard ceiling of live processes. So `LiveCeiling` is checked without them.
- `sweep_crashed` reads, asks and writes without the mutex: a release in between is marked dead and reported as a crash
  (1760; 1730-1732 says park and reap set the state first).
- A park between the registration and the deferred release makes that release return without effect (1493; 1487-1489 says it is
  honoured). So `pool_close` has no park.

In the broker:

- "Skip it; the valid mail flows" (store.py 232-234): the message after a torn line is appended to that line (216) and lost
  with it, though its id was returned. `AckedIsStored` says how far it goes: one message per torn line.
- A read on an aliased form "lands on the same file `append` wrote to" (store.py 221-223): both resolve the address when they run (199), so
  mail appended before the alias is registered is in a file the reader no longer opens. `NothingSkipped` and
  `EveryMailArrives` speak of mail whose address still resolves to the recipient.
- Two streams of one recipient share an event (service.py 57-59, 80): the waiter that clears it hides the wake-up from the other until its
  keep-alive. So `SoleReaderAwake` is about a recipient with one stream. A stream that subscribed under an alias is not woken
  by mail addressed to the target itself (127-130); streams of the model ask for plain names.
- A ts without a time zone, accepted into an empty inbox, makes every later comparison raise (store.py 212). `splitlines` (229) also splits on
  U+0085, U+2028 and U+2029, which JSON leaves unescaped: such a message is acknowledged and can never be parsed.

In the board's tickets, where two requests overlap (the exception of a property in parentheses):

- `_auto_advance` and the guard of `done` look at the requirements (1817) and put the epic later (1820, 1017), without a lock: a requirement marked in between finds the
  epic not yet ended and does not reopen it, so it ends over an open requirement (`EndedIsSettled`: "open" in `news`).
- Every cascade puts whole rows that it read before. A parent read at 1223 and put at 1232 or 1238, or by `_advance_epic_phase`, takes an epic back that
  another request has moved on, or leaves it behind its kids (`LastReleaseReviews`: "stale"), and takes a ticket out of done (`FinalIsFinal`: the row it read; a dependent read at 1176 and put at 1188
  comes back from dropped in the same way). An edit or a design_ref (937, 1017) puts the status back that it read: an ended ticket comes back, a finished hand-off
  rests in review (`NoStrandedReview`, `NothingLeftWaiting`, `LastReleaseReviews`: "edited").
- A release looks at the blockers and the gate (1185-1186) and puts `ready` later (1188), unlocked: a link created, a blocker sent back or a gate opened in
  between does not hold the ticket (`ReadyIsEarned`: "blocked" or "gate" in `news`); 2017-2019 promises as much only of two links.
- `_reconcile_blocks` finds the predecessor unreleased (2033-2037) and puts the successor back to signed_off (2041) under a lock that `ticket_update` does not take: when the
  predecessor is released in between, nobody looks at the successor again (`NothingLeftWaiting`: "link").
- `criterion_create` looks at the status (1562) before it takes the lock (1566), and `criterion_update` puts the whole line it read (1709): a line without its evidence
  may turn up on a ticket in review or done, and its story is not released when the evidence comes (`NothingLeftWaiting`, `LastReleaseReviews`: "line"). An older verdict
  may come back the same way; the request that puts it looks at the ticket afterwards.
- `gate_open` that looked (2481) before the epic ended opens a gate on an ended epic (2496), which nothing retires; no property speaks of it.

And where they do not overlap:

- A ticket whose design was signed off while its story's gate was open passes it when a person says `ready` (workflow.py 628-631 does not ask for it; 1145-1146 says an open gate "HARD-BLOCKS readiness below it"). So `ReadyIsEarned` speaks
  of the cascade below a gate, not of a person. An epic that ends with its gate open retires the gate and looks at nothing it held (`NothingLeftWaiting`: "retired").
- A requirement that reopens an epic does not look at its stories (`LastReleaseReviews`: "reopened"). `link_delete` does not release a successor, linking a
  requirement does not advance a ticket that waited for it, and a task's start puts its story at work without telling the epic.

In the feed:

- Two committers run their callbacks in either order (store.py 116-118), so a later event may be streamed first; the route's cursor and the listener's then pass the
  earlier one, which a replay no longer brings (feed_driver.py 311-312, service.py 2268-2269).
- A writer drops the oldest event (board.py 4451) and marks the queue three lines later (4454). A stream that looks at the mark in between streams the event
  it got, a later one, moves its cursor, and the `: resync` that follows starts after the dropped event, which is lost; service.py 2264-2266 says the
  replay "refills the gap". `passedOver` has the events of these two kinds, and `NeverBehindBoth` and `EveryEventArrives` except them and no others.
- The broker's copy of a message may arrive while the board's thread is printing its preview: it is passed over and the full
  text never comes (513-519). Events without a message id that are committed between the subscription and the replay are printed twice. Two
  deaths of the listener, each in the middle of a line, with late duplicates lose a message.

In the updater:

- Two updaters may both find no lock and both write one (update_lock.py 81-90), and `held` may remove a new updater's lock
  for the dead one it has read (67-78). A person's start looks at the lock long before it launches (launcher.py 397).
- A failed write in `add_pid` makes the caller release the lock while its helper runs (updater.py 1042, 845, 934-942), and a caller killed between
  the start of the helper and `add_pid` leaves the helper without a lock until it joins.
- A row in `starting` answers a park with `parked: false`, which counts as parked (update_helper.py 542-546).
- A helper killed between the reinstall and the restore of the backup lets a person start the old version on the new data; this is why
  `OldRunsOnOldData` excepts a dead helper.
- A seat that mail took up during the update, and whose shell the stop then kills, is left dead: `SeatsComeBack` says no more than that
  it is not left parked.

In the launcher:

- What an admin stopped is kept in the supervisor's memory (supervisor.py:53): the supervisor that the next `heronry start <other>` brings up probes the
  service, and starts it ("never restarted until it is started again", supervisor.py:12-13). So `StopHolds` ends when a new supervisor comes up.
- `stop_supervisor` kills a supervisor that does not end within 5 s (launcher.py:888), while a start it is in waits for 60 to 90 s: the process it
  has detached is in no record. In a bundle `stop` finds it by its command line (587-604); elsewhere it does not, though `leftovers` (607-624) would,
  and `StopHolds` fails. So `launcher_keeps` is about a bundle.
- A service whose recorded process lives without its listener counts as running, so `start` looks for no leftover and launches a second one beside it (launcher.py:409).
- `mark_probe` (run_state.py:167-182) writes back the record it has read; a command that wrote one in between, without the supervisor, is undone.

Beside the modules: in `idempotency.py` a crash between the commit of a create and `idem_put` (125-143) runs the create again, while line 3
promises at most one; `tool_idem.once` looks and then creates (46-66).

## Proofs

The pool's are for any number of handles, generations, shells and threads, any caps, and every set of operations.

- `PoolSessionsProofs`: `TypeCorrect == Spec => []TypeOK`. The invariant `Typed` adds to the types that a
  thread that has begun an operation has a session; without it nothing is known of `on[t]`.
- Its second part, `ReservationsAreSafe`: that `LockNamesItsSeat`, `ReservationHoldsLock` and
  `OneSpawnPerHandle` (never two spawns that launch on one handle) always hold, restarts and every interleaving included. Assumption:
  `ReservationAssumption`: no launch lasts longer than the starting grace (else another spawn
  may take the lock of a session that is still being launched), and nobody calls `usage` (its reconcile deletes a new reservation's lock, see the list above). The inductive invariant `ReservationInv` says
  three things: the locks and rows in memory are as required; so are those of the state file, which a
  restart loads; and each thread that launches a spawn is on a starting row that is its own, while
  every other thread that has looked at a row is on one that has left starting for good. The third part is
  why nobody else can write a reservation: the threads that act on stale rows (sweep, the second
  half of release, a resume that returns) only write settled ones, and a reservation is not settled. The lemma
  `SettledStep` covers these at once.
- Its third part, about the rows that count as live (starting, active, parked, resuming). Assumption: `SeatAssumption`, that is, the former, closed seats brought back by `resume` only and by
  one caller alone on the handle (`~ClosedResumesOverlap`), and if anybody resumes, no reap or sweep (with them the code loses a seat's lock, see the list above).
  - `SeatsHoldTheirLocks == Spec => []SeatHoldsLock` and `SeatsAreImplemented == Spec => SeatsOnePerHandle`, the refinement of `SeatPerHandle`. `SeatInv`: a row that
    counts as live, or may be resumed, has its handle's lock, in memory and in the state file; the lock and the row change together; and one thread at most relaunches a session. Whoever
    brings a closed seat back is alone on the handle (`Secluded`), so the seat it takes is free.
  - `CeilingHolds == Spec => []LiveCeiling`, where nobody resumes. A spawn counts the live rows in the step that adds one, and every other step only takes rows away.
  - `ShellsOnePerHandle == Spec => []OneShellPerHandle` and `ShellsAreKnown == Spec => []NoShellIsLost`, where restarts are calm (`ShellAssumption`). `ShellInv`: a shell
    that runs is the one the spawner or the row names, and its row is live or a thread is about to kill it; a thread that launches for a session has seen that no shell runs for it (`Bare`).
- `SeatPerHandleProofs`: `SeatsAreApart`, that the abstract registry never seats two sessions on a handle.

- `BrokerInboxProofs`, for any number of messages, addresses, files, aliases, streams and faults:
  - `TypeCorrect`, the types.
  - `NoMailIsHidden == Spec => []NothingSkipped`. Inductive in two parts. `FilesInv`: a line is in the file of its
    target (`Filed`), stamps rise along a file (`Rising`), the cached mark is never behind the file (`Cached`),
    a request that has stamped holds the lock and is newer than its file (`Locked`), a stamp is not zero (`Dated`), and
    a request goes to its address or to a target registered for it (`Routed`). `StreamsInv`: a cursor is the stamp of a
    line of the inbox (`CursorOnLine`), and a batch leaves out nothing unread that comes before a mail it holds
    (`BatchWhole`). Without `Rising` and `Locked` an append could land under a cursor.
  - `NoWakeupIsLost == Spec => []SoleReaderAwake`, from the above and `WakeInv`: between a stream's read and its
    wait, unread mail is in the batch, is about to be notified, or has set the event.
  - `MailIsDeliveredInOrder == Spec => DeliversInOrder`, the refinement of `Mailbox`: every step posts a mail after all that is
    there (`Rising`, `Locked`), moves an address, delivers the oldest mail a reader lacks (`BatchWhole`), or maps to a stutter.
  - `AcknowledgedIsKept`, for a finite set of files: the lines torn so far are at least as many as the messages glued and the
    files torn now, so one message is lost per torn line at most.
  Assumptions: `AddressAssumption`, `AliasAssumption` (see the abstractions above).

- `InferenceLaneProofs`, for any callers, priorities, ages, give-ups, kills and suspensions, with no assumption but that `NoOne` is no caller:
  - `TypeCorrect`.
  - `TurnsAreExclusive == Spec => []OneHolder` and `TurnsKeepTheirLock == Spec => []HolderKeepsLock`, in every world. `LaneInv`: until a lock is made in a gap, a caller that
    made a lock and has not named itself in it is alone, its lock empty and new (`WriterIsAlone`); a caller in its turn is named by the lock, and whoever may
    still clear it has not begun (`HolderIsAlone`).
  - `OnlyFailuresRace == Spec => [](Untroubled => ~raced /\ OneLane)`: in a world in which nobody is killed or suspended there is no such gap, and the lane is ONE. `OwnedByOne`: the
    directory is there exactly while one caller owns it.
  - `NobodyIsOvertaken == Spec => NoOvertaking`. `older` is a strict order of the names (`StrictOrder`); by `OldestAgeFirst` who has passed the look at the queue left nobody
    behind that was there before it, but a seat before a human (`FirstInLine`).
- `FeedProofs`, for any bounds and with no assumption on the order in which writers and the stream take their steps:
  - `TypeCorrect`; the type invariant is strengthened with the shape of a thread's place (only messages are reserved or seen).
  - `NothingDropsUnmarked == Spec => []LiveStreamIsComplete`. `NothingElseMissing`: what was fanned out after the stream's cursor is in the queue, at hand, or dropped;
    `MarkComes`: what was dropped is followed by a mark, by the writer that dropped it; `MarkIsSet` and `QuietWhenDown`: a set mark stays while the stream is up, and nothing is owed to one that is down.
  - `NothingIsLost == Spec => []NeverBehindBoth`. `SentInv`: what the stream's replay and queue can still bring; `CursorInv`: between the saved cursor and what was streamed there is only what
    was passed over, and the board's thread is at most one event past its saved cursor; `ShownInv`: what is seen was printed; `PassedInv`: a thread passes a message unprinted only for the sake of the
    other; `SkipInv`: what the board's cursor has skipped has its copy ahead of the broker's.
  - `MessagesPrintOnce == Spec => []NeverTwice`. `OnePrinter`: a reserved message belongs to one thread; `Counted`: lines printed are seen, or
    are being committed, or a death of the listener accounts for them.
- `TicketsProofs`, for any tree, lines, links, worlds and number of threads, with no assumption on how requests overlap. The invariant `Well` says what a
  request under way may be. `Stacks`: only its first frame may write (`First`), the rest only looks (`Later`), and whoever puts a line or hands a ticket off looks at that
  ticket afterwards (`Promises`). `Grounded`: what a write rests on was true when the request looked, and only what is in `news` can have made it untrue since.
  - `TypeCorrect`, from `Well`.
  - `FinalStays == Spec => FinalIsFinal`, `EndedEpicIsSettled == Spec => EndedIsSettled`, `ReadyWaitsItsTurn == Spec => ReadyIsEarned`: a write changes what its frame says, and
    `Grounded` says on what it rests; every other step keeps the statuses, or is `RequirementMark`.
  - `NoReviewIsStranded == Spec => []NoStrandedReview`, inductive with `Well`: a step that makes a ticket wait (`Waiting`) is a hand-off or the put of a line, whose request has yet to look; and
    the frame that would finish a ticket is only left undone where, at that very look, a line has not passed or the ticket is not in review.
- `UpdateProofs`, for any set of seats and troubles:
  - `TypeCorrect`.
  - `LockIsHeld == Spec => []LockCoversUpdate`. `CallerAndWork` says where the work can stand while the caller is there; `LockNames` says who is in
    the lock until the outcome is written: the caller from the start, the helper from the moment the caller adds its pid, which is before the caller may end.
  - `OldDataForOld == Spec => []OldRunsOnOldData`. `StillFresh`: at which places, phases and goals nothing of the new version was installed or has run;
    `InstallingIsQuiet`: an installer that was given up let nothing run; `OldFindsOld`: wherever the old version may be started
    the data is old. It needs `LockIsHeld`, because a person's start in the middle would break it.
  - `VersionsAreTold` and `OutcomesAreTrue == Spec => OutcomeIsTrue`: what an outcome says of the versions is so in any case, what it says of the seats where the
    pool can launch what it resumes (`"launch" \notin Trouble`; `update_left_parked` shows why). `TruthInv`: what is registered and which files there are at each
    place (`FilesMatch`, `RemovedLate`, `ReinstalledIsOld`, `StartHas`), that nothing runs of an install left half done (`HalfIsDown`), and that the version that answered
    is the one that runs and, where it could be started, the one installed (`AnswerIs`). `Awake`: a seat counted as resumed is active until the outcome is written.
- `LauncherProofs`, for any processes, commands, thresholds and faults:
  - `TypeCorrect`. `Sound` adds to the types where an actor may stand in which command, that the supervisor's lock has one holder and none without
    a supervisor, that a stop asked of the supervisor has paused the service, and that a restart under way is one the crash loop still allows.
  - `StopsHold == Spec => []StopHolds`. Assumption: `Bundled`; elsewhere it is false (see the findings). `Kept`: a stop that nothing has
    overlapped is about to kill all there is, or nothing is left; and as long as it counts, or a success does, nobody starts the service, no round of the supervisor is
    under way and no supervisor would begin one (`Calm`). Only a start can add a process, and whoever may start one is not calm.

Only model-checked: `NothingLeftWaiting` and `LastReleaseReviews`, and the liveness properties `CloseHonoured`, `GivenUpLaunchEnds`, `EveryMailArrives`, `WaiterIsServed`,
`EveryEventArrives`, `SeatsComeBack` and `ComesBack`, which are out of the prover's reach. Every other property of a passing run is stated by a theorem.

## Plan

Done: `PoolSessions` with `SeatPerHandle`, `BrokerInbox` with `Mailbox`, `InferenceLane`, `Tickets`, `Feed`, `Update`, `Launcher`, their runs and the theorems above.

Left, most important first:

1. Proofs: `NothingLeftWaiting` and `LastReleaseReviews` with overlapping requests; `SeatHoldsLock` where somebody resumes and others reap, for the sessions nobody is resuming.
2. `ResumeWatchdog`, composed with the registry's park and resume and the broker's inbox: a parked seat with mail is resumed.
3. `Idempotency` (`idempotency.py`, `tool_idem.py`): a retry during the first call, a crash before the result is kept.
4. `Launcher`: the start of two supervisors at once, the pool's seats under a restart.
5. The rest of the board: acceptance and scope gates, seats, asks, editing of workflow definitions.

## Not modelled

The reasons stand with each component in PROJECT.json. In short: terminals, process trees and external
programs (operating-system I/O), views, rendering and command lines (no state), search and knowledge (pure
ranking), the browser clients (they call the HTTP interface), and what the plan has left.
