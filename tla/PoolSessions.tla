---------------------------- MODULE PoolSessions ----------------------------
(***************************************************************************)
(* The session registry of the pool (edp-pool/src/edp_pool/service.py,     *)
(* class PoolService): session rows, handle locks, the shells they stand   *)
(* for, and the request threads that change them.                          *)
(*                                                                         *)
(* A request runs in a thread of its own (asyncio.to_thread).  One mutex,  *)
(* _transition_lock, makes each check-then-set atomic; launching and       *)
(* killing a shell happen outside it.  So one action here is one critical  *)
(* section, or one step taken outside the mutex, and `pc' says where a     *)
(* thread stands between two of them.                                      *)
(*                                                                         *)
(* A session id is <<handle, generation>>: the code mints a uuid at spawn, *)
(* writes the handle on the row and never changes it.                      *)
(***************************************************************************)
EXTENDS Naturals, FiniteSets

CONSTANTS
  Handle,     \* the handles work is addressed to
  Generation, \* bound: how many sessions one handle may spawn
  Shell,      \* bound: shell processes that can be told apart at one time
  Caller,     \* request threads, the watchdog and the updater thread
  Group,      \* sets of handles with a cap: a role, a class, all handles
  Cap,        \* Cap[g]: the throughput cap of group g
  LiveCap,    \* max_live_shells
  Ops,        \* the operations the environment calls
  LaunchMayOutliveGrace, \* may a launch last longer than the starting grace
  ClosedResumesOverlap,  \* may a resume that finds no lock overlap other requests
  Nobody      \* no session, no shell

ASSUME GroupAssumption ==
  /\ Group \subseteq SUBSET Handle
  /\ Cap \in [Group -> Nat \ {0}]
  /\ LiveCap \in Nat \ {0}

ASSUME FlagAssumption ==
  LaunchMayOutliveGrace \in BOOLEAN /\ ClosedResumesOverlap \in BOOLEAN

Sid == Handle \X Generation

ASSUME NobodyAssumption == Nobody \notin Sid /\ Nobody \notin Shell

HandleOf(s) == s[1]

State == {"unused", "starting", "active", "parked", "resuming", "done", "dead",
          "removed"}

\* The states F36 R4#9 counts against the ceiling on live processes.
LiveState == {"active", "starting", "parked", "resuming"}

PC == {"idle", "launch", "launched", "failed", "resume", "closed", "release",
       "kill", "unlock", "reconcile", "check", "delete", "save", "sweep"}

Op == {"none", "spawn", "resume", "resume_closed", "release", "reap"}

VARIABLES
  state,     \* sessions[sid]["state"]
  latch,     \* sessions[sid]["_release_requested"]
  forUpdate, \* sessions[sid]["park_for_update"]
  proc,      \* sessions[sid]["proc"], the persisted process fingerprint
  newer,     \* pairs <<a, b>>: a was spawned or resumed after b
  locks,     \* locks[handle]
  disk,      \* the state file
  inflight,  \* _resuming_inflight
  known,     \* the spawner's own record of each session's shell
  runs,      \* runs[p]: the session shell p was launched for, while p runs
  booted,    \* resume_updater_parked has not finished since the last start
  pc, op, on \* per thread: where it is, for which operation, on which session

row == <<state, latch, forUpdate, proc, newer>>
registry == <<row, locks, disk>>
memory == <<inflight, known>>
threads == <<pc, op, on>>
vars == <<state, latch, forUpdate, proc, newer, locks, disk, inflight, known,
          runs, booted, pc, op, on>>

Snapshot == [state : [Sid -> State], latch : [Sid -> BOOLEAN],
             forUpdate : [Sid -> BOOLEAN], proc : [Sid -> Shell \cup {Nobody}],
             newer : SUBSET (Sid \X Sid), locks : [Handle -> Sid \cup {Nobody}]]

TypeOK ==
  /\ state \in [Sid -> State]
  /\ latch \in [Sid -> BOOLEAN]
  /\ forUpdate \in [Sid -> BOOLEAN]
  /\ proc \in [Sid -> Shell \cup {Nobody}]
  /\ newer \in SUBSET (Sid \X Sid)
  /\ locks \in [Handle -> Sid \cup {Nobody}]
  /\ disk \in Snapshot
  /\ inflight \in SUBSET Sid
  /\ known \in [Sid -> Shell \cup {Nobody}]
  /\ runs \in [Shell -> Sid \cup {Nobody}]
  /\ booted \in BOOLEAN
  /\ pc \in [Caller -> PC]
  /\ op \in [Caller -> Op]
  /\ on \in [Caller -> Sid \cup {Nobody}]

Init ==
  /\ state = [s \in Sid |-> "unused"]
  /\ latch = [s \in Sid |-> FALSE]
  /\ forUpdate = [s \in Sid |-> FALSE]
  /\ proc = [s \in Sid |-> Nobody]
  /\ newer = {}
  /\ locks = [h \in Handle |-> Nobody]
  /\ disk = [state |-> state, latch |-> latch, forUpdate |-> forUpdate,
             proc |-> proc, newer |-> newer, locks |-> locks]
  /\ inflight = {}
  /\ known = [s \in Sid |-> Nobody]
  /\ runs = [p \in Shell |-> Nobody]
  /\ booted = FALSE
  /\ pc = [t \in Caller |-> "idle"]
  /\ op = [t \in Caller |-> "none"]
  /\ on = [t \in Caller |-> Nobody]

-----------------------------------------------------------------------------
(* Helpers *)

\* The state file is replaced by a snapshot of the registry (_persist).
Persist ==
  disk' = [state |-> state', latch |-> latch', forUpdate |-> forUpdate',
           proc |-> proc', newer |-> newer', locks |-> locks']

\* Thread t moves to `where' for operation o on session s; an idle thread
\* remembers neither.
Goto(t, where, o, s) ==
  /\ pc' = [pc EXCEPT ![t] = where]
  /\ op' = [op EXCEPT ![t] = o]
  /\ on' = [on EXCEPT ![t] = s]

Finish(t) == Goto(t, "idle", "none", Nobody)

Calls(t, name) == pc[t] = "idle" /\ name \in Ops

\* The threads at work on a session of handle h, and those of them that bring
\* a closed one back.
AtWork(h) == {t \in Caller : pc[t] # "idle" /\ HandleOf(on[t]) = h}
BringingBack(h) == {t \in AtWork(h) : op[t] = "resume_closed"}

\* A spawn or a resume of h may begin: without ClosedResumesOverlap, callers
\* wait until a closed session of h that is being brought back is back.
MayBegin(h) == ClosedResumesOverlap \/ BringingBack(h) = {}

\* Mutant: the lock is deleted whoever holds it.
UnlockedAlways(s) == [locks EXCEPT ![HandleOf(s)] = Nobody]

\* locks with session s's entry deleted, when it still is s's.
Unlocked(s) ==
  [locks EXCEPT ![HandleOf(s)] = IF @ = s THEN Nobody ELSE @]

LatchCleared(s) == [latch EXCEPT ![s] = FALSE]
MarkCleared(s) == [forUpdate EXCEPT ![s] = FALSE]

\* s gets the latest spawned_at or resumed_at of all rows.
Restamped(s) ==
  {p \in newer : p[2] # s} \cup {p \in Sid \X Sid : p[1] = s /\ p[2] # s}

Lives(p) == p # Nobody /\ runs[p] # Nobody

Killed(p) == [runs EXCEPT ![p] = Nobody]

\* A fingerprint names one process for ever (pid and create_time), so what
\* it answers is whether that process runs; without one nobody can tell.
Probe(p) ==
  IF p = Nobody THEN "unknown" ELSE IF Lives(p) THEN "alive" ELSE "dead"

\* _session_alive
Verdict(s) ==
  CASE known[s] # Nobody -> Probe(known[s])
    [] known[s] = Nobody /\ state[s] \in {"active", "resuming"} -> Probe(proc[s])
    [] OTHER -> "dead"

\* Mutant: a parked row is taken for a row without a shell.
NoParkedShellAlive(s) == FALSE

\* _parked_shell_alive is True
ParkedShellAlive(s) ==
  Probe(IF known[s] # Nobody THEN known[s] ELSE proc[s]) = "alive"

\* A thread is launching a shell for s (and has not registered it yet).
Launching(t, s) == on[t] = s /\ pc[t] \in {"launch", "launched", "failed"}

\* Mutant: the row records the handle in place of the process.
HandleFingerprints(s) == {HandleOf(s)}

\* pid(sid) for the row: a launcher of codex or Pi answers None when the
\* shell has exited already, SubprocessSpawner answers its pid regardless.
Fingerprints(s) ==
  {known[s]} \cup (IF Lives(known[s]) THEN {} ELSE {Nobody})

-----------------------------------------------------------------------------
(* spawn: admission and reservation in one critical section, the launch      *)
(* outside it, registration or rollback in another one.                      *)

\* The rows reconcile_sessions marks done: active, the process provably gone.
Phantom == {s \in Sid : state[s] = "active" /\ Verdict(s) = "dead"}
Reconciled == [s \in Sid |-> IF s \in Phantom THEN "done" ELSE state[s]]
LocksReconciled ==
  [h \in Handle |-> IF locks[h] \in Phantom THEN Nobody ELSE locks[h]]

\* _active_count: reservations count unconditionally, active rows when alive.
Occupants(g) ==
  {s \in Sid : /\ HandleOf(s) \in g
               /\ \/ state[s] = "starting"
                  \/ state[s] = "active" /\ Verdict(s) = "alive"}

\* Mutant: parked shells are not counted against the ceiling.
LiveRowsUnparked == {s \in Sid : Reconciled[s] \in LiveState \ {"parked"}}

LiveRows == {s \in Sid : Reconciled[s] \in LiveState}

HasRoom(h) ==
  /\ \A g \in Group : h \in g => Cardinality(Occupants(g)) < Cap[g]
  /\ Cardinality(LiveRows) < LiveCap

\* A reservation older than EDP_STARTING_REAP_GRACE_SECS may be given up.
\* Launches return within the grace unless LaunchMayOutliveGrace.
Abandoned(s) == LaunchMayOutliveGrace \/ \A t \in Caller : ~Launching(t, s)

\* Mutant: a reservation has no pid yet, so it reads dead.
HandleFreeOfLive(h) ==
  LET holder == LocksReconciled[h] IN
  holder # Nobody =>
    state[holder] \notin {"parked", "resuming"} /\ Verdict(holder) # "alive"

\* _admit_handle_locked: the handle is free, or its holder may be reaped.
HandleFree(h) ==
  LET holder == LocksReconciled[h] IN
  holder # Nobody =>
    /\ state[holder] \notin {"parked", "resuming"}
    /\ state[holder] = "starting" => Abandoned(holder)
    /\ Verdict(holder) # "alive"

HandleTaken(h) ==
  LET holder == LocksReconciled[h] IN
  /\ holder # Nobody
  /\ state[holder] \in {"parked", "resuming", "starting"} \/ Verdict(holder) = "alive"

\* Mutant: the row of the stale holder is left as it is.
NobodyEvicted(h) == {}

\* The row whose lock the admission takes over.
Evicted(h) == {LocksReconciled[h]} \ {Nobody}

SpawnAdmit(t, h) ==
  /\ Calls(t, "spawn")
  /\ MayBegin(h)
  /\ HasRoom(h)
  /\ HandleFree(h)
  /\ \E s \in Sid :
       /\ HandleOf(s) = h
       /\ state[s] = "unused"
       /\ state' = [x \in Sid |-> IF x = s THEN "starting"
                                  ELSE IF x \in Evicted(h) THEN "done"
                                  ELSE Reconciled[x]]
       /\ locks' = [LocksReconciled EXCEPT ![h] = s]
       /\ newer' = Restamped(s)
       /\ Goto(t, "launch", "spawn", s)
  /\ UNCHANGED <<latch, forUpdate, proc, memory, runs, booted>>
  /\ Persist

\* A refused spawn has reconciled the registry all the same.
SpawnRefuse(t, h) ==
  /\ Calls(t, "spawn")
  /\ ~HasRoom(h) \/ HandleTaken(h)
  /\ Phantom # {}
  /\ state' = Reconciled
  /\ locks' = LocksReconciled
  /\ UNCHANGED <<latch, forUpdate, proc, newer, memory, runs, booted, threads>>
  /\ Persist

\* spawner.launch returned: the shell runs and the spawner knows it.  A shell
\* the spawner knew under the same session id before is forgotten, not killed.
LaunchReturns(t) ==
  /\ pc[t] = "launch"
  /\ \E p \in Shell :
       /\ ~Lives(p)
       /\ \A s \in Sid : p \notin {known[s], proc[s], disk.proc[s]}
       /\ runs' = [runs EXCEPT ![p] = on[t]]
       /\ known' = [known EXCEPT ![on[t]] = p]
  /\ Goto(t, "launched", op[t], on[t])
  /\ UNCHANGED <<registry, inflight, booted>>

\* spawner.launch raised: before it had a shell to know, or after, and then
\* that shell has been killed and forgotten again.
LaunchRaises(t) ==
  /\ pc[t] = "launch"
  /\ known' \in {known, [known EXCEPT ![on[t]] = Nobody]}
  /\ Goto(t, "failed", op[t], on[t])
  /\ UNCHANGED <<registry, inflight, runs, booted>>

\* Mutant: a release that arrived during the launch is dropped.
ReleaseDropped(s) == FALSE

ReleaseRequested(s) == latch[s] \/ state[s] \in {"removed", "done"}

\* _launch_reserved, the launch returned: the row is replaced by an active
\* one; a release that arrived meanwhile is honoured next.
SpawnRegister(t) ==
  LET s == on[t] IN
  /\ pc[t] = "launched" /\ op[t] = "spawn"
  /\ state' = [state EXCEPT ![s] = "active"]
  /\ latch' = LatchCleared(s)
  /\ forUpdate' = MarkCleared(s)
  /\ \E p \in Fingerprints(s) : proc' = [proc EXCEPT ![s] = p]
  /\ locks' = [locks EXCEPT ![HandleOf(s)] = s]
  /\ IF ReleaseRequested(s)
     THEN Goto(t, "release", "release", s) ELSE Finish(t)
  /\ UNCHANGED <<newer, memory, runs, booted>>
  /\ Persist

\* _launch_reserved, the launch raised: the reservation is rolled back.
SpawnRollback(t) ==
  LET s == on[t] IN
  /\ pc[t] = "failed" /\ op[t] = "spawn"
  /\ state' = [state EXCEPT ![s] = "removed"]
  /\ latch' = LatchCleared(s)
  /\ forUpdate' = MarkCleared(s)
  /\ proc' = [proc EXCEPT ![s] = Nobody]
  /\ locks' = Unlocked(s)
  /\ Finish(t)
  /\ UNCHANGED <<newer, memory, runs, booted>>
  /\ Persist

-----------------------------------------------------------------------------
(* release, reap and park *)

\* Mutant: the shell of a released session is not killed.
ReleaseWithoutKill(t, s) ==
  /\ IF state[s] \in {"starting", "resuming"}
     THEN latch' = [latch EXCEPT ![s] = TRUE] /\ UNCHANGED state
     ELSE /\ state' = [state EXCEPT ![s] = IF @ = "active" THEN "done" ELSE @]
          /\ UNCHANGED latch
  /\ IF state[s] = "active" THEN Goto(t, "unlock", "release", s) ELSE Finish(t)
  /\ UNCHANGED <<forUpdate, proc, newer, locks>>
  /\ Persist

\* The first critical section of release(sid), whoever calls it.
Release(t, s) ==
  \/ /\ state[s] \in {"starting", "resuming"}
     /\ latch' = [latch EXCEPT ![s] = TRUE]
     /\ Finish(t)
     /\ UNCHANGED <<state, forUpdate, proc, newer, locks>>
     /\ Persist
  \/ /\ state[s] = "active"
     /\ state' = [state EXCEPT ![s] = "done"]
     /\ Goto(t, "kill", "release", s)
     /\ UNCHANGED <<latch, forUpdate, proc, newer, locks>>
     /\ Persist
  \/ /\ state[s] \notin {"starting", "resuming", "active"}
     /\ Finish(t)
     /\ UNCHANGED registry

ReleaseCall(t, s) ==
  /\ Calls(t, "release")
  /\ Release(t, s)
  /\ UNCHANGED <<memory, runs, booted>>

\* The thread that launched s calls release itself.
ReleaseAfterLaunch(t) ==
  /\ pc[t] = "release"
  /\ Release(t, on[t])
  /\ UNCHANGED <<memory, runs, booted>>

\* _kill_session, outside the mutex: the spawner's shell, or for a session it
\* does not know the shell the fingerprint names.
KillSession(t) ==
  LET s == on[t] IN
  /\ pc[t] = "kill"
  /\ LET p == IF known[s] # Nobody THEN known[s] ELSE proc[s] IN
     runs' = IF p = Nobody THEN runs ELSE Killed(p)
  /\ IF op[t] = "release" THEN Goto(t, "unlock", "release", s) ELSE Finish(t)
  /\ UNCHANGED <<registry, memory, booted>>

\* The second critical section of release(sid).
ReleaseUnlock(t) ==
  /\ pc[t] = "unlock"
  /\ locks' = Unlocked(on[t])
  /\ Finish(t)
  /\ UNCHANGED <<row, memory, runs, booted>>
  /\ Persist

Reap(t, h) ==
  LET s == locks[h] IN
  /\ Calls(t, "reap")
  /\ s # Nobody
  /\ \/ /\ state[s] = "starting"
        /\ latch' = [latch EXCEPT ![s] = TRUE]
        /\ UNCHANGED <<state, locks, threads>>
     \/ /\ state[s] # "starting"
        /\ state' = [state EXCEPT ![s] = "done"]
        /\ locks' = [locks EXCEPT ![h] = Nobody]
        /\ Goto(t, "kill", "reap", s)
        /\ UNCHANGED latch
  /\ UNCHANGED <<forUpdate, proc, newer, memory, runs, booted>>
  /\ Persist

\* park_session: the shell stays alive, the lock stays held.
Park(t, s) ==
  /\ Calls(t, "park")
  /\ state[s] = "active"
  /\ state' = [state EXCEPT ![s] = "parked"]
  /\ \/ forUpdate' = [forUpdate EXCEPT ![s] = TRUE] /\ "for_update" \in Ops
     \/ UNCHANGED forUpdate
  /\ UNCHANGED <<latch, proc, newer, locks, memory, runs, booted, threads>>
  /\ Persist

-----------------------------------------------------------------------------
(* resume and resume_closed *)

\* resume_closed of handle h is next; any session of h stands for it until the
\* mutex is taken.  Without ClosedResumesOverlap nobody is at work on h.
BeginClosed(t, h) ==
  /\ ClosedResumesOverlap \/ AtWork(h) = {}
  /\ \E s \in Sid : HandleOf(s) = h /\ Goto(t, "closed", "resume_closed", s)

\* resume reads the lock before it takes the mutex; a handle without a lock has
\* its closed session brought back.
BeginResume(t, h) ==
  IF locks[h] = Nobody
  THEN BeginClosed(t, h)
  ELSE MayBegin(h) /\ Goto(t, "resume", "resume", locks[h])

ResumeCall(t, h) ==
  /\ \E name \in {"resume", "resume_closed"} :
       /\ Calls(t, name)
       /\ IF name = "resume" THEN BeginResume(t, h) ELSE BeginClosed(t, h)
  /\ UNCHANGED <<registry, memory, runs, booted>>

\* Mutant: a resuming row is taken for one a restart left behind.
ResumeAppliesAnyway(s) ==
  \/ state[s] \in {"parked", "dead"}
  \/ state[s] \in {"active", "resuming"} /\ Verdict(s) = "dead"

\* An active or resuming row is left to whoever runs it, unless its process is
\* provably dead and no resume of this pool is in flight for it.
ResumeApplies(s) ==
  \/ state[s] \in {"parked", "dead"}
  \/ /\ state[s] \in {"active", "resuming"}
     /\ state[s] = "resuming" => s \notin inflight
     /\ Verdict(s) = "dead"

ResumeNoOp(t) ==
  /\ pc[t] = "resume"
  /\ ~ResumeApplies(on[t])
  /\ Finish(t)
  /\ UNCHANGED <<registry, memory, runs, booted>>

\* The parked shell still runs: the row is restored, nothing is launched.
ResumeRestore(t) ==
  LET s == on[t] IN
  /\ pc[t] = "resume"
  /\ ResumeApplies(s)
  /\ ParkedShellAlive(s)
  /\ state' = [state EXCEPT ![s] = "active"]
  /\ forUpdate' = MarkCleared(s)
  /\ Finish(t)
  /\ UNCHANGED <<latch, proc, newer, locks, memory, runs, booted>>
  /\ Persist

\* The row is resuming from here on, in memory only.
ResumeFork(t) ==
  LET s == on[t] IN
  /\ pc[t] = "resume"
  /\ ResumeApplies(s)
  /\ ~ParkedShellAlive(s)
  /\ state' = [state EXCEPT ![s] = "resuming"]
  /\ forUpdate' = MarkCleared(s)
  /\ inflight' = inflight \cup {s}
  /\ Goto(t, "launch", "resume", s)
  /\ UNCHANGED <<latch, proc, newer, locks, disk, known, runs, booted>>

\* The closed session resume_closed picks: the newest done row of the handle.
DoneRows(h) == {s \in Sid : HandleOf(s) = h /\ state[s] = "done"}

\* The handle's lock is free, or left behind by a seat that is not live.
Reclaimable(h) == locks[h] # Nobody => state[locks[h]] \notin LiveState

ResumeClosed(t) ==
  LET h == HandleOf(on[t]) IN
  /\ pc[t] = "closed"
  /\ Reclaimable(h)
  /\ \E s \in DoneRows(h) :
       /\ \A d \in DoneRows(h) \ {s} : <<s, d>> \in newer
       /\ state' = [state EXCEPT ![s] = "resuming"]
       /\ locks' = [locks EXCEPT ![h] = s]
       /\ Goto(t, "launch", "resume_closed", s)
  /\ UNCHANGED <<latch, forUpdate, proc, newer, memory, runs, booted>>
  /\ Persist

ResumeClosedRefuse(t) ==
  LET h == HandleOf(on[t]) IN
  /\ pc[t] = "closed"
  /\ ~Reclaimable(h) \/ DoneRows(h) = {}
  /\ Finish(t)
  /\ UNCHANGED <<registry, memory, runs, booted>>

\* resume and resume_closed, the launch returned.
ResumeRegister(t) ==
  LET s == on[t] IN
  /\ pc[t] = "launched" /\ op[t] \in {"resume", "resume_closed"}
  /\ state' = [state EXCEPT ![s] = "active"]
  /\ latch' = LatchCleared(s)
  /\ \E p \in Fingerprints(s) : proc' = [proc EXCEPT ![s] = p]
  /\ newer' = Restamped(s)
  /\ inflight' = IF op[t] = "resume" THEN inflight \ {s} ELSE inflight
  /\ IF latch[s] THEN Goto(t, "release", "release", s) ELSE Finish(t)
  /\ UNCHANGED <<forUpdate, locks, known, runs, booted>>
  /\ Persist

\* resume, the launch raised: parked again, or closed if a release arrived.
ResumeFails(t) ==
  LET s == on[t] IN
  /\ pc[t] = "failed" /\ op[t] = "resume"
  /\ inflight' = inflight \ {s}
  /\ latch' = LatchCleared(s)
  /\ \/ /\ latch[s]
        /\ state' = [state EXCEPT ![s] = "done"]
        /\ locks' = Unlocked(s)
        /\ Goto(t, "kill", "reap", s)
     \/ /\ ~latch[s]
        /\ state' = [state EXCEPT ![s] = "parked"]
        /\ Finish(t)
        /\ UNCHANGED locks
  /\ UNCHANGED <<forUpdate, proc, newer, known, runs, booted>>
  /\ Persist

\* resume_closed, the launch raised: closed again, the handle free.
ResumeClosedFails(t) ==
  LET s == on[t] IN
  /\ pc[t] = "failed" /\ op[t] = "resume_closed"
  /\ state' = [state EXCEPT ![s] = "done"]
  /\ latch' = LatchCleared(s)
  /\ locks' = Unlocked(s)
  /\ Finish(t)
  /\ UNCHANGED <<forUpdate, proc, newer, memory, runs, booted>>
  /\ Persist

-----------------------------------------------------------------------------
(* Code that touches the registry without the mutex, and the environment *)

\* reconcile_sessions under usage(): a row is looked at, marked, its lock
\* looked at and deleted, each without the mutex; then the next row, or the save.
ReconcileLook(t, s) ==
  /\ Calls(t, "usage") \/ pc[t] = "save"
  /\ s \in Phantom
  /\ Goto(t, "reconcile", "none", s)
  /\ UNCHANGED <<registry, memory, runs, booted>>

\* The row is marked whatever it has become since it was looked at.
ReconcileMark(t) ==
  /\ pc[t] = "reconcile"
  /\ state' = [state EXCEPT ![on[t]] = "done"]
  /\ Goto(t, "check", "none", on[t])
  /\ UNCHANGED <<latch, forUpdate, proc, newer, locks, disk, memory, runs, booted>>

ReconcileCheck(t) ==
  LET s == on[t] IN
  /\ pc[t] = "check"
  /\ Goto(t, IF locks[HandleOf(s)] = s THEN "delete" ELSE "save", "none", s)
  /\ UNCHANGED <<registry, memory, runs, booted>>

\* The handle's lock is deleted, whoever holds it by now; when it is gone
\* already the request fails and saves nothing.
ReconcileDelete(t) ==
  LET h == HandleOf(on[t]) IN
  /\ pc[t] = "delete"
  /\ locks' = [locks EXCEPT ![h] = Nobody]
  /\ IF locks[h] = Nobody THEN Finish(t) ELSE Goto(t, "save", "none", on[t])
  /\ UNCHANGED <<row, disk, memory, runs, booted>>

ReconcileSave(t) ==
  /\ pc[t] = "save"
  /\ Finish(t)
  /\ UNCHANGED <<row, locks, memory, runs, booted>>
  /\ Persist

\* sweep_crashed, run by the one watchdog thread.
SweepLook(t, s) ==
  /\ Calls(t, "sweep")
  /\ \A u \in Caller : pc[u] # "sweep"
  /\ state[s] \in {"active", "parked"}
  /\ Goto(t, "sweep", "none", s)
  /\ UNCHANGED <<registry, memory, runs, booted>>

\* A nonzero exit code of a shell that is gone, or the operator closed the
\* shell's window; a parked row dies of the second only.
SweepMark(t) ==
  LET s == on[t] IN
  /\ pc[t] = "sweep"
  /\ known[s] # Nobody
  /\ \/ runs' = Killed(known[s])
     \/ ~Lives(known[s]) /\ state[s] # "parked" /\ UNCHANGED runs
  /\ state' = [state EXCEPT ![s] = "dead"]
  /\ Finish(t)
  /\ UNCHANGED <<latch, forUpdate, proc, newer, locks, memory, booted>>
  /\ Persist

\* The exit code was 0, or the shell runs.
SweepPass(t) ==
  /\ pc[t] = "sweep"
  /\ Finish(t)
  /\ UNCHANGED <<registry, memory, runs, booted>>

ShellExits(p) ==
  /\ "exit" \in Ops
  /\ Lives(p)
  /\ runs' = Killed(p)
  /\ UNCHANGED <<registry, memory, booted, threads>>

\* The rows mark_interrupted marks dead when shells S survived the pool.
Interrupted(S) ==
  {s \in Sid : /\ disk.state[s] \in LiveState
               /\ ~(disk.state[s] = "parked" /\ disk.forUpdate[s])
               /\ disk.proc[s] # Nobody
               /\ disk.proc[s] \notin S}

\* The pool stops, taking some of the shells with it, and starts again from
\* the state file.  A calm restart (a bound) is one that loses no shell: none has
\* been launched and not recorded, or is about to be killed.
Restart ==
  /\ \/ "restart" \in Ops
     \/ "calm_restart" \in Ops /\ \A t \in Caller : pc[t] \notin {"launched", "kill"}
  /\ \E S \in SUBSET {p \in Shell : Lives(p)} :
       /\ runs' = [p \in Shell |-> IF p \in S THEN runs[p] ELSE Nobody]
       /\ state' = [s \in Sid |-> IF s \in Interrupted(S) THEN "dead"
                                  ELSE disk.state[s]]
  /\ latch' = disk.latch
  /\ forUpdate' = disk.forUpdate
  /\ proc' = disk.proc
  /\ newer' = disk.newer
  /\ locks' = disk.locks
  /\ inflight' = {}
  /\ known' = [s \in Sid |-> Nobody]
  /\ booted' = TRUE
  /\ pc' = [t \in Caller |-> "idle"]
  /\ op' = [t \in Caller |-> "none"]
  /\ on' = [t \in Caller |-> Nobody]
  /\ Persist

\* resume_updater_parked: the mark is taken off and saved, then the handle is
\* resumed.  The pass ends at once while an update holds the update lock.
UpdaterResume(t, s) ==
  /\ booted
  /\ pc[t] = "idle"
  /\ state[s] = "parked" /\ forUpdate[s]
  /\ Probe(proc[s]) = "dead"
  /\ forUpdate' = MarkCleared(s)
  /\ BeginResume(t, HandleOf(s))
  /\ UNCHANGED <<state, latch, proc, newer, locks, memory, runs, booted>>
  /\ Persist

UpdaterEnds ==
  /\ booted
  /\ booted' = FALSE
  /\ UNCHANGED <<registry, memory, runs, threads>>

-----------------------------------------------------------------------------

\* The steps of a thread that has begun an operation.
Continue(t) ==
  \/ LaunchReturns(t) \/ LaunchRaises(t)
  \/ SpawnRegister(t) \/ SpawnRollback(t)
  \/ ReleaseAfterLaunch(t) \/ KillSession(t) \/ ReleaseUnlock(t)
  \/ ResumeNoOp(t) \/ ResumeRestore(t) \/ ResumeFork(t)
  \/ ResumeClosed(t) \/ ResumeClosedRefuse(t)
  \/ ResumeRegister(t) \/ ResumeFails(t) \/ ResumeClosedFails(t)
  \/ ReconcileMark(t) \/ ReconcileCheck(t) \/ ReconcileDelete(t) \/ ReconcileSave(t)
  \/ SweepMark(t) \/ SweepPass(t)

Call(t) ==
  \/ \E h \in Handle : \/ SpawnAdmit(t, h) \/ SpawnRefuse(t, h) \/ Reap(t, h)
                       \/ ResumeCall(t, h)
  \/ \E s \in Sid : \/ ReleaseCall(t, s) \/ Park(t, s) \/ UpdaterResume(t, s)
                    \/ ReconcileLook(t, s) \/ SweepLook(t, s)

Next ==
  \/ \E t \in Caller : Call(t) \/ Continue(t)
  \/ \E p \in Shell : ShellExits(p)
  \/ Restart
  \/ UpdaterEnds

Spec == Init /\ [][Next]_vars

\* A thread that has begun keeps being scheduled, and a launch returns or
\* raises: every wait in a launcher has a timeout.
Fairness == \A t \in Caller : WF_vars(Continue(t))

FairSpec == Spec /\ Fairness

-----------------------------------------------------------------------------
(* Properties *)

\* A handle's lock always names a session row of that same handle, one that
\* exists: no rollback, reap or restart leaves a lock behind its row.
LockNamesItsSeat ==
  \A h \in Handle : locks[h] # Nobody =>
    /\ HandleOf(locks[h]) = h
    /\ state[locks[h]] \notin {"unused", "removed"}

\* A reserved ('starting') row holds its handle's lock until it is registered,
\* rolled back or given up: no other operation takes the lock from it.
ReservationHoldsLock ==
  \A s \in Sid : state[s] = "starting" => locks[HandleOf(s)] = s

\* Two spawns never launch on one handle at the same time.
OneSpawnPerHandle ==
  \A t, u \in Caller :
    /\ op[t] = "spawn" /\ op[u] = "spawn"
    /\ on[t] # Nobody /\ on[u] # Nobody
    /\ HandleOf(on[t]) = HandleOf(on[u])
    => t = u

\* A seat that counts as live holds its handle's lock, so a handle has one
\* such seat at most ("lock-by-spawn-lifetime", service.py:1484).
SeatHoldsLock ==
  \A s \in Sid : state[s] \in LiveState => locks[HandleOf(s)] = s

\* A thread closed p's session and is about to kill p.
BeingKilled(p) == \E t \in Caller : on[t] = runs[p] /\ pc[t] = "kill"

\* At most one running shell works on a handle, but for the shell of a closed
\* session that is about to be killed: once the pool has restarted, the lock of
\* such a session is free before its shell is dead (_admit_handle_locked, resume).
OneShellPerHandle ==
  \A p, q \in Shell :
    Lives(p) /\ Lives(q) /\ HandleOf(runs[p]) = HandleOf(runs[q]) =>
      p = q \/ BeingKilled(p) \/ BeingKilled(q)

\* The pool loses no shell it started.  The spawner knows it or the row's
\* fingerprint names it; and the shell of a closed session runs only while the
\* thread that closed it is about to kill it, or the session is launched anew
\* (spawner.launch, release, _kill_session_process, a restart).
NoShellIsLost ==
  \A p \in Shell : Lives(p) =>
    /\ p \in {known[runs[p]], proc[runs[p]]}
    /\ state[runs[p]] = "done" =>
         BeingKilled(p) \/ \E t \in Caller : on[t] = runs[p] /\ pc[t] = "launched"

\* active + starting + parked + resuming never exceed the hard ceiling.
LiveCeiling ==
  Cardinality({s \in Sid : state[s] \in LiveState}) <= LiveCap

\* A release that found the row mid-launch is honoured in the end.
CloseHonoured ==
  \A s \in Sid : latch[s] ~> state[s] \in {"done", "dead", "removed"}

\* A reservation that was given up while its launch lasted (it outlived
\* EDP_STARTING_REAP_GRACE_SECS) does not come back for good: when the launch
\* returns, the session is registered, closed and its shell killed.
GivenUpLaunchEnds ==
  \A t \in Caller : \A s \in Sid :
    (op[t] = "spawn" /\ on[t] = s /\ state[s] = "done")
      ~> (state[s] \in {"done", "dead", "removed"} /\ \A p \in Shell : runs[p] # s)

-----------------------------------------------------------------------------
(* What the registry promises: SeatPerHandle *)

Phase ==
  [s \in Sid |->
     CASE state[s] = "unused" -> "fresh"
       [] state[s] \in LiveState -> "seated"
       [] state[s] \in {"done", "dead"} -> "left"
       [] state[s] = "removed" -> "gone"]

Seats == INSTANCE SeatPerHandle WITH phase <- Phase

\* The registry seats one session per handle: a session takes a handle only
\* when no other session sits there, and one whose launch failed never returns
\* (spawn, _admit_handle_locked, _launch_reserved, resume, release, reap).
SeatsOnePerHandle == Seats!Spec

=============================================================================
