-------------------------- MODULE PoolSessionsProofs --------------------------
(* Theorems about PoolSessions, for every value of its constants. *)
EXTENDS PoolSessions, FiniteSetTheorems, TLAPS

LEMMA SidHandle == \A s \in Sid : HandleOf(s) \in Handle
  BY DEF Sid, HandleOf

LEMMA NobodyIsNoSid == Nobody \notin Sid /\ Nobody \notin Shell
  BY NobodyAssumption

-----------------------------------------------------------------------------
(* Type correctness *)

ThreadsType ==
  /\ pc \in [Caller -> PC]
  /\ op \in [Caller -> Op]
  /\ on \in [Caller -> Sid \cup {Nobody}]
  /\ \A t \in Caller : pc[t] # "idle" => on[t] \in Sid

RegistryType ==
  /\ state \in [Sid -> State]
  /\ latch \in [Sid -> BOOLEAN]
  /\ forUpdate \in [Sid -> BOOLEAN]
  /\ proc \in [Sid -> Shell \cup {Nobody}]
  /\ newer \in SUBSET (Sid \X Sid)
  /\ locks \in [Handle -> Sid \cup {Nobody}]

MemoryType ==
  /\ inflight \in SUBSET Sid
  /\ known \in [Sid -> Shell \cup {Nobody}]
  /\ runs \in [Shell -> Sid \cup {Nobody}]
  /\ booted \in BOOLEAN

\* The inductive invariant: every variable has its type, and a thread that has
\* begun an operation has a session to work on.
Typed ==
  /\ RegistryType
  /\ disk \in Snapshot
  /\ MemoryType
  /\ ThreadsType

LEMMA TypedImpliesTypeOK == Typed => TypeOK
  BY DEF Typed, TypeOK, RegistryType, MemoryType, ThreadsType

\* A snapshot of a well-typed registry is well-typed.
LEMMA PersistType ==
  ASSUME RegistryType', Persist
  PROVE  disk' \in Snapshot
  BY DEF RegistryType, Persist, Snapshot

LEMMA GotoType ==
  ASSUME ThreadsType, NEW t \in Caller, NEW where \in PC, NEW o \in Op,
         NEW s \in Sid, Goto(t, where, o, s)
  PROVE  ThreadsType'
  BY DEF ThreadsType, Goto

LEMMA FinishType ==
  ASSUME ThreadsType, NEW t \in Caller, Finish(t)
  PROVE  ThreadsType'
  BY DEF ThreadsType, Finish, Goto, PC, Op

LEMMA HelperTypes ==
  ASSUME Typed, NEW s \in Sid
  PROVE  /\ Unlocked(s) \in [Handle -> Sid \cup {Nobody}]
         /\ LatchCleared(s) \in [Sid -> BOOLEAN]
         /\ MarkCleared(s) \in [Sid -> BOOLEAN]
         /\ Restamped(s) \in SUBSET (Sid \X Sid)
         /\ Fingerprints(s) \subseteq Shell \cup {Nobody}
         /\ \A p : Killed(p) \in [Shell -> Sid \cup {Nobody}]
  BY SidHandle DEF Typed, RegistryType, MemoryType, Unlocked, LatchCleared, MarkCleared, Restamped,
                   Fingerprints, Killed

LEMMA ReconciledTypes ==
  ASSUME Typed
  PROVE  /\ Reconciled \in [Sid -> State]
         /\ LocksReconciled \in [Handle -> Sid \cup {Nobody}]
  BY DEF Typed, RegistryType, Reconciled, LocksReconciled, State

LEMMA TypeInit == Init => Typed
  <1> SUFFICES ASSUME Init PROVE Typed
    OBVIOUS
  <1>1. RegistryType
    BY DEF Init, RegistryType, State
  <1>2. disk \in Snapshot
    BY <1>1 DEF Init, RegistryType, Snapshot
  <1>3. MemoryType /\ ThreadsType
    BY DEF Init, MemoryType, ThreadsType, PC, Op
  <1> QED BY <1>1, <1>2, <1>3 DEF Typed

\* The critical section release shares with the threads that launch.
LEMMA TypeRelease ==
  ASSUME Typed, NEW t \in Caller, NEW s \in Sid, Release(t, s)
  PROVE  RegistryType' /\ disk' \in Snapshot /\ ThreadsType'
  <1>1. RegistryType'
    BY DEF Release, Typed, RegistryType, State, registry, row
  <1>2. ThreadsType'
    <2>1. Finish(t) \/ Goto(t, "kill", "release", s)
      BY DEF Release
    <2> QED BY <2>1, GotoType, FinishType DEF Typed, PC, Op
  <1>3. disk' \in Snapshot
    BY <1>1, PersistType DEF Release, Typed, registry
  <1> QED BY <1>1, <1>2, <1>3

\* How a resume begins: on the session the lock names, or on its way to the
\* closed session of the handle.
LEMMA ResumeBegins ==
  ASSUME Typed, NEW t \in Caller, NEW h \in Handle, BeginResume(t, h) \/ BeginClosed(t, h)
  PROVE  \/ /\ locks[h] \in Sid
            /\ MayBegin(h)
            /\ Goto(t, "resume", "resume", locks[h])
         \/ /\ ClosedResumesOverlap \/ AtWork(h) = {}
            /\ \E s \in Sid : HandleOf(s) = h /\ Goto(t, "closed", "resume_closed", s)
  BY DEF BeginResume, BeginClosed, Typed, RegistryType

LEMMA TypeBegin ==
  ASSUME Typed, NEW t \in Caller, NEW h \in Handle, BeginResume(t, h) \/ BeginClosed(t, h)
  PROVE  ThreadsType'
  <1>1. \/ locks[h] \in Sid /\ Goto(t, "resume", "resume", locks[h])
        \/ \E s \in Sid : Goto(t, "closed", "resume_closed", s)
    BY ResumeBegins
  <1> QED BY <1>1, GotoType DEF Typed, PC, Op

LEMMA TypeCall ==
  ASSUME Typed, NEW t \in Caller, Call(t)
  PROVE  Typed'
  <1> USE SidHandle DEF Typed
  <1>1. ASSUME NEW h \in Handle, SpawnAdmit(t, h) PROVE Typed'
    <2>1. PICK s \in Sid : /\ state' = [x \in Sid |-> IF x = s THEN "starting"
                                   ELSE IF x \in Evicted(h) THEN "done"
                                   ELSE Reconciled[x]]
                           /\ locks' = [LocksReconciled EXCEPT ![h] = s]
                           /\ newer' = Restamped(s)
                           /\ Goto(t, "launch", "spawn", s)
      BY <1>1 DEF SpawnAdmit
    <2>2. RegistryType'
      BY <1>1, <2>1, ReconciledTypes, HelperTypes DEF SpawnAdmit, RegistryType, State
    <2>3. ThreadsType'
      BY <2>1, GotoType DEF PC, Op
    <2> QED BY <1>1, <2>2, <2>3, PersistType DEF SpawnAdmit, memory, MemoryType
  <1>2. ASSUME NEW h \in Handle, SpawnRefuse(t, h) PROVE Typed'
    <2>1. RegistryType'
      BY <1>2, ReconciledTypes DEF SpawnRefuse, RegistryType
    <2> QED BY <1>2, <2>1, PersistType
            DEF SpawnRefuse, memory, threads, MemoryType, ThreadsType
  <1>3. ASSUME NEW h \in Handle, Reap(t, h) PROVE Typed'
    <2>1. locks[h] \in Sid
      BY <1>3 DEF Reap, RegistryType
    <2>2. RegistryType'
      BY <1>3, <2>1 DEF Reap, RegistryType, State
    <2>3. ThreadsType'
      <3>1. Goto(t, "kill", "reap", locks[h]) \/ UNCHANGED threads
        BY <1>3 DEF Reap
      <3> QED BY <2>1, <3>1, GotoType DEF PC, Op, threads, ThreadsType
    <2> QED BY <1>3, <2>2, <2>3, PersistType DEF Reap, memory, MemoryType
  <1>4. ASSUME NEW h \in Handle, ResumeCall(t, h) PROVE Typed'
    <2>1. ThreadsType'
      BY <1>4, TypeBegin DEF ResumeCall
    <2> QED BY <1>4, <2>1 DEF ResumeCall, registry, row, memory, RegistryType, MemoryType
  <1>6. ASSUME NEW s \in Sid, ReleaseCall(t, s) PROVE Typed'
    BY <1>6, TypeRelease DEF ReleaseCall, memory, MemoryType
  <1>7. ASSUME NEW s \in Sid, Park(t, s) PROVE Typed'
    <2>1. RegistryType'
      BY <1>7 DEF Park, RegistryType, State
    <2> QED BY <1>7, <2>1, PersistType
            DEF Park, memory, threads, MemoryType, ThreadsType
  <1>8. ASSUME NEW s \in Sid, UpdaterResume(t, s) PROVE Typed'
    <2>1. RegistryType'
      BY <1>8, HelperTypes DEF UpdaterResume, RegistryType
    <2>2. ThreadsType'
      BY <1>8, TypeBegin DEF UpdaterResume
    <2> QED BY <1>8, <2>1, <2>2, PersistType DEF UpdaterResume, memory, MemoryType
  <1>9. ASSUME NEW s \in Sid, ReconcileLook(t, s) \/ SweepLook(t, s) PROVE Typed'
    <2>1. ThreadsType'
      BY <1>9, GotoType DEF ReconcileLook, SweepLook, PC, Op
    <2> QED BY <1>9, <2>1 DEF ReconcileLook, SweepLook, registry, row, memory,
                              RegistryType, MemoryType
  <1> QED BY <1>1, <1>2, <1>3, <1>4, <1>6, <1>7, <1>8, <1>9 DEF Call

LEMMA TypeContinue ==
  ASSUME Typed, NEW t \in Caller, Continue(t)
  PROVE  Typed'
  <1> USE DEF Typed
  <1> DEFINE s == on[t]
  <1>s. pc[t] # "idle" => s \in Sid
    BY DEF ThreadsType
  <1>1. ASSUME LaunchReturns(t) PROVE Typed'
    <2>1. ThreadsType'
      BY <1>1, <1>s, GotoType DEF LaunchReturns, PC, ThreadsType
    <2>2. MemoryType'
      BY <1>1, <1>s DEF LaunchReturns, MemoryType
    <2> QED BY <1>1, <2>1, <2>2 DEF LaunchReturns, registry, row, RegistryType
  <1>2. ASSUME LaunchRaises(t) PROVE Typed'
    <2>1. ThreadsType'
      BY <1>2, <1>s, GotoType DEF LaunchRaises, PC, ThreadsType
    <2>2. MemoryType'
      BY <1>2, <1>s DEF LaunchRaises, MemoryType
    <2> QED BY <1>2, <2>1, <2>2 DEF LaunchRaises, registry, row, RegistryType
  <1>3. ASSUME SpawnRegister(t) PROVE Typed'
    <2>1. RegistryType'
      BY <1>3, <1>s, HelperTypes, SidHandle DEF SpawnRegister, RegistryType, State
    <2>2. ThreadsType'
      BY <1>3, <1>s, GotoType, FinishType DEF SpawnRegister, PC, Op
    <2> QED BY <1>3, <2>1, <2>2, PersistType DEF SpawnRegister, memory, MemoryType
  <1>4. ASSUME SpawnRollback(t) PROVE Typed'
    <2>1. RegistryType'
      BY <1>4, <1>s, HelperTypes DEF SpawnRollback, RegistryType, State
    <2> QED BY <1>4, <2>1, PersistType, FinishType DEF SpawnRollback, memory, MemoryType
  <1>5. ASSUME ReleaseAfterLaunch(t) PROVE Typed'
    BY <1>5, <1>s, TypeRelease DEF ReleaseAfterLaunch, memory, MemoryType
  <1>6. ASSUME KillSession(t) PROVE Typed'
    <2>1. ThreadsType'
      BY <1>6, <1>s, GotoType, FinishType DEF KillSession, PC, Op
    <2>2. MemoryType'
      BY <1>6, <1>s, HelperTypes DEF KillSession, MemoryType, memory
    <2> QED BY <1>6, <2>1, <2>2 DEF KillSession, registry, row, RegistryType
  <1>7. ASSUME ReleaseUnlock(t) PROVE Typed'
    <2>1. RegistryType'
      BY <1>7, <1>s, HelperTypes DEF ReleaseUnlock, row, RegistryType
    <2> QED BY <1>7, <2>1, PersistType, FinishType DEF ReleaseUnlock, memory, MemoryType
  <1>8. ASSUME ResumeNoOp(t) PROVE Typed'
    BY <1>8, FinishType DEF ResumeNoOp, registry, row, memory, RegistryType, MemoryType
  <1>9. ASSUME ResumeRestore(t) PROVE Typed'
    <2>1. RegistryType'
      BY <1>9, <1>s, HelperTypes DEF ResumeRestore, RegistryType, State
    <2> QED BY <1>9, <2>1, PersistType, FinishType DEF ResumeRestore, memory, MemoryType
  <1>10. ASSUME ResumeFork(t) PROVE Typed'
    <2>1. RegistryType'
      BY <1>10, <1>s, HelperTypes DEF ResumeFork, RegistryType, State
    <2>2. ThreadsType'
      BY <1>10, <1>s, GotoType DEF ResumeFork, PC, Op
    <2> QED BY <1>10, <1>s, <2>1, <2>2 DEF ResumeFork, MemoryType
  <1>11. ASSUME ResumeRegister(t) PROVE Typed'
    <2>1. RegistryType'
      BY <1>11, <1>s, HelperTypes DEF ResumeRegister, RegistryType, State
    <2>2. ThreadsType'
      BY <1>11, <1>s, GotoType, FinishType DEF ResumeRegister, PC, Op
    <2> QED BY <1>11, <2>1, <2>2, PersistType DEF ResumeRegister, MemoryType
  <1>12. ASSUME ResumeFails(t) PROVE Typed'
    <2>a. s \in Sid /\ "done" \in State /\ "parked" \in State
      BY <1>12, <1>s DEF ResumeFails, State
    <2>b. state' \in [Sid -> State] /\ locks' \in [Handle -> Sid \cup {Nobody}]
      <3>1. \/ state' = [state EXCEPT ![s] = "done"] /\ locks' = Unlocked(s)
            \/ state' = [state EXCEPT ![s] = "parked"] /\ locks' = locks
        BY <1>12 DEF ResumeFails
      <3>2. Unlocked(s) \in [Handle -> Sid \cup {Nobody}]
        BY <2>a, HelperTypes
      <3> QED BY <2>a, <3>1, <3>2 DEF RegistryType
    <2>1. RegistryType'
      BY <1>12, <2>a, <2>b, HelperTypes DEF ResumeFails, RegistryType
    <2>2. ThreadsType'
      BY <1>12, <1>s, GotoType, FinishType DEF ResumeFails, PC, Op
    <2> QED BY <1>12, <2>1, <2>2, PersistType DEF ResumeFails, MemoryType
  <1>13. ASSUME ResumeClosedFails(t) PROVE Typed'
    <2>1. RegistryType'
      BY <1>13, <1>s, HelperTypes DEF ResumeClosedFails, RegistryType, State
    <2> QED BY <1>13, <2>1, PersistType, FinishType DEF ResumeClosedFails, memory, MemoryType
  <1>14. ASSUME ReconcileMark(t) \/ ReconcileCheck(t) PROVE Typed'
    <2>1. RegistryType' /\ disk' = disk
      BY <1>14, <1>s DEF ReconcileMark, ReconcileCheck, RegistryType, State, registry, row
    <2>2. ThreadsType'
      BY <1>14, <1>s, GotoType DEF ReconcileMark, ReconcileCheck, PC, Op
    <2> QED BY <1>14, <2>1, <2>2 DEF ReconcileMark, ReconcileCheck, memory, MemoryType
  <1>15. ASSUME SweepMark(t) PROVE Typed'
    <2>1. RegistryType'
      BY <1>15, <1>s DEF SweepMark, RegistryType, State
    <2>2. MemoryType'
      BY <1>15, <1>s, HelperTypes DEF SweepMark, memory, MemoryType
    <2> QED BY <1>15, <2>1, <2>2, PersistType, FinishType DEF SweepMark
  <1>16. ASSUME SweepPass(t) PROVE Typed'
    BY <1>16, FinishType DEF SweepPass, registry, row, memory, RegistryType, MemoryType
  <1>17. ASSUME ResumeClosed(t) PROVE Typed'
    <2>1. PICK x \in Sid : /\ state' = [state EXCEPT ![x] = "resuming"]
                           /\ locks' = [locks EXCEPT ![HandleOf(s)] = x]
                           /\ Goto(t, "launch", "resume_closed", x)
      BY <1>17 DEF ResumeClosed, DoneRows
    <2>2. RegistryType'
      BY <1>17, <2>1 DEF ResumeClosed, RegistryType, State
    <2>3. ThreadsType'
      BY <2>1, GotoType DEF PC, Op
    <2> QED BY <1>17, <2>2, <2>3, PersistType DEF ResumeClosed, memory, MemoryType
  <1>18. ASSUME ResumeClosedRefuse(t) PROVE Typed'
    BY <1>18, FinishType DEF ResumeClosedRefuse, registry, row, memory, RegistryType, MemoryType
  <1>19. ASSUME ReconcileDelete(t) PROVE Typed'
    <2>1. RegistryType'
      BY <1>19 DEF ReconcileDelete, RegistryType, row
    <2>2. ThreadsType'
      BY <1>19, <1>s, GotoType, FinishType DEF ReconcileDelete, PC, Op
    <2> QED BY <1>19, <2>1, <2>2 DEF ReconcileDelete, memory, MemoryType
  <1>20. ASSUME ReconcileSave(t) PROVE Typed'
    <2>1. RegistryType'
      BY <1>20 DEF ReconcileSave, RegistryType, row
    <2> QED BY <1>20, <2>1, PersistType, FinishType DEF ReconcileSave, memory, MemoryType
  <1> QED BY <1>1, <1>2, <1>3, <1>4, <1>5, <1>6, <1>7, <1>8, <1>9, <1>10, <1>11, <1>12,
             <1>13, <1>14, <1>15, <1>16, <1>17, <1>18, <1>19, <1>20 DEF Continue

LEMMA TypeRestart ==
  ASSUME Typed, Restart
  PROVE  Typed'
  <1>1. PICK S \in SUBSET {p \in Shell : Lives(p)} :
          /\ runs' = [p \in Shell |-> IF p \in S THEN runs[p] ELSE Nobody]
          /\ state' = [s \in Sid |-> IF s \in Interrupted(S) THEN "dead"
                                     ELSE disk.state[s]]
    BY DEF Restart
  <1>2. RegistryType'
    BY <1>1 DEF Restart, Typed, Snapshot, RegistryType, State
  <1>3. MemoryType'
    BY <1>1 DEF Restart, Typed, MemoryType
  <1>4. ThreadsType'
    BY DEF Restart, ThreadsType, PC, Op
  <1> QED BY <1>2, <1>3, <1>4, PersistType DEF Restart, Typed

LEMMA TypeNext ==
  ASSUME Typed, [Next]_vars
  PROVE  Typed'
  <1>1. CASE \E t \in Caller : Call(t) \/ Continue(t)
    BY <1>1, TypeCall, TypeContinue
  <1>2. CASE \E p \in Shell : ShellExits(p)
    BY <1>2 DEF ShellExits, Killed, registry, row, memory, threads, Typed,
                RegistryType, MemoryType, ThreadsType
  <1>3. CASE Restart
    BY <1>3, TypeRestart
  <1>4. CASE UpdaterEnds
    BY <1>4 DEF UpdaterEnds, registry, row, memory, threads, Typed,
                RegistryType, MemoryType, ThreadsType
  <1>5. CASE UNCHANGED vars
    BY <1>5 DEF vars, Typed, RegistryType, MemoryType, ThreadsType
  <1> QED BY <1>1, <1>2, <1>3, <1>4, <1>5 DEF Next

\* Every variable keeps its type whatever threads, shells and restarts do.
THEOREM TypeCorrect == Spec => []TypeOK
  <1>1. Typed /\ [Next]_vars => Typed'
    BY TypeNext
  <1> QED BY <1>1, TypeInit, TypedImpliesTypeOK, PTL DEF Spec

-----------------------------------------------------------------------------
(***************************************************************************)
(* Handle locks and reservations, for every number of handles, sessions,   *)
(* shells and threads, resumes of every kind and restarts included,        *)
(* provided no launch outlives the starting grace and nobody asks for      *)
(* usage: its reconciliation deletes a lock it does not own any more.      *)
(*                                                                         *)
(* The two facts to prove about the registry say the same of the state     *)
(* file, which a restart loads.  Neither is inductive without what the     *)
(* threads know: a thread that launches a spawn is on a starting row of    *)
(* its own, and every other thread is on a row that has left starting, so  *)
(* nobody else writes a reservation.                                       *)
(***************************************************************************)


\* The states a registered session goes through.
Settled == {"active", "parked", "resuming", "done", "dead"}

LocksWell(st, lk) ==
  /\ \A h \in Handle : lk[h] # Nobody =>
       HandleOf(lk[h]) = h /\ st[lk[h]] \notin {"unused", "removed"}
  /\ \A s \in Sid : st[s] = "starting" => lk[HandleOf(s)] = s

ReservationAssumption == ~LaunchMayOutliveGrace /\ "usage" \notin Ops

\* No thread reconciles; one that is about to resume has yet to look at the row.
ThreadWell(p, o, s, st) ==
  /\ p = "idle" => o = "none"
  /\ p \notin {"reconcile", "check", "delete", "save"}
  /\ o = "spawn" => p \in {"launch", "launched", "failed"} /\ st[s] = "starting"
  /\ p \notin {"idle", "resume", "closed"} /\ o # "spawn" => st[s] \in Settled

ThreadsWell ==
  /\ \A t \in Caller : ThreadWell(pc[t], op[t], on[t], state)
  /\ \A t, u \in Caller : op[t] = "spawn" /\ op[u] = "spawn" /\ on[t] = on[u] => t = u

ReservationInv ==
  /\ LocksWell(state, locks)
  /\ LocksWell(disk.state, disk.locks)
  /\ ThreadsWell

LEMMA ReservationInit == Init => ReservationInv
  BY DEF Init, ReservationInv, LocksWell, ThreadsWell, ThreadWell

LEMMA ReservationImplies ==
  ASSUME Typed, ReservationInv
  PROVE  LockNamesItsSeat /\ ReservationHoldsLock /\ OneSpawnPerHandle
  <1>1. LockNamesItsSeat /\ ReservationHoldsLock
    BY DEF ReservationInv, LocksWell, LockNamesItsSeat, ReservationHoldsLock
  <1>2. ASSUME NEW t \in Caller, NEW u \in Caller, op[t] = "spawn", op[u] = "spawn",
               HandleOf(on[t]) = HandleOf(on[u])
        PROVE  t = u
    <2>1. on[t] \in Sid /\ on[u] \in Sid /\ state[on[t]] = "starting"
            /\ state[on[u]] = "starting"
      BY <1>2 DEF ReservationInv, ThreadsWell, ThreadWell, Typed, ThreadsType
    <2>2. on[t] = on[u]
      BY <1>2, <2>1 DEF ReservationInv, LocksWell
    <2> QED BY <1>2, <2>2 DEF ReservationInv, ThreadsWell
  <1> QED BY <1>1, <1>2 DEF OneSpawnPerHandle

-----------------------------------------------------------------------------
(* What the steps have in common *)

\* The state file satisfies what the registry satisfied when it was written.
LEMMA DiskWell ==
  ASSUME ReservationInv, LocksWell(state', locks'), Persist \/ disk' = disk
  PROVE  LocksWell(disk'.state, disk'.locks)
  BY DEF ReservationInv, Persist

\* Registered sessions stay registered, reservations stay reservations but for
\* those of R.
Advances(R) ==
  \A x \in Sid : /\ state[x] \in Settled => state'[x] \in Settled
                 /\ state[x] = "starting" /\ x \notin R => state'[x] = "starting"

\* One thread moves, the others stay where they are.
LEMMA ThreadMoves ==
  ASSUME Typed, ReservationInv, NEW t \in Caller, NEW w \in PC, NEW o \in Op,
         NEW s \in Sid \cup {Nobody}, Goto(t, w, o, s), NEW R, Advances(R),
         ThreadWell(w, o, s, state'),
         \A u \in Caller \ {t} : op[u] = "spawn" => on[u] \notin R,
         o = "spawn" => \A u \in Caller \ {t} : op[u] = "spawn" => on[u] # s
  PROVE  ThreadsWell'
  <1>1. \A u \in Caller \ {t} : pc'[u] = pc[u] /\ op'[u] = op[u] /\ on'[u] = on[u]
    BY DEF Goto, Typed, ThreadsType
  <1>2. pc'[t] = w /\ op'[t] = o /\ on'[t] = s
    BY DEF Goto, Typed, ThreadsType
  <1>3. ASSUME NEW u \in Caller \ {t} PROVE ThreadWell(pc[u], op[u], on[u], state')
    <2>1. ThreadWell(pc[u], op[u], on[u], state)
      BY DEF ReservationInv, ThreadsWell
    <2>2. pc[u] # "idle" => on[u] \in Sid
      BY DEF Typed, ThreadsType
    <2> QED BY <2>1, <2>2 DEF ThreadWell, Advances
  <1>4. \A u \in Caller : ThreadWell(pc'[u], op'[u], on'[u], state')
    BY <1>1, <1>2, <1>3
  <1>5. \A u, v \in Caller : op'[u] = "spawn" /\ op'[v] = "spawn" /\ on'[u] = on'[v] => u = v
    BY <1>1, <1>2 DEF ReservationInv, ThreadsWell
  <1> QED BY <1>4, <1>5 DEF ThreadsWell

LEMMA ThreadFinishes ==
  ASSUME Typed, ReservationInv, NEW t \in Caller, Finish(t), NEW R, Advances(R),
         \A u \in Caller \ {t} : op[u] = "spawn" => on[u] \notin R
  PROVE  ThreadsWell'
  BY ThreadMoves DEF Finish, PC, Op, ThreadWell

LEMMA ThreadsStay ==
  ASSUME Typed, ReservationInv, UNCHANGED threads, NEW R, Advances(R),
         \A u \in Caller : op[u] = "spawn" => on[u] \notin R
  PROVE  ThreadsWell'
  <1>1. ASSUME NEW u \in Caller PROVE ThreadWell(pc[u], op[u], on[u], state')
    <2>1. ThreadWell(pc[u], op[u], on[u], state)
      BY DEF ReservationInv, ThreadsWell
    <2>2. pc[u] # "idle" => on[u] \in Sid
      BY DEF Typed, ThreadsType
    <2> QED BY <2>1, <2>2 DEF ThreadWell, Advances
  <1> QED BY <1>1 DEF threads, ReservationInv, ThreadsWell

\* A registered session changes its state and keeps or gives up its lock.
LEMMA SettledMoves ==
  ASSUME Typed, ReservationInv, NEW s \in Sid, state[s] \in Settled, NEW v \in Settled,
         state' = [state EXCEPT ![s] = v], locks' = locks \/ locks' = Unlocked(s)
  PROVE  LocksWell(state', locks') /\ Advances({})
  <1>1. Advances({})
    BY DEF Advances, Settled, Typed, RegistryType
  <1>2. ASSUME NEW h \in Handle, locks'[h] # Nobody
        PROVE  HandleOf(locks'[h]) = h /\ state'[locks'[h]] \notin {"unused", "removed"}
    <2>1. locks'[h] = locks[h] /\ locks[h] \in Sid
      BY <1>2, SidHandle DEF Unlocked, Typed, RegistryType
    <2> QED BY <1>2, <2>1 DEF ReservationInv, LocksWell, Settled, Typed, RegistryType
  <1>3. ASSUME NEW x \in Sid, state'[x] = "starting" PROVE locks'[HandleOf(x)] = x
    <2>1. x # s /\ state[x] = "starting"
      BY <1>3 DEF Settled, Typed, RegistryType
    <2>2. locks[HandleOf(x)] = x
      BY <2>1 DEF ReservationInv, LocksWell
    <2> QED BY <2>1, <2>2, SidHandle DEF Unlocked, Typed, RegistryType
  <1> QED BY <1>1, <1>2, <1>3 DEF LocksWell

\* The session of a thread that neither spawns nor is about to resume.
LEMMA ThreadIsSettled ==
  ASSUME Typed, ReservationInv, NEW t \in Caller, pc[t] \notin {"idle", "resume", "closed"},
         op[t] # "spawn"
  PROVE  on[t] \in Sid /\ state[on[t]] \in Settled
  BY DEF Typed, ThreadsType, ReservationInv, ThreadsWell, ThreadWell

LEMMA ThreadIsStarting ==
  ASSUME Typed, ReservationInv, NEW t \in Caller, op[t] = "spawn"
  PROVE  on[t] \in Sid /\ state[on[t]] = "starting" /\ locks[HandleOf(on[t])] = on[t]
  BY DEF Typed, ThreadsType, ReservationInv, ThreadsWell, ThreadWell, LocksWell

-----------------------------------------------------------------------------
(* spawn *)

LEMMA SpawnAdmitKeeps ==
  ASSUME ~LaunchMayOutliveGrace, Typed, ReservationInv, NEW t \in Caller,
         NEW h \in Handle, SpawnAdmit(t, h)
  PROVE  ReservationInv'
  <1> DEFINE holder == LocksReconciled[h]
  <1>1. PICK s \in Sid : /\ HandleOf(s) = h
                         /\ state[s] = "unused"
                         /\ state' = [x \in Sid |-> IF x = s THEN "starting"
                                                    ELSE IF x \in Evicted(h) THEN "done"
                                                    ELSE Reconciled[x]]
                         /\ locks' = [LocksReconciled EXCEPT ![h] = s]
                         /\ Goto(t, "launch", "spawn", s)
    BY DEF SpawnAdmit
  <1>2. \A x \in Phantom : x \in Sid /\ state[x] = "active"
    BY DEF Phantom
  <1>3. /\ LocksReconciled \in [Handle -> Sid \cup {Nobody}]
        /\ \A g \in Handle : LocksReconciled[g] # Nobody => LocksReconciled[g] = locks[g]
        /\ \A x \in Sid : state[x] = "starting" => LocksReconciled[HandleOf(x)] = x
    BY <1>2, ReconciledTypes, SidHandle
       DEF LocksReconciled, ReservationInv, LocksWell, Typed, RegistryType
  <1>4. holder # Nobody => holder \in Sid /\ state[holder] \notin {"unused", "removed"}
    BY <1>3 DEF ReservationInv, LocksWell, Typed, RegistryType
  <1>5. \A u \in Caller : op[u] = "spawn" => on[u] # holder /\ on[u] # s
    <2> SUFFICES ASSUME NEW u \in Caller, op[u] = "spawn" PROVE on[u] # holder /\ on[u] # s
      OBVIOUS
    <2>1. on[u] \in Sid /\ state[on[u]] = "starting" /\ Launching(u, on[u])
      BY ThreadIsStarting DEF Launching, ReservationInv, ThreadsWell, ThreadWell
    <2>2. holder # Nobody /\ state[holder] = "starting" => ~Launching(u, holder)
      BY DEF SpawnAdmit, HandleFree, Abandoned
    <2> QED BY <1>1, <2>1, <2>2, NobodyIsNoSid
  <1>6. Advances({holder})
    BY <1>1, <1>2 DEF Advances, Evicted, Reconciled, Settled, Typed, RegistryType
  <1>7. ThreadsWell'
    <2>1. ThreadWell("launch", "spawn", s, state')
      BY <1>1 DEF ThreadWell
    <2> QED BY <1>1, <1>5, <1>6, <2>1, ThreadMoves DEF PC, Op
  <1>8. LocksWell(state', locks')
    <2>1. ASSUME NEW g \in Handle, locks'[g] # Nobody
          PROVE  HandleOf(locks'[g]) = g /\ state'[locks'[g]] \notin {"unused", "removed"}
      <3>1. CASE g = h
        BY <1>1, <1>3, <3>1
      <3>2. CASE g # h
        <4>1. locks'[g] = locks[g] /\ locks[g] \in Sid /\ locks[g] # s
          BY <1>1, <1>3, <2>1, <3>2 DEF ReservationInv, LocksWell, Typed, RegistryType
        <4>2. HandleOf(locks[g]) = g /\ state[locks[g]] \notin {"unused", "removed"}
          BY <2>1, <4>1 DEF ReservationInv, LocksWell
        <4> QED BY <1>1, <4>1, <4>2 DEF Reconciled
      <3> QED BY <3>1, <3>2
    <2>2. ASSUME NEW x \in Sid, state'[x] = "starting" PROVE locks'[HandleOf(x)] = x
      <3>1. CASE x = s
        BY <1>1, <1>3, <3>1
      <3>2. CASE x # s
        <4>1. state[x] = "starting" /\ x \notin Evicted(h)
          BY <1>1, <2>2, <3>2 DEF Reconciled
        <4>2. LocksReconciled[HandleOf(x)] = x /\ x # holder
          BY <1>3, <4>1, NobodyIsNoSid DEF Evicted
        <4> QED BY <1>1, <1>3, <4>2, SidHandle
      <3> QED BY <3>1, <3>2
    <2> QED BY <2>1, <2>2 DEF LocksWell
  <1>9. Persist
    BY DEF SpawnAdmit
  <1> QED BY <1>7, <1>8, <1>9, DiskWell DEF ReservationInv

LEMMA SpawnRefuseKeeps ==
  ASSUME Typed, ReservationInv, NEW t \in Caller, NEW h \in Handle, SpawnRefuse(t, h)
  PROVE  ReservationInv'
  <1>1. state' = Reconciled /\ locks' = LocksReconciled /\ UNCHANGED threads /\ Persist
    BY DEF SpawnRefuse
  <1>2. \A x \in Phantom : x \in Sid /\ state[x] = "active"
    BY DEF Phantom
  <1>3. Advances({})
    BY <1>1, <1>2 DEF Advances, Reconciled, Settled
  <1>4. LocksWell(state', locks')
    BY <1>1, <1>2, SidHandle DEF LocksWell, Reconciled, LocksReconciled, ReservationInv,
                                 Typed, RegistryType
  <1>5. ThreadsWell'
    BY <1>1, <1>3, ThreadsStay
  <1> QED BY <1>1, <1>4, <1>5, DiskWell DEF ReservationInv

LEMMA SpawnRegisterKeeps ==
  ASSUME Typed, ReservationInv, NEW t \in Caller, SpawnRegister(t)
  PROVE  ReservationInv'
  <1> DEFINE s == on[t]
  <1>1. s \in Sid /\ state[s] = "starting" /\ locks[HandleOf(s)] = s
    BY ThreadIsStarting DEF SpawnRegister
  <1>2. /\ state' = [state EXCEPT ![s] = "active"]
        /\ locks' = locks
        /\ Persist
        /\ Goto(t, "release", "release", s) \/ Finish(t)
    BY <1>1, SidHandle DEF SpawnRegister, Typed, RegistryType
  <1>3. Advances({s})
    BY <1>1, <1>2 DEF Advances, Settled, Typed, RegistryType
  <1>4. \A u \in Caller \ {t} : op[u] = "spawn" => on[u] # s
    BY DEF SpawnRegister, ReservationInv, ThreadsWell
  <1>5. ThreadsWell'
    <2>1. ThreadWell("release", "release", s, state')
      BY <1>1, <1>2 DEF ThreadWell, Settled, Typed, RegistryType
    <2>2. CASE Goto(t, "release", "release", s)
      BY <1>1, <1>3, <1>4, <2>1, <2>2, ThreadMoves DEF PC, Op
    <2>3. CASE Finish(t)
      BY <1>3, <1>4, <2>3, ThreadFinishes
    <2> QED BY <1>2, <2>2, <2>3
  <1>6. LocksWell(state', locks')
    BY <1>1, <1>2 DEF LocksWell, ReservationInv, Typed, RegistryType
  <1> QED BY <1>2, <1>5, <1>6, DiskWell DEF ReservationInv

LEMMA SpawnRollbackKeeps ==
  ASSUME Typed, ReservationInv, NEW t \in Caller, SpawnRollback(t)
  PROVE  ReservationInv'
  <1> DEFINE s == on[t]
  <1>1. s \in Sid /\ state[s] = "starting" /\ locks[HandleOf(s)] = s
    BY ThreadIsStarting DEF SpawnRollback
  <1>2. /\ state' = [state EXCEPT ![s] = "removed"]
        /\ locks' = Unlocked(s)
        /\ Persist
        /\ Finish(t)
    BY DEF SpawnRollback
  <1>3. Advances({s})
    BY <1>1, <1>2 DEF Advances, Settled, Typed, RegistryType
  <1>4. \A u \in Caller \ {t} : op[u] = "spawn" => on[u] # s
    BY DEF SpawnRollback, ReservationInv, ThreadsWell
  <1>5. ThreadsWell'
    BY <1>2, <1>3, <1>4, ThreadFinishes
  <1>6. LocksWell(state', locks')
    <2>1. ASSUME NEW h \in Handle, locks'[h] # Nobody
          PROVE  HandleOf(locks'[h]) = h /\ state'[locks'[h]] \notin {"unused", "removed"}
      <3>1. locks[h] # Nobody /\ locks[h] \in Sid
        BY <1>2, <2>1 DEF Unlocked, Typed, RegistryType
      <3>2. HandleOf(locks[h]) = h /\ state[locks[h]] \notin {"unused", "removed"}
        BY <3>1 DEF ReservationInv, LocksWell
      <3>3. locks'[h] = locks[h] /\ locks[h] # s
        BY <1>2, <2>1, <3>2 DEF Unlocked, Typed, RegistryType
      <3> QED BY <1>2, <3>1, <3>2, <3>3 DEF Typed, RegistryType
    <2>2. ASSUME NEW x \in Sid, state'[x] = "starting" PROVE locks'[HandleOf(x)] = x
      <3>1. x # s /\ state[x] = "starting"
        BY <1>1, <1>2, <2>2 DEF Typed, RegistryType
      <3> QED BY <1>2, <3>1, SidHandle DEF Unlocked, ReservationInv, LocksWell, Typed,
                                           RegistryType
    <2> QED BY <2>1, <2>2 DEF LocksWell
  <1> QED BY <1>2, <1>5, <1>6, DiskWell DEF ReservationInv

LEMMA LaunchKeeps ==
  ASSUME Typed, ReservationInv, NEW t \in Caller, LaunchReturns(t) \/ LaunchRaises(t)
  PROVE  ReservationInv'
  <1>1. /\ pc[t] = "launch"
        /\ UNCHANGED registry
        /\ \E w \in {"launched", "failed"} : Goto(t, w, op[t], on[t])
    BY DEF LaunchReturns, LaunchRaises
  <1>2. on[t] \in Sid /\ op[t] \in Op
    BY <1>1 DEF Typed, ThreadsType
  <1>3. state' = state /\ locks' = locks /\ disk' = disk
    BY <1>1 DEF registry, row
  <1>4. Advances({})
    BY <1>3 DEF Advances
  <1>5. ThreadsWell'
    <2>1. PICK w \in {"launched", "failed"} : Goto(t, w, op[t], on[t])
      BY <1>1
    <2>2. ThreadWell(w, op[t], on[t], state')
      BY <1>1, <1>3 DEF ReservationInv, ThreadsWell, ThreadWell
    <2>3. op[t] = "spawn" => \A u \in Caller \ {t} : op[u] = "spawn" => on[u] # on[t]
      BY DEF ReservationInv, ThreadsWell
    <2> QED BY <1>2, <1>4, <2>1, <2>2, <2>3, ThreadMoves DEF PC
  <1> QED BY <1>3, <1>5 DEF ReservationInv, LocksWell

-----------------------------------------------------------------------------
(* Steps on a session that is registered *)

\* A thread writes the row of a registered session and moves on with it, or is
\* done: the shape most of the remaining actions have.
LEMMA SettledStep ==
  ASSUME Typed, ReservationInv, NEW t \in Caller, NEW s \in Sid,
         state[s] \in Settled, NEW v \in Settled,
         state' = [state EXCEPT ![s] = v],
         locks' = locks \/ locks' = Unlocked(s),
         Persist \/ disk' = disk,
         \/ Finish(t)
         \/ \E w \in PC \ {"idle", "reconcile", "check", "delete", "save"}, o \in Op :
              o # "spawn" /\ Goto(t, w, o, s)
  PROVE  ReservationInv'
  <1>1. LocksWell(state', locks') /\ Advances({})
    BY SettledMoves
  <1>2. ThreadsWell'
    <2>1. CASE Finish(t)
      BY <1>1, <2>1, ThreadFinishes
    <2>2. CASE \E w \in PC \ {"idle", "reconcile", "check", "delete", "save"}, o \in Op :
                 o # "spawn" /\ Goto(t, w, o, s)
      <3>1. PICK w \in PC \ {"idle", "reconcile", "check", "delete", "save"}, o \in Op :
              o # "spawn" /\ Goto(t, w, o, s)
        BY <2>2
      <3>2. ThreadWell(w, o, s, state')
        BY <3>1 DEF ThreadWell, Typed, RegistryType
      <3> QED BY <1>1, <3>1, <3>2, ThreadMoves
    <2> QED BY <2>1, <2>2
  <1> QED BY <1>1, <1>2, DiskWell DEF ReservationInv

\* A step that writes no state and no lock, and at most ends a thread.
LEMMA ThreadEnds ==
  ASSUME Typed, ReservationInv, NEW t \in Caller, Finish(t), UNCHANGED <<state, locks>>,
         Persist \/ disk' = disk
  PROVE  ReservationInv'
  <1>1. Advances({}) /\ LocksWell(state', locks')
    BY DEF Advances, ReservationInv
  <1> QED BY <1>1, ThreadFinishes, DiskWell DEF ReservationInv

LEMMA ReleaseKeeps ==
  ASSUME Typed, ReservationInv, NEW t \in Caller, NEW s \in Sid, Release(t, s)
  PROVE  ReservationInv'
  <1>1. CASE Finish(t) /\ UNCHANGED <<state, locks>> /\ (Persist \/ disk' = disk)
    BY <1>1, ThreadEnds
  <1>2. CASE /\ state[s] = "active"
             /\ state' = [state EXCEPT ![s] = "done"]
             /\ Goto(t, "kill", "release", s)
             /\ locks' = locks
             /\ Persist
    BY <1>2, SettledStep DEF Settled, PC, Op
  <1> QED BY <1>1, <1>2 DEF Release, registry, row

LEMMA KillSessionKeeps ==
  ASSUME Typed, ReservationInv, NEW t \in Caller, KillSession(t)
  PROVE  ReservationInv'
  <1> DEFINE s == on[t]
  <1>1. pc[t] = "kill" /\ UNCHANGED registry
          /\ (Finish(t) \/ Goto(t, "unlock", "release", s))
    BY DEF KillSession
  <1>2. s \in Sid /\ state[s] \in Settled
    <2>1. op[t] # "spawn"
      BY <1>1 DEF ReservationInv, ThreadsWell, ThreadWell
    <2> QED BY <1>1, <2>1, ThreadIsSettled
  <1>3. state' = [state EXCEPT ![s] = state[s]] /\ locks' = locks /\ disk' = disk
    BY <1>1 DEF registry, row, Typed, RegistryType
  <1> QED BY <1>1, <1>2, <1>3, SettledStep DEF PC, Op

LEMMA ReapKeeps ==
  ASSUME Typed, ReservationInv, NEW t \in Caller, NEW h \in Handle, Reap(t, h)
  PROVE  ReservationInv'
  <1> DEFINE s == locks[h]
  <1>1. s \in Sid /\ HandleOf(s) = h /\ state[s] \notin {"unused", "removed"}
    BY DEF Reap, Typed, RegistryType, ReservationInv, LocksWell
  <1>2. CASE UNCHANGED <<state, locks, threads>> /\ Persist
    <2>1. Advances({}) /\ LocksWell(state', locks')
      BY <1>2 DEF Advances, ReservationInv
    <2> QED BY <1>2, <2>1, ThreadsStay, DiskWell DEF ReservationInv
  <1>3. CASE /\ state[s] # "starting"
             /\ state' = [state EXCEPT ![s] = "done"]
             /\ locks' = [locks EXCEPT ![h] = Nobody]
             /\ Goto(t, "kill", "reap", s)
             /\ Persist
    <2>1. state[s] \in Settled
      BY <1>1, <1>3 DEF Settled, Typed, RegistryType, State
    <2>2. locks' = Unlocked(s)
      BY <1>1, <1>3 DEF Unlocked
    <2> QED BY <1>1, <1>3, <2>1, <2>2, SettledStep DEF Settled, PC, Op
  <1> QED BY <1>2, <1>3 DEF Reap

LEMMA ParkKeeps ==
  ASSUME Typed, ReservationInv, NEW t \in Caller, NEW s \in Sid, Park(t, s)
  PROVE  ReservationInv'
  <1>1. /\ state[s] \in Settled
        /\ state' = [state EXCEPT ![s] = "parked"]
        /\ locks' = locks
        /\ UNCHANGED threads
        /\ Persist
    BY DEF Park, Settled
  <1>2. LocksWell(state', locks') /\ Advances({})
    BY <1>1, SettledMoves DEF Settled
  <1> QED BY <1>1, <1>2, ThreadsStay, DiskWell DEF ReservationInv

-----------------------------------------------------------------------------
(* resume and resume_closed *)

\* A thread may set out to resume any session: it looks at the row again.
LEMMA ResumeCallKeeps ==
  ASSUME Typed, ReservationInv, NEW t \in Caller, NEW h \in Handle,
         ResumeCall(t, h) \/ \E s \in Sid : HandleOf(s) = h /\ UpdaterResume(t, s)
  PROVE  ReservationInv'
  <1>1. /\ UNCHANGED <<state, locks>>
        /\ Persist \/ disk' = disk
        /\ BeginResume(t, h) \/ BeginClosed(t, h)
    BY DEF ResumeCall, UpdaterResume, registry, row
  <1>2. PICK w \in {"resume", "closed"}, o \in {"resume", "resume_closed"}, s \in Sid :
          Goto(t, w, o, s)
    BY <1>1, ResumeBegins
  <1>3. Advances({}) /\ LocksWell(state', locks')
    BY <1>1 DEF Advances, ReservationInv
  <1>4. ThreadWell(w, o, s, state')
    BY DEF ThreadWell
  <1>5. w \in PC /\ o \in Op /\ \A u \in Caller \ {t} : op[u] = "spawn" => on[u] \notin {}
    BY DEF PC, Op
  <1>6. ThreadsWell'
    BY <1>2, <1>3, <1>4, <1>5, ThreadMoves
  <1> QED BY <1>1, <1>3, <1>6, DiskWell DEF ReservationInv

LEMMA ResumeKeeps ==
  ASSUME Typed, ReservationInv, NEW t \in Caller,
         ResumeNoOp(t) \/ ResumeRestore(t) \/ ResumeFork(t)
  PROVE  ReservationInv'
  <1> DEFINE s == on[t]
  <1>1. s \in Sid
    BY DEF ResumeNoOp, ResumeRestore, ResumeFork, Typed, ThreadsType
  <1>2. ResumeApplies(s) => state[s] \in Settled
    BY DEF ResumeApplies, Settled
  <1>3. CASE ResumeNoOp(t)
    BY <1>3, ThreadEnds DEF ResumeNoOp, registry, row
  <1>4. CASE ResumeRestore(t)
    BY <1>1, <1>2, <1>4, SettledStep DEF ResumeRestore, Settled
  <1>5. CASE ResumeFork(t)
    BY <1>1, <1>2, <1>5, SettledStep DEF ResumeFork, Settled, PC, Op
  <1> QED BY <1>3, <1>4, <1>5

LEMMA ResumeClosedKeeps ==
  ASSUME Typed, ReservationInv, NEW t \in Caller, ResumeClosed(t)
  PROVE  ReservationInv'
  <1> DEFINE h == HandleOf(on[t])
  <1>h. h \in Handle /\ (locks[h] # Nobody => state[locks[h]] \notin LiveState)
    BY SidHandle DEF ResumeClosed, Reclaimable, Typed, ThreadsType
  <1>1. PICK s \in DoneRows(h) : /\ state' = [state EXCEPT ![s] = "resuming"]
                                 /\ locks' = [locks EXCEPT ![h] = s]
                                 /\ Goto(t, "launch", "resume_closed", s)
    BY DEF ResumeClosed
  <1>2. s \in Sid /\ HandleOf(s) = h /\ state[s] = "done"
    BY DEF DoneRows
  <1> HIDE DEF h
  <1>3. Advances({})
    BY <1>1, <1>2 DEF Advances, Settled, Typed, RegistryType
  <1>4. LocksWell(state', locks')
    <2>1. ASSUME NEW g \in Handle, locks'[g] # Nobody
          PROVE  HandleOf(locks'[g]) = g /\ state'[locks'[g]] \notin {"unused", "removed"}
      <3>1. locks'[g] = IF g = h THEN s ELSE locks[g]
        BY <1>1 DEF Typed, RegistryType
      <3>2. \A x \in Sid : state'[x] = IF x = s THEN "resuming" ELSE state[x]
        BY <1>1 DEF Typed, RegistryType
      <3>3. CASE g = h
        BY <1>2, <3>1, <3>2, <3>3
      <3>4. CASE g # h
        <4>1. locks[g] \in Sid /\ HandleOf(locks[g]) = g /\ state[locks[g]] \notin {"unused", "removed"}
          BY <2>1, <3>1, <3>4 DEF ReservationInv, LocksWell, Typed, RegistryType
        <4> QED BY <3>1, <3>2, <3>4, <4>1
      <3> QED BY <3>3, <3>4
    <2>2. ASSUME NEW x \in Sid, state'[x] = "starting" PROVE locks'[HandleOf(x)] = x
      <3>1. x # s /\ state[x] = "starting"
        BY <1>1, <1>2, <2>2 DEF Typed, RegistryType
      <3>2. locks[HandleOf(x)] = x
        BY <3>1 DEF ReservationInv, LocksWell
      <3>3. HandleOf(x) # h
        <4>1. locks[h] # Nobody => state[locks[h]] # "starting"
          BY <1>h DEF LiveState
        <4> QED BY <3>1, <3>2, <4>1, NobodyIsNoSid
      <3>4. HandleOf(x) \in Handle
        BY SidHandle
      <3>5. locks'[HandleOf(x)] = locks[HandleOf(x)]
        <4>1. locks' = [locks EXCEPT ![h] = s] /\ locks \in [Handle -> Sid \cup {Nobody}]
          BY <1>1 DEF Typed, RegistryType
        <4> QED BY <3>3, <3>4, <4>1
      <3> QED BY <3>2, <3>5
    <2> QED BY <2>1, <2>2 DEF LocksWell
  <1>5. ThreadsWell'
    <2>1. ThreadWell("launch", "resume_closed", s, state')
      BY <1>1, <1>2 DEF ThreadWell, Settled, Typed, RegistryType
    <2>2. /\ "launch" \in PC /\ "resume_closed" \in Op /\ s \in Sid \cup {Nobody}
          /\ Goto(t, "launch", "resume_closed", s)
      BY <1>1, <1>2 DEF PC, Op
    <2> QED BY <1>3, <2>1, <2>2, ThreadMoves
  <1>6. Persist
    BY DEF ResumeClosed
  <1> QED BY <1>4, <1>5, <1>6, DiskWell DEF ReservationInv

LEMMA ResumeEndsKeeps ==
  ASSUME Typed, ReservationInv, NEW t \in Caller,
         ResumeRegister(t) \/ ResumeFails(t) \/ ResumeClosedFails(t)
  PROVE  ReservationInv'
  <1> DEFINE s == on[t]
  <1>1. s \in Sid /\ state[s] \in Settled
    <2>1. pc[t] \in {"launched", "failed"} /\ op[t] # "spawn"
      BY DEF ResumeRegister, ResumeFails, ResumeClosedFails
    <2> QED BY <2>1, ThreadIsSettled
  <1>2. CASE ResumeRegister(t)
    BY <1>1, <1>2, SettledStep DEF ResumeRegister, Settled, PC, Op
  <1>3. CASE ResumeFails(t)
    <2>1. Persist
      BY <1>3 DEF ResumeFails
    <2>2. CASE /\ state' = [state EXCEPT ![s] = "done"]
               /\ locks' = Unlocked(s)
               /\ Goto(t, "kill", "reap", s)
      BY <1>1, <2>1, <2>2, SettledStep DEF Settled, PC, Op
    <2>3. CASE state' = [state EXCEPT ![s] = "parked"] /\ Finish(t) /\ locks' = locks
      BY <1>1, <2>1, <2>3, SettledStep DEF Settled
    <2> QED BY <1>3, <2>2, <2>3 DEF ResumeFails
  <1>4. CASE ResumeClosedFails(t)
    BY <1>1, <1>4, SettledStep DEF ResumeClosedFails, Settled
  <1> QED BY <1>2, <1>3, <1>4

-----------------------------------------------------------------------------
(* Steps without the mutex *)

LEMMA MarkKeeps ==
  ASSUME Typed, ReservationInv, NEW t \in Caller,
         SweepMark(t) \/ SweepPass(t) \/ ReleaseUnlock(t)
  PROVE  ReservationInv'
  <1> DEFINE s == on[t]
  <1>1. s \in Sid /\ state[s] \in Settled
    <2>1. pc[t] \in {"sweep", "unlock"}
      BY DEF SweepMark, SweepPass, ReleaseUnlock
    <2>2. op[t] # "spawn"
      BY <2>1 DEF ReservationInv, ThreadsWell, ThreadWell
    <2> QED BY <2>1, <2>2, ThreadIsSettled
  <1>2. CASE SweepMark(t)
    BY <1>1, <1>2, SettledStep DEF SweepMark, Settled
  <1>3. CASE SweepPass(t)
    BY <1>3, ThreadEnds DEF SweepPass, registry, row
  <1>4. CASE ReleaseUnlock(t)
    <2>1. state' = [state EXCEPT ![s] = state[s]]
      BY <1>4 DEF ReleaseUnlock, row, Typed, RegistryType
    <2> QED BY <1>1, <1>4, <2>1, SettledStep DEF ReleaseUnlock
  <1> QED BY <1>2, <1>3, <1>4

LEMMA LookKeeps ==
  ASSUME Typed, ReservationInv, NEW t \in Caller, NEW s \in Sid, SweepLook(t, s)
  PROVE  ReservationInv'
  <1>1. state[s] \in Settled /\ UNCHANGED registry /\ Goto(t, "sweep", "none", s)
    BY DEF SweepLook, Settled
  <1>2. state' = [state EXCEPT ![s] = state[s]] /\ locks' = locks /\ disk' = disk
    BY <1>1 DEF registry, row, Typed, RegistryType
  <1> QED BY <1>1, <1>2, SettledStep DEF PC, Op

\* Nobody asks for usage, so no thread reconciles without the mutex.
LEMMA NobodyReconciles ==
  ASSUME ReservationAssumption, ReservationInv, NEW t \in Caller
  PROVE  /\ \A s \in Sid : ~ReconcileLook(t, s)
         /\ ~ReconcileMark(t) /\ ~ReconcileCheck(t) /\ ~ReconcileDelete(t) /\ ~ReconcileSave(t)
  BY DEF ReservationAssumption, ReservationInv, ThreadsWell, ThreadWell, ReconcileLook, Calls,
         ReconcileMark, ReconcileCheck, ReconcileDelete, ReconcileSave

\* A restart loads a state file that satisfies what the registry did, and no
\* thread survives it.
LEMMA RestartKeeps ==
  ASSUME Typed, ReservationInv, Restart
  PROVE  ReservationInv'
  <1>1. PICK S : state' = [s \in Sid |-> IF s \in Interrupted(S) THEN "dead"
                                         ELSE disk.state[s]]
    BY DEF Restart
  <1>2. locks' = disk.locks /\ Persist /\ disk.locks \in [Handle -> Sid \cup {Nobody}]
    BY DEF Restart, Typed, Snapshot
  <1>3. LocksWell(state', locks')
    BY <1>1, <1>2 DEF ReservationInv, LocksWell
  <1>4. ThreadsWell'
    BY DEF Restart, ThreadsWell, ThreadWell
  <1> QED BY <1>2, <1>3, <1>4, DiskWell DEF ReservationInv

-----------------------------------------------------------------------------

LEMMA ReservationNext ==
  ASSUME ReservationAssumption, Typed, ReservationInv, [Next]_vars
  PROVE  ReservationInv'
  <1>0. ~LaunchMayOutliveGrace
    BY DEF ReservationAssumption
  <1>1. ASSUME NEW t \in Caller, Call(t) PROVE ReservationInv'
    <2>1. ASSUME NEW h \in Handle,
                 \/ SpawnAdmit(t, h) \/ SpawnRefuse(t, h) \/ Reap(t, h)
                 \/ ResumeCall(t, h)
          PROVE  ReservationInv'
      BY <1>0, <2>1, SpawnAdmitKeeps, SpawnRefuseKeeps, ReapKeeps, ResumeCallKeeps
    <2>2. ASSUME NEW s \in Sid,
                 \/ ReleaseCall(t, s) \/ Park(t, s) \/ UpdaterResume(t, s)
                 \/ ReconcileLook(t, s) \/ SweepLook(t, s)
          PROVE  ReservationInv'
      <3>1. CASE ReleaseCall(t, s)
        BY <3>1, ReleaseKeeps DEF ReleaseCall
      <3>2. CASE UpdaterResume(t, s)
        BY <3>2, ResumeCallKeeps, SidHandle
      <3> QED BY <2>2, <3>1, <3>2, ParkKeeps, LookKeeps, NobodyReconciles
    <2> QED BY <1>1, <2>1, <2>2 DEF Call
  <1>2. ASSUME NEW t \in Caller, Continue(t) PROVE ReservationInv'
    <2>1. CASE ReleaseAfterLaunch(t)
      <3>1. on[t] \in Sid
        BY <2>1 DEF ReleaseAfterLaunch, Typed, ThreadsType
      <3> QED BY <2>1, <3>1, ReleaseKeeps DEF ReleaseAfterLaunch
    <2>2. CASE ResumeClosedRefuse(t)
      BY <2>2, ThreadEnds DEF ResumeClosedRefuse, registry, row
    <2> QED BY <1>2, <2>1, <2>2, LaunchKeeps, SpawnRegisterKeeps, SpawnRollbackKeeps,
               KillSessionKeeps, ResumeKeeps, ResumeClosedKeeps, ResumeEndsKeeps, MarkKeeps,
               NobodyReconciles DEF Continue
  <1>3. CASE UNCHANGED <<registry, threads>>
    <2>1. Advances({}) /\ state' = state /\ locks' = locks /\ disk' = disk
      BY <1>3 DEF Advances, registry, row
    <2> QED BY <1>3, <2>1, ThreadsStay DEF ReservationInv, LocksWell
  <1>4. (\E p \in Shell : ShellExits(p)) \/ UpdaterEnds \/ UNCHANGED vars
          => UNCHANGED <<registry, threads>>
    BY DEF ShellExits, UpdaterEnds, vars, registry, row, threads
  <1> QED BY <1>1, <1>2, <1>3, <1>4, RestartKeeps DEF Next

\* The lock of a handle names a row of that handle, a reservation holds its
\* lock until it is registered or rolled back, and two spawns never launch on
\* one handle, in every interleaving of every operation but usage, and across
\* restarts (spawn, _launch_reserved, release, reap, resume, resume_closed,
\* load_state).
THEOREM ReservationsAreSafe ==
  ASSUME ReservationAssumption
  PROVE  Spec => [](LockNamesItsSeat /\ ReservationHoldsLock /\ OneSpawnPerHandle)
  <1>1. Init => Typed /\ ReservationInv
    BY TypeInit, ReservationInit
  <1>2. Typed /\ ReservationInv /\ [Next]_vars => (Typed /\ ReservationInv)'
    BY TypeNext, ReservationNext
  <1>3. Typed /\ ReservationInv => LockNamesItsSeat /\ ReservationHoldsLock /\ OneSpawnPerHandle
    BY ReservationImplies
  <1> QED BY <1>1, <1>2, <1>3, PTL DEF Spec

-----------------------------------------------------------------------------
(***************************************************************************)
(* Seats: the registry implements SeatPerHandle, and a live seat holds its *)
(* handle's lock.  Proved where nobody closes a seat behind a resume's     *)
(* back: either seats are resumed, closed ones too, and then no reap or    *)
(* crash sweep runs beside, or those run and nobody resumes.  A resume     *)
(* that finds no lock overlaps no other request for its handle, and nobody *)
(* calls resume_closed itself, which may take a handle from its seat while *)
(* that closes.  A pool may restart at any moment.                         *)
(***************************************************************************)

\* Somebody may resume a session: a caller, or the updater's pass.
Resumes == "resume" \in Ops \/ "for_update" \in Ops

SeatAssumption ==
  /\ ReservationAssumption
  /\ ~ClosedResumesOverlap /\ "resume_closed" \notin Ops
  /\ Resumes => {"reap", "sweep"} \cap Ops = {}

\* The states in which a session keeps its lock.  A dead session keeps it only
\* as long as it may be resumed; elsewhere the sweep marks closed sessions too.
Keeps == LiveState \cup (IF Resumes THEN {"dead"} ELSE {})

SeatsLocked == \A s \in Sid : state[s] \in Keeps => locks[HandleOf(s)] = s

\* Only the first step of a resume is not saved at once.
DiskFollows ==
  /\ disk.locks = locks
  /\ \A s \in Sid :
       \/ disk.state[s] = state[s]
       \/ state[s] = "resuming" /\ disk.state[s] \in {"active", "parked", "dead"}

MarksWell == \A s \in Sid : forUpdate[s] \/ disk.forUpdate[s] => Resumes

\* A closed session is on its way back from a handle without a lock.
SeatThread(p, o, s, st, fl, lk) ==
  /\ p = "resume" \/ o \in {"resume", "resume_closed"} => Resumes
  /\ p = "sweep" => ~Resumes
  /\ p \in {"kill", "unlock"} => st[s] \notin Keeps
  /\ o = "resume" /\ p # "resume" => st[s] = "resuming" /\ s \in fl
  /\ p = "closed" => o = "resume_closed" /\ lk[HandleOf(s)] = Nobody
  /\ o = "resume_closed" =>
       p \in {"closed", "launch", "launched", "failed"} /\ (p # "closed" => st[s] = "resuming")

\* Thread t launches a shell for a session it resumes.
Relaunches(t) ==
  \/ op[t] = "resume" /\ pc[t] # "resume"
  \/ op[t] = "resume_closed" /\ pc[t] # "closed"

\* Nobody else is at work on the handle of a closed session on its way back.
Secluded ==
  \A t, u \in Caller : op[t] = "resume_closed" /\ u # t /\ pc[u] # "idle"
                          => HandleOf(on[u]) # HandleOf(on[t])

SeatThreads ==
  /\ \A t \in Caller : SeatThread(pc[t], op[t], on[t], state, inflight, locks)
  /\ \A t, u \in Caller : Relaunches(t) /\ Relaunches(u) /\ on[t] = on[u] => t = u
  /\ Secluded

SeatInv == SeatsLocked /\ DiskFollows /\ MarksWell /\ SeatThreads

LEMMA KeepsCases ==
  /\ LiveState \subseteq Keeps
  /\ \A x \in Keeps : x \in LiveState \/ (x = "dead" /\ Resumes)
  /\ Resumes => "dead" \in Keeps
  /\ ~Resumes => "dead" \notin Keeps
  /\ "done" \notin Keeps /\ "unused" \notin Keeps /\ "removed" \notin Keeps
  <1>1. CASE Resumes
    BY <1>1 DEF Keeps, LiveState
  <1>2. CASE ~Resumes
    BY <1>2 DEF Keeps, LiveState
  <1> QED BY <1>1, <1>2

LEMMA SeatInvInit == Init => SeatInv
  <1> SUFFICES ASSUME Init PROVE SeatInv
    OBVIOUS
  <1>1. SeatsLocked /\ DiskFollows
    BY KeepsCases DEF Init, SeatsLocked, DiskFollows
  <1>2. MarksWell
    BY DEF Init, MarksWell
  <1>3. SeatThreads
    BY DEF Init, SeatThreads, SeatThread, Relaunches, Secluded
  <1> QED BY <1>1, <1>2, <1>3 DEF SeatInv

-----------------------------------------------------------------------------
(* The abstract state, and the steps the operations map to *)

PhaseName(x) ==
  CASE x = "unused" -> "fresh"
    [] x \in LiveState -> "seated"
    [] x \in {"done", "dead"} -> "left"
    [] x = "removed" -> "gone"

LEMMA PhaseNames ==
  /\ Phase = [s \in Sid |-> PhaseName(state[s])]
  /\ Phase' = [s \in Sid |-> PhaseName(state'[s])]
  BY DEF Phase, PhaseName

LEMMA PhaseValues ==
  /\ PhaseName("unused") = "fresh"
  /\ \A x \in LiveState : PhaseName(x) = "seated"
  /\ PhaseName("done") = "left" /\ PhaseName("dead") = "left"
  /\ PhaseName("removed") = "gone"
  BY DEF PhaseName, LiveState

LEMMA SeatedAre == ASSUME Typed PROVE Seats!Seated = {s \in Sid : state[s] \in LiveState}
  <1>1. \A s \in Sid : PhaseName(state[s]) = "seated" <=> state[s] \in LiveState
    BY DEF PhaseName, LiveState, Typed, RegistryType, State
  <1> QED BY <1>1, PhaseNames DEF Seats!Seated, Seats!Sid, Sid

\* Sessions only leave their seats.
Fades ==
  \A s \in Sid : \/ PhaseName(state'[s]) = PhaseName(state[s])
                 \/ state[s] \in LiveState /\ PhaseName(state'[s]) = "left"

LEMMA SeatsFade ==
  ASSUME Typed, Fades
  PROVE  Seats!Next
  <1> DEFINE L == {s \in Sid : state[s] \in LiveState /\ PhaseName(state'[s]) = "left"}
  <1>1. L \in SUBSET Seats!Seated
    BY SeatedAre
  <1>2. Phase' = [q \in Sid |-> IF q \in L THEN "left" ELSE Phase[q]]
    BY PhaseNames DEF Fades
  <1>3. Seats!Leave(L)
    BY <1>2 DEF Seats!Leave, Seats!Sid, Sid
  <1> QED BY <1>1, <1>3 DEF Seats!Next

\* A dead session that still holds its lock, or a closed one whose handle has
\* none, takes its seat again.
LEMMA SeatReturns ==
  ASSUME Typed, SeatInv, NEW s \in Sid,
         \/ state[s] = "dead" /\ Resumes
         \/ state[s] = "done" /\ locks[HandleOf(s)] = Nobody,
         NEW v \in LiveState, state' = [state EXCEPT ![s] = v]
  PROVE  Seats!Next
  <1>1. Phase[s] = "left"
    BY PhaseNames, PhaseValues
  <1>2. Phase' = [q \in Sid |-> IF q = s THEN "seated"
                                ELSE IF q \in {} THEN "left" ELSE Phase[q]]
    BY PhaseNames, PhaseValues DEF Typed, RegistryType
  <1>3. ASSUME NEW q \in Seats!Seated, q[1] = s[1] PROVE FALSE
    <2>1. q \in Sid /\ state[q] \in LiveState
      BY SeatedAre
    <2>2. locks[HandleOf(q)] = q /\ (state[s] = "dead" => locks[HandleOf(s)] = s)
      BY <2>1, KeepsCases DEF SeatInv, SeatsLocked
    <2>3. q = s
      BY <1>3, <2>1, <2>2, NobodyIsNoSid DEF HandleOf
    <2> QED BY <2>1, <2>3 DEF LiveState
  <1>4. Seats!Return(s)
    BY <1>1, <1>2, <1>3 DEF Seats!Return, Seats!Sit, Seats!Free, Seats!Sid, Sid
  <1>5. s \in Seats!Sid
    BY DEF Seats!Sid, Sid
  <1> QED BY <1>4, <1>5 DEF Seats!Next

-----------------------------------------------------------------------------
(* What the steps have in common *)

\* What threads rely on, but for the sessions of R: closed sessions stay closed,
\* those on their way back stay so, and a handle without a lock gets none.
Calm(R) ==
  /\ \A x \in Sid \ R :
       /\ state[x] \in Settled /\ state[x] \notin Keeps => state'[x] \notin Keeps
       /\ Resumes /\ state[x] = "resuming" =>
            state'[x] = "resuming" /\ (x \in inflight => x \in inflight')
  /\ \A h \in Handle : locks[h] = Nobody =>
       locks'[h] = Nobody \/ \E x \in R : HandleOf(x) = h

\* Thread u relies on nothing about the sessions of R.
Apart(u, R) ==
  /\ Relaunches(u) \/ pc[u] \in {"kill", "unlock"} => on[u] \notin R
  /\ pc[u] = "closed" => \A x \in R : HandleOf(x) # HandleOf(on[u])

LEMMA ApartFromNone == \A u : Apart(u, {})
  BY DEF Apart

\* Thread t may go on with operation o on session s: it stays on its handle, or
\* seclusion lets it in.
LetIn(t, o, s) ==
  \/ /\ pc[t] # "idle" /\ HandleOf(s) = HandleOf(on[t])
     /\ o = "resume_closed" => op[t] = "resume_closed"
  \/ /\ \A u \in Caller \ {t} : op[u] = "resume_closed" => HandleOf(on[u]) # HandleOf(s)
     /\ o = "resume_closed" =>
          \A u \in Caller \ {t} : pc[u] # "idle" => HandleOf(on[u]) # HandleOf(s)

LEMMA UnlockedStays ==
  ASSUME Typed, NEW s \in Sid
  PROVE  \A h \in Handle : locks[h] = Nobody => Unlocked(s)[h] = Nobody
  BY SidHandle, NobodyIsNoSid DEF Unlocked, Typed, RegistryType

LEMMA SeatThreadStays ==
  ASSUME Typed, ReservationInv, SeatInv, NEW R, Calm(R), NEW u \in Caller, Apart(u, R)
  PROVE  SeatThread(pc[u], op[u], on[u], state', inflight', locks')
  <1>1. SeatThread(pc[u], op[u], on[u], state, inflight, locks)
    BY DEF SeatInv, SeatThreads
  <1>2. pc[u] \in {"kill", "unlock"} => on[u] \in Sid /\ state[on[u]] \in Settled
    BY ThreadIsSettled DEF ReservationInv, ThreadsWell, ThreadWell
  <1>3. pc[u] # "idle" => on[u] \in Sid /\ HandleOf(on[u]) \in Handle
    BY SidHandle DEF Typed, ThreadsType
  <1>4. op[u] # "none" => pc[u] # "idle"
    BY DEF ReservationInv, ThreadsWell, ThreadWell
  <1>5. pc[u] \in {"kill", "unlock"} => state'[on[u]] \notin Keeps
    BY <1>1, <1>2 DEF SeatThread, Calm, Apart
  <1>6. pc[u] = "closed" => locks'[HandleOf(on[u])] = Nobody
    BY <1>1, <1>3 DEF SeatThread, Calm, Apart
  <1>7. Relaunches(u) => /\ state'[on[u]] = "resuming"
                         /\ on[u] \in inflight => on[u] \in inflight'
    BY <1>1, <1>3, <1>4 DEF SeatThread, Calm, Apart, Relaunches
  <1> QED BY <1>1, <1>5, <1>6, <1>7 DEF SeatThread, Relaunches

LEMMA SeatThreadMoves ==
  ASSUME Typed, ReservationInv, SeatInv, NEW t \in Caller, NEW w, NEW o, NEW s,
         Goto(t, w, o, s), NEW R, Calm(R), SeatThread(w, o, s, state', inflight', locks'),
         \A u \in Caller \ {t} : Apart(u, R),
         (o = "resume" /\ w # "resume") \/ (o = "resume_closed" /\ w # "closed") =>
           \A u \in Caller \ {t} : Relaunches(u) => on[u] # s,
         w # "idle" => LetIn(t, o, s)
  PROVE  SeatThreads'
  <1>1. \A u \in Caller \ {t} : pc'[u] = pc[u] /\ op'[u] = op[u] /\ on'[u] = on[u]
    BY DEF Goto, Typed, ThreadsType
  <1>2. pc'[t] = w /\ op'[t] = o /\ on'[t] = s
    BY DEF Goto, Typed, ThreadsType
  <1>3. \A u \in Caller : SeatThread(pc'[u], op'[u], on'[u], state', inflight', locks')
    BY <1>1, <1>2, SeatThreadStays
  <1>4. \A u, v \in Caller : Relaunches(u)' /\ Relaunches(v)' /\ on'[u] = on'[v] => u = v
    BY <1>1, <1>2 DEF SeatInv, SeatThreads, Relaunches
  <1>5. Secluded'
    <2> SUFFICES ASSUME NEW u \in Caller, NEW v \in Caller, op'[u] = "resume_closed",
                        v # u, pc'[v] # "idle"
                 PROVE  HandleOf(on'[v]) # HandleOf(on'[u])
      BY DEF Secluded
    <2>1. \A x, y \in Caller : op[x] = "resume_closed" /\ y # x /\ pc[y] # "idle"
                                  => HandleOf(on[y]) # HandleOf(on[x])
      BY DEF SeatInv, SeatThreads, Secluded
    <2>2. CASE u # t /\ v # t
      BY <1>1, <2>1, <2>2
    <2>3. CASE u = t
      <3>1. w # "idle"
        BY <1>2, <1>3, <2>3 DEF SeatThread
      <3> QED BY <1>1, <1>2, <2>1, <2>3, <3>1 DEF LetIn
    <2>4. CASE v = t
      <3>1. u # t /\ op[u] = "resume_closed" /\ on'[u] = on[u]
        BY <1>1, <2>4
      <3> QED BY <1>2, <2>1, <2>4, <3>1 DEF LetIn
    <2> QED BY <2>2, <2>3, <2>4
  <1> QED BY <1>3, <1>4, <1>5 DEF SeatThreads

LEMMA SeatThreadEnds ==
  ASSUME Typed, ReservationInv, SeatInv, NEW t \in Caller, Finish(t), NEW R, Calm(R),
         \A u \in Caller \ {t} : Apart(u, R)
  PROVE  SeatThreads'
  BY SeatThreadMoves DEF Finish, SeatThread

LEMMA SeatThreadsStay ==
  ASSUME Typed, ReservationInv, SeatInv, UNCHANGED threads, Calm({})
  PROVE  SeatThreads'
  BY SeatThreadStays, ApartFromNone DEF threads, SeatInv, SeatThreads, Relaunches, Secluded

\* A session that keeps its lock is none a thread relies on, unless that thread
\* launches for it.
LEMMA ApartFromHolder ==
  ASSUME SeatInv, NEW s \in Sid, state[s] \in Keeps, NEW u \in Caller,
         Relaunches(u) => on[u] # s
  PROVE  Apart(u, {s})
  <1>1. SeatThread(pc[u], op[u], on[u], state, inflight, locks)
    BY DEF SeatInv, SeatThreads
  <1>2. locks[HandleOf(s)] = s
    BY DEF SeatInv, SeatsLocked
  <1>3. locks[HandleOf(s)] # Nobody
    BY <1>2, NobodyIsNoSid
  <1> QED BY <1>1, <1>3 DEF SeatThread, Apart

\* Where a seat holds its lock and is not resuming, no closed one is on its way
\* back; nor is one where a resume or a spawn may begin, or where nobody resumes.
LEMMA HolderLetsIn ==
  ASSUME Typed, SeatInv, NEW s \in Sid, state[s] \in Keeps, state[s] # "resuming",
         NEW t \in Caller, NEW o, o # "resume_closed"
  PROVE  LetIn(t, o, s)
  <1> SUFFICES ASSUME NEW u \in Caller, op[u] = "resume_closed",
                      HandleOf(on[u]) = HandleOf(s)
               PROVE  FALSE
    BY DEF LetIn
  <1>1. SeatThread(pc[u], "resume_closed", on[u], state, inflight, locks)
    BY DEF SeatInv, SeatThreads
  <1>2. locks[HandleOf(s)] = s
    BY DEF SeatInv, SeatsLocked
  <1>3. pc[u] # "closed"
    BY <1>1, <1>2, NobodyIsNoSid DEF SeatThread
  <1>4. on[u] \in Sid /\ state[on[u]] = "resuming"
    BY <1>1, <1>3 DEF SeatThread, Typed, ThreadsType
  <1>5. locks[HandleOf(on[u])] = on[u]
    BY <1>4, KeepsCases DEF SeatInv, SeatsLocked, LiveState
  <1> QED BY <1>2, <1>4, <1>5

LEMMA BegunLetsIn ==
  ASSUME SeatAssumption, SeatInv, NEW h, MayBegin(h), NEW s, HandleOf(s) = h,
         NEW t \in Caller, NEW o, o # "resume_closed"
  PROVE  LetIn(t, o, s)
  <1>1. \A u \in Caller : op[u] = "resume_closed" => pc[u] # "idle"
    BY DEF SeatInv, SeatThreads, SeatThread
  <1> QED BY <1>1 DEF SeatAssumption, MayBegin, BringingBack, AtWork, LetIn

LEMMA NoResumeLetsIn ==
  ASSUME SeatInv, ~Resumes, NEW s, NEW t \in Caller, NEW o, o # "resume_closed"
  PROVE  LetIn(t, o, s)
  BY DEF SeatInv, SeatThreads, SeatThread, LetIn

\* A step that writes neither a state, a lock nor inflight.
LEMMA SeatRegistryStays ==
  ASSUME Typed, Typed', ReservationInv, SeatInv, UNCHANGED <<state, locks, inflight>>,
         \/ Persist /\ \A s \in Sid : forUpdate'[s] => forUpdate[s] \/ Resumes
         \/ UNCHANGED <<disk, forUpdate>>,
         SeatThreads'
  PROVE  SeatInv' /\ Seats!Next
  <1>1. SeatsLocked'
    BY DEF SeatInv, SeatsLocked
  <1>2. DiskFollows'
    BY DEF SeatInv, DiskFollows, Persist
  <1>3. MarksWell'
    BY DEF SeatInv, MarksWell, Persist
  <1>4. Fades
    BY DEF Fades
  <1> QED BY <1>1, <1>2, <1>3, <1>4, SeatsFade DEF SeatInv

\* A registered session changes its state; it comes to a state that keeps the
\* lock only from another one, and gives its lock up only when it leaves them.
LEMMA SeatSettledStep ==
  ASSUME Typed, Typed', ReservationInv, SeatInv, NEW s \in Sid, state[s] \in Settled,
         NEW v \in Settled, state' = [state EXCEPT ![s] = v],
         v \in Keeps => state[s] \in Keeps /\ locks' = locks,
         locks' = locks \/ locks' = Unlocked(s),
         \/ Persist
         \/ UNCHANGED <<locks, disk>> /\ v = "resuming"
              /\ state[s] \in {"active", "parked", "dead", "resuming"},
         \A x \in Sid : forUpdate'[x] => forUpdate[x] \/ Resumes,
         SeatThreads'
  PROVE  SeatInv' /\ Seats!Next
  <1>1. state'[s] = v /\ \A x \in Sid \ {s} : state'[x] = state[x]
    BY DEF Typed, RegistryType
  <1>2. SeatsLocked'
    <2> SUFFICES ASSUME NEW x \in Sid, state'[x] \in Keeps PROVE locks'[HandleOf(x)] = x
      BY DEF SeatsLocked
    <2>1. state[x] \in Keeps
      BY <1>1
    <2>2. locks[HandleOf(x)] = x
      BY <2>1 DEF SeatInv, SeatsLocked
    <2>3. CASE locks' = locks
      BY <2>2, <2>3
    <2>4. CASE locks' # locks
      <3>1. x # s /\ locks' = Unlocked(s)
        BY <1>1, <2>4
      <3> QED BY <2>2, <3>1, SidHandle DEF Unlocked, Typed, RegistryType
    <2> QED BY <2>3, <2>4
  <1>3. DiskFollows'
    <2>1. CASE Persist
      BY <2>1 DEF Persist, DiskFollows
    <2>2. CASE UNCHANGED <<locks, disk>> /\ v = "resuming"
                 /\ state[s] \in {"active", "parked", "dead", "resuming"}
      BY <1>1, <2>2 DEF SeatInv, DiskFollows
    <2> QED BY <2>1, <2>2
  <1>4. MarksWell'
    BY DEF SeatInv, MarksWell, Persist
  <1>5. Seats!Next
    <2>1. CASE state[s] = "dead" /\ v \in LiveState
      BY <2>1, KeepsCases, SeatReturns
    <2>2. CASE ~(state[s] = "dead" /\ v \in LiveState)
      <3>1. v \in LiveState => state[s] \in LiveState
        BY <2>2, KeepsCases
      <3>2. v \notin LiveState => v \in {"done", "dead"}
        BY DEF Settled, LiveState
      <3>3. state[s] \notin LiveState => state[s] \in {"done", "dead"}
        BY DEF Settled, LiveState
      <3>4. Fades
        BY <1>1, <3>1, <3>2, <3>3, PhaseValues DEF Fades
      <3> QED BY <3>4, SeatsFade
    <2> QED BY <2>1, <2>2
  <1> QED BY <1>2, <1>3, <1>4, <1>5 DEF SeatInv

-----------------------------------------------------------------------------
(* spawn *)

LEMMA SeatSpawnAdmit ==
  ASSUME SeatAssumption, Typed, Typed', ReservationInv, SeatInv, NEW t \in Caller,
         NEW h \in Handle, SpawnAdmit(t, h)
  PROVE  SeatInv' /\ Seats!Next
  <1>1. PICK s \in Sid : /\ HandleOf(s) = h
                         /\ state[s] = "unused"
                         /\ state' = [x \in Sid |-> IF x = s THEN "starting"
                                                    ELSE IF x \in Evicted(h) THEN "done"
                                                    ELSE Reconciled[x]]
                         /\ locks' = [LocksReconciled EXCEPT ![h] = s]
                         /\ Goto(t, "launch", "spawn", s)
    BY DEF SpawnAdmit
  <1>2. \A x \in Phantom : x \in Sid /\ state[x] = "active"
    BY DEF Phantom
  <1>3. LocksReconciled \in [Handle -> Sid \cup {Nobody}]
    BY ReconciledTypes
  <1>4. \A x \in Sid : state[x] \in Keeps /\ x \notin Phantom
                         => LocksReconciled[HandleOf(x)] = x
    BY SidHandle DEF LocksReconciled, SeatInv, SeatsLocked
  <1>5. state'[s] = "starting"
    BY <1>1
  <1>6. ASSUME NEW x \in Sid \ {s}
        PROVE  state'[x] = IF x \in Phantom \cup Evicted(h) THEN "done" ELSE state[x]
    BY <1>1, <1>6 DEF Reconciled
  <1>7. SeatsLocked'
    <2> SUFFICES ASSUME NEW x \in Sid, state'[x] \in Keeps PROVE locks'[HandleOf(x)] = x
      BY DEF SeatsLocked
    <2>1. CASE x = s
      BY <1>1, <1>3, <2>1
    <2>2. CASE x # s
      <3>1. x \notin Phantom \cup Evicted(h) /\ state[x] \in Keeps
        BY <1>6, <2>2, KeepsCases
      <3>2. LocksReconciled[HandleOf(x)] = x
        BY <1>4, <3>1
      <3>3. HandleOf(x) # h
        BY <3>1, <3>2, NobodyIsNoSid DEF Evicted
      <3> QED BY <1>1, <1>3, <3>2, <3>3, SidHandle
    <2> QED BY <2>1, <2>2
  <1>8. DiskFollows' /\ MarksWell'
    <2>1. Persist /\ forUpdate' = forUpdate
      BY DEF SpawnAdmit
    <2> QED BY <2>1 DEF Persist, DiskFollows, MarksWell, SeatInv
  <1>9. SeatThreads'
    <2>1. inflight' = inflight /\ MayBegin(h)
      BY DEF SpawnAdmit, memory
    <2>2. \A x \in Evicted(h) : state[x] # "resuming"
      BY DEF SpawnAdmit, HandleFree, Evicted
    <2>3. \A x \in Sid \ {s} : state[x] \in Settled /\ state[x] \notin Keeps => state'[x] \notin Keeps
      BY <1>6, KeepsCases DEF Settled
    <2>4. \A x \in Sid \ {s} : state[x] = "resuming" => state'[x] = "resuming"
      BY <1>2, <1>6, <2>2
    <2>5. \A g \in Handle : locks[g] = Nobody => locks'[g] = Nobody \/ HandleOf(s) = g
      BY <1>1, <1>3 DEF LocksReconciled
    <2>6. Calm({s})
      BY <2>1, <2>3, <2>4, <2>5 DEF Calm
    <2>7. SeatThread("launch", "spawn", s, state', inflight', locks')
      BY DEF SeatThread
    <2>8. LetIn(t, "spawn", s) /\ \A u \in Caller : op[u] = "resume_closed" => HandleOf(on[u]) # h
      <3>1. \A u \in Caller : op[u] = "resume_closed" => pc[u] # "idle"
        BY DEF SeatInv, SeatThreads, SeatThread
      <3>2. BringingBack(h) = {}
        BY <2>1 DEF MayBegin, SeatAssumption
      <3>3. \A u \in Caller : op[u] = "resume_closed" => HandleOf(on[u]) # h
        BY <3>1, <3>2 DEF BringingBack, AtWork
      <3> QED BY <1>1, <3>3 DEF LetIn
    <2>9. ASSUME NEW u \in Caller PROVE Apart(u, {s})
      <3>1. SeatThread(pc[u], op[u], on[u], state, inflight, locks)
        BY DEF SeatInv, SeatThreads
      <3>2. pc[u] \in {"kill", "unlock"} => state[on[u]] \in Settled
        BY ThreadIsSettled DEF ReservationInv, ThreadsWell, ThreadWell
      <3> QED BY <1>1, <2>8, <3>1, <3>2 DEF SeatThread, Apart, Relaunches, Settled
    <2> QED BY <1>1, <2>6, <2>7, <2>8, <2>9, SeatThreadMoves
  <1>10. Seats!Next
    <2> DEFINE L == {x \in Phantom \cup Evicted(h) : x \in Sid /\ state[x] \in LiveState}
    <2>1. L \in SUBSET Seats!Seated
      BY SeatedAre
    <2>2. Phase[s] = "fresh"
      BY <1>1, PhaseNames, PhaseValues
    <2>3. ASSUME NEW q \in Seats!Seated, q[1] = s[1] PROVE q \in L
      <3>1. q \in Sid /\ state[q] \in LiveState /\ HandleOf(q) = h
        BY <1>1, <2>3, SeatedAre DEF HandleOf
      <3>2. q \in Phantom \/ LocksReconciled[h] = q
        BY <1>4, <3>1, KeepsCases
      <3> QED BY <3>1, <3>2, NobodyIsNoSid DEF Evicted
    <2>4. ASSUME NEW x \in Sid \ {s}, x \in Phantom \cup Evicted(h), x \notin L
          PROVE  PhaseName(state[x]) = "left"
      <3>1. x \notin Phantom
        BY <1>2, <2>4 DEF LiveState
      <3>2. LocksReconciled[h] = x /\ x # Nobody
        BY <2>4, <3>1, NobodyIsNoSid DEF Evicted
      <3>3. locks[h] = x
        BY <3>2 DEF LocksReconciled
      <3>4. state[x] \notin {"unused", "removed"}
        BY <3>2, <3>3 DEF ReservationInv, LocksWell
      <3>5. state[x] \in {"done", "dead"}
        BY <2>4, <3>4 DEF LiveState, Typed, RegistryType, State
      <3> QED BY <3>5, PhaseValues
    <2>5. Phase' = [q \in Sid |-> IF q = s THEN "seated"
                                  ELSE IF q \in L THEN "left" ELSE Phase[q]]
      <3>1. "starting" \in LiveState
        BY DEF LiveState
      <3> QED BY <1>5, <1>6, <2>4, <3>1, PhaseNames, PhaseValues
    <2>6. Seats!Take(s, L)
      BY <2>2, <2>3, <2>5 DEF Seats!Take, Seats!Sit, Seats!Free, Seats!Sid, Sid
    <2>7. s \in Seats!Sid
      BY DEF Seats!Sid, Sid
    <2> QED BY <2>1, <2>6, <2>7 DEF Seats!Next
  <1> QED BY <1>7, <1>8, <1>9, <1>10 DEF SeatInv

LEMMA SeatSpawnRefuse ==
  ASSUME Typed, Typed', ReservationInv, SeatInv, NEW t \in Caller, NEW h \in Handle,
         SpawnRefuse(t, h)
  PROVE  SeatInv' /\ Seats!Next
  <1>1. /\ state' = Reconciled
        /\ locks' = LocksReconciled
        /\ UNCHANGED <<threads, inflight, forUpdate>>
        /\ Persist
    BY DEF SpawnRefuse, memory
  <1>2. \A x \in Sid : /\ x \in Phantom => state[x] = "active" /\ state'[x] = "done"
                       /\ x \notin Phantom => state'[x] = state[x]
    BY <1>1 DEF Phantom, Reconciled
  <1>3. SeatsLocked'
    BY <1>1, <1>2, KeepsCases, SidHandle DEF SeatsLocked, SeatInv, LocksReconciled
  <1>4. DiskFollows' /\ MarksWell'
    BY <1>1 DEF Persist, DiskFollows, MarksWell, SeatInv
  <1>5. Calm({})
    <2>1. \A h1 \in Handle : locks[h1] = Nobody => locks'[h1] = Nobody
      BY <1>1 DEF LocksReconciled
    <2> QED BY <1>1, <1>2, <2>1, KeepsCases DEF Calm
  <1>6. SeatThreads'
    BY <1>1, <1>5, SeatThreadsStay
  <1>7. Fades
    BY <1>2, PhaseValues DEF Fades, LiveState
  <1> QED BY <1>3, <1>4, <1>6, <1>7, SeatsFade DEF SeatInv

LEMMA SeatLaunch ==
  ASSUME Typed, Typed', ReservationInv, SeatInv, NEW t \in Caller,
         LaunchReturns(t) \/ LaunchRaises(t)
  PROVE  SeatInv' /\ Seats!Next
  <1>1. /\ pc[t] = "launch"
        /\ UNCHANGED <<registry, inflight>>
        /\ \E w \in {"launched", "failed"} : Goto(t, w, op[t], on[t])
    BY DEF LaunchReturns, LaunchRaises
  <1>2. UNCHANGED <<state, locks, inflight, disk, forUpdate>>
    BY <1>1 DEF registry, row
  <1>3. PICK w \in {"launched", "failed"} : Goto(t, w, op[t], on[t])
    BY <1>1
  <1>4. Calm({})
    BY <1>2 DEF Calm
  <1>5. SeatThread(w, op[t], on[t], state', inflight', locks')
    BY <1>1, <1>2 DEF SeatInv, SeatThreads, SeatThread
  <1>6. op[t] \in {"resume", "resume_closed"} =>
          \A u \in Caller \ {t} : Relaunches(u) => on[u] # on[t]
    BY <1>1 DEF SeatInv, SeatThreads, Relaunches
  <1>7. LetIn(t, op[t], on[t])
    BY <1>1 DEF LetIn
  <1>8. SeatThreads'
    BY <1>3, <1>4, <1>5, <1>6, <1>7, ApartFromNone, SeatThreadMoves
  <1> QED BY <1>2, <1>8, SeatRegistryStays

LEMMA SeatSpawnRegister ==
  ASSUME Typed, Typed', ReservationInv, SeatInv, NEW t \in Caller, SpawnRegister(t)
  PROVE  SeatInv' /\ Seats!Next
  <1> DEFINE s == on[t]
  <1>1. s \in Sid /\ state[s] = "starting" /\ locks[HandleOf(s)] = s
    BY ThreadIsStarting DEF SpawnRegister
  <1>2. /\ state' = [state EXCEPT ![s] = "active"]
        /\ locks' = locks
        /\ forUpdate' = MarkCleared(s)
        /\ Persist
        /\ Goto(t, "release", "release", s) \/ Finish(t)
        /\ inflight' = inflight
    BY <1>1, SidHandle DEF SpawnRegister, memory, Typed, RegistryType
  <1>3. \A x \in Sid : /\ x = s => state[x] = "starting" /\ state'[x] = "active"
                       /\ x # s => state'[x] = state[x]
    BY <1>1, <1>2 DEF Typed, RegistryType
  <1>4. SeatsLocked'
    BY <1>1, <1>2, <1>3 DEF SeatInv, SeatsLocked
  <1>5. DiskFollows'
    BY <1>2 DEF Persist, DiskFollows
  <1>6. MarksWell'
    BY <1>2 DEF Persist, MarksWell, MarkCleared, SeatInv, Typed, RegistryType
  <1>7. Calm({})
    BY <1>2, <1>3 DEF Calm, Settled
  <1>8. SeatThreads'
    <2>1. SeatThread("release", "release", s, state', inflight', locks')
      BY DEF SeatThread
    <2>2. LetIn(t, "release", s)
      BY DEF LetIn, SpawnRegister
    <2> QED BY <1>2, <1>7, <2>1, <2>2, ApartFromNone, SeatThreadMoves, SeatThreadEnds
  <1>9. Fades
    BY <1>3, PhaseValues DEF Fades, LiveState
  <1> QED BY <1>4, <1>5, <1>6, <1>8, <1>9, SeatsFade DEF SeatInv

LEMMA SeatSpawnRollback ==
  ASSUME Typed, Typed', ReservationInv, SeatInv, NEW t \in Caller, SpawnRollback(t)
  PROVE  SeatInv' /\ Seats!Next
  <1> DEFINE s == on[t]
  <1>1. s \in Sid /\ state[s] = "starting" /\ locks[HandleOf(s)] = s
    BY ThreadIsStarting DEF SpawnRollback
  <1>2. /\ state' = [state EXCEPT ![s] = "removed"]
        /\ locks' = Unlocked(s)
        /\ forUpdate' = MarkCleared(s)
        /\ Persist
        /\ Finish(t)
        /\ inflight' = inflight
    BY DEF SpawnRollback, memory
  <1>3. \A x \in Sid : /\ x = s => state'[x] = "removed"
                       /\ x # s => state'[x] = state[x]
    BY <1>1, <1>2 DEF Typed, RegistryType
  <1>4. SeatsLocked'
    <2> SUFFICES ASSUME NEW x \in Sid, state'[x] \in Keeps PROVE locks'[HandleOf(x)] = x
      BY DEF SeatsLocked
    <2>1. x # s /\ locks[HandleOf(x)] = x
      BY <1>3, KeepsCases DEF SeatInv, SeatsLocked
    <2> QED BY <1>2, <2>1, SidHandle DEF Unlocked, Typed, RegistryType
  <1>5. DiskFollows'
    BY <1>2 DEF Persist, DiskFollows
  <1>6. MarksWell'
    BY <1>2 DEF Persist, MarksWell, MarkCleared, SeatInv, Typed, RegistryType
  <1>7. Calm({})
    BY <1>1, <1>2, <1>3, UnlockedStays DEF Calm, Settled
  <1>8. SeatThreads'
    BY <1>2, <1>7, ApartFromNone, SeatThreadEnds
  <1>9. Seats!Withdraw(s)
    <2>1. Phase[s] = "seated"
      BY <1>1, PhaseNames, PhaseValues DEF LiveState
    <2>2. Phase' = [Phase EXCEPT ![s] = "gone"]
      BY <1>3, PhaseNames, PhaseValues
    <2> QED BY <2>1, <2>2 DEF Seats!Withdraw
  <1>10. s \in Seats!Sid
    BY <1>1 DEF Seats!Sid, Sid
  <1> QED BY <1>4, <1>5, <1>6, <1>8, <1>9, <1>10 DEF SeatInv, Seats!Next

-----------------------------------------------------------------------------
(* release, reap and park *)

LEMMA SeatRelease ==
  ASSUME Typed, Typed', ReservationInv, SeatInv, NEW t \in Caller, NEW s \in Sid,
         Release(t, s), UNCHANGED memory
  PROVE  SeatInv' /\ Seats!Next
  <1>1. inflight' = inflight /\ forUpdate' = forUpdate
    BY DEF Release, memory, registry, row
  <1>2. CASE Finish(t) /\ UNCHANGED <<state, locks>> /\ (Persist \/ UNCHANGED disk)
    <2>1. Calm({})
      BY <1>1, <1>2 DEF Calm
    <2>2. SeatThreads'
      BY <1>2, <2>1, ApartFromNone, SeatThreadEnds
    <2> QED BY <1>1, <1>2, <2>2, SeatRegistryStays
  <1>3. CASE /\ state[s] = "active"
             /\ state' = [state EXCEPT ![s] = "done"]
             /\ Goto(t, "kill", "release", s)
             /\ locks' = locks
             /\ Persist
    <2>1. Calm({})
      BY <1>1, <1>3, KeepsCases DEF Calm, Typed, RegistryType
    <2>2. SeatThread("kill", "release", s, state', inflight', locks')
      BY <1>3, KeepsCases DEF SeatThread, Typed, RegistryType
    <2>3. LetIn(t, "release", s)
      BY <1>3, KeepsCases, HolderLetsIn DEF LiveState
    <2>5. SeatThreads'
      BY <1>3, <2>1, <2>2, <2>3, ApartFromNone, SeatThreadMoves
    <2>4. state[s] \in Settled /\ "done" \in Settled /\ "done" \notin Keeps
      BY <1>3, KeepsCases DEF Settled
    <2> QED BY <1>1, <1>3, <2>4, <2>5, SeatSettledStep
  <1> QED BY <1>2, <1>3 DEF Release, registry, row

LEMMA SeatReap ==
  ASSUME SeatAssumption, Typed, Typed', ReservationInv, SeatInv, NEW t \in Caller,
         NEW h \in Handle, Reap(t, h)
  PROVE  SeatInv' /\ Seats!Next
  <1> DEFINE s == locks[h]
  <1>1. s \in Sid /\ HandleOf(s) = h /\ state[s] \notin {"unused", "removed"}
    BY DEF Reap, Typed, RegistryType, ReservationInv, LocksWell
  <1>2. ~Resumes /\ forUpdate' = forUpdate /\ inflight' = inflight /\ Persist
    BY DEF Reap, Calls, SeatAssumption, memory
  <1>3. CASE UNCHANGED <<state, locks, threads>>
    <2>1. Calm({})
      BY <1>3 DEF Calm, memory, Reap
    <2>2. SeatThreads'
      BY <1>3, <2>1, SeatThreadsStay
    <2> QED BY <1>2, <1>3, <2>2, SeatRegistryStays
  <1>4. CASE /\ state[s] # "starting"
             /\ state' = [state EXCEPT ![s] = "done"]
             /\ locks' = [locks EXCEPT ![h] = Nobody]
             /\ Goto(t, "kill", "reap", s)
    <2>1. state[s] \in Settled /\ "done" \in Settled /\ "done" \notin Keeps
      BY <1>1, <1>4, KeepsCases DEF Settled, Typed, RegistryType, State
    <2>2. locks' = Unlocked(s)
      BY <1>1, <1>4 DEF Unlocked
    <2>3. Calm({})
      BY <1>1, <1>2, <1>4, <2>2, KeepsCases, UnlockedStays DEF Calm, Typed, RegistryType
    <2>4. SeatThread("kill", "reap", s, state', inflight', locks')
      BY <1>1, <1>4, KeepsCases DEF SeatThread, Typed, RegistryType
    <2>5. SeatThreads'
      BY <1>2, <1>4, <2>3, <2>4, ApartFromNone, NoResumeLetsIn, SeatThreadMoves
    <2> QED BY <1>1, <1>2, <1>4, <2>1, <2>2, <2>5, SeatSettledStep
  <1> QED BY <1>3, <1>4 DEF Reap

LEMMA SeatPark ==
  ASSUME Typed, Typed', ReservationInv, SeatInv, NEW t \in Caller, NEW s \in Sid, Park(t, s)
  PROVE  SeatInv' /\ Seats!Next
  <1>1. /\ state[s] = "active"
        /\ state' = [state EXCEPT ![s] = "parked"]
        /\ UNCHANGED <<locks, inflight, threads>>
        /\ Persist
    BY DEF Park, memory
  <1>2. \A x \in Sid : forUpdate'[x] => forUpdate[x] \/ Resumes
    BY DEF Park, Resumes
  <1>3. Calm({})
    BY <1>1, KeepsCases DEF Calm, LiveState, Typed, RegistryType
  <1>4. SeatThreads'
    BY <1>1, <1>3, SeatThreadsStay
  <1>5. state[s] \in Settled /\ "parked" \in Settled /\ state[s] \in Keeps
    BY <1>1, KeepsCases DEF Settled, LiveState
  <1> QED BY <1>1, <1>2, <1>4, <1>5, SeatSettledStep

LEMMA SeatKill ==
  ASSUME Typed, Typed', ReservationInv, SeatInv, NEW t \in Caller, KillSession(t)
  PROVE  SeatInv' /\ Seats!Next
  <1> DEFINE s == on[t]
  <1>1. /\ pc[t] = "kill"
        /\ UNCHANGED <<state, locks, disk, forUpdate, inflight>>
        /\ Goto(t, "unlock", "release", s) \/ Finish(t)
    BY DEF KillSession, registry, row, memory
  <1>2. Calm({})
    BY <1>1 DEF Calm
  <1>3. SeatThread("unlock", "release", s, state', inflight', locks')
    BY <1>1 DEF SeatInv, SeatThreads, SeatThread
  <1>4. LetIn(t, "release", s)
    BY <1>1 DEF LetIn
  <1>5. SeatThreads'
    BY <1>1, <1>2, <1>3, <1>4, ApartFromNone, SeatThreadMoves, SeatThreadEnds
  <1> QED BY <1>1, <1>5, SeatRegistryStays

LEMMA SeatUnlock ==
  ASSUME Typed, Typed', ReservationInv, SeatInv, NEW t \in Caller, ReleaseUnlock(t)
  PROVE  SeatInv' /\ Seats!Next
  <1> DEFINE s == on[t]
  <1>1. /\ pc[t] = "unlock"
        /\ UNCHANGED <<state, forUpdate, inflight>>
        /\ locks' = Unlocked(s)
        /\ Finish(t)
        /\ Persist
    BY DEF ReleaseUnlock, row, memory
  <1>2. s \in Sid /\ state[s] \in Settled /\ state[s] \notin Keeps
    BY <1>1, ThreadIsSettled DEF SeatInv, SeatThreads, SeatThread, ReservationInv,
                                 ThreadsWell, ThreadWell
  <1>3. state' = [state EXCEPT ![s] = state[s]]
    BY <1>1, <1>2 DEF Typed, RegistryType
  <1>4. Calm({})
    BY <1>1, <1>2, UnlockedStays DEF Calm
  <1>5. SeatThreads'
    BY <1>1, <1>4, ApartFromNone, SeatThreadEnds
  <1> QED BY <1>1, <1>2, <1>3, <1>5, SeatSettledStep

-----------------------------------------------------------------------------
(* resume *)

\* Only where somebody resumes does a thread set out to, and on the handle of a
\* closed session only where nobody else is at work.
LEMMA SeatResumeCall ==
  ASSUME SeatAssumption, Typed, Typed', ReservationInv, SeatInv, NEW t \in Caller,
         \/ \E h \in Handle : ResumeCall(t, h)
         \/ \E s \in Sid : UpdaterResume(t, s)
  PROVE  SeatInv' /\ Seats!Next
  <1>1. /\ UNCHANGED <<state, locks, inflight>>
        /\ \/ Persist /\ \A s \in Sid : forUpdate'[s] => forUpdate[s] \/ Resumes
           \/ UNCHANGED <<disk, forUpdate>>
        /\ Resumes /\ pc[t] = "idle"
        /\ \E h \in Handle : BeginResume(t, h)
    <2>1. CASE \E h \in Handle : ResumeCall(t, h)
      <3>1. PICK h \in Handle : ResumeCall(t, h)
        BY <2>1
      <3>2. Resumes /\ pc[t] = "idle" /\ BeginResume(t, h)
        BY <3>1 DEF ResumeCall, Calls, Resumes, SeatAssumption
      <3> QED BY <3>1, <3>2 DEF ResumeCall, registry, row, memory
    <2>2. CASE \E s \in Sid : UpdaterResume(t, s)
      <3>1. PICK s \in Sid : UpdaterResume(t, s)
        BY <2>2
      <3>2. Resumes
        BY <3>1 DEF UpdaterResume, SeatInv, MarksWell
      <3>3. UNCHANGED <<state, locks, inflight>> /\ Persist
        BY <3>1 DEF UpdaterResume, memory
      <3>4. pc[t] = "idle" /\ BeginResume(t, HandleOf(s)) /\ HandleOf(s) \in Handle
        BY <3>1, SidHandle DEF UpdaterResume
      <3> QED BY <3>2, <3>3, <3>4
    <2> QED BY <2>1, <2>2
  <1>2. Calm({})
    BY <1>1 DEF Calm
  <1>3. PICK h \in Handle : BeginResume(t, h)
    BY <1>1
  <1>4. CASE locks[h] # Nobody
    <2>1. locks[h] \in Sid /\ HandleOf(locks[h]) = h
      BY <1>4 DEF Typed, RegistryType, ReservationInv, LocksWell
    <2>2. Goto(t, "resume", "resume", locks[h]) /\ MayBegin(h)
      BY <1>3, <1>4 DEF BeginResume
    <2>3. SeatThread("resume", "resume", locks[h], state', inflight', locks')
      BY <1>1 DEF SeatThread
    <2>4. LetIn(t, "resume", locks[h])
      BY <2>1, <2>2, BegunLetsIn
    <2>5. SeatThreads'
      BY <1>2, <2>2, <2>3, <2>4, ApartFromNone, SeatThreadMoves
    <2> QED BY <1>1, <2>5, SeatRegistryStays
  <1>5. CASE locks[h] = Nobody
    <2>1. AtWork(h) = {} /\ \E s \in Sid : HandleOf(s) = h /\ Goto(t, "closed", "resume_closed", s)
      BY <1>3, <1>5 DEF BeginResume, BeginClosed, SeatAssumption
    <2>2. PICK s \in Sid : HandleOf(s) = h /\ Goto(t, "closed", "resume_closed", s)
      BY <2>1
    <2>3. SeatThread("closed", "resume_closed", s, state', inflight', locks')
      BY <1>1, <1>5, <2>2 DEF SeatThread
    <2>4. \A u \in Caller : pc[u] # "idle" => HandleOf(on[u]) # h
      BY <2>1 DEF AtWork
    <2>5. \A u \in Caller : op[u] = "resume_closed" => pc[u] # "idle"
      BY DEF SeatInv, SeatThreads, SeatThread
    <2>6. LetIn(t, "resume_closed", s)
      BY <2>2, <2>4, <2>5 DEF LetIn
    <2>7. SeatThreads'
      BY <1>2, <2>2, <2>3, <2>6, ApartFromNone, SeatThreadMoves
    <2> QED BY <1>1, <2>7, SeatRegistryStays
  <1> QED BY <1>4, <1>5

\* The session a thread set out to resume still keeps its lock when the thread
\* finds it resumable, and no other thread is launching for it.
LEMMA Resumable ==
  ASSUME Typed, ReservationInv, SeatInv, NEW t \in Caller, pc[t] = "resume",
         ResumeApplies(on[t])
  PROVE  /\ Resumes
         /\ on[t] \in Sid
         /\ state[on[t]] \in {"active", "parked", "dead", "resuming"}
         /\ state[on[t]] \in Settled
         /\ state[on[t]] \in Keeps
         /\ state[on[t]] = "resuming" => on[t] \notin inflight
         /\ \A u \in Caller : Relaunches(u) => on[u] # on[t]
  <1>1. Resumes
    BY DEF SeatInv, SeatThreads, SeatThread
  <1>2. on[t] \in Sid
    BY DEF Typed, ThreadsType
  <1>3. /\ state[on[t]] \in {"active", "parked", "dead", "resuming"}
        /\ state[on[t]] = "resuming" => on[t] \notin inflight
    BY DEF ResumeApplies
  <1>4. \A u \in Caller : Relaunches(u) => on[u] # on[t]
    <2>1. \A u \in Caller : op[u] = "resume_closed" /\ pc[u] # "closed" => u # t
      BY DEF SeatInv, SeatThreads, SeatThread
    <2> QED BY <1>3, <2>1 DEF SeatInv, SeatThreads, SeatThread, Relaunches, Secluded
  <1>5. state[on[t]] \in Settled
    BY <1>3 DEF Settled
  <1>6. state[on[t]] \in Keeps
    BY <1>1, <1>3, KeepsCases DEF LiveState
  <1> QED BY <1>1, <1>2, <1>3, <1>4, <1>5, <1>6

LEMMA SeatResume ==
  ASSUME Typed, Typed', ReservationInv, SeatInv, NEW t \in Caller,
         ResumeNoOp(t) \/ ResumeRestore(t) \/ ResumeFork(t) \/ ResumeClosedRefuse(t)
  PROVE  SeatInv' /\ Seats!Next
  <1> DEFINE s == on[t]
  <1>1. CASE ResumeNoOp(t) \/ ResumeClosedRefuse(t)
    <2>1. UNCHANGED <<state, locks, inflight, disk, forUpdate>> /\ Finish(t)
      BY <1>1 DEF ResumeNoOp, ResumeClosedRefuse, registry, row, memory
    <2>2. Calm({})
      BY <2>1 DEF Calm
    <2>3. SeatThreads'
      BY <2>1, <2>2, ApartFromNone, SeatThreadEnds
    <2> QED BY <2>1, <2>3, SeatRegistryStays
  <1>2. ASSUME ResumeRestore(t) \/ ResumeFork(t)
        PROVE  /\ s \in Sid
               /\ forUpdate' = MarkCleared(s)
               /\ \A x \in Sid : forUpdate'[x] => forUpdate[x] \/ Resumes
               /\ \A u \in Caller : Apart(u, {s})
    BY <1>2, Resumable, ApartFromHolder DEF ResumeRestore, ResumeFork
  <1>3. CASE ResumeRestore(t)
    <2>1. /\ pc[t] = "resume"
          /\ ResumeApplies(s)
          /\ state' = [state EXCEPT ![s] = "active"]
          /\ UNCHANGED <<locks, inflight>>
          /\ Finish(t)
          /\ Persist
      BY <1>3 DEF ResumeRestore, memory
    <2>2. \A x \in Sid : x # s => state'[x] = state[x]
      BY <2>1 DEF Typed, RegistryType
    <2>3. Calm({s})
      BY <1>2, <2>1, <2>2 DEF Calm
    <2>4. SeatThreads'
      BY <1>2, <1>3, <2>1, <2>3, SeatThreadEnds
    <2>5. "active" \in Settled
      BY DEF Settled
    <2> QED BY <1>2, <1>3, <2>1, <2>4, <2>5, Resumable, SeatSettledStep
  <1>4. CASE ResumeFork(t)
    <2>1. /\ pc[t] = "resume"
          /\ ResumeApplies(s)
          /\ state' = [state EXCEPT ![s] = "resuming"]
          /\ inflight' = inflight \cup {s}
          /\ UNCHANGED <<locks, disk>>
          /\ Goto(t, "launch", "resume", s)
      BY <1>4 DEF ResumeFork
    <2>2. state'[s] = "resuming" /\ \A x \in Sid : x # s => state'[x] = state[x]
      BY <1>2, <1>4, <2>1 DEF Typed, RegistryType
    <2>3. Calm({s})
      BY <1>2, <2>1, <2>2 DEF Calm
    <2>4. SeatThread("launch", "resume", s, state', inflight', locks')
      BY <2>1, <2>2, Resumable DEF SeatThread
    <2>7. LetIn(t, "resume", s)
      BY <2>1 DEF LetIn
    <2>5. SeatThreads'
      BY <1>2, <1>4, <2>1, <2>3, <2>4, <2>7, Resumable, SeatThreadMoves
    <2>6. "resuming" \in Settled
      BY DEF Settled
    <2> QED BY <1>2, <1>4, <2>1, <2>5, <2>6, Resumable, SeatSettledStep
  <1> QED BY <1>1, <1>3, <1>4

\* A closed session takes its seat again: its handle has had no lock since the
\* thread set out, and nobody else is at work there.
LEMMA SeatResumeClosed ==
  ASSUME Typed, Typed', ReservationInv, SeatInv, NEW t \in Caller, ResumeClosed(t)
  PROVE  SeatInv' /\ Seats!Next
  <1> DEFINE h == HandleOf(on[t])
  <1>1. PICK s \in DoneRows(h) : /\ state' = [state EXCEPT ![s] = "resuming"]
                                 /\ locks' = [locks EXCEPT ![h] = s]
                                 /\ Goto(t, "launch", "resume_closed", s)
    BY DEF ResumeClosed
  <1>2. s \in Sid /\ HandleOf(s) = h /\ state[s] = "done"
    BY <1>1 DEF DoneRows
  <1>3. pc[t] = "closed" /\ forUpdate' = forUpdate /\ inflight' = inflight /\ Persist
    BY DEF ResumeClosed, memory
  <1>4. op[t] = "resume_closed" /\ locks[h] = Nobody /\ Resumes
    BY <1>3 DEF SeatInv, SeatThreads, SeatThread
  <1>5. state'[s] = "resuming" /\ \A x \in Sid \ {s} : state'[x] = state[x]
    BY <1>1, <1>2 DEF Typed, RegistryType
  <1>6. locks'[h] = s /\ \A g \in Handle \ {h} : locks'[g] = locks[g]
    BY <1>1, <1>2, SidHandle DEF Typed, RegistryType
  <1>7. SeatsLocked'
    <2> SUFFICES ASSUME NEW x \in Sid, state'[x] \in Keeps PROVE locks'[HandleOf(x)] = x
      BY DEF SeatsLocked
    <2>1. CASE x = s
      BY <1>2, <1>6, <2>1
    <2>2. CASE x # s
      <3>1. locks[HandleOf(x)] = x
        BY <1>5, <2>2 DEF SeatInv, SeatsLocked
      <3> QED BY <1>4, <1>6, <3>1, SidHandle, NobodyIsNoSid
    <2> QED BY <2>1, <2>2
  <1>8. DiskFollows' /\ MarksWell'
    BY <1>3 DEF Persist, DiskFollows, MarksWell, SeatInv
  <1>9. SeatThreads'
    <2>1. \A u \in Caller \ {t} : pc[u] # "idle" => HandleOf(on[u]) # h
      BY <1>4 DEF SeatInv, SeatThreads, Secluded
    <2>2. \A u \in Caller : Relaunches(u) => pc[u] # "idle"
      BY DEF SeatInv, SeatThreads, SeatThread, Relaunches, ReservationInv, ThreadsWell, ThreadWell
    <2>3. \A u \in Caller \ {t} : Apart(u, {s})
      BY <1>2, <2>1, <2>2 DEF Apart
    <2>4. \A u \in Caller \ {t} : Relaunches(u) => on[u] # s
      BY <1>2, <2>1, <2>2
    <2>5. Calm({s})
      BY <1>2, <1>3, <1>5, <1>6 DEF Calm
    <2>6. SeatThread("launch", "resume_closed", s, state', inflight', locks')
      BY <1>4, <1>5 DEF SeatThread
    <2>7. LetIn(t, "resume_closed", s)
      BY <1>2, <1>3, <1>4 DEF LetIn
    <2> QED BY <1>1, <2>3, <2>4, <2>5, <2>6, <2>7, SeatThreadMoves
  <1>10. Seats!Next
    BY <1>1, <1>2, <1>4, SeatReturns DEF LiveState
  <1> QED BY <1>7, <1>8, <1>9, <1>10 DEF SeatInv

\* A thread whose launch for a resume has ended finds its session as it left it.
LEMMA SeatResumeEnds ==
  ASSUME Typed, Typed', ReservationInv, SeatInv, NEW t \in Caller,
         ResumeRegister(t) \/ ResumeFails(t) \/ ResumeClosedFails(t)
  PROVE  SeatInv' /\ Seats!Next
  <1> DEFINE s == on[t]
  <1>1. op[t] \in {"resume", "resume_closed"} /\ pc[t] \in {"launched", "failed"}
    BY DEF ResumeRegister, ResumeFails, ResumeClosedFails
  <1>2. s \in Sid /\ state[s] = "resuming" /\ state[s] \in Settled /\ state[s] \in Keeps
    <2>1. state[s] = "resuming"
      BY <1>1 DEF SeatInv, SeatThreads, SeatThread
    <2> QED BY <1>1, <2>1, KeepsCases DEF Typed, ThreadsType, Settled, LiveState
  <1>3. \A u \in Caller \ {t} : Relaunches(u) => on[u] \notin {s}
    BY <1>1 DEF SeatInv, SeatThreads, Relaunches
  <1>4. \A u \in Caller \ {t} : Apart(u, {s})
    BY <1>2, <1>3, ApartFromHolder
  <1>5. \A o : o # "resume_closed" => LetIn(t, o, s)
    BY <1>1 DEF LetIn
  <1>6. inflight' \in {inflight, inflight \ {s}} /\ forUpdate' = forUpdate /\ Persist
    BY <1>1 DEF ResumeRegister, ResumeFails, ResumeClosedFails, memory
  <1>7. ASSUME NEW v \in Settled, state' = [state EXCEPT ![s] = v],
               locks' = locks \/ locks' = Unlocked(s)
        PROVE  Calm({s})
    BY <1>2, <1>6, <1>7, UnlockedStays DEF Calm, Typed, RegistryType
  <1>8. CASE ResumeRegister(t)
    <2>1. /\ state' = [state EXCEPT ![s] = "active"]
          /\ locks' = locks
          /\ Goto(t, "release", "release", s) \/ Finish(t)
      BY <1>8 DEF ResumeRegister
    <2>2. "active" \in Settled
      BY DEF Settled
    <2>3. Calm({s})
      BY <1>7, <2>1, <2>2
    <2>4. SeatThread("release", "release", s, state', inflight', locks')
      BY DEF SeatThread
    <2>5. SeatThreads'
      BY <1>4, <1>5, <2>1, <2>3, <2>4, SeatThreadMoves, SeatThreadEnds
    <2> QED BY <1>2, <1>6, <2>1, <2>2, <2>5, SeatSettledStep
  <1>9. CASE ResumeFails(t)
    <2>1. CASE /\ state' = [state EXCEPT ![s] = "done"]
               /\ locks' = Unlocked(s)
               /\ Goto(t, "kill", "reap", s)
      <3>1. "done" \in Settled /\ "done" \notin Keeps
        BY KeepsCases DEF Settled
      <3>2. Calm({s})
        BY <1>7, <2>1, <3>1
      <3>3. SeatThread("kill", "reap", s, state', inflight', locks')
        BY <1>2, <2>1, <3>1 DEF SeatThread, Typed, RegistryType
      <3>4. SeatThreads'
        BY <1>4, <1>5, <2>1, <3>2, <3>3, SeatThreadMoves
      <3> QED BY <1>2, <1>6, <2>1, <3>1, <3>4, SeatSettledStep
    <2>2. CASE state' = [state EXCEPT ![s] = "parked"] /\ Finish(t) /\ locks' = locks
      <3>1. "parked" \in Settled
        BY DEF Settled
      <3>2. Calm({s})
        BY <1>7, <2>2, <3>1
      <3>3. SeatThreads'
        BY <1>4, <2>2, <3>2, SeatThreadEnds
      <3> QED BY <1>2, <1>6, <2>2, <3>1, <3>3, SeatSettledStep
    <2> QED BY <1>9, <2>1, <2>2 DEF ResumeFails
  <1>10. CASE ResumeClosedFails(t)
    <2>1. state' = [state EXCEPT ![s] = "done"] /\ locks' = Unlocked(s) /\ Finish(t)
      BY <1>10 DEF ResumeClosedFails
    <2>2. "done" \in Settled /\ "done" \notin Keeps
      BY KeepsCases DEF Settled
    <2>3. Calm({s})
      BY <1>7, <2>1, <2>2
    <2>4. SeatThreads'
      BY <1>4, <2>1, <2>3, SeatThreadEnds
    <2> QED BY <1>2, <1>6, <2>1, <2>2, <2>4, SeatSettledStep
  <1> QED BY <1>8, <1>9, <1>10

-----------------------------------------------------------------------------
(* Steps without the mutex, and a restart *)

LEMMA SeatLook ==
  ASSUME SeatAssumption, Typed, Typed', ReservationInv, SeatInv, NEW t \in Caller,
         NEW s \in Sid, SweepLook(t, s)
  PROVE  SeatInv' /\ Seats!Next
  <1>1. /\ UNCHANGED <<state, locks, inflight, disk, forUpdate>>
        /\ Goto(t, "sweep", "none", s)
        /\ ~Resumes
    BY DEF SweepLook, Calls, registry, row, memory, SeatAssumption
  <1>2. Calm({})
    BY <1>1 DEF Calm
  <1>3. SeatThread("sweep", "none", s, state', inflight', locks')
    BY <1>1 DEF SeatThread
  <1>4. SeatThreads'
    BY <1>1, <1>2, <1>3, ApartFromNone, NoResumeLetsIn, SeatThreadMoves
  <1> QED BY <1>1, <1>4, SeatRegistryStays

LEMMA SeatMark ==
  ASSUME Typed, Typed', ReservationInv, SeatInv, NEW t \in Caller,
         SweepMark(t) \/ SweepPass(t)
  PROVE  SeatInv' /\ Seats!Next
  <1> DEFINE s == on[t]
  <1>1. pc[t] = "sweep"
    BY DEF SweepMark, SweepPass
  <1>2. s \in Sid /\ state[s] \in Settled /\ ~Resumes
    <2>1. op[t] # "spawn"
      BY <1>1 DEF ReservationInv, ThreadsWell, ThreadWell
    <2> QED BY <1>1, <2>1, ThreadIsSettled DEF SeatInv, SeatThreads, SeatThread
  <1>3. Finish(t) /\ forUpdate' = forUpdate
    BY DEF SweepMark, SweepPass, registry, row
  <1>4. CASE SweepPass(t)
    <2>1. UNCHANGED <<state, locks, inflight, disk, forUpdate>>
      BY <1>4 DEF SweepPass, registry, row, memory
    <2>2. Calm({})
      BY <2>1 DEF Calm
    <2>3. SeatThreads'
      BY <1>3, <2>2, ApartFromNone, SeatThreadEnds
    <2> QED BY <2>1, <2>3, SeatRegistryStays
  <1>5. CASE SweepMark(t)
    <2>1. state' = [state EXCEPT ![s] = "dead"] /\ locks' = locks /\ Persist
      BY <1>5 DEF SweepMark
    <2>2. "dead" \in Settled /\ "dead" \notin Keeps
      BY <1>2, KeepsCases DEF Settled
    <2>3. Calm({})
      BY <1>2, <2>1, <2>2 DEF Calm, Typed, RegistryType
    <2>4. SeatThreads'
      BY <1>3, <2>3, ApartFromNone, SeatThreadEnds
    <2> QED BY <1>2, <1>3, <2>1, <2>2, <2>4, SeatSettledStep
  <1> QED BY <1>4, <1>5

\* A restart loads the seats as they were: it only takes from them those whose
\* shells are gone.
LEMMA SeatRestart ==
  ASSUME Typed, Typed', ReservationInv, SeatInv, Restart
  PROVE  SeatInv' /\ Seats!Next
  <1>1. PICK S : state' = [s \in Sid |-> IF s \in Interrupted(S) THEN "dead"
                                         ELSE disk.state[s]]
    BY DEF Restart
  <1>2. locks' = locks /\ forUpdate' = disk.forUpdate /\ Persist
    BY DEF Restart, SeatInv, DiskFollows
  <1>3. \A s \in Sid : \/ state'[s] = disk.state[s]
                       \/ state'[s] = "dead" /\ disk.state[s] \in LiveState
    BY <1>1 DEF Interrupted
  <1>4. \A s \in Sid : disk.state[s] \in LiveState => state[s] \in LiveState
    BY DEF SeatInv, DiskFollows, LiveState
  <1>5. SeatsLocked'
    <2> SUFFICES ASSUME NEW s \in Sid, state'[s] \in Keeps PROVE locks'[HandleOf(s)] = s
      BY DEF SeatsLocked
    <2>1. state[s] \in Keeps
      <3>1. CASE state[s] \in LiveState
        BY <3>1, KeepsCases
      <3>2. CASE state[s] \notin LiveState
        <4>1. disk.state[s] = state[s]
          BY <3>2 DEF SeatInv, DiskFollows, LiveState
        <4> QED BY <1>3, <1>4, <3>2, <4>1
      <3> QED BY <3>1, <3>2
    <2> QED BY <1>2, <2>1 DEF SeatInv, SeatsLocked
  <1>6. DiskFollows'
    BY <1>2 DEF Persist, DiskFollows
  <1>7. MarksWell'
    BY <1>2 DEF Persist, MarksWell, SeatInv
  <1>8. SeatThreads'
    BY DEF Restart, SeatThreads, SeatThread, Relaunches, Secluded
  <1>9. Fades
    <2> SUFFICES ASSUME NEW s \in Sid
                 PROVE  \/ PhaseName(state'[s]) = PhaseName(state[s])
                        \/ state[s] \in LiveState /\ PhaseName(state'[s]) = "left"
      BY DEF Fades
    <2>1. CASE state'[s] = disk.state[s]
      BY <2>1, PhaseValues DEF SeatInv, DiskFollows, LiveState
    <2>2. CASE state'[s] = "dead" /\ disk.state[s] \in LiveState
      BY <1>4, <2>2, PhaseValues
    <2> QED BY <1>3, <2>1, <2>2
  <1> QED BY <1>5, <1>6, <1>7, <1>8, <1>9, SeatsFade DEF SeatInv

-----------------------------------------------------------------------------

LEMMA SeatNext ==
  ASSUME SeatAssumption, Typed, ReservationInv, SeatInv, [Next]_vars
  PROVE  SeatInv' /\ [Seats!Next]_Phase
  <1>t. Typed'
    BY TypeNext
  <1>n. \A t \in Caller : /\ ~ReconcileMark(t) /\ ~ReconcileCheck(t)
                          /\ ~ReconcileDelete(t) /\ ~ReconcileSave(t)
                          /\ \A s \in Sid : ~ReconcileLook(t, s)
    BY NobodyReconciles DEF SeatAssumption
  <1>1. ASSUME NEW t \in Caller, Call(t) PROVE SeatInv' /\ Seats!Next
    <2>1. ASSUME NEW h \in Handle,
                 SpawnAdmit(t, h) \/ SpawnRefuse(t, h) \/ Reap(t, h) \/ ResumeCall(t, h)
          PROVE  SeatInv' /\ Seats!Next
      BY <1>t, <2>1, SeatSpawnAdmit, SeatSpawnRefuse, SeatReap, SeatResumeCall
    <2>2. ASSUME NEW s \in Sid,
                 ReleaseCall(t, s) \/ Park(t, s) \/ UpdaterResume(t, s) \/ SweepLook(t, s)
          PROVE  SeatInv' /\ Seats!Next
      <3>1. CASE ReleaseCall(t, s)
        BY <1>t, <3>1, SeatRelease DEF ReleaseCall
      <3> QED BY <1>t, <2>2, <3>1, SeatPark, SeatResumeCall, SeatLook
    <2> QED BY <1>1, <1>n, <2>1, <2>2 DEF Call
  <1>2. ASSUME NEW t \in Caller, Continue(t) PROVE SeatInv' /\ Seats!Next
    <2>1. CASE ReleaseAfterLaunch(t)
      <3>1. on[t] \in Sid
        BY <2>1 DEF ReleaseAfterLaunch, Typed, ThreadsType
      <3> QED BY <1>t, <2>1, <3>1, SeatRelease DEF ReleaseAfterLaunch
    <2> QED BY <1>t, <1>n, <1>2, <2>1, SeatLaunch, SeatSpawnRegister, SeatSpawnRollback, SeatKill,
               SeatUnlock, SeatResume, SeatResumeClosed, SeatResumeEnds, SeatMark DEF Continue
  <1>3. CASE UNCHANGED <<registry, threads, inflight>>
    <2>1. UNCHANGED <<state, locks, inflight, disk, forUpdate>>
      BY <1>3 DEF registry, row
    <2>2. Calm({})
      BY <2>1 DEF Calm
    <2>3. SeatThreads'
      BY <1>3, <2>2, SeatThreadsStay
    <2> QED BY <1>t, <2>1, <2>3, SeatRegistryStays
  <1>4. (\E p \in Shell : ShellExits(p)) \/ UpdaterEnds \/ UNCHANGED vars
          => UNCHANGED <<registry, threads, inflight>>
    BY DEF ShellExits, UpdaterEnds, vars, registry, row, memory, threads
  <1> QED BY <1>t, <1>1, <1>2, <1>3, <1>4, SeatRestart DEF Next

LEMMA SeatsInit == Init => Seats!Init
  <1> SUFFICES ASSUME Init PROVE Seats!Init
    OBVIOUS
  <1>1. Phase = [s \in Sid |-> "fresh"]
    BY PhaseNames, PhaseValues DEF Init
  <1> QED BY <1>1 DEF Seats!Init, Seats!Sid, Sid

\* The registry implements SeatPerHandle: a session takes a handle only when no
\* other session sits there, one whose launch failed never returns, and a
\* restart gives no handle to two (spawn, _admit_handle_locked,
\* _launch_reserved, resume, release, reap, load_state).
THEOREM SeatsAreImplemented ==
  ASSUME SeatAssumption
  PROVE  Spec => SeatsOnePerHandle
  <1>1. Init => Typed /\ ReservationInv /\ SeatInv
    BY TypeInit, ReservationInit, SeatInvInit
  <1>2. Typed /\ ReservationInv /\ SeatInv /\ [Next]_vars
          => (Typed /\ ReservationInv /\ SeatInv)' /\ [Seats!Next]_Phase
    BY TypeNext, ReservationNext, SeatNext DEF SeatAssumption
  <1> QED BY <1>1, <1>2, SeatsInit, PTL DEF Spec, SeatsOnePerHandle, Seats!Spec

\* A seat that counts as live holds its handle's lock, whatever threads do
\* between two critical sections, and after a restart (spawn, release, reap,
\* park, resume, resume_closed, sweep_crashed, load_state).
THEOREM SeatsHoldTheirLocks ==
  ASSUME SeatAssumption
  PROVE  Spec => []SeatHoldsLock
  <1>1. Init => Typed /\ ReservationInv /\ SeatInv
    BY TypeInit, ReservationInit, SeatInvInit
  <1>2. Typed /\ ReservationInv /\ SeatInv /\ [Next]_vars
          => (Typed /\ ReservationInv /\ SeatInv)'
    BY TypeNext, ReservationNext, SeatNext DEF SeatAssumption
  <1>3. SeatInv => SeatHoldsLock
    BY KeepsCases DEF SeatInv, SeatsLocked, SeatHoldsLock
  <1> QED BY <1>1, <1>2, <1>3, PTL DEF Spec

-----------------------------------------------------------------------------
(***************************************************************************)
(* The hard ceiling.  A spawn counts the rows that are live and adds one;  *)
(* nothing else makes a row live, where nobody resumes.  (A resume does,   *)
(* and looks at no cap.)                                                   *)
(***************************************************************************)

Live == {s \in Sid : state[s] \in LiveState}

CeilingInv == IsFiniteSet(Live) /\ Cardinality(Live) <= LiveCap

LEMMA CeilingInit == Init => CeilingInv
  <1> SUFFICES ASSUME Init PROVE CeilingInv
    OBVIOUS
  <1>1. Live = {}
    BY DEF Init, Live, LiveState
  <1>2. Cardinality(Live) = 0 /\ IsFiniteSet(Live)
    BY <1>1, FS_EmptySet
  <1> QED BY <1>2, GroupAssumption DEF CeilingInv

LEMMA FewerLive ==
  ASSUME CeilingInv, Live' \subseteq Live
  PROVE  CeilingInv'
  <1>1. IsFiniteSet(Live') /\ Cardinality(Live') <= Cardinality(Live)
    BY FS_Subset DEF CeilingInv
  <1>2. Cardinality(Live') \in Nat /\ Cardinality(Live) \in Nat
    BY <1>1, FS_CardinalityType DEF CeilingInv
  <1> QED BY <1>1, <1>2, GroupAssumption DEF CeilingInv

\* Admission counts under the mutex that it reserves under.
LEMMA CeilingAdmit ==
  ASSUME Typed, CeilingInv, NEW t \in Caller, NEW h \in Handle, SpawnAdmit(t, h)
  PROVE  CeilingInv'
  <1>1. PICK s \in Sid : /\ state[s] = "unused"
                         /\ state' = [x \in Sid |-> IF x = s THEN "starting"
                                                    ELSE IF x \in Evicted(h) THEN "done"
                                                    ELSE Reconciled[x]]
    BY DEF SpawnAdmit
  <1>2. Live' \subseteq LiveRows \cup {s}
    BY <1>1 DEF Live, LiveRows, LiveState
  <1>3. LiveRows \subseteq Live
    BY DEF Live, LiveRows, Reconciled, LiveState
  <1>4. IsFiniteSet(LiveRows) /\ Cardinality(LiveRows) \in Nat
    BY <1>3, FS_Subset, FS_CardinalityType DEF CeilingInv
  <1>5. Cardinality(LiveRows) < LiveCap
    BY DEF SpawnAdmit, HasRoom
  <1>6. IsFiniteSet(LiveRows \cup {s})
          /\ Cardinality(LiveRows \cup {s}) <= Cardinality(LiveRows) + 1
    BY <1>4, FS_AddElement
  <1>7. IsFiniteSet(Live') /\ Cardinality(Live') <= Cardinality(LiveRows \cup {s})
    BY <1>2, <1>6, FS_Subset
  <1>8. Cardinality(Live') \in Nat /\ Cardinality(LiveRows \cup {s}) \in Nat
    BY <1>6, <1>7, FS_CardinalityType
  <1> QED BY <1>4, <1>5, <1>6, <1>7, <1>8, GroupAssumption DEF CeilingInv

LEMMA OthersAddNoLive ==
  ASSUME SeatAssumption, ~Resumes, Typed, ReservationInv, SeatInv, [Next]_vars,
         \A t \in Caller : \A h \in Handle : ~SpawnAdmit(t, h)
  PROVE  Live' \subseteq Live
  <1>n. \A t \in Caller : /\ ~ReconcileMark(t) /\ ~ReconcileCheck(t)
                          /\ ~ReconcileDelete(t) /\ ~ReconcileSave(t)
                          /\ \A s \in Sid : ~ReconcileLook(t, s)
    BY NobodyReconciles DEF SeatAssumption
  <1>1. ASSUME NEW t \in Caller, Call(t) PROVE Live' \subseteq Live
    <2>1. ASSUME NEW h \in Handle, SpawnRefuse(t, h) PROVE Live' \subseteq Live
      BY <2>1 DEF SpawnRefuse, Reconciled, Live, LiveState
    <2>2. ASSUME NEW h \in Handle, Reap(t, h) PROVE Live' \subseteq Live
      <3>1. state' = state \/ state' = [state EXCEPT ![locks[h]] = "done"]
        BY <2>2 DEF Reap
      <3> QED BY <3>1 DEF Live, LiveState, Typed, RegistryType
    <2>3. ASSUME NEW h \in Handle, ResumeCall(t, h)
          PROVE  Live' \subseteq Live
      BY <2>3 DEF ResumeCall, registry, row, Live
    <2>4. ASSUME NEW s \in Sid, ReleaseCall(t, s) PROVE Live' \subseteq Live
      <3>1. state' = state \/ state' = [state EXCEPT ![s] = "done"]
        BY <2>4 DEF ReleaseCall, Release, registry, row
      <3> QED BY <3>1 DEF Live, LiveState, Typed, RegistryType
    <2>5. ASSUME NEW s \in Sid, Park(t, s) PROVE Live' \subseteq Live
      BY <2>5 DEF Park, Live, LiveState, Typed, RegistryType
    <2>6. ASSUME NEW s \in Sid, UpdaterResume(t, s) \/ SweepLook(t, s)
          PROVE  Live' \subseteq Live
      BY <2>6 DEF UpdaterResume, SweepLook, registry, row, Live
    <2> QED BY <1>n, <1>1, <2>1, <2>2, <2>3, <2>4, <2>5, <2>6 DEF Call
  <1>2. ASSUME NEW t \in Caller, Continue(t) PROVE Live' \subseteq Live
    <2>0. SeatThread(pc[t], op[t], on[t], state, inflight, locks)
      BY DEF SeatInv, SeatThreads
    <2>1. CASE UNCHANGED registry
      BY <2>1 DEF registry, row, Live
    <2>2. CASE SpawnRegister(t)
      <3>1. on[t] \in Sid /\ state[on[t]] = "starting"
        BY <2>2, ThreadIsStarting DEF SpawnRegister
      <3> QED BY <2>2, <3>1 DEF SpawnRegister, Live, LiveState, Typed, RegistryType
    <2>3. CASE SpawnRollback(t)
      BY <2>3 DEF SpawnRollback, Live, LiveState, Typed, RegistryType
    <2>4. CASE ReleaseAfterLaunch(t)
      <3>1. state' = state \/ state' = [state EXCEPT ![on[t]] = "done"]
        BY <2>4 DEF ReleaseAfterLaunch, Release, registry, row
      <3> QED BY <3>1 DEF Live, LiveState, Typed, RegistryType
    <2>5. CASE ReleaseUnlock(t)
      BY <2>5 DEF ReleaseUnlock, row, Live
    <2>6. CASE SweepMark(t)
      BY <2>6 DEF SweepMark, Live, LiveState, Typed, RegistryType
    <2>7. ~(\/ ResumeRestore(t) \/ ResumeFork(t) \/ ResumeClosed(t)
            \/ ResumeRegister(t) \/ ResumeFails(t) \/ ResumeClosedFails(t))
      BY <2>0 DEF ResumeRestore, ResumeFork, ResumeClosed, ResumeRegister, ResumeFails,
                  ResumeClosedFails, SeatThread
    <2>8. LaunchReturns(t) \/ LaunchRaises(t) \/ KillSession(t) \/ ResumeNoOp(t)
            \/ ResumeClosedRefuse(t) \/ SweepPass(t) => UNCHANGED registry
      BY DEF LaunchReturns, LaunchRaises, KillSession, ResumeNoOp, ResumeClosedRefuse, SweepPass
    <2> QED BY <1>n, <1>2, <2>1, <2>2, <2>3, <2>4, <2>5, <2>6, <2>7, <2>8 DEF Continue
  <1>3. CASE Restart
    <2>1. PICK S : state' = [s \in Sid |-> IF s \in Interrupted(S) THEN "dead"
                                           ELSE disk.state[s]]
      BY <1>3 DEF Restart
    <2>2. \A s \in Sid : disk.state[s] \in LiveState => state[s] \in LiveState
      BY DEF SeatInv, DiskFollows, LiveState
    <2> QED BY <2>1, <2>2 DEF Live, LiveState
  <1>4. CASE (\E p \in Shell : ShellExits(p)) \/ UpdaterEnds \/ UNCHANGED vars
    BY <1>4 DEF ShellExits, UpdaterEnds, vars, registry, row, Live
  <1> QED BY <1>1, <1>2, <1>3, <1>4 DEF Next

\* Active, starting and parked seats never exceed the hard ceiling, however many
\* threads spawn at once, and a restart keeps to it (spawn,
\* max_live_shells).
THEOREM CeilingHolds ==
  ASSUME SeatAssumption, ~Resumes
  PROVE  Spec => []LiveCeiling
  <1>1. Init => Typed /\ ReservationInv /\ SeatInv /\ CeilingInv
    BY TypeInit, ReservationInit, SeatInvInit, CeilingInit
  <1>2. ASSUME Typed, ReservationInv, SeatInv, CeilingInv, [Next]_vars
        PROVE  CeilingInv'
    <2>1. CASE \E t \in Caller : \E h \in Handle : SpawnAdmit(t, h)
      BY <1>2, <2>1, CeilingAdmit
    <2>2. CASE \A t \in Caller : \A h \in Handle : ~SpawnAdmit(t, h)
      BY <1>2, <2>2, OthersAddNoLive, FewerLive
    <2> QED BY <2>1, <2>2
  <1>3. Typed /\ ReservationInv /\ SeatInv /\ CeilingInv /\ [Next]_vars
          => (Typed /\ ReservationInv /\ SeatInv /\ CeilingInv)'
    BY <1>2, TypeNext, ReservationNext, SeatNext DEF SeatAssumption
  <1>4. CeilingInv => LiveCeiling
    BY DEF CeilingInv, LiveCeiling, Live
  <1> QED BY <1>1, <1>3, <1>4, PTL DEF Spec

-----------------------------------------------------------------------------
(***************************************************************************)
(* Shells.  Where seats hold their locks (SeatAssumption) and no restart   *)
(* falls between a launch and its record or a close and its kill, the      *)
(* running shell of a session is the one ShellOf names.  Its row is live   *)
(* or its close is about to kill it, and the state file names it unless    *)
(* the thread that launched it has yet to record it.                       *)
(***************************************************************************)

ShellAssumption == SeatAssumption /\ "restart" \notin Ops

\* The shell _kill_session and _parked_shell_alive take for session s's.
ShellOf(s) == IF known[s] # Nobody THEN known[s] ELSE proc[s]

\* No shell runs for s, when shell p runs for r[p].
Bare(s, r) == \A p \in Shell : r[p] # s

\* Some thread stands at `where' on s, when threads stand at p on o.
Stands(where, s, p, o) == \E t \in Caller : o[t] = s /\ p[t] = where

\* What a thread at p for operation o on s has seen of its shells.
ShellThread(p, o, s, r, k) ==
  /\ p \in {"launch", "launched", "failed"} => o \in {"spawn", "resume", "resume_closed"}
  /\ p \in {"launch", "failed"} => Bare(s, r)
  /\ p = "launched" => k[s] # Nobody

ShellPlaced(p) ==
  LET s == runs[p] IN
  /\ p = ShellOf(s)
  /\ state[s] \in LiveState \/ Stands("kill", s, pc, on)
  /\ proc[s] = p \/ Stands("launched", s, pc, on)
  /\ state[s] = "resuming" => Stands("launched", s, pc, on)

ShellInv ==
  /\ disk.proc = proc
  /\ \A s \in Sid : state[s] \in {"unused", "starting"} => proc[s] = Nobody
  /\ \A p \in Shell : Lives(p) => ShellPlaced(p)
  /\ \A t \in Caller : ShellThread(pc[t], op[t], on[t], runs, known)

LEMMA ShellInit == Init => ShellInv
  <1> SUFFICES ASSUME Init PROVE ShellInv
    OBVIOUS
  <1>1. disk.proc = proc /\ \A s \in Sid : proc[s] = Nobody
    BY DEF Init
  <1>2. \A p \in Shell : ~Lives(p)
    BY DEF Init, Lives
  <1>3. \A t \in Caller : ShellThread(pc[t], op[t], on[t], runs, known)
    BY DEF Init, ShellThread
  <1> QED BY <1>1, <1>2, <1>3 DEF ShellInv

LEMMA ShellIs ==
  ASSUME Typed, ShellInv, NEW p \in Shell, runs[p] # Nobody
  PROVE  Lives(p) /\ runs[p] \in Sid /\ ShellPlaced(p)
  <1>1. p # Nobody
    BY NobodyIsNoSid
  <1> QED BY <1>1 DEF Lives, ShellInv, Typed, MemoryType

LEMMA BareIfGone ==
  ASSUME Typed, ShellInv, NEW s \in Sid, ~Lives(ShellOf(s))
  PROVE  Bare(s, runs)
  <1> SUFFICES ASSUME NEW p \in Shell, runs[p] = s PROVE FALSE
    BY DEF Bare
  <1>1. runs[p] # Nobody
    BY NobodyIsNoSid
  <1> QED BY <1>1, ShellIs DEF ShellPlaced

\* A row whose session is not found alive has no shell.
LEMMA BareIfNotAlive ==
  ASSUME Typed, ShellInv, NEW s \in Sid, Verdict(s) # "alive",
         known[s] # Nobody \/ state[s] \in {"active", "resuming"}
  PROVE  Bare(s, runs)
  <1>1. Verdict(s) = Probe(ShellOf(s))
    BY DEF Verdict, ShellOf
  <1>2. ~Lives(ShellOf(s))
    BY <1>1 DEF Probe, Lives
  <1> QED BY <1>2, BareIfGone

LEMMA PhantomsAreBare ==
  ASSUME Typed, ShellInv
  PROVE  /\ \A s \in Phantom : Bare(s, runs)
         /\ \A s \in Sid : Reconciled[s] = state[s] \/ (Reconciled[s] = "done" /\ Bare(s, runs))
  <1>1. \A s \in Phantom : s \in Sid /\ Verdict(s) # "alive" /\ state[s] = "active"
    BY DEF Phantom
  <1>2. \A s \in Phantom : Bare(s, runs)
    BY <1>1, BareIfNotAlive
  <1> QED BY <1>2 DEF Reconciled

\* One thread launches a shell for a session at a time.
LEMMA OneLauncher ==
  ASSUME Typed, ReservationInv, SeatInv, ShellInv, NEW t \in Caller, NEW u \in Caller,
         pc[t] \in {"launch", "launched", "failed"}, pc[u] \in {"launch", "launched", "failed"},
         on[t] = on[u]
  PROVE  t = u
  <1>1. /\ op[t] \in {"spawn", "resume", "resume_closed"}
        /\ op[u] \in {"spawn", "resume", "resume_closed"}
    BY DEF ShellInv, ShellThread
  <1>2. CASE op[t] = "spawn" /\ op[u] = "spawn"
    BY <1>2 DEF ReservationInv, ThreadsWell
  <1>3. CASE op[t] = "resume" /\ op[u] = "resume"
    BY <1>3 DEF SeatInv, SeatThreads, Relaunches
  <1>4. CASE op[t] = "resume_closed" \/ op[u] = "resume_closed"
    BY <1>4 DEF SeatInv, SeatThreads, Secluded
  <1>5. CASE {op[t], op[u]} = {"spawn", "resume"}
    <2>1. state[on[t]] = "starting" /\ state[on[t]] \in Settled
      BY <1>1, <1>5, ThreadIsStarting, ThreadIsSettled
    <2> QED BY <2>1 DEF Settled
  <1> QED BY <1>1, <1>2, <1>3, <1>4, <1>5

-----------------------------------------------------------------------------
(* What the steps have in common: no shell is launched or recorded *)

LEMMA ShellsKept ==
  ASSUME Typed, Typed', ShellInv, UNCHANGED <<proc, known>>, disk'.proc = proc,
         \A p \in Shell : runs'[p] \in {runs[p], Nobody},
         \A x \in Sid : state'[x] \in {"unused", "starting"} => state[x] \in {"unused", "starting"},
         \A x \in Sid : Stands("launched", x, pc, on) => Stands("launched", x, pc', on'),
         \A x \in Sid : Stands("kill", x, pc, on) => Stands("kill", x, pc', on') \/ Bare(x, runs'),
         \A x \in Sid : \/ Bare(x, runs') \/ state'[x] = state[x]
                        \/ state'[x] \in LiveState \ {"resuming"}
                        \/ state'[x] = "done" /\ (state[x] \notin LiveState \/ Stands("kill", x, pc', on')),
         \A u \in Caller : ShellThread(pc'[u], op'[u], on'[u], runs', known)
  PROVE  ShellInv'
  <1>1. ASSUME NEW p \in Shell, Lives(p)' PROVE ShellPlaced(p)'
    <2> DEFINE x == runs[p]
    <2>1. runs'[p] # Nobody /\ runs'[p] = x
      BY <1>1 DEF Lives
    <2>2. x \in Sid /\ ShellPlaced(p)
      BY <2>1, ShellIs
    <2>3. ~Bare(x, runs')
      BY <2>1 DEF Bare
    <2>4. p = IF known'[x] # Nobody THEN known'[x] ELSE proc'[x]
      BY <2>2 DEF ShellPlaced, ShellOf
    <2>5. proc'[x] = p \/ Stands("launched", x, pc', on')
      BY <2>2 DEF ShellPlaced
    <2>6. state[x] \in LiveState \/ Stands("kill", x, pc', on')
      BY <2>2, <2>3 DEF ShellPlaced
    <2>7. state[x] = "resuming" => Stands("launched", x, pc', on')
      BY <2>2 DEF ShellPlaced
    <2> HIDE DEF x
    <2>8. /\ state'[x] \in LiveState \/ Stands("kill", x, pc', on')
          /\ state'[x] = "resuming" => Stands("launched", x, pc', on')
      BY <2>2, <2>3, <2>6, <2>7
    <2> QED BY <2>1, <2>4, <2>5, <2>8 DEF ShellPlaced, ShellOf
  <1> QED BY <1>1 DEF ShellInv

\* One thread moves on; what it has done to shells is to end some.
LEMMA ShellMoves ==
  ASSUME Typed, Typed', ShellInv, UNCHANGED <<proc, known>>, disk'.proc = proc,
         NEW t \in Caller, NEW w \in PC, NEW o \in Op, NEW s \in Sid \cup {Nobody}, Goto(t, w, o, s),
         pc[t] # "launched", pc[t] = "kill" => Bare(on[t], runs'),
         \A p \in Shell : runs'[p] \in {runs[p], Nobody},
         ShellThread(w, o, s, runs', known),
         \A x \in Sid : state'[x] \in {"unused", "starting"} => state[x] \in {"unused", "starting"},
         \A x \in Sid : \/ Bare(x, runs') \/ state'[x] = state[x]
                        \/ state'[x] \in LiveState \ {"resuming"}
                        \/ state'[x] = "done" /\ (state[x] \notin LiveState \/ (w = "kill" /\ s = x))
  PROVE  ShellInv'
  <1>1. \A u \in Caller \ {t} : pc'[u] = pc[u] /\ op'[u] = op[u] /\ on'[u] = on[u]
    BY DEF Goto, Typed, ThreadsType
  <1>2. pc'[t] = w /\ op'[t] = o /\ on'[t] = s
    BY DEF Goto, Typed, ThreadsType
  <1>3. ASSUME NEW u \in Caller \ {t} PROVE ShellThread(pc[u], op[u], on[u], runs', known)
    <2>1. ShellThread(pc[u], op[u], on[u], runs, known)
      BY DEF ShellInv
    <2>2. pc[u] # "idle" => on[u] \in Sid
      BY DEF Typed, ThreadsType
    <2> QED BY <2>1, <2>2, NobodyIsNoSid DEF ShellThread, Bare
  <1>4. \A u \in Caller : ShellThread(pc'[u], op'[u], on'[u], runs', known)
    BY <1>1, <1>2, <1>3
  <1>5. \A x \in Sid : Stands("launched", x, pc, on) => Stands("launched", x, pc', on')
    BY <1>1 DEF Stands
  <1>6. \A x \in Sid : Stands("kill", x, pc, on) => Stands("kill", x, pc', on') \/ Bare(x, runs')
    BY <1>1 DEF Stands
  <1>7. \A x \in Sid : w = "kill" /\ s = x => Stands("kill", x, pc', on')
    BY <1>2 DEF Stands
  <1>8. \A x \in Sid : \/ Bare(x, runs') \/ state'[x] = state[x]
                       \/ state'[x] \in LiveState \ {"resuming"}
                       \/ state'[x] = "done" /\ (state[x] \notin LiveState \/ Stands("kill", x, pc', on'))
    BY <1>7
  <1> QED BY <1>4, <1>5, <1>6, <1>8, ShellsKept

LEMMA ShellFinish ==
  ASSUME Typed, Typed', ShellInv, UNCHANGED <<proc, known>>, disk'.proc = proc,
         NEW t \in Caller, Finish(t),
         pc[t] # "launched", pc[t] = "kill" => Bare(on[t], runs'),
         \A p \in Shell : runs'[p] \in {runs[p], Nobody},
         \A x \in Sid : state'[x] \in {"unused", "starting"} => state[x] \in {"unused", "starting"},
         \A x \in Sid : \/ Bare(x, runs') \/ state'[x] = state[x]
                        \/ state'[x] \in LiveState \ {"resuming"}
                        \/ state'[x] = "done" /\ state[x] \notin LiveState
  PROVE  ShellInv'
  <1>1. ShellThread("idle", "none", Nobody, runs', known)
    BY DEF ShellThread
  <1>2. "idle" \in PC /\ "none" \in Op /\ Nobody \in Sid \cup {Nobody}
    BY DEF PC, Op
  <1>3. Goto(t, "idle", "none", Nobody)
    BY DEF Finish
  <1> QED BY <1>1, <1>2, <1>3, ShellMoves

\* No thread moves.
LEMMA ShellsStay ==
  ASSUME Typed, Typed', ShellInv, UNCHANGED <<proc, known, threads>>, disk'.proc = proc,
         \A p \in Shell : runs'[p] \in {runs[p], Nobody},
         \A x \in Sid : state'[x] \in {"unused", "starting"} => state[x] \in {"unused", "starting"},
         \A x \in Sid : \/ Bare(x, runs') \/ state'[x] = state[x]
                        \/ state'[x] \in LiveState \ {"resuming"}
                        \/ state'[x] = "done" /\ state[x] \notin LiveState
  PROVE  ShellInv'
  <1>1. pc' = pc /\ op' = op /\ on' = on
    BY DEF threads
  <1>2. ASSUME NEW u \in Caller PROVE ShellThread(pc[u], op[u], on[u], runs', known)
    <2>1. ShellThread(pc[u], op[u], on[u], runs, known)
      BY DEF ShellInv
    <2>2. pc[u] # "idle" => on[u] \in Sid
      BY DEF Typed, ThreadsType
    <2> QED BY <2>1, <2>2, NobodyIsNoSid DEF ShellThread, Bare
  <1> QED BY <1>1, <1>2, ShellsKept

\* A step writes one row, or none, and ends no shell.
LEMMA OneRow ==
  ASSUME Typed, NEW s \in Sid, NEW v, state' = [state EXCEPT ![s] = v] \/ state' = state,
         v \notin {"unused", "starting"}, runs' = runs
  PROVE  /\ \A x \in Sid : state'[x] \in {"unused", "starting"} => state[x] \in {"unused", "starting"}
         /\ \A x \in Sid : state'[x] = state[x] \/ (x = s /\ state'[x] = v)
         /\ \A p \in Shell : runs'[p] \in {runs[p], Nobody}
  BY DEF Typed, RegistryType

LEMMA PersistProc ==
  ASSUME ShellInv, UNCHANGED proc, Persist \/ disk' = disk
  PROVE  disk'.proc = proc
  BY DEF Persist, ShellInv

-----------------------------------------------------------------------------
(* spawn *)

LEMMA ShellSpawnAdmit ==
  ASSUME SeatAssumption, Typed, Typed', ReservationInv, ShellInv, NEW t \in Caller,
         NEW h \in Handle, SpawnAdmit(t, h)
  PROVE  ShellInv'
  <1>1. PICK s \in Sid :
          /\ HandleOf(s) = h /\ state[s] = "unused"
          /\ state' = [x \in Sid |-> IF x = s THEN "starting"
                                     ELSE IF x \in Evicted(h) THEN "done"
                                     ELSE Reconciled[x]]
          /\ Goto(t, "launch", "spawn", s)
    BY DEF SpawnAdmit
  <1>2. UNCHANGED <<proc, known>> /\ runs' = runs /\ Persist /\ pc[t] = "idle"
    BY DEF SpawnAdmit, Calls, memory
  <1>3. disk'.proc = proc
    BY <1>2, PersistProc
  <1>4. Bare(s, runs)
    <2> SUFFICES ASSUME NEW p \in Shell, runs[p] = s PROVE FALSE
      BY DEF Bare
    <2>1. Stands("kill", s, pc, on)
      BY <1>1, ShellIs, NobodyIsNoSid DEF ShellPlaced, LiveState
    <2>2. PICK u \in Caller : on[u] = s /\ pc[u] = "kill"
      BY <2>1 DEF Stands
    <2>3. ThreadWell(pc[u], op[u], on[u], state)
      BY DEF ReservationInv, ThreadsWell
    <2> QED BY <1>1, <2>2, <2>3 DEF ThreadWell, Settled
  <1>5. ASSUME NEW x \in Evicted(h) PROVE Bare(x, runs) \/ state[x] \notin LiveState
    <2>1. /\ x = LocksReconciled[h] /\ x # Nobody /\ x = locks[h]
          /\ state[x] \notin {"parked", "resuming"} /\ Verdict(x) # "alive"
          /\ state[x] = "starting" => Abandoned(x)
      BY DEF SpawnAdmit, HandleFree, Evicted, LocksReconciled
    <2>2. x \in Sid
      BY <2>1 DEF Typed, RegistryType
    <2>3. CASE state[x] = "active"
      BY <2>1, <2>2, <2>3, BareIfNotAlive
    <2>4. CASE state[x] = "starting"
      <3>1. ~Stands("launched", x, pc, on) /\ proc[x] = Nobody
        BY <2>1, <2>2, <2>4 DEF Abandoned, Launching, Stands, SeatAssumption,
                                ReservationAssumption, ShellInv
      <3>2. ASSUME NEW p \in Shell, runs[p] = x PROVE FALSE
        BY <2>2, <3>1, <3>2, ShellIs, NobodyIsNoSid DEF ShellPlaced
      <3> QED BY <3>2 DEF Bare
    <2> QED BY <2>1, <2>3, <2>4 DEF LiveState
  <1>6. ASSUME NEW x \in Sid
        PROVE  /\ state'[x] \in {"unused", "starting"} => state[x] \in {"unused", "starting"}
               /\ \/ Bare(x, runs') \/ state'[x] = state[x]
                  \/ state'[x] = "done" /\ state[x] \notin LiveState
    <2>1. x # s /\ x \notin Evicted(h) => state'[x] = Reconciled[x]
      BY <1>1
    <2>2. Reconciled[x] = state[x] \/ (Reconciled[x] = "done" /\ Bare(x, runs))
      BY PhantomsAreBare
    <2>3. x = s => state'[x] = "starting" /\ state[x] = "unused" /\ Bare(x, runs')
      BY <1>1, <1>2, <1>4
    <2>4. x # s /\ x \in Evicted(h) => state'[x] = "done"
      BY <1>1
    <2> QED BY <1>2, <1>5, <2>1, <2>2, <2>3, <2>4
  <1>7. ShellThread("launch", "spawn", s, runs', known) /\ "launch" \in PC /\ "spawn" \in Op
    BY <1>2, <1>4 DEF ShellThread, PC, Op
  <1>8. \A p \in Shell : runs'[p] \in {runs[p], Nobody}
    BY <1>2
  <1> QED BY <1>1, <1>2, <1>3, <1>6, <1>7, <1>8, ShellMoves

LEMMA ShellSpawnRefuse ==
  ASSUME Typed, Typed', ShellInv, NEW t \in Caller, NEW h \in Handle, SpawnRefuse(t, h)
  PROVE  ShellInv'
  <1>1. UNCHANGED <<proc, known, threads>> /\ runs' = runs /\ Persist /\ state' = Reconciled
    BY DEF SpawnRefuse, memory
  <1>2. disk'.proc = proc
    BY <1>1, PersistProc
  <1>3. \A x \in Sid : /\ state'[x] \in {"unused", "starting"} => state[x] \in {"unused", "starting"}
                       /\ Bare(x, runs') \/ state'[x] = state[x]
    BY <1>1, PhantomsAreBare
  <1> QED BY <1>1, <1>2, <1>3, ShellsStay

\* The shell runs, nobody else launches for its session, and the spawner's
\* record is its.
LEMMA ShellLaunchReturns ==
  ASSUME Typed, Typed', ReservationInv, SeatInv, ShellInv, NEW t \in Caller, LaunchReturns(t)
  PROVE  ShellInv'
  <1> DEFINE s == on[t]
  <1>1. pc[t] = "launch" /\ s \in Sid
    BY DEF LaunchReturns, Typed, ThreadsType
  <1>2. PICK q \in Shell : runs' = [runs EXCEPT ![q] = s] /\ known' = [known EXCEPT ![s] = q]
                           /\ ~Lives(q)
    BY DEF LaunchReturns
  <1>3. UNCHANGED <<state, proc, disk>> /\ Goto(t, "launched", op[t], s)
    BY DEF LaunchReturns, registry, row
  <1> HIDE DEF s
  <1>4. /\ \A u \in Caller \ {t} : pc'[u] = pc[u] /\ op'[u] = op[u] /\ on'[u] = on[u]
        /\ pc'[t] = "launched" /\ op'[t] = op[t] /\ on'[t] = s
    BY <1>3 DEF Goto, Typed, ThreadsType
  <1>5. /\ runs'[q] = s /\ \A p \in Shell \ {q} : runs'[p] = runs[p]
        /\ known'[s] = q /\ \A x \in Sid \ {s} : known'[x] = known[x]
    BY <1>1, <1>2 DEF Typed, MemoryType
  <1>6. ShellThread(pc[t], op[t], s, runs, known)
    BY DEF ShellInv, s
  <1>7. Bare(s, runs) /\ op[t] \in {"spawn", "resume", "resume_closed"}
    BY <1>1, <1>6 DEF ShellThread
  <1>8. /\ op[t] = "spawn" => state[s] = "starting"
        /\ op[t] \in {"resume", "resume_closed"} => state[s] = "resuming"
    BY <1>1, ThreadIsStarting DEF SeatInv, SeatThreads, SeatThread, s
  <1>9. \A x \in Sid : /\ Stands("launched", x, pc, on) => Stands("launched", x, pc', on')
                       /\ Stands("kill", x, pc, on) => Stands("kill", x, pc', on')
    BY <1>1, <1>4 DEF Stands
  <1>10. Stands("launched", s, pc', on')
    BY <1>4 DEF Stands
  <1>11. ASSUME NEW p \in Shell, runs'[p] # Nobody
         PROVE  LET x == runs'[p] IN
                /\ p = IF known'[x] # Nobody THEN known'[x] ELSE proc'[x]
                /\ state'[x] \in LiveState \/ Stands("kill", x, pc', on')
                /\ proc'[x] = p \/ Stands("launched", x, pc', on')
                /\ state'[x] = "resuming" => Stands("launched", x, pc', on')
    <2>1. CASE p = q
      BY <1>3, <1>5, <1>7, <1>8, <1>10, <2>1, NobodyIsNoSid DEF LiveState
    <2>2. CASE p # q
      <3> DEFINE x == runs[p]
      <3>1. runs'[p] = x /\ x \in Sid /\ ShellPlaced(p)
        BY <1>5, <1>11, <2>2, ShellIs
      <3>2. x # s
        BY <1>7 DEF Bare
      <3>3. /\ p = IF known[x] # Nobody THEN known[x] ELSE proc[x]
            /\ state[x] \in LiveState \/ Stands("kill", x, pc, on)
            /\ proc[x] = p \/ Stands("launched", x, pc, on)
            /\ state[x] = "resuming" => Stands("launched", x, pc, on)
        BY <3>1 DEF ShellPlaced, ShellOf
      <3> HIDE DEF x
      <3> QED BY <1>3, <1>5, <1>9, <3>1, <3>2, <3>3
    <2> QED BY <2>1, <2>2
  <1>12. ASSUME NEW p \in Shell, Lives(p)' PROVE ShellPlaced(p)'
    BY <1>11, <1>12 DEF Lives, ShellPlaced, ShellOf
  <1>13. ASSUME NEW u \in Caller PROVE ShellThread(pc'[u], op'[u], on'[u], runs', known')
    <2>1. CASE u = t
      BY <1>4, <1>5, <1>7, <2>1, NobodyIsNoSid DEF ShellThread
    <2>2. CASE u # t
      <3>1. ShellThread(pc[u], op[u], on[u], runs, known) /\ (pc[u] # "idle" => on[u] \in Sid)
        BY DEF ShellInv, Typed, ThreadsType
      <3>2. pc[u] \in {"launch", "launched", "failed"} => on[u] # s
        BY <1>1, <2>2, OneLauncher DEF s
      <3>3. pc[u] \in {"launch", "failed"} => Bare(on[u], runs')
        BY <1>5, <3>1, <3>2 DEF ShellThread, Bare
      <3> QED BY <1>4, <1>5, <2>2, <3>1, <3>2, <3>3 DEF ShellThread
    <2> QED BY <2>1, <2>2
  <1> QED BY <1>3, <1>12, <1>13 DEF ShellInv

\* A launching thread writes what is known of its session, nothing of others.
LEMMA ShellsElsewhere ==
  ASSUME Typed, Typed', ReservationInv, SeatInv, ShellInv, NEW t \in Caller, NEW s \in Sid,
         s = on[t], pc[t] \in {"launch", "launched", "failed"}, runs' = runs, disk'.proc = proc',
         \A x \in Sid \ {s} : known'[x] = known[x] /\ proc'[x] = proc[x] /\ state'[x] = state[x],
         \A u \in Caller \ {t} : pc'[u] = pc[u] /\ op'[u] = op[u] /\ on'[u] = on[u],
         ShellThread(pc'[t], op'[t], on'[t], runs', known'),
         state'[s] \in {"unused", "starting"} => proc'[s] = Nobody,
         \A p \in Shell : runs[p] = s =>
            /\ p = IF known'[s] # Nobody THEN known'[s] ELSE proc'[s]
            /\ proc'[s] = p /\ state'[s] \in LiveState \ {"resuming"}
  PROVE  ShellInv'
  <1>1. ASSUME NEW p \in Shell, runs[p] # Nobody
        PROVE  LET x == runs[p] IN
               /\ p = IF known'[x] # Nobody THEN known'[x] ELSE proc'[x]
               /\ state'[x] \in LiveState \/ Stands("kill", x, pc', on')
               /\ proc'[x] = p \/ Stands("launched", x, pc', on')
               /\ state'[x] = "resuming" => Stands("launched", x, pc', on')
    <2>1. CASE runs[p] = s
      BY <2>1
    <2>2. CASE runs[p] # s
      <3> DEFINE x == runs[p]
      <3>1. x \in Sid \ {s} /\ ShellPlaced(p)
        BY <1>1, <2>2, ShellIs
      <3>2. /\ p = IF known[x] # Nobody THEN known[x] ELSE proc[x]
            /\ state[x] \in LiveState \/ Stands("kill", x, pc, on)
            /\ proc[x] = p \/ Stands("launched", x, pc, on)
            /\ state[x] = "resuming" => Stands("launched", x, pc, on)
        BY <3>1 DEF ShellPlaced, ShellOf
      <3> HIDE DEF x
      <3>3. /\ Stands("launched", x, pc, on) => Stands("launched", x, pc', on')
            /\ Stands("kill", x, pc, on) => Stands("kill", x, pc', on')
        BY <3>1 DEF Stands
      <3>4. known'[x] = known[x] /\ proc'[x] = proc[x] /\ state'[x] = state[x]
        BY <3>1
      <3>5. /\ p = IF known'[x] # Nobody THEN known'[x] ELSE proc'[x]
            /\ state'[x] \in LiveState \/ Stands("kill", x, pc', on')
            /\ proc'[x] = p \/ Stands("launched", x, pc', on')
            /\ state'[x] = "resuming" => Stands("launched", x, pc', on')
        BY <3>2, <3>3, <3>4
      <3> QED BY <3>5 DEF x
    <2> QED BY <2>1, <2>2
  <1>2. ASSUME NEW p \in Shell, Lives(p)' PROVE ShellPlaced(p)'
    BY <1>1, <1>2 DEF Lives, ShellPlaced, ShellOf
  <1>3. ASSUME NEW u \in Caller \ {t} PROVE ShellThread(pc[u], op[u], on[u], runs', known')
    <2>1. ShellThread(pc[u], op[u], on[u], runs, known) /\ (pc[u] # "idle" => on[u] \in Sid)
      BY DEF ShellInv, Typed, ThreadsType
    <2>2. pc[u] = "launched" => on[u] # s
      BY OneLauncher
    <2> QED BY <2>1, <2>2 DEF ShellThread
  <1>4. \A u \in Caller : ShellThread(pc'[u], op'[u], on'[u], runs', known')
    BY <1>3
  <1>5. \A x \in Sid : state'[x] \in {"unused", "starting"} => proc'[x] = Nobody
    BY DEF ShellInv
  <1> QED BY <1>2, <1>4, <1>5 DEF ShellInv

LEMMA ShellLaunchRaises ==
  ASSUME Typed, Typed', ReservationInv, SeatInv, ShellInv, NEW t \in Caller,
         LaunchRaises(t) \/ SpawnRollback(t)
  PROVE  ShellInv'
  <1>1. PICK s \in Sid : s = on[t] /\ pc[t] \in {"launch", "failed"}
    BY DEF LaunchRaises, SpawnRollback, Typed, ThreadsType
  <1>2. ShellThread(pc[t], op[t], s, runs, known)
    BY <1>1 DEF ShellInv
  <1>3. Bare(s, runs) /\ op[t] \in {"spawn", "resume", "resume_closed"}
    BY <1>1, <1>2 DEF ShellThread
  <1>4. \A p \in Shell : runs[p] # s
    BY <1>3 DEF Bare
  <1>5. runs' = runs
    BY DEF LaunchRaises, SpawnRollback
  <1>6. CASE LaunchRaises(t)
    <2>1. UNCHANGED <<state, proc, disk>> /\ disk'.proc = proc'
      BY <1>6 DEF LaunchRaises, registry, row, ShellInv
    <2>2. Goto(t, "failed", op[t], s)
      BY <1>1, <1>6 DEF LaunchRaises
    <2>3. /\ \A u \in Caller \ {t} : pc'[u] = pc[u] /\ op'[u] = op[u] /\ on'[u] = on[u]
          /\ pc'[t] = "failed" /\ op'[t] = op[t] /\ on'[t] = s
      BY <2>2 DEF Goto, Typed, ThreadsType
    <2>4. \A x \in Sid \ {s} : known'[x] = known[x]
      BY <1>1, <1>6 DEF LaunchRaises, Typed, MemoryType
    <2>5. ShellThread(pc'[t], op'[t], on'[t], runs', known')
      BY <1>3, <1>5, <2>3 DEF ShellThread
    <2>6. state'[s] \in {"unused", "starting"} => proc'[s] = Nobody
      BY <2>1 DEF ShellInv
    <2> QED BY <1>1, <1>4, <1>5, <2>1, <2>3, <2>4, <2>5, <2>6, ShellsElsewhere
  <1>7. CASE SpawnRollback(t)
    <2>1. /\ state' = [state EXCEPT ![s] = "removed"] /\ proc' = [proc EXCEPT ![s] = Nobody]
          /\ known' = known /\ Finish(t) /\ Persist
      BY <1>1, <1>7 DEF SpawnRollback, memory
    <2>2. /\ \A x \in Sid \ {s} : known'[x] = known[x] /\ proc'[x] = proc[x] /\ state'[x] = state[x]
          /\ state'[s] = "removed" /\ disk'.proc = proc'
      BY <1>1, <2>1 DEF Typed, RegistryType, Persist
    <2>3. /\ \A u \in Caller \ {t} : pc'[u] = pc[u] /\ op'[u] = op[u] /\ on'[u] = on[u]
          /\ pc'[t] = "idle" /\ op'[t] = "none"
      BY <2>1 DEF Finish, Goto, Typed, ThreadsType
    <2>4. ShellThread(pc'[t], op'[t], on'[t], runs', known')
      BY <2>3 DEF ShellThread
    <2> QED BY <1>1, <1>4, <1>5, <2>2, <2>3, <2>4, ShellsElsewhere
  <1> QED BY <1>6, <1>7

\* The launch is recorded: a shell that still runs is the row's from now on.
LEMMA ShellRegisters ==
  ASSUME Typed, Typed', ReservationInv, SeatInv, ShellInv, NEW t \in Caller,
         SpawnRegister(t) \/ ResumeRegister(t)
  PROVE  ShellInv'
  <1>1. PICK s \in Sid : s = on[t] /\ pc[t] = "launched"
    BY DEF SpawnRegister, ResumeRegister, Typed, ThreadsType
  <1>2. /\ state' = [state EXCEPT ![s] = "active"] /\ runs' = runs /\ known' = known /\ Persist
        /\ \E p \in Fingerprints(s) : proc' = [proc EXCEPT ![s] = p]
        /\ Goto(t, "release", "release", s) \/ Finish(t)
    BY <1>1 DEF SpawnRegister, ResumeRegister, memory
  <1>3. /\ \A x \in Sid \ {s} : known'[x] = known[x] /\ proc'[x] = proc[x] /\ state'[x] = state[x]
        /\ state'[s] = "active" /\ disk'.proc = proc' /\ proc'[s] \in Fingerprints(s)
    BY <1>1, <1>2 DEF Typed, RegistryType, Persist
  <1>4. /\ \A u \in Caller \ {t} : pc'[u] = pc[u] /\ op'[u] = op[u] /\ on'[u] = on[u]
        /\ pc'[t] \in {"idle", "release"}
    BY <1>2 DEF Finish, Goto, Typed, ThreadsType
  <1>5. known[s] # Nobody
    BY <1>1 DEF ShellInv, ShellThread
  <1>6. ASSUME NEW p \in Shell, runs[p] = s
        PROVE  /\ p = IF known'[s] # Nobody THEN known'[s] ELSE proc'[s]
               /\ proc'[s] = p
    <2>1. Lives(p) /\ p = known[s]
      BY <1>1, <1>5, <1>6, ShellIs, NobodyIsNoSid DEF ShellPlaced, ShellOf
    <2>2. proc'[s] = known[s]
      BY <1>3, <2>1 DEF Fingerprints
    <2> QED BY <1>2, <1>5, <2>1, <2>2
  <1>7. ShellThread(pc'[t], op'[t], on'[t], runs', known')
    BY <1>4 DEF ShellThread
  <1>8. state'[s] \in LiveState \ {"resuming"} /\ state'[s] \notin {"unused", "starting"}
    BY <1>3 DEF LiveState
  <1> QED BY <1>1, <1>2, <1>3, <1>4, <1>6, <1>7, <1>8, ShellsElsewhere

-----------------------------------------------------------------------------
(* release, reap and park *)

LEMMA ShellRelease ==
  ASSUME Typed, Typed', ShellInv, NEW t \in Caller, NEW s \in Sid, Release(t, s),
         pc[t] \in {"idle", "release"}, UNCHANGED <<memory, runs>>
  PROVE  ShellInv'
  <1>1. UNCHANGED <<proc, known>> /\ runs' = runs /\ (Persist \/ disk' = disk)
    BY DEF Release, memory, registry, row
  <1>2. disk'.proc = proc
    BY <1>1, PersistProc
  <1>3. CASE Goto(t, "kill", "release", s) /\ state' = [state EXCEPT ![s] = "done"]
    <2>1. /\ \A x \in Sid : state'[x] \in {"unused", "starting"} => state[x] \in {"unused", "starting"}
          /\ \A x \in Sid : state'[x] = state[x] \/ (x = s /\ state'[x] = "done")
          /\ \A p \in Shell : runs'[p] \in {runs[p], Nobody}
      BY <1>1, <1>3, OneRow
    <2>2. ShellThread("kill", "release", s, runs', known) /\ "kill" \in PC /\ "release" \in Op
      BY DEF ShellThread, PC, Op
    <2> QED BY <1>1, <1>2, <1>3, <2>1, <2>2, ShellMoves
  <1>4. CASE Finish(t) /\ state' = state
    <2>1. \A p \in Shell : runs'[p] \in {runs[p], Nobody}
      BY <1>1
    <2> QED BY <1>1, <1>2, <1>4, <2>1, ShellFinish
  <1> QED BY <1>3, <1>4 DEF Release, registry, row

LEMMA ShellReap ==
  ASSUME Typed, Typed', ReservationInv, ShellInv, NEW t \in Caller, NEW h \in Handle, Reap(t, h)
  PROVE  ShellInv'
  <1> DEFINE s == locks[h]
  <1>1. s \in Sid /\ state[s] \notin {"unused", "removed"} /\ pc[t] = "idle"
    BY DEF Reap, Calls, Typed, RegistryType, ReservationInv, LocksWell
  <1>2. UNCHANGED <<proc, known>> /\ runs' = runs /\ Persist
    BY DEF Reap, memory
  <1>3. disk'.proc = proc
    BY <1>2, PersistProc
  <1>4. \/ UNCHANGED <<state, threads>>
        \/ state' = [state EXCEPT ![s] = "done"] /\ Goto(t, "kill", "reap", s)
    BY DEF Reap
  <1> HIDE DEF s
  <1>5. /\ \A x \in Sid : state'[x] \in {"unused", "starting"} => state[x] \in {"unused", "starting"}
        /\ \A x \in Sid : state'[x] = state[x] \/ (x = s /\ state'[x] = "done")
        /\ \A p \in Shell : runs'[p] \in {runs[p], Nobody}
    BY <1>1, <1>2, <1>4, OneRow
  <1>6. CASE UNCHANGED <<state, threads>>
    BY <1>2, <1>3, <1>5, <1>6, ShellsStay
  <1>7. CASE Goto(t, "kill", "reap", s)
    <2>1. ShellThread("kill", "reap", s, runs', known) /\ "kill" \in PC /\ "reap" \in Op
      BY DEF ShellThread, PC, Op
    <2> QED BY <1>1, <1>2, <1>3, <1>5, <1>7, <2>1, ShellMoves
  <1> QED BY <1>4, <1>6, <1>7

LEMMA ShellPark ==
  ASSUME Typed, Typed', ShellInv, NEW t \in Caller, NEW s \in Sid, Park(t, s)
  PROVE  ShellInv'
  <1>1. /\ UNCHANGED <<proc, known, threads>> /\ runs' = runs /\ Persist
        /\ state' = [state EXCEPT ![s] = "parked"]
    BY DEF Park, memory
  <1>2. disk'.proc = proc
    BY <1>1, PersistProc
  <1>3. /\ \A x \in Sid : state'[x] \in {"unused", "starting"} => state[x] \in {"unused", "starting"}
        /\ \A x \in Sid : state'[x] = state[x] \/ (x = s /\ state'[x] = "parked")
        /\ \A p \in Shell : runs'[p] \in {runs[p], Nobody}
    BY <1>1, OneRow
  <1> QED BY <1>1, <1>2, <1>3, ShellsStay DEF LiveState

\* Ending one shell, the only one a session has, leaves the session bare.
LEMMA EndedIsBare ==
  ASSUME Typed, ShellInv, NEW s \in Sid,
         runs' = IF ShellOf(s) = Nobody THEN runs ELSE Killed(ShellOf(s))
  PROVE  Bare(s, runs') /\ \A p \in Shell : runs'[p] \in {runs[p], Nobody}
  <1>1. ShellOf(s) \in Shell \cup {Nobody}
    BY DEF ShellOf, Typed, RegistryType, MemoryType
  <1>2. \A p \in Shell : runs'[p] = IF p = ShellOf(s) THEN Nobody ELSE runs[p]
    BY <1>1, NobodyIsNoSid DEF Killed, Typed, MemoryType
  <1>3. ASSUME NEW p \in Shell, runs'[p] = s PROVE FALSE
    <2>1. runs[p] = s /\ p # ShellOf(s)
      BY <1>2, <1>3, NobodyIsNoSid
    <2> QED BY <2>1, ShellIs, NobodyIsNoSid DEF ShellPlaced
  <1> QED BY <1>2, <1>3 DEF Bare

LEMMA ShellKill ==
  ASSUME Typed, Typed', ShellInv, NEW t \in Caller, KillSession(t)
  PROVE  ShellInv'
  <1> DEFINE s == on[t]
  <1>1. s \in Sid /\ pc[t] = "kill"
    BY DEF KillSession, Typed, ThreadsType
  <1>2. UNCHANGED <<proc, known, state, disk>> /\ disk'.proc = proc
    BY DEF KillSession, registry, row, memory, ShellInv
  <1>3. runs' = IF ShellOf(s) = Nobody THEN runs ELSE Killed(ShellOf(s))
    BY DEF KillSession, ShellOf
  <1>4. Goto(t, "unlock", "release", s) \/ Finish(t)
    BY DEF KillSession
  <1> HIDE DEF s
  <1>5. Bare(s, runs') /\ \A p \in Shell : runs'[p] \in {runs[p], Nobody}
    BY <1>1, <1>3, EndedIsBare
  <1>6. CASE Goto(t, "unlock", "release", s)
    <2>1. ShellThread("unlock", "release", s, runs', known) /\ "unlock" \in PC /\ "release" \in Op
      BY DEF ShellThread, PC, Op
    <2>2. pc[t] = "kill" => Bare(on[t], runs')
      BY <1>5 DEF s
    <2> QED BY <1>1, <1>2, <1>5, <1>6, <2>1, <2>2, ShellMoves
  <1>7. CASE Finish(t)
    <2>1. pc[t] = "kill" => Bare(on[t], runs')
      BY <1>5 DEF s
    <2> QED BY <1>1, <1>2, <1>5, <1>7, <2>1, ShellFinish
  <1> QED BY <1>4, <1>6, <1>7

LEMMA ShellUnlock ==
  ASSUME Typed, Typed', ShellInv, NEW t \in Caller,
         ReleaseUnlock(t) \/ ResumeNoOp(t) \/ ResumeClosedRefuse(t) \/ SweepPass(t)
  PROVE  ShellInv'
  <1>1. /\ UNCHANGED <<proc, known, state>> /\ runs' = runs /\ (Persist \/ disk' = disk)
        /\ Finish(t) /\ pc[t] \in {"unlock", "resume", "closed", "sweep"}
    BY DEF ReleaseUnlock, ResumeNoOp, ResumeClosedRefuse, SweepPass, registry, row, memory
  <1>2. disk'.proc = proc
    BY <1>1, PersistProc
  <1>3. \A p \in Shell : runs'[p] \in {runs[p], Nobody}
    BY <1>1
  <1> QED BY <1>1, <1>2, <1>3, ShellFinish

-----------------------------------------------------------------------------
(* resume *)

LEMMA ShellLook ==
  ASSUME Typed, Typed', ShellInv, NEW t \in Caller,
         \/ \E h \in Handle : ResumeCall(t, h)
         \/ \E s \in Sid : UpdaterResume(t, s) \/ SweepLook(t, s)
  PROVE  ShellInv'
  <1>1. /\ UNCHANGED <<proc, known, state>> /\ runs' = runs /\ (Persist \/ disk' = disk)
        /\ pc[t] = "idle"
    BY DEF ResumeCall, UpdaterResume, SweepLook, Calls, registry, row, memory
  <1>2. disk'.proc = proc
    BY <1>1, PersistProc
  <1>3. \A p \in Shell : runs'[p] \in {runs[p], Nobody}
    BY <1>1
  <1>4. ASSUME NEW h \in Handle, BeginResume(t, h) \/ BeginClosed(t, h)
        PROVE  \E s \in Sid : \/ Goto(t, "resume", "resume", s)
                              \/ Goto(t, "closed", "resume_closed", s)
    BY <1>4, ResumeBegins
  <1>5. \E s \in Sid : \/ Goto(t, "resume", "resume", s) \/ Goto(t, "sweep", "none", s)
                       \/ Goto(t, "closed", "resume_closed", s)
    <2>1. CASE \E h \in Handle : ResumeCall(t, h)
      BY <1>4, <2>1 DEF ResumeCall
    <2>2. CASE \E s \in Sid : UpdaterResume(t, s)
      BY <1>4, <2>2, SidHandle DEF UpdaterResume
    <2>3. CASE \E s \in Sid : SweepLook(t, s)
      BY <2>3 DEF SweepLook
    <2> QED BY <2>1, <2>2, <2>3
  <1>6. ASSUME NEW s \in Sid, NEW w \in {"resume", "sweep", "closed"},
               NEW o \in {"resume", "none", "resume_closed"}, Goto(t, w, o, s)
        PROVE  ShellInv'
    <2>1. ShellThread(w, o, s, runs', known) /\ w \in PC /\ o \in Op
      BY DEF ShellThread, PC, Op
    <2>2. s \in Sid \cup {Nobody}
      OBVIOUS
    <2> QED BY <1>1, <1>2, <1>3, <1>6, <2>1, <2>2, ShellMoves
  <1> QED BY <1>5, <1>6

\* A closed session that takes its seat again has no shell: the thread that
\* closed it, and would kill one, is gone from its handle.
LEMMA ShellResumeClosed ==
  ASSUME Typed, Typed', ReservationInv, SeatInv, ShellInv, NEW t \in Caller, ResumeClosed(t)
  PROVE  ShellInv'
  <1>1. PICK s \in DoneRows(HandleOf(on[t])) :
          state' = [state EXCEPT ![s] = "resuming"] /\ Goto(t, "launch", "resume_closed", s)
    BY DEF ResumeClosed
  <1>2. s \in Sid /\ HandleOf(s) = HandleOf(on[t]) /\ state[s] = "done"
    BY <1>1 DEF DoneRows
  <1>3. UNCHANGED <<proc, known>> /\ runs' = runs /\ Persist /\ pc[t] = "closed"
    BY DEF ResumeClosed, memory
  <1>4. disk'.proc = proc
    BY <1>3, PersistProc
  <1>5. op[t] = "resume_closed"
    BY <1>3 DEF SeatInv, SeatThreads, SeatThread
  <1>6. ~Stands("kill", s, pc, on)
    BY <1>2, <1>3, <1>5 DEF Stands, SeatInv, SeatThreads, Secluded
  <1>7. Bare(s, runs)
    <2> SUFFICES ASSUME NEW p \in Shell, runs[p] = s PROVE FALSE
      BY DEF Bare
    <2> QED BY <1>2, <1>6, ShellIs, NobodyIsNoSid DEF ShellPlaced, LiveState
  <1>8. /\ \A x \in Sid : state'[x] \in {"unused", "starting"} => state[x] \in {"unused", "starting"}
        /\ \A x \in Sid : state'[x] = state[x] \/ (x = s /\ state'[x] = "resuming")
        /\ \A p \in Shell : runs'[p] \in {runs[p], Nobody}
    BY <1>1, <1>2, <1>3, OneRow
  <1>9. /\ ShellThread("launch", "resume_closed", s, runs', known)
        /\ "launch" \in PC /\ "resume_closed" \in Op
    BY <1>3, <1>7 DEF ShellThread, PC, Op
  <1> QED BY <1>1, <1>2, <1>3, <1>4, <1>7, <1>8, <1>9, ShellMoves

LEMMA ShellResume ==
  ASSUME Typed, Typed', ShellInv, NEW t \in Caller, ResumeRestore(t) \/ ResumeFork(t)
  PROVE  ShellInv'
  <1>1. PICK s \in Sid : s = on[t] /\ pc[t] = "resume"
    BY DEF ResumeRestore, ResumeFork, Typed, ThreadsType
  <1>2. UNCHANGED <<proc, known>> /\ runs' = runs /\ (Persist \/ disk' = disk)
    BY DEF ResumeRestore, ResumeFork, memory
  <1>3. disk'.proc = proc
    BY <1>2, PersistProc
  <1>4. CASE ResumeRestore(t)
    <2>1. state' = [state EXCEPT ![s] = "active"] /\ Finish(t)
      BY <1>1, <1>4 DEF ResumeRestore
    <2>2. /\ \A x \in Sid : state'[x] \in {"unused", "starting"} => state[x] \in {"unused", "starting"}
          /\ \A x \in Sid : state'[x] = state[x] \/ (x = s /\ state'[x] = "active")
          /\ \A p \in Shell : runs'[p] \in {runs[p], Nobody}
      BY <1>2, <2>1, OneRow
    <2> QED BY <1>1, <1>2, <1>3, <2>1, <2>2, ShellFinish DEF LiveState
  <1>5. CASE ResumeFork(t)
    <2>1. /\ state' = [state EXCEPT ![s] = "resuming"] /\ Goto(t, "launch", "resume", s)
          /\ ~ParkedShellAlive(s)
      BY <1>1, <1>5 DEF ResumeFork
    <2>2. /\ \A x \in Sid : state'[x] \in {"unused", "starting"} => state[x] \in {"unused", "starting"}
          /\ \A x \in Sid : state'[x] = state[x] \/ (x = s /\ state'[x] = "resuming")
          /\ \A p \in Shell : runs'[p] \in {runs[p], Nobody}
      BY <1>2, <2>1, OneRow
    <2>3. ~Lives(ShellOf(s))
      BY <2>1 DEF ParkedShellAlive, ShellOf, Probe, Lives
    <2>4. Bare(s, runs')
      BY <1>2, <2>3, BareIfGone
    <2>5. ShellThread("launch", "resume", s, runs', known) /\ "launch" \in PC /\ "resume" \in Op
      BY <2>4 DEF ShellThread, PC, Op
    <2> QED BY <1>1, <1>2, <1>3, <2>1, <2>2, <2>4, <2>5, ShellMoves
  <1> QED BY <1>4, <1>5

\* A resume that failed has no shell to lose.
LEMMA ShellResumeFails ==
  ASSUME Typed, Typed', ShellInv, NEW t \in Caller, ResumeFails(t) \/ ResumeClosedFails(t)
  PROVE  ShellInv'
  <1>1. PICK s \in Sid : s = on[t] /\ pc[t] = "failed"
    BY DEF ResumeFails, ResumeClosedFails, Typed, ThreadsType
  <1>2. ShellThread(pc[t], op[t], s, runs, known)
    BY <1>1 DEF ShellInv
  <1>3. Bare(s, runs)
    BY <1>1, <1>2 DEF ShellThread
  <1>4. UNCHANGED <<proc, known>> /\ runs' = runs /\ Persist
    BY DEF ResumeFails, ResumeClosedFails, memory
  <1>5. disk'.proc = proc
    BY <1>4, PersistProc
  <1>6. CASE state' = [state EXCEPT ![s] = "done"] /\ Goto(t, "kill", "reap", s)
    <2>1. /\ \A x \in Sid : state'[x] \in {"unused", "starting"} => state[x] \in {"unused", "starting"}
          /\ \A x \in Sid : state'[x] = state[x] \/ (x = s /\ state'[x] = "done")
          /\ \A p \in Shell : runs'[p] \in {runs[p], Nobody}
      BY <1>4, <1>6, OneRow
    <2>2. ShellThread("kill", "reap", s, runs', known) /\ "kill" \in PC /\ "reap" \in Op
      BY DEF ShellThread, PC, Op
    <2> QED BY <1>1, <1>4, <1>5, <1>6, <2>1, <2>2, ShellMoves
  <1>7. CASE state' = [state EXCEPT ![s] = "parked"] /\ Finish(t)
    <2>1. /\ \A x \in Sid : state'[x] \in {"unused", "starting"} => state[x] \in {"unused", "starting"}
          /\ \A x \in Sid : state'[x] = state[x] \/ (x = s /\ state'[x] = "parked")
          /\ \A p \in Shell : runs'[p] \in {runs[p], Nobody}
      BY <1>4, <1>7, OneRow
    <2> QED BY <1>1, <1>4, <1>5, <1>7, <2>1, ShellFinish DEF LiveState
  <1>8. CASE state' = [state EXCEPT ![s] = "done"] /\ Finish(t)
    <2>1. /\ \A x \in Sid : state'[x] \in {"unused", "starting"} => state[x] \in {"unused", "starting"}
          /\ \A x \in Sid : state'[x] = state[x] \/ (x = s /\ state'[x] = "done")
          /\ \A p \in Shell : runs'[p] \in {runs[p], Nobody}
      BY <1>4, <1>8, OneRow
    <2> QED BY <1>1, <1>3, <1>4, <1>5, <1>8, <2>1, ShellFinish
  <1> QED BY <1>1, <1>6, <1>7, <1>8 DEF ResumeFails, ResumeClosedFails

-----------------------------------------------------------------------------
(* Steps without the mutex, and a restart *)

LEMMA ShellMark ==
  ASSUME Typed, Typed', ShellInv, NEW t \in Caller, SweepMark(t)
  PROVE  ShellInv'
  <1>1. PICK s \in Sid : s = on[t] /\ pc[t] = "sweep"
    BY DEF SweepMark, Typed, ThreadsType
  <1>2. UNCHANGED <<proc, known>> /\ Persist /\ Finish(t)
    BY DEF SweepMark, memory
  <1>3. disk'.proc = proc
    BY <1>2, PersistProc
  <1>4. Bare(s, runs') /\ \A p \in Shell : runs'[p] \in {runs[p], Nobody}
    <2>1. CASE runs' = Killed(known[s])
      <3>1. ShellOf(s) # Nobody /\ ShellOf(s) = known[s]
        BY <1>1 DEF SweepMark, ShellOf
      <3> QED BY <2>1, <3>1, EndedIsBare
    <2>2. CASE ~Lives(known[s]) /\ runs' = runs
      <3>1. ~Lives(ShellOf(s))
        BY <1>1, <2>2 DEF SweepMark, ShellOf
      <3> QED BY <2>2, <3>1, BareIfGone
    <2> QED BY <1>1, <2>1, <2>2 DEF SweepMark
  <1>5. \A x \in Sid : /\ state'[x] \in {"unused", "starting"} => state[x] \in {"unused", "starting"}
                       /\ state'[x] = state[x] \/ x = s
    BY <1>1 DEF SweepMark, Typed, RegistryType
  <1>6. \A x \in Sid : Bare(x, runs') \/ state'[x] = state[x]
    BY <1>4, <1>5
  <1> QED BY <1>1, <1>2, <1>3, <1>4, <1>5, <1>6, ShellFinish

LEMMA ShellEnds ==
  ASSUME Typed, Typed', ShellInv,
         (\E p \in Shell : ShellExits(p)) \/ UpdaterEnds \/ UNCHANGED vars
  PROVE  ShellInv'
  <1>1. UNCHANGED <<proc, known, threads, state, disk>> /\ disk'.proc = proc
    BY DEF ShellExits, UpdaterEnds, vars, registry, row, memory, threads, ShellInv
  <1>2. \A p \in Shell : runs'[p] \in {runs[p], Nobody}
    BY DEF ShellExits, UpdaterEnds, vars, Killed, Typed, MemoryType
  <1> QED BY <1>1, <1>2, ShellsStay

\* Every shell that survives the pool is the one the state file names.
LEMMA ShellRestart ==
  ASSUME "restart" \notin Ops, Typed, Typed', SeatInv, ShellInv, Restart
  PROVE  ShellInv'
  <1>1. PICK S \in SUBSET {p \in Shell : Lives(p)} :
          /\ runs' = [p \in Shell |-> IF p \in S THEN runs[p] ELSE Nobody]
          /\ state' = [s \in Sid |-> IF s \in Interrupted(S) THEN "dead" ELSE disk.state[s]]
    BY DEF Restart
  <1>2. /\ proc' = proc /\ known' = [s \in Sid |-> Nobody] /\ disk'.proc = proc'
        /\ pc' = [t \in Caller |-> "idle"]
    BY DEF Restart, Persist, ShellInv
  <1>3. \A t \in Caller : pc[t] \notin {"launched", "kill"}
    BY DEF Restart
  <1>4. \A s \in Sid : ~Stands("launched", s, pc, on) /\ ~Stands("kill", s, pc, on)
    BY <1>3 DEF Stands
  <1>5. \A s \in Sid : \/ disk.state[s] = state[s]
                       \/ state[s] = "resuming" /\ disk.state[s] \in {"active", "parked", "dead"}
    BY DEF SeatInv, DiskFollows
  <1>6. ASSUME NEW s \in Sid, state'[s] \in {"unused", "starting"} PROVE proc'[s] = Nobody
    BY <1>1, <1>2, <1>5, <1>6 DEF ShellInv
  <1>7. ASSUME NEW p \in Shell, Lives(p)' PROVE ShellPlaced(p)'
    <2> DEFINE s == runs[p]
    <2>1. p \in S /\ runs'[p] = s /\ s # Nobody
      BY <1>1, <1>7 DEF Lives
    <2>2. s \in Sid /\ ShellPlaced(p)
      BY <2>1, ShellIs
    <2>3. proc[s] = p /\ state[s] \in LiveState /\ state[s] # "resuming"
      BY <1>4, <2>2 DEF ShellPlaced
    <2>4. s \notin Interrupted(S)
      BY <2>1, <2>3 DEF Interrupted, ShellInv
    <2> HIDE DEF s
    <2>5. state'[s] = state[s] /\ known'[s] = Nobody
      BY <1>1, <1>2, <1>5, <2>2, <2>3, <2>4
    <2> QED BY <1>2, <2>1, <2>3, <2>5 DEF ShellPlaced, ShellOf
  <1>8. \A t \in Caller : ShellThread(pc'[t], op'[t], on'[t], runs', known')
    BY <1>2 DEF ShellThread
  <1> QED BY <1>2, <1>6, <1>7, <1>8 DEF ShellInv

-----------------------------------------------------------------------------

LEMMA ShellNext ==
  ASSUME ShellAssumption, Typed, ReservationInv, SeatInv, ShellInv, [Next]_vars
  PROVE  ShellInv'
  <1> USE DEF ShellAssumption
  <1>t. Typed'
    BY TypeNext
  <1>n. \A t \in Caller : /\ ~ReconcileMark(t) /\ ~ReconcileCheck(t)
                          /\ ~ReconcileDelete(t) /\ ~ReconcileSave(t)
                          /\ \A s \in Sid : ~ReconcileLook(t, s)
    BY NobodyReconciles DEF SeatAssumption
  <1>1. ASSUME NEW t \in Caller, Call(t) PROVE ShellInv'
    <2>1. ASSUME NEW h \in Handle,
                 SpawnAdmit(t, h) \/ SpawnRefuse(t, h) \/ Reap(t, h) \/ ResumeCall(t, h)
          PROVE  ShellInv'
      BY <1>t, <2>1, ShellSpawnAdmit, ShellSpawnRefuse, ShellReap, ShellLook
    <2>2. ASSUME NEW s \in Sid,
                 ReleaseCall(t, s) \/ Park(t, s) \/ UpdaterResume(t, s) \/ SweepLook(t, s)
          PROVE  ShellInv'
      <3>1. CASE ReleaseCall(t, s)
        BY <1>t, <3>1, ShellRelease DEF ReleaseCall, Calls
      <3> QED BY <1>t, <2>2, <3>1, ShellPark, ShellLook
    <2> QED BY <1>n, <1>1, <2>1, <2>2 DEF Call
  <1>2. ASSUME NEW t \in Caller, Continue(t) PROVE ShellInv'
    <2>1. CASE ReleaseAfterLaunch(t)
      <3>1. on[t] \in Sid
        BY <2>1 DEF ReleaseAfterLaunch, Typed, ThreadsType
      <3> QED BY <1>t, <2>1, <3>1, ShellRelease DEF ReleaseAfterLaunch
    <2> QED BY <1>t, <1>n, <1>2, <2>1, ShellLaunchReturns, ShellLaunchRaises, ShellRegisters, ShellKill,
               ShellUnlock, ShellResume, ShellResumeClosed, ShellResumeFails, ShellMark DEF Continue
  <1> QED BY <1>t, <1>1, <1>2, ShellEnds, ShellRestart DEF Next

LEMMA AlwaysShellInv ==
  ASSUME ShellAssumption
  PROVE  Spec => [](Typed /\ SeatInv /\ ShellInv)
  <1>1. Init => Typed /\ ReservationInv /\ SeatInv /\ ShellInv
    BY TypeInit, ReservationInit, SeatInvInit, ShellInit
  <1>2. Typed /\ ReservationInv /\ SeatInv /\ ShellInv /\ [Next]_vars
          => (Typed /\ ReservationInv /\ SeatInv /\ ShellInv)'
    BY TypeNext, ReservationNext, SeatNext, ShellNext DEF SeatAssumption, ShellAssumption
  <1> QED BY <1>1, <1>2, PTL DEF Spec

\* Two shells never work on one handle, but for one whose close is about to kill
\* it: a row that keeps a shell keeps the handle's lock, and a resume or a spawn
\* launches only where the last shell is gone (_admit_handle_locked, resume,
\* _parked_shell_alive).
THEOREM ShellsOnePerHandle ==
  ASSUME ShellAssumption
  PROVE  Spec => []OneShellPerHandle
  <1>1. ASSUME Typed, SeatInv, ShellInv PROVE OneShellPerHandle
    <2> SUFFICES ASSUME NEW p \in Shell, NEW q \in Shell, Lives(p), Lives(q),
                        HandleOf(runs[p]) = HandleOf(runs[q]), ~BeingKilled(p), ~BeingKilled(q)
                 PROVE  p = q
      BY DEF OneShellPerHandle
    <2>1. /\ runs[p] \in Sid /\ p = ShellOf(runs[p]) /\ state[runs[p]] \in LiveState
          /\ runs[q] \in Sid /\ q = ShellOf(runs[q]) /\ state[runs[q]] \in LiveState
      BY <1>1, ShellIs DEF Lives, ShellPlaced, Stands, BeingKilled
    <2>2. locks[HandleOf(runs[p])] = runs[p] /\ locks[HandleOf(runs[q])] = runs[q]
      BY <1>1, <2>1, KeepsCases DEF SeatInv, SeatsLocked
    <2>3. runs[p] = runs[q]
      BY <2>2
    <2> QED BY <2>1, <2>3
  <1> QED BY <1>1, AlwaysShellInv, PTL

\* Every shell that runs is the one the spawner or its row names, and that of a
\* closed session runs only until the thread that closed it kills it
\* (spawner.launch, release, _kill_session, load_state, mark_interrupted).
THEOREM ShellsAreKnown ==
  ASSUME ShellAssumption
  PROVE  Spec => []NoShellIsLost
  <1>1. ASSUME Typed, SeatInv, ShellInv PROVE NoShellIsLost
    <2> SUFFICES ASSUME NEW p \in Shell, Lives(p)
                 PROVE  /\ p \in {known[runs[p]], proc[runs[p]]}
                        /\ state[runs[p]] = "done" => BeingKilled(p)
      BY DEF NoShellIsLost
    <2>1. ShellPlaced(p)
      BY <1>1, ShellIs DEF Lives
    <2> QED BY <2>1 DEF ShellPlaced, ShellOf, LiveState, Stands, BeingKilled
  <1> QED BY <1>1, AlwaysShellInv, PTL

=============================================================================
