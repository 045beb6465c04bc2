-------------------------- MODULE InferenceLaneProofs --------------------------
(***************************************************************************)
(* Theorems about the lane, for any number of callers, any priorities,     *)
(* ages and give-ups, and in every world: callers that are killed anywhere,*)
(* holders that sleep past their lease, tickets that go cold.              *)
(* The only way to two callers in their turn is a lock that is made while  *)
(* another caller is between its look at a lock and its removal by path;   *)
(* and where nobody is killed or sleeps, that never happens.               *)
(***************************************************************************)
EXTENDS InferenceLane, TLAPS

LaneTypes ==
  /\ lock \in [dir: BOOLEAN, holder: Caller \cup {NoOne}, stale: BOOLEAN]
  /\ pc \in [Caller -> PC]
  /\ reclaimed \subseteq Caller /\ raced \in BOOLEAN
  /\ world \in Worlds

Awake == Inside \ reclaimed

\* While a caller that made a lock has not yet put its name into it, the lock
\* is there, empty and new, and nobody is in its turn or clears a lock.
WriterIsAlone ==
  \A p \in Caller : pc[p] = "write" =>
    /\ lock.dir /\ lock.holder = NoOne /\ ~lock.stale
    /\ Awake = {}
    /\ \A q \in Caller : pc[q] \notin Clearing /\ (pc[q] = "write" => q = p)

\* While a caller is in its turn the lock names it, and whoever would clear it
\* has not begun: a reclaim takes the turn away with the file it unlinks.
HolderIsAlone ==
  \A p \in Awake :
    /\ lock.dir /\ lock.holder = p
    /\ \A q \in Caller : pc[q] \notin {"write", "rmdir", "remove", "rmdir_own"}

LaneInv == LaneTypes /\ (raced \/ (WriterIsAlone /\ HolderIsAlone))

-----------------------------------------------------------------------------
(* Mutual exclusion *)

LEMMA LaneInit == Init => LaneInv
  <1> SUFFICES ASSUME Init PROVE LaneInv
    OBVIOUS
  <1>1. LaneTypes
    BY DEF Init, LaneTypes, NoLock, PC, Waiting
  <1>2. \A p \in Caller : pc[p] = "idle"
    BY DEF Init
  <1> QED BY <1>1, <1>2 DEF LaneInv, WriterIsAlone, HolderIsAlone, Awake, Inside

\* The types that do not concern the queue.
LEMMA LaneTypesNext == LaneTypes /\ [Next]_vars => LaneTypes'
  <1> SUFFICES ASSUME LaneTypes, [Next]_vars PROVE LaneTypes'
    OBVIOUS
  <1> DEFINE Locks == [dir: BOOLEAN, holder: Caller \cup {NoOne}, stale: BOOLEAN]
  <1>1. ASSUME NEW p \in Caller, NEW label \in PC, Goto(p, label), lock' \in Locks,
               reclaimed' \subseteq Caller, raced' \in BOOLEAN, world' = world
        PROVE  LaneTypes'
    BY <1>1 DEF LaneTypes, Goto
  <1>2. /\ NoLock \in Locks /\ lock \in Locks /\ LockAfterRmdir \in Locks
        /\ LockAfterUnlink \in Locks /\ [NoLock EXCEPT !.dir = TRUE] \in Locks
        /\ reclaimed \subseteq Caller /\ raced \in BOOLEAN
    BY DEF NoLock, LockAfterRmdir, LockAfterUnlink, LaneTypes
  <1>3. /\ \A c \in Caller \cup {NoOne} : [lock EXCEPT !.holder = c] \in Locks
        /\ \A b \in BOOLEAN : [lock EXCEPT !.stale = b] \in Locks
    BY DEF LaneTypes
  <1> HIDE DEF Locks
  <1>4. ASSUME NEW p \in Caller, Acquire(p) PROVE LaneTypes'
    <2>1. CASE NameTicket(p) \/ Enqueue(p) \/ LookAtLock(p) \/ GiveUp(p)
      BY <1>1, <1>2, <2>1 DEF NameTicket, Enqueue, LookAtLock, GiveUp, history, PC, Waiting
    <2>2. CASE Poll(p)
      BY <1>1, <1>2, <2>2 DEF Poll, history, PC, Waiting
    <2>3. CASE ReclaimFile(p)
      <3>1. /\ lock' = LockAfterUnlink /\ Goto(p, "rmdir") /\ world' = world
            /\ reclaimed' \subseteq Caller /\ raced' = raced
        BY <1>2, <2>3 DEF ReclaimFile, Inside
      <3> QED BY <1>1, <1>2, <3>1 DEF PC, Waiting
    <2>4. CASE ReclaimDir(p)
      BY <1>1, <1>2, <2>4 DEF ReclaimDir, history, PC, Waiting
    <2>5. CASE Take(p)
      BY <1>1, <1>2, <2>5 DEF Take, PC, Waiting
    <2>6. CASE WriteHolder(p)
      BY <1>1, <1>2, <1>3, <2>6 DEF WriteHolder, PC, Waiting
    <2> QED BY <1>4, <2>1, <2>2, <2>3, <2>4, <2>5, <2>6 DEF Acquire
  <1>5. ASSUME NEW p \in Caller, Release(p) PROVE LaneTypes'
    BY <1>1, <1>2, <1>5 DEF Release, ReadLease, RemoveFile, RemoveDir, history, PC
  <1>6. ASSUME NEW p \in Caller, Killed(p) PROVE LaneTypes'
    BY <1>1, <1>2, <1>6 DEF Killed, history, PC
  <1>7. CASE \/ \E p \in Caller : Touch(p) \/ TicketGoesCold(p) \/ TicketAges(p)
             \/ LockGoesStale(world.stalls) \/ ClockTicks \/ UNCHANGED vars
    <2>1. UNCHANGED <<pc, reclaimed, raced, world>>
      BY <1>7 DEF Touch, TicketGoesCold, TicketAges, LockGoesStale, ClockTicks, vars, history
    <2>2. lock' = lock \/ \E b \in BOOLEAN : lock' = [lock EXCEPT !.stale = b]
      BY <1>7 DEF Touch, TicketGoesCold, TicketAges, LockGoesStale, ClockTicks, vars
    <2>3. lock' \in Locks
      BY <1>2, <1>3, <2>2
    <2> QED BY <2>1, <2>3 DEF LaneTypes, Locks
  <1> QED BY <1>4, <1>5, <1>6, <1>7 DEF Next

\* Steps that leave the lock alone and bring no caller where it makes, has or
\* clears one: into a turn, or into a removal.
LEMMA ElsewhereKeeps ==
  ASSUME LaneInv, LaneTypes', NEW p \in Caller, NEW label \in PC, Goto(p, label),
         label \notin {"write", "inside", "remove", "rmdir_own", "rmdir"},
         label = "reclaim" => lock.stale,
         UNCHANGED <<lock, history>>
  PROVE  LaneInv'
  <1>1. \A q \in Caller : pc'[q] = IF q = p THEN label ELSE pc[q]
    BY DEF Goto, LaneInv, LaneTypes
  <1>2. Awake' \subseteq Awake
    BY <1>1 DEF Awake, Inside, history
  <1> QED BY <1>1, <1>2 DEF LaneInv, WriterIsAlone, HolderIsAlone, Clearing, history

LEMMA AcquireKeeps ==
  ASSUME LaneInv, LaneTypes', NEW p \in Caller, Acquire(p)
  PROVE  LaneInv'
  <1>0. /\ pc \in [Caller -> PC] /\ raced \in BOOLEAN
        /\ lock \in [dir: BOOLEAN, holder: Caller \cup {NoOne}, stale: BOOLEAN]
    BY DEF LaneInv, LaneTypes
  <1>1. CASE NameTicket(p) \/ Enqueue(p) \/ GiveUp(p)
    BY <1>1, ElsewhereKeeps DEF NameTicket, Enqueue, GiveUp, PC, Waiting
  <1>2. CASE Poll(p)
    <2>1. PICK label \in {"look", "wait"} : Goto(p, label)
      BY <1>2 DEF Poll
    <2> QED BY <1>2, <2>1, ElsewhereKeeps DEF Poll, PC, Waiting
  <1>3. CASE LookAtLock(p)
    <2>1. PICK label \in {"reclaim", "take"} : Goto(p, label) /\ (label = "reclaim" => lock.stale)
      BY <1>3 DEF LookAtLock
    <2> QED BY <1>3, <2>1, ElsewhereKeeps DEF LookAtLock, PC, Waiting
  <1>4. CASE ReclaimFile(p)
    <2>1. /\ pc[p] = "reclaim" /\ raced' = raced
          /\ reclaimed' = reclaimed \cup (Inside \cap {lock.holder})
          /\ \A q \in Caller : pc'[q] = IF q = p THEN "rmdir" ELSE pc[q]
      BY <1>0, <1>4 DEF ReclaimFile, Goto
    <2>2. raced \/ Awake' = {}
      BY <2>1 DEF LaneInv, HolderIsAlone, Awake, Inside
    <2>3. raced \/ \A q \in Caller : pc'[q] # "write"
      BY <2>1 DEF LaneInv, WriterIsAlone, Clearing
    <2> QED BY <2>1, <2>2, <2>3 DEF LaneInv, WriterIsAlone, HolderIsAlone
  <1>5. CASE ReclaimDir(p)
    <2>1. /\ pc[p] = "rmdir" /\ UNCHANGED <<reclaimed, raced>>
          /\ \A q \in Caller : pc'[q] = IF q = p THEN "take" ELSE pc[q]
      BY <1>0, <1>5 DEF ReclaimDir, Goto, history
    <2>2. raced \/ (Awake' = {} /\ \A q \in Caller : pc'[q] # "write")
      BY <2>1 DEF LaneInv, WriterIsAlone, HolderIsAlone, Clearing, Awake, Inside
    <2> QED BY <2>1, <2>2 DEF LaneInv, WriterIsAlone, HolderIsAlone
  <1>6. CASE Take(p)
    <2>1. CASE lock.dir
      <3>1. Goto(p, "wait") /\ UNCHANGED <<lock, history>>
        BY <1>6, <2>1 DEF Take, history
      <3> QED BY <3>1, ElsewhereKeeps DEF PC, Waiting
    <2>2. CASE ~lock.dir
      <3>1. /\ pc[p] = "take" /\ reclaimed' = reclaimed
            /\ lock' = [dir |-> TRUE, holder |-> NoOne, stale |-> FALSE]
            /\ raced' = (raced \/ \E q \in Caller : pc[q] \in Clearing)
            /\ \A q \in Caller : pc'[q] = IF q = p THEN "write" ELSE pc[q]
        BY <1>0, <1>6, <2>2 DEF Take, Goto, NoLock
      <3>2. raced \/ (Awake = {} /\ \A q \in Caller : pc[q] # "write")
        BY <2>2 DEF LaneInv, WriterIsAlone, HolderIsAlone
      <3>3. Awake' \subseteq Awake
        BY <3>1 DEF Awake, Inside
      <3>4. raced' \/ (WriterIsAlone' /\ HolderIsAlone')
        BY <3>1, <3>2, <3>3 DEF WriterIsAlone, HolderIsAlone, Clearing
      <3> QED BY <3>4 DEF LaneInv
    <2> QED BY <2>1, <2>2
  <1>7. CASE WriteHolder(p)
    <2>1. CASE ~lock.dir
      <3>1. /\ pc[p] = "write" /\ UNCHANGED <<lock, raced>> /\ reclaimed' = reclaimed \ {p}
            /\ \A q \in Caller : pc'[q] = IF q = p THEN "idle" ELSE pc[q]
        BY <1>0, <1>7, <2>1 DEF WriteHolder, Goto
      <3>2. raced
        BY <2>1, <3>1 DEF LaneInv, WriterIsAlone
      <3> QED BY <3>1, <3>2 DEF LaneInv
    <2>2. CASE lock.dir
      <3>1. /\ pc[p] = "write" /\ raced' = raced /\ reclaimed' = reclaimed \ {p}
            /\ lock' = [lock EXCEPT !.holder = p]
            /\ \A q \in Caller : pc'[q] = IF q = p THEN "inside" ELSE pc[q]
        BY <1>0, <1>7, <2>2 DEF WriteHolder, Goto
      <3>2. raced \/ Awake' = {p}
        BY <3>1 DEF LaneInv, WriterIsAlone, Awake, Inside
      <3>3. raced \/ \A q \in Caller : pc'[q] \notin Clearing \cup {"write"}
        BY <3>1 DEF LaneInv, WriterIsAlone, Clearing
      <3>4. lock'.dir /\ lock'.holder = p
        BY <1>0, <2>2, <3>1
      <3>5. raced' \/ (WriterIsAlone' /\ HolderIsAlone')
        BY <3>1, <3>2, <3>3, <3>4 DEF WriterIsAlone, HolderIsAlone, Clearing
      <3> QED BY <3>5 DEF LaneInv
    <2> QED BY <2>1, <2>2
  <1> QED BY <1>1, <1>2, <1>3, <1>4, <1>5, <1>6, <1>7 DEF Acquire

LEMMA ReleaseKeeps ==
  ASSUME LaneInv, LaneTypes', NEW p \in Caller, Release(p)
  PROVE  LaneInv'
  <1>0. /\ pc \in [Caller -> PC] /\ UNCHANGED <<reclaimed, raced>>
        /\ lock \in [dir: BOOLEAN, holder: Caller \cup {NoOne}, stale: BOOLEAN]
    BY DEF LaneInv, LaneTypes, Release, ReadLease, RemoveFile, RemoveDir, history
  <1>1. CASE ReadLease(p) /\ lock.holder # p
    <2>1. Goto(p, "idle") /\ UNCHANGED <<lock, history>>
      BY <1>1 DEF ReadLease
    <2> QED BY <2>1, ElsewhereKeeps DEF PC
  <1>2. CASE ReadLease(p) /\ lock.holder = p
    <2>1. /\ pc[p] = "inside" /\ lock' = lock
          /\ \A q \in Caller : pc'[q] = IF q = p THEN "remove" ELSE pc[q]
      BY <1>0, <1>2 DEF ReadLease, Goto
    <2>2. raced \/ (Awake' = {} /\ \A q \in Caller : pc'[q] # "write")
      BY <1>0, <1>2, <2>1, NoOneAssumption
      DEF LaneInv, WriterIsAlone, HolderIsAlone, Awake, Inside
    <2> QED BY <1>0, <2>2 DEF LaneInv, WriterIsAlone, HolderIsAlone
  <1>3. CASE RemoveFile(p) \/ RemoveDir(p)
    <2>1. /\ pc[p] \in {"remove", "rmdir_own"}
          /\ \E label \in {"rmdir_own", "idle"} :
               \A q \in Caller : pc'[q] = IF q = p THEN label ELSE pc[q]
      BY <1>0, <1>3 DEF RemoveFile, RemoveDir, Goto
    <2>2. raced \/ (Awake' = {} /\ \A q \in Caller : pc'[q] # "write")
      BY <1>0, <2>1 DEF LaneInv, WriterIsAlone, HolderIsAlone, Clearing, Awake, Inside
    <2> QED BY <1>0, <2>2 DEF LaneInv, WriterIsAlone, HolderIsAlone
  <1> QED BY <1>1, <1>2, <1>3 DEF Release

LEMMA LaneNext == LaneInv /\ [Next]_vars => LaneInv'
  <1> SUFFICES ASSUME LaneInv, [Next]_vars PROVE LaneInv'
    OBVIOUS
  <1>0. LaneTypes'
    BY LaneTypesNext DEF LaneInv
  <1>1. ASSUME NEW p \in Caller, Killed(p) PROVE LaneInv'
    BY <1>0, <1>1, ElsewhereKeeps DEF Killed, PC
  <1>2. ASSUME NEW p \in Caller, Touch(p) PROVE LaneInv'
    <2>1. /\ lock' = [lock EXCEPT !.stale = FALSE] /\ UNCHANGED <<pc, reclaimed, raced>>
      BY <1>2 DEF Touch, history
    <2>2. lock'.dir = lock.dir /\ lock'.holder = lock.holder /\ ~lock'.stale
      BY <2>1 DEF LaneInv, LaneTypes
    <2> QED BY <1>0, <2>1, <2>2 DEF LaneInv, WriterIsAlone, HolderIsAlone, Awake, Inside
  <1>3. CASE LockGoesStale(world.stalls)
    <2>1. /\ lock' = [lock EXCEPT !.stale = TRUE] /\ UNCHANGED <<pc, reclaimed, raced>>
          /\ \A p \in Caller : pc[p] # "write"
      BY <1>3 DEF LockGoesStale, Unattended, history, Inside
    <2>2. lock'.dir = lock.dir /\ lock'.holder = lock.holder
      BY <2>1 DEF LaneInv, LaneTypes
    <2> QED BY <1>0, <2>1, <2>2 DEF LaneInv, WriterIsAlone, HolderIsAlone, Awake, Inside
  <1>4. CASE \/ \E p \in Caller : TicketGoesCold(p) \/ TicketAges(p)
             \/ ClockTicks \/ UNCHANGED vars
    <2>1. UNCHANGED <<lock, pc, reclaimed, raced>>
      BY <1>4 DEF TicketGoesCold, TicketAges, ClockTicks, vars, history
    <2> QED BY <1>0, <2>1 DEF LaneInv, WriterIsAlone, HolderIsAlone, Awake, Inside
  <1> QED BY <1>0, <1>1, <1>2, <1>3, <1>4, AcquireKeeps, ReleaseKeeps DEF Next

\* One caller at most is in its turn, of those that have not lost their lock as
\* stale, in every world and however the steps of acquire and release
\* interleave, until a lock is made in the gap between another caller's look at
\* a lock and its removal by path (admission.py 62-70 and 143-156).
THEOREM TurnsAreExclusive == Spec => []OneHolder
  <1>1. LaneInv => OneHolder
    BY DEF LaneInv, HolderIsAlone, Awake, OneHolder, OneLane
  <1> QED BY <1>1, LaneInit, LaneNext, PTL DEF Spec

\* Until then, too, a caller in its turn finds the lock directory in place with
\* its own lease in it until it releases it, or a waiter that saw it stale takes
\* it away and with it the turn.
THEOREM TurnsKeepTheirLock == Spec => []HolderKeepsLock
  <1>1. LaneInv => HolderKeepsLock
    BY DEF LaneInv, HolderIsAlone, Awake, HolderKeepsLock
  <1> QED BY <1>1, LaneInit, LaneNext, PTL DEF Spec

-----------------------------------------------------------------------------
(***************************************************************************)
(* Where nobody is killed or sleeps, nobody sees a stale lock, and no lock *)
(* is made in that gap.                                                    *)
(***************************************************************************)

\* From the mkdir of a caller to its rmdir.
Owning == {"write", "inside", "remove", "rmdir_own"}

\* The directory is there exactly while one caller owns it.
OwnedByOne ==
  /\ ~raced /\ ~lock.stale /\ reclaimed = {}
  /\ lock.dir <=> \E p \in Caller : pc[p] \in Owning
  /\ \A p, q \in Caller : pc[p] \in Owning /\ pc[q] \in Owning => p = q
  /\ \A p \in Caller :
       /\ pc[p] \notin {"reclaim", "rmdir", "dead"}
       /\ pc[p] \in {"inside", "remove"} => lock.holder = p
       /\ pc[p] = "rmdir_own" => lock.holder = NoOne

LEMMA OwnedInit == Init => OwnedByOne
  BY DEF Init, OwnedByOne, Owning, NoLock

LEMMA OwnedElsewhere ==
  ASSUME LaneTypes, OwnedByOne, NEW p \in Caller, NEW label \in PC, Goto(p, label),
         pc[p] \notin Owning, label \notin Owning \cup {"reclaim", "rmdir", "dead"},
         UNCHANGED <<lock, history>>
  PROVE  OwnedByOne'
  BY DEF LaneTypes, OwnedByOne, Owning, Goto, history

LEMMA OwnedAcquire ==
  ASSUME LaneTypes, OwnedByOne, NEW p \in Caller, Acquire(p)
  PROVE  OwnedByOne'
  <1>0. /\ pc \in [Caller -> PC] /\ raced \in BOOLEAN
        /\ lock \in [dir: BOOLEAN, holder: Caller \cup {NoOne}, stale: BOOLEAN]
    BY DEF LaneTypes
  <1>1. CASE NameTicket(p) \/ Enqueue(p) \/ GiveUp(p)
    BY <1>1, OwnedElsewhere DEF NameTicket, Enqueue, GiveUp, PC, Waiting, Owning
  <1>2. CASE Poll(p)
    <2>1. PICK label \in {"look", "wait"} : Goto(p, label)
      BY <1>2 DEF Poll
    <2> QED BY <1>2, <2>1, OwnedElsewhere DEF Poll, PC, Waiting, Owning
  <1>3. CASE LookAtLock(p)
    <2>1. Goto(p, "take")
      BY <1>3 DEF LookAtLock, OwnedByOne
    <2> QED BY <1>3, <2>1, OwnedElsewhere DEF LookAtLock, PC, Waiting, Owning
  <1>4. CASE ReclaimFile(p) \/ ReclaimDir(p)
    BY <1>4 DEF ReclaimFile, ReclaimDir, OwnedByOne
  <1>5. CASE Take(p) /\ lock.dir
    <2>1. Goto(p, "wait") /\ UNCHANGED <<lock, history>> /\ pc[p] = "take"
      BY <1>5 DEF Take, history
    <2> QED BY <2>1, OwnedElsewhere DEF PC, Waiting, Owning
  <1>6. CASE Take(p) /\ ~lock.dir
    <2>1. /\ pc[p] = "take" /\ reclaimed' = reclaimed
          /\ lock' = [dir |-> TRUE, holder |-> NoOne, stale |-> FALSE]
          /\ raced' = (raced \/ \E q \in Caller : pc[q] \in Clearing)
          /\ \A q \in Caller : pc'[q] = IF q = p THEN "write" ELSE pc[q]
      BY <1>0, <1>6 DEF Take, Goto, NoLock
    <2>2. \A q \in Caller : pc[q] \notin Owning \cup Clearing
      BY <1>6 DEF OwnedByOne, Owning, Clearing
    <2> QED BY <2>1, <2>2 DEF OwnedByOne, Owning
  <1>7. CASE WriteHolder(p)
    <2>1. pc[p] = "write" /\ lock.dir
      BY <1>7 DEF WriteHolder, OwnedByOne, Owning
    <2>2. /\ raced' = raced /\ reclaimed' = reclaimed \ {p}
          /\ lock' = [lock EXCEPT !.holder = p]
          /\ \A q \in Caller : pc'[q] = IF q = p THEN "inside" ELSE pc[q]
      BY <1>0, <1>7, <2>1 DEF WriteHolder, Goto
    <2>3. lock'.dir /\ lock'.holder = p /\ ~lock'.stale
      BY <1>0, <2>1, <2>2 DEF OwnedByOne
    <2> QED BY <2>1, <2>2, <2>3 DEF OwnedByOne, Owning
  <1> QED BY <1>1, <1>2, <1>3, <1>4, <1>5, <1>6, <1>7 DEF Acquire

LEMMA OwnedRelease ==
  ASSUME LaneTypes, OwnedByOne, NEW p \in Caller, Release(p)
  PROVE  OwnedByOne'
  <1>0. /\ pc \in [Caller -> PC] /\ UNCHANGED <<reclaimed, raced>>
        /\ lock \in [dir: BOOLEAN, holder: Caller \cup {NoOne}, stale: BOOLEAN]
    BY DEF LaneTypes, Release, ReadLease, RemoveFile, RemoveDir, history
  <1>1. CASE ReadLease(p)
    <2>1. /\ pc[p] = "inside" /\ lock' = lock
          /\ \A q \in Caller : pc'[q] = IF q = p THEN "remove" ELSE pc[q]
      BY <1>0, <1>1 DEF ReadLease, Goto, OwnedByOne
    <2> QED BY <1>0, <2>1 DEF OwnedByOne, Owning
  <1>2. CASE RemoveFile(p)
    <2>1. /\ pc[p] = "remove" /\ lock' = LockAfterUnlink
          /\ \A q \in Caller : pc'[q] = IF q = p THEN "rmdir_own" ELSE pc[q]
      BY <1>0, <1>2 DEF RemoveFile, Goto
    <2>2. lock'.holder = NoOne /\ lock'.dir = lock.dir /\ ~lock'.stale
      BY <1>0, <2>1 DEF LockAfterUnlink, OwnedByOne
    <2> QED BY <1>0, <2>1, <2>2 DEF OwnedByOne, Owning
  <1>3. CASE RemoveDir(p)
    <2>1. /\ pc[p] = "rmdir_own" /\ lock' = NoLock
          /\ \A q \in Caller : pc'[q] = IF q = p THEN "idle" ELSE pc[q]
      BY <1>0, <1>3 DEF RemoveDir, Goto, LockAfterRmdir, OwnedByOne
    <2> QED BY <1>0, <2>1 DEF OwnedByOne, Owning, NoLock
  <1> QED BY <1>1, <1>2, <1>3 DEF Release

LEMMA OwnedNext ==
  ASSUME world.mortal = {}, world.stalls = {}, LaneTypes, OwnedByOne, [Next]_vars
  PROVE  OwnedByOne'
  <1>1. ASSUME NEW p \in Caller, Touch(p) PROVE OwnedByOne'
    <2>1. lock' = [lock EXCEPT !.stale = FALSE] /\ UNCHANGED <<pc, reclaimed, raced>>
      BY <1>1 DEF Touch, history
    <2>2. lock'.dir = lock.dir /\ lock'.holder = lock.holder /\ ~lock'.stale
      BY <2>1 DEF LaneTypes
    <2> QED BY <2>1, <2>2 DEF OwnedByOne
  <1>2. ASSUME NEW p \in Caller, Killed(p) PROVE OwnedByOne'
    BY <1>2 DEF Killed
  <1>3. CASE LockGoesStale(world.stalls)
    <2>1. \A p \in Caller : pc[p] \notin Owning
      BY <1>3 DEF LockGoesStale, Unattended, Owning
    <2> QED BY <1>3, <2>1 DEF LockGoesStale, OwnedByOne
  <1>4. CASE \/ \E p \in Caller : TicketGoesCold(p) \/ TicketAges(p)
             \/ ClockTicks \/ UNCHANGED vars
    <2>1. UNCHANGED <<lock, pc, reclaimed, raced>>
      BY <1>4 DEF TicketGoesCold, TicketAges, ClockTicks, vars, history
    <2> QED BY <2>1 DEF OwnedByOne
  <1> QED BY <1>1, <1>2, <1>3, <1>4, OwnedAcquire, OwnedRelease DEF Next

LEMMA WorldStays == [Next]_vars => world' = world
  BY DEF Next, vars, Acquire, NameTicket, Enqueue, Poll, LookAtLock, ReclaimFile,
         ReclaimDir, Take, WriteHolder, GiveUp, Touch, Release, ReadLease, RemoveFile,
         RemoveDir, Killed, TicketGoesCold, TicketAges, LockGoesStale, ClockTicks

Untroubled == world.mortal = {} /\ world.stalls = {}
ExclusionInv == LaneTypes /\ (Untroubled => OwnedByOne)

\* No lock is ever made in that gap, and so ONE caller has the lane, in every
\* world in which nobody is killed or suspended, whoever names its ticket early
\* and writes it late, gives up, ages or comes again (admission.py 128-164).
THEOREM OnlyFailuresRace == Spec => [](Untroubled => ~raced /\ OneLane)
  <1>1. Init => ExclusionInv
    BY LaneInit, OwnedInit DEF ExclusionInv, LaneInv
  <1>2. ExclusionInv /\ [Next]_vars => ExclusionInv'
    BY LaneTypesNext, WorldStays, OwnedNext DEF ExclusionInv, Untroubled
  <1>3. ExclusionInv => (Untroubled => ~raced /\ OneLane)
    BY DEF ExclusionInv, OwnedByOne, OneLane, Inside, Owning
  <1> QED BY <1>1, <1>2, <1>3, PTL DEF Spec

-----------------------------------------------------------------------------
(***************************************************************************)
(* The queue.  A name is in its order from the moment it is made; the file *)
(* may appear under it later.                                              *)
(***************************************************************************)

StrictOrder ==
  /\ ticket \subseteq Caller /\ older \subseteq Named \X Named
  /\ \A p, q \in Named : <<p, q>> \in older <=> p # q /\ <<q, p>> \notin older

QueueTypes ==
  /\ StrictOrder
  /\ fresh \subseteq Named /\ ahead \subseteq older
  /\ cold \subseteq ticket /\ aged \subseteq Named

\* From its last look at the queue a caller goes by that look.
OnTheWay == {"look", "reclaim", "rmdir", "take", "write"}

\* Who asks for the lane anew has no ticket left.
TicketsWait == \A p \in ticket : pc[p] \in (Waiting \ {"named"}) \cup {"dead"}

\* Tickets come of age in the order of their names, and not within a tick.
OldestAgeFirst ==
  /\ aged \cap fresh = {}
  /\ \A p, q \in Named : p \in aged /\ <<q, p>> \in older => q \in aged

\* Who was there before has its ticket in the queue still.
AheadWaits == ahead \subseteq ticket \X Named

\* A caller on its way to the lock left nobody behind that was in the queue when
\* it came, but seats before a human.
FirstInLine ==
  \A p, q \in ticket :
    pc[p] \in OnTheWay /\ <<q, p>> \in ahead => p \in world.human /\ q \notin world.human

QueueInv ==
  /\ LaneTypes /\ QueueTypes
  /\ TicketsWait /\ OldestAgeFirst /\ AheadWaits /\ FirstInLine

LEMMA QueueInit == Init => QueueInv
  <1> SUFFICES ASSUME Init PROVE QueueInv
    OBVIOUS
  <1>1. LaneTypes
    BY LaneInit DEF LaneInv
  <1>2. QueueTypes
    BY DEF Init, QueueTypes, StrictOrder, Named
  <1>3. TicketsWait /\ OldestAgeFirst /\ AheadWaits /\ FirstInLine
    BY DEF Init, TicketsWait, OldestAgeFirst, AheadWaits, FirstInLine
  <1> QED BY <1>1, <1>2, <1>3 DEF QueueInv

\* Tickets or names go, and the others stay in their order.
LEMMA UnlinkedKeeps ==
  ASSUME QueueInv, NEW gone, Unlinked(gone), Named' = Named \ gone,
         NEW c \in SUBSET cold, cold' = c \ gone
  PROVE  QueueTypes' /\ OldestAgeFirst' /\ AheadWaits'
  <1>1. /\ ticket' = ticket \ gone /\ aged' = aged \ gone /\ fresh' = fresh \ gone
        /\ older' = {e \in older : e[1] \notin gone /\ e[2] \notin gone}
        /\ ahead' = {e \in ahead : e[1] \notin gone /\ e[2] \notin gone}
    BY DEF Unlinked, Without
  <1>2. \A p, q \in Named' : <<p, q>> \in older' <=> <<p, q>> \in older
    BY <1>1
  <1>3. /\ older' \subseteq Named' \X Named' /\ ahead' \subseteq older'
        /\ ahead' \subseteq ticket' \X Named'
    BY <1>1 DEF QueueInv, QueueTypes, StrictOrder, AheadWaits
  <1>4. StrictOrder'
    BY <1>1, <1>2, <1>3 DEF StrictOrder, QueueInv, QueueTypes
  <1>5. QueueTypes'
    BY <1>1, <1>3, <1>4 DEF QueueTypes, QueueInv
  <1>6. OldestAgeFirst'
    BY <1>1, <1>2 DEF OldestAgeFirst, QueueInv
  <1> QED BY <1>3, <1>5, <1>6 DEF AheadWaits

\* A caller that goes on with the queue left alone.
LEMMA QueueStays ==
  ASSUME QueueInv, LaneTypes', world' = world,
         UNCHANGED queue, NEW p \in Caller, NEW label \in PC, Goto(p, label),
         pc[p] # "named", label # "named",
         p \in ticket => label \in Waiting \cup {"dead"},
         label \in OnTheWay => pc[p] \in OnTheWay
  PROVE  QueueInv'
  <1>1. \A q \in Caller : pc'[q] = IF q = p THEN label ELSE pc[q]
    BY DEF Goto, QueueInv, LaneTypes
  <1>2. /\ ticket' = ticket /\ older' = older /\ cold' = cold /\ aged' = aged
        /\ fresh' = fresh /\ ahead' = ahead
    BY DEF queue
  <1>3. Named' = Named
    BY <1>1, <1>2 DEF Named
  <1>4. QueueTypes' /\ OldestAgeFirst' /\ AheadWaits'
    BY <1>2, <1>3 DEF QueueInv, QueueTypes, StrictOrder, OldestAgeFirst, AheadWaits
  <1>5. TicketsWait'
    BY <1>1, <1>2 DEF QueueInv, QueueTypes, StrictOrder, TicketsWait
  <1>6. FirstInLine'
    BY <1>1, <1>2 DEF QueueInv, QueueTypes, StrictOrder, FirstInLine
  <1> QED BY <1>4, <1>5, <1>6 DEF QueueInv

\* A caller whose ticket, or name, goes as it leaves acquire or dies.
LEMMA QueueLeft ==
  ASSUME QueueInv, LaneTypes', world' = world,
         NEW p \in Caller, Unlinked({p}), cold' = cold \ {p},
         NEW label \in PC \ (Waiting \cup OnTheWay), Goto(p, label)
  PROVE  QueueInv'
  <1>1. \A q \in Caller : pc'[q] = IF q = p THEN label ELSE pc[q]
    BY DEF Goto, QueueInv, LaneTypes
  <1>2. ticket' = ticket \ {p} /\ ahead' \subseteq ahead
    BY DEF Unlinked, Without
  <1>3. Named' = Named \ {p}
    BY <1>1, <1>2 DEF Named, Waiting
  <1>4. QueueTypes' /\ OldestAgeFirst' /\ AheadWaits'
    BY <1>3, UnlinkedKeeps
  <1>5. TicketsWait'
    BY <1>1, <1>2 DEF QueueInv, QueueTypes, StrictOrder, TicketsWait
  <1>6. FirstInLine'
    BY <1>1, <1>2 DEF QueueInv, QueueTypes, StrictOrder, FirstInLine
  <1> QED BY <1>4, <1>5, <1>6 DEF QueueInv

\* A new name comes after all but some of the present millisecond.
LEMMA NameQueue ==
  ASSUME QueueInv, LaneTypes', NEW p \in Caller, NameTicket(p)
  PROVE  QueueInv'
  <1>1. PICK later \in SUBSET fresh :
          older' = older \cup {<<p, q>> : q \in later} \cup {<<q, p>> : q \in Named \ later}
    BY DEF NameTicket
  <1>2. /\ pc[p] = "idle" /\ fresh' = fresh \cup {p}
        /\ ahead' = ahead \cup {<<q, p>> : q \in ticket \ fresh}
        /\ UNCHANGED <<ticket, cold, aged, world>>
        /\ Goto(p, "named")
    BY DEF NameTicket
  <1>3. \A q \in Caller : pc'[q] = IF q = p THEN "named" ELSE pc[q]
    BY <1>2 DEF Goto, QueueInv, LaneTypes
  <1>4. /\ p \notin Named /\ Named \subseteq Caller /\ ticket \subseteq Named
        /\ older \subseteq Named \X Named /\ later \subseteq Named
        /\ ahead \subseteq older /\ ahead \subseteq ticket \X Named
    BY <1>2 DEF Named, QueueInv, TicketsWait, QueueTypes, StrictOrder, Waiting, AheadWaits
  <1>5. Named' = Named \cup {p}
    BY <1>2, <1>3, <1>4 DEF Named
  <1>6. \A q \in Named : <<q, p>> \in older' <=> q \notin later
    BY <1>1, <1>4
  <1>7. \A q \in Named : <<p, q>> \in older' <=> q \in later
    BY <1>1, <1>4
  <1>8. \A q, r \in Named : <<q, r>> \in older' <=> <<q, r>> \in older
    BY <1>1, <1>4
  <1>9. <<p, p>> \notin older' /\ older' \subseteq Named' \X Named'
    BY <1>1, <1>4, <1>5
  <1>10. StrictOrder'
    <2>1. \A q, r \in Named' : <<q, r>> \in older' <=> q # r /\ <<r, q>> \notin older'
      BY <1>4, <1>5, <1>6, <1>7, <1>8, <1>9 DEF QueueInv, QueueTypes, StrictOrder
    <2> QED BY <1>2, <1>4, <1>9, <2>1 DEF StrictOrder
  <1>11. ahead' \subseteq older' /\ ahead' \subseteq ticket' \X Named'
    BY <1>1, <1>2, <1>4, <1>5
  <1>12. QueueTypes' /\ AheadWaits'
    BY <1>2, <1>5, <1>10, <1>11 DEF QueueTypes, QueueInv, AheadWaits
  <1>13. TicketsWait'
    BY <1>2, <1>3, <1>4 DEF TicketsWait, QueueInv
  <1>14. OldestAgeFirst'
    <2>1. p \notin aged /\ aged \subseteq Named /\ aged \cap fresh = {}
      BY <1>4 DEF QueueInv, QueueTypes, OldestAgeFirst
    <2>2. \A q \in Named : q \in aged => <<p, q>> \notin older'
      BY <1>7, <2>1
    <2> QED BY <1>2, <1>5, <1>8, <2>1, <2>2 DEF OldestAgeFirst, QueueInv
  <1>15. FirstInLine'
    BY <1>2, <1>3, <1>4 DEF FirstInLine, QueueInv, OnTheWay
  <1> QED BY <1>12, <1>13, <1>14, <1>15 DEF QueueInv

\* The file of a name brings nobody on its way.
LEMMA EnqueueQueue ==
  ASSUME QueueInv, LaneTypes', NEW p \in Caller, Enqueue(p)
  PROVE  QueueInv'
  <1>1. /\ pc[p] = "named" /\ ticket' = ticket \cup {p}
        /\ UNCHANGED <<older, fresh, cold, aged, ahead, world>>
        /\ Goto(p, "poll")
    BY DEF Enqueue
  <1>2. \A q \in Caller : pc'[q] = IF q = p THEN "poll" ELSE pc[q]
    BY <1>1 DEF Goto, QueueInv, LaneTypes
  <1>3. Named' = Named
    BY <1>1, <1>2 DEF Named
  <1>4. p \notin ticket
    BY <1>1 DEF QueueInv, TicketsWait, Waiting
  <1>5. QueueTypes' /\ OldestAgeFirst' /\ AheadWaits'
    BY <1>1, <1>3 DEF QueueInv, QueueTypes, StrictOrder, OldestAgeFirst, AheadWaits
  <1>6. TicketsWait'
    <2> SUFFICES ASSUME NEW q \in ticket'
                 PROVE  pc'[q] \in (Waiting \ {"named"}) \cup {"dead"}
      BY DEF TicketsWait
    <2>1. CASE q = p
      BY <1>2, <2>1 DEF Waiting
    <2>2. CASE q # p
      BY <1>1, <1>2, <2>2 DEF QueueInv, QueueTypes, StrictOrder, TicketsWait
    <2> QED BY <2>1, <2>2
  <1>7. FirstInLine'
    <2>1. \A q \in Caller : <<p, q>> \notin ahead
      BY <1>4 DEF QueueInv, AheadWaits
    <2> QED BY <1>1, <1>2, <2>1 DEF FirstInLine, QueueInv, QueueTypes, StrictOrder, OnTheWay
  <1> QED BY <1>5, <1>6, <1>7 DEF QueueInv

\* The look that sends a caller to the lock: who was there before the first and
\* has a ticket still is a seat, and the first a human's turn; a seat that came
\* of age would have found the older one aged before it.
LEMMA PollQueue ==
  ASSUME QueueInv, LaneTypes', NEW p \in Caller, Poll(p)
  PROVE  QueueInv'
  <1> DEFINE dead == cold \ {p}
  <1>1. /\ pc[p] \in {"poll", "wait"}
        /\ Unlinked(dead) /\ cold' = {} /\ world' = world
        /\ Goto(p, IF ComesFirst(p, dead) THEN "look" ELSE "wait")
    BY DEF Poll
  <1>2. \A q \in Caller : pc'[q] = IF q = p THEN (IF ComesFirst(p, dead) THEN "look" ELSE "wait")
                                   ELSE pc[q]
    BY <1>1 DEF Goto, QueueInv, LaneTypes
  <1>3. ticket' = ticket \ dead /\ ahead' \subseteq ahead /\ ticket \subseteq Caller
    BY <1>1 DEF Unlinked, Without, QueueInv, QueueTypes, StrictOrder
  <1>4. Named' = Named \ dead
    <2>1. \A q \in dead : q \in ticket /\ pc[q] # "named"
      BY DEF QueueInv, QueueTypes, TicketsWait, Waiting
    <2>2. {q \in Caller : pc'[q] = "named"} = {q \in Caller : pc[q] = "named"}
      BY <1>1, <1>2
    <2> QED BY <1>3, <2>1, <2>2 DEF Named
  <1>5. QueueTypes' /\ OldestAgeFirst' /\ AheadWaits'
    <2>1. {} \in SUBSET cold /\ cold' = {} \ dead
      BY <1>1
    <2> QED BY <1>1, <1>4, <2>1, UnlinkedKeeps
  <1>6. TicketsWait'
    BY <1>2, <1>3 DEF TicketsWait, QueueInv, Waiting
  <1>7. ASSUME NEW q \in ticket', <<q, p>> \in ahead', p \in ticket', ComesFirst(p, dead)
        PROVE  p \in world.human /\ q \notin world.human
    <2>1. q \in ticket \ (dead \cup {p}) /\ <<q, p>> \in older /\ <<p, q>> \notin older
            /\ p \in Named /\ q \in Named
      <3>1. <<q, p>> \in older /\ p \in Named /\ q \in Named
        BY <1>3, <1>7 DEF QueueInv, QueueTypes, Named
      <3> QED BY <1>3, <1>7, <3>1 DEF QueueInv, QueueTypes, StrictOrder
    <2>2. Prio(p) < Prio(q)
      BY <1>7, <2>1 DEF ComesFirst
    <2>3. p \in world.human \cup aged /\ q \notin world.human \cup aged
      BY <2>2 DEF Prio
    <2> QED BY <2>1, <2>3 DEF QueueInv, OldestAgeFirst
  <1>8. FirstInLine'
    <2> SUFFICES ASSUME NEW r \in ticket', NEW q \in ticket', pc'[r] \in OnTheWay,
                        <<q, r>> \in ahead'
                 PROVE  r \in world'.human /\ q \notin world'.human
      BY DEF FirstInLine
    <2>1. CASE r = p
      BY <1>1, <1>2, <1>3, <1>7, <2>1 DEF OnTheWay
    <2>2. CASE r # p
      BY <1>1, <1>2, <1>3, <2>2 DEF QueueInv, FirstInLine
    <2> QED BY <2>1, <2>2
  <1> QED BY <1>5, <1>6, <1>8 DEF QueueInv

LEMMA QueueNext == QueueInv /\ [Next]_vars => QueueInv'
  <1> SUFFICES ASSUME QueueInv, [Next]_vars PROVE QueueInv'
    OBVIOUS
  <1>0. LaneTypes' /\ world' = world
    BY LaneTypesNext, WorldStays DEF QueueInv
  <1>1. ASSUME NEW p \in Caller, Acquire(p) PROVE QueueInv'
    <2>1. CASE NameTicket(p)
      BY <1>0, <2>1, NameQueue
    <2>2. CASE Enqueue(p)
      BY <1>0, <2>2, EnqueueQueue
    <2>3. CASE Poll(p)
      BY <1>0, <2>3, PollQueue
    <2>4. CASE LookAtLock(p) \/ ReclaimFile(p) \/ ReclaimDir(p) \/ Take(p)
      <3>1. pc[p] \in OnTheWay /\ UNCHANGED queue
        BY <2>4 DEF LookAtLock, ReclaimFile, ReclaimDir, Take, OnTheWay
      <3>2. \E label \in Waiting \ {"named"} : Goto(p, label)
        BY <2>4 DEF LookAtLock, ReclaimFile, ReclaimDir, Take, Waiting
      <3> QED BY <1>0, <3>1, <3>2, QueueStays DEF PC, OnTheWay
    <2>5. CASE WriteHolder(p) \/ GiveUp(p)
      <3>1. Unlinked({p}) /\ cold' = cold \ {p}
        BY <2>5 DEF WriteHolder, GiveUp, Unqueued
      <3>2. Goto(p, "inside") \/ Goto(p, "idle")
        BY <2>5 DEF WriteHolder, GiveUp
      <3> QED BY <1>0, <3>1, <3>2, QueueLeft DEF PC, Waiting, OnTheWay
    <2> QED BY <1>1, <2>1, <2>2, <2>3, <2>4, <2>5 DEF Acquire
  <1>2. ASSUME NEW p \in Caller, Release(p) PROVE QueueInv'
    <2>1. UNCHANGED queue
      BY <1>2 DEF Release, ReadLease, RemoveFile, RemoveDir
    <2>2. PICK label \in {"remove", "idle", "rmdir_own"} : Goto(p, label)
      BY <1>2 DEF Release, ReadLease, RemoveFile, RemoveDir
    <2>3. p \notin ticket /\ pc[p] # "named"
      BY <1>2 DEF Release, ReadLease, RemoveFile, RemoveDir, QueueInv, TicketsWait, Waiting
    <2>4. label \in PC /\ label \notin OnTheWay
      BY <2>2 DEF PC, OnTheWay
    <2> QED BY <1>0, <2>1, <2>2, <2>3, <2>4, QueueStays
  <1>3. ASSUME NEW p \in Caller, Killed(p) PROVE QueueInv'
    <2>1. CASE pc[p] = "named"
      <3>1. Unlinked({p}) /\ cold' = cold /\ Goto(p, "dead")
        BY <1>3, <2>1 DEF Killed
      <3>2. p \notin cold
        BY <2>1 DEF QueueInv, QueueTypes, TicketsWait, Waiting
      <3> QED BY <1>0, <3>1, <3>2, QueueLeft DEF PC, Waiting, OnTheWay
    <2>2. CASE pc[p] # "named"
      BY <1>0, <1>3, <2>2, QueueStays DEF Killed, PC, OnTheWay
    <2> QED BY <2>1, <2>2
  <1>4. ASSUME \/ \E p \in Caller : Touch(p)
               \/ LockGoesStale(world.stalls) \/ UNCHANGED vars
        PROVE  QueueInv'
    <2>1. UNCHANGED <<ticket, older, fresh, cold, aged, ahead, pc>>
      BY <1>4 DEF Touch, LockGoesStale, vars, queue
    <2>2. Named' = Named
      BY <2>1 DEF Named
    <2> QED BY <1>0, <2>1, <2>2 DEF QueueInv, QueueTypes, StrictOrder, TicketsWait,
                                    OldestAgeFirst, AheadWaits, FirstInLine
  <1>5. ASSUME (\E p \in Caller : TicketGoesCold(p)) \/ ClockTicks PROVE QueueInv'
    <2>1. /\ UNCHANGED <<ticket, older, aged, ahead, pc>>
          /\ cold' \subseteq ticket /\ fresh' \subseteq fresh
      BY <1>5 DEF TicketGoesCold, ClockTicks, QueueInv, QueueTypes
    <2>2. Named' = Named
      BY <2>1 DEF Named
    <2>3. TicketsWait' /\ OldestAgeFirst' /\ AheadWaits' /\ FirstInLine'
      BY <1>0, <2>1, <2>2 DEF QueueInv, TicketsWait, OldestAgeFirst, AheadWaits, FirstInLine
    <2> QED BY <1>0, <2>1, <2>2, <2>3 DEF QueueInv, QueueTypes, StrictOrder
  <1>6. ASSUME NEW p \in Caller, TicketAges(p) PROVE QueueInv'
    <2>1. /\ p \in Named \ fresh
          /\ \A q \in Named \ (aged \cup {p}) : <<p, q>> \in older
          /\ aged' = aged \cup {p}
          /\ UNCHANGED <<ticket, older, fresh, cold, ahead, pc>>
      BY <1>6 DEF TicketAges
    <2>2. Named' = Named
      BY <2>1 DEF Named
    <2>3. QueueTypes' /\ TicketsWait' /\ AheadWaits' /\ FirstInLine'
      BY <1>0, <2>1, <2>2 DEF QueueInv, QueueTypes, StrictOrder, TicketsWait, AheadWaits,
                              FirstInLine
    <2>4. ASSUME NEW r \in Named, NEW q \in Named, r \in aged', <<q, r>> \in older
          PROVE  q \in aged'
      <3>1. CASE r \in aged
        BY <2>1, <2>4, <3>1 DEF QueueInv, OldestAgeFirst
      <3>2. CASE r = p
        <4>1. q \notin aged \cup {p} => <<p, q>> \in older
          BY <2>1
        <4>2. q # p /\ <<p, q>> \notin older
          BY <2>4, <3>2 DEF QueueInv, QueueTypes, StrictOrder
        <4> QED BY <2>1, <4>1, <4>2
      <3> QED BY <2>1, <2>4, <3>1, <3>2
    <2>5. OldestAgeFirst'
      BY <2>1, <2>2, <2>4 DEF QueueInv, OldestAgeFirst
    <2> QED BY <1>0, <2>3, <2>5 DEF QueueInv
  <1> QED BY <1>1, <1>2, <1>3, <1>4, <1>5, <1>6 DEF Next

\* Every variable of the lane keeps its type in every world, and the names of
\* the tickets are in a strict order: no caller ever has two (acquire's finally).
THEOREM TypeCorrect == Spec => []TypeOK
  <1>1. QueueInv => TypeOK
    BY DEF QueueInv, QueueTypes, StrictOrder, LaneTypes, TypeOK
  <1> QED BY <1>1, QueueInit, QueueNext, PTL DEF Spec

\* A caller that takes the lane overtakes no ticket that was in the queue, under
\* an earlier millisecond, when it came, but a human's turn that of a seat: in
\* every world, whatever happened between its look at the queue and its mkdir,
\* and whichever tickets aged, went cold, came late under an early name or were
\* left by killed callers (admission.py 96-121, 133-156).
THEOREM NobodyIsOvertaken == Spec => NoOvertaking
  <1>1. ASSUME QueueInv, NEW p \in Caller, NEW q \in Caller, pc[p] = "take",
               p \in ticket, <<q, p>> \in ahead
        PROVE  p \in world.human /\ q \notin world.human
    BY <1>1 DEF QueueInv, AheadWaits, FirstInLine, OnTheWay
  <1>2. QueueInv =>
          \A p, q \in Caller : /\ pc[p] = "take" /\ pc'[p] = "write"
                               /\ p \in ticket /\ <<q, p>> \in ahead
                               => p \in world.human /\ q \notin world.human
    BY <1>1
  <1> QED BY <1>2, QueueInit, QueueNext, PTL DEF Spec, NoOvertaking
=============================================================================
