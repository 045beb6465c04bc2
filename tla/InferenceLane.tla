---------------------------- MODULE InferenceLane ----------------------------
(***************************************************************************)
(* The inference lane of v8/src/edp8/admission.py: processes that share    *)
(* one login take turns through the file system.  A waiter keeps a ticket  *)
(* file in lane.queue; the one whose ticket is first creates the directory *)
(* lane.lock (mkdir is atomic) and writes holder.json into it.  A ticket   *)
(* that nobody touches is dead, a lock that nobody touches is stale, and   *)
(* both are cleared by whoever waits.  v8/.pi/extensions/edp8.ts is the    *)
(* same protocol in TypeScript.                                            *)
(*                                                                         *)
(* One action is one system call on a shared file, or several of which     *)
(* only the last is seen by others.  A ticket is named before its file is  *)
(* written, after the millisecond and a random id.  Time is otherwise left *)
(* out: the clock ticks, a ticket ages, a ticket goes cold (QUEUE_STALE_S) *)
(* and a lock goes stale (its ttl_s) by actions of their own.              *)
(***************************************************************************)
EXTENDS Naturals

CONSTANTS
  Caller,       \* the processes that ask for the lane
  NoOne,        \* no holder.json
  Worlds        \* who asks in a run, and what may happen to them

ASSUME WorldsAssumption ==
  Worlds \subseteq [callers: SUBSET Caller, human: SUBSET Caller,
                    mortal: SUBSET Caller, stalls: SUBSET Caller]
ASSUME NoOneAssumption == NoOne \notin Caller

VARIABLES
  ticket,     \* the owners of the tickets in lane.queue
  older,      \* pairs <<p, q>>: the name of p's ticket sorts before q's
  fresh,      \* the owners of the names with the present millisecond in them
  cold,       \* the owners of the tickets that were not touched in time
  aged,       \* the owners of the names whose time is AGING_S ago
  ahead,      \* pairs <<p, q>>: p's ticket was in the queue, under an earlier
              \* millisecond, when q came (history)
  lock,       \* lane.lock: is it there, whose holder.json, is it stale
  pc,         \* where each caller is in acquire, in its turn, in release
  reclaimed,  \* holders whose lock was taken from them as stale (history)
  raced,      \* a lock was made while another caller was between its look at
              \* the lock before it and its removal by path (history)
  world       \* who asks, who for a human, may be killed, may be suspended

queue == <<ticket, older, fresh, cold, aged, ahead>>
history == <<reclaimed, raced>>
vars == <<queue, lock, pc, history, world>>

Waiting == {"named", "poll", "wait", "look", "reclaim", "rmdir", "take", "write"}
PC == Waiting \cup {"idle", "inside", "remove", "rmdir_own", "dead"}

\* Between a look at the lock and the end of its removal by path.
Clearing == {"reclaim", "rmdir", "remove", "rmdir_own"}

NoLock == [dir |-> FALSE, holder |-> NoOne, stale |-> FALSE]

Init ==
  /\ ticket = {} /\ older = {} /\ fresh = {} /\ cold = {} /\ aged = {}
  /\ ahead = {} /\ reclaimed = {} /\ raced = FALSE
  /\ lock = NoLock
  /\ pc = [p \in Caller |-> "idle"]
  /\ world \in Worlds

Goto(p, label) == pc' = [pc EXCEPT ![p] = label]

Inside == {p \in Caller : pc[p] = "inside"}

(***************************************************************************)
(* The queue                                                               *)
(***************************************************************************)
\* The priority in the name; as a mutant of Prio, a ticket that never ages.
RawPrio(p) == IF p \in world.human THEN 0 ELSE 1

Prio(p) == IF p \in world.human \cup aged THEN 0 ELSE 1

\* The callers whose ticket has a name, its file written or not.
Named == ticket \cup {p \in Caller : pc[p] = "named"}

\* The pairs without those of `gone'.
Without(pairs, gone) == {e \in pairs : e[1] \notin gone /\ e[2] \notin gone}

\* The tickets of `gone' are no more.
Unlinked(gone) ==
  /\ ticket' = ticket \ gone
  /\ older' = Without(older, gone)
  /\ ahead' = Without(ahead, gone)
  /\ fresh' = fresh \ gone
  /\ aged' = aged \ gone

\* Mutant: waiting() sorts by the effective priority alone.
NobodyMoreUrgent(p, dead) ==
  p \in ticket /\ \A q \in ticket \ dead : Prio(p) <= Prio(q)

\* In the listing of waiting(), after the dead tickets went, p comes first.
ComesFirst(p, dead) ==
  /\ p \in ticket
  /\ \A q \in ticket \ (dead \cup {p}) :
       \/ Prio(p) < Prio(q)
       \/ Prio(p) = Prio(q) /\ <<p, q>> \in older

\* Mutant: acquire without its finally.
TicketLeft(p) == UNCHANGED queue

\* acquire's finally: the caller's ticket goes, whatever happened.
Unqueued(p) ==
  /\ Unlinked({p})
  /\ cold' = cold \ {p}

(***************************************************************************)
(* acquire                                                                 *)
(***************************************************************************)
\* The names of one millisecond sort by their priority, and then at random: p's
\* comes somewhere among them, before those in `later'.
SortsBefore(p, later) ==
  /\ \A q \in fresh : RawPrio(p) # RawPrio(q) => (q \in later <=> RawPrio(p) < RawPrio(q))
  /\ \A q \in later, r \in fresh : <<q, r>> \in older => r \in later

NameTicket(p) ==
  /\ p \in world.callers /\ pc[p] = "idle"
  /\ \E later \in SUBSET fresh :
       /\ SortsBefore(p, later)
       /\ older' = older \cup {<<p, q>> : q \in later} \cup {<<q, p>> : q \in Named \ later}
  /\ fresh' = fresh \cup {p}
  /\ ahead' = ahead \cup {<<q, p>> : q \in ticket \ fresh}
  /\ Goto(p, "named")
  /\ UNCHANGED <<ticket, cold, aged, lock, history, world>>

\* The file appears in the queue, under the name it was given before.
Enqueue(p) ==
  /\ pc[p] = "named"
  /\ ticket' = ticket \cup {p}
  /\ Goto(p, "poll")
  /\ UNCHANGED <<older, fresh, cold, aged, ahead, lock, history, world>>

\* A round of the loop: touch the ticket, drop the dead ones, sort.
Poll(p) ==
  /\ pc[p] \in {"poll", "wait"}
  /\ LET dead == cold \ {p} IN
       /\ Unlinked(dead)
       /\ cold' = {}
       /\ Goto(p, IF ComesFirst(p, dead) THEN "look" ELSE "wait")
  /\ UNCHANGED <<lock, history, world>>

LookAtLock(p) ==
  /\ pc[p] = "look"
  /\ Goto(p, IF lock.dir /\ lock.stale THEN "reclaim" ELSE "take")
  /\ UNCHANGED <<queue, lock, history, world>>

\* Unlinking holder.json renews the directory's mtime.
LockAfterUnlink ==
  IF lock.holder = NoOne THEN lock ELSE [lock EXCEPT !.holder = NoOne, !.stale = FALSE]

\* rmtree of the lock the caller saw stale, first its file: whichever lock is
\* there by now.
ReclaimFile(p) ==
  /\ pc[p] = "reclaim"
  /\ lock' = LockAfterUnlink
  /\ reclaimed' = reclaimed \cup (Inside \cap {lock.holder})
  /\ Goto(p, "rmdir")
  /\ UNCHANGED <<queue, raced, world>>

\* rmdir succeeds on an empty directory only; rmtree ignores the error.
LockAfterRmdir == IF lock.holder = NoOne THEN NoLock ELSE lock

ReclaimDir(p) ==
  /\ pc[p] = "rmdir"
  /\ lock' = LockAfterRmdir
  /\ Goto(p, "take")
  /\ UNCHANGED <<queue, history, world>>

\* Mutant: mkdir with exist_ok: the lock is no longer exclusive.
TakeExisting(p) ==
  /\ pc[p] = "take"
  /\ lock' = [lock EXCEPT !.dir = TRUE]
  /\ Goto(p, "write")
  /\ UNCHANGED <<queue, history, world>>

Take(p) ==
  /\ pc[p] = "take"
  /\ \/ /\ ~lock.dir
        /\ lock' = [NoLock EXCEPT !.dir = TRUE]
        /\ raced' = (raced \/ \E q \in Caller : pc[q] \in Clearing)
        /\ Goto(p, "write")
     \/ /\ lock.dir
        /\ Goto(p, "wait")
        /\ UNCHANGED <<lock, raced>>
  /\ UNCHANGED <<queue, reclaimed, world>>

\* holder.json is written and the lease returned; without the directory the
\* write raises out of acquire.
WriteHolder(p) ==
  /\ pc[p] = "write"
  /\ \/ /\ lock.dir
        /\ lock' = [lock EXCEPT !.holder = p]
        /\ Goto(p, "inside")
     \/ /\ ~lock.dir
        /\ Goto(p, "idle")
        /\ UNCHANGED lock
  /\ Unqueued(p)
  /\ reclaimed' = reclaimed \ {p}
  /\ UNCHANGED <<raced, world>>

GiveUp(p) ==
  /\ pc[p] = "wait"
  /\ Unqueued(p)
  /\ Goto(p, "idle")
  /\ UNCHANGED <<lock, history, world>>

(***************************************************************************)
(* The lease                                                               *)
(***************************************************************************)
\* touch renews the lock that is there, without asking whose it is.
Touch(p) ==
  /\ pc[p] = "inside"
  /\ lock' = [lock EXCEPT !.stale = FALSE]
  /\ UNCHANGED <<queue, pc, history, world>>

\* Mutant: release without the comparison of lease ids.
ReleaseAnyLease(p) ==
  /\ pc[p] = "inside"
  /\ Goto(p, "remove")
  /\ UNCHANGED <<queue, lock, history, world>>

\* release reads holder.json and goes on only if the lease in it is its own.
ReadLease(p) ==
  /\ pc[p] = "inside"
  /\ Goto(p, IF lock.holder = p THEN "remove" ELSE "idle")
  /\ UNCHANGED <<queue, lock, history, world>>

\* ... and then rmtree, by path.
RemoveFile(p) ==
  /\ pc[p] = "remove"
  /\ lock' = LockAfterUnlink
  /\ Goto(p, "rmdir_own")
  /\ UNCHANGED <<queue, history, world>>

RemoveDir(p) ==
  /\ pc[p] = "rmdir_own"
  /\ lock' = LockAfterRmdir
  /\ Goto(p, "idle")
  /\ UNCHANGED <<queue, history, world>>

(***************************************************************************)
(* Time and failures                                                       *)
(***************************************************************************)
\* Nobody renews the lock: who could is dead, or suspended in its turn.
Unattended(sleepers) ==
  \A p \in Caller :
    pc[p] \in {"write", "inside", "remove", "rmdir", "rmdir_own"} =>
      p \in Inside \cap sleepers

LockGoesStale(sleepers) ==
  /\ lock.dir /\ ~lock.stale
  /\ Unattended(sleepers)
  /\ lock' = [lock EXCEPT !.stale = TRUE]
  /\ UNCHANGED <<queue, pc, history, world>>

TicketGoesCold(p) ==
  /\ p \in ticket \ cold
  /\ pc[p] = "dead" \/ p \in world.stalls
  /\ cold' = cold \cup {p}
  /\ UNCHANGED <<ticket, older, fresh, aged, ahead, lock, pc, history, world>>

ClockTicks ==
  /\ fresh # {}
  /\ fresh' = {}
  /\ UNCHANGED <<ticket, older, cold, aged, ahead, lock, pc, history, world>>

\* By the time in the name: the oldest first, AGING_S being more than a tick.
TicketAges(p) ==
  /\ p \in Named \ (aged \cup fresh)
  /\ \A q \in Named \ (aged \cup {p}) : <<p, q>> \in older
  /\ aged' = aged \cup {p}
  /\ UNCHANGED <<ticket, older, fresh, cold, ahead, lock, pc, history, world>>

\* A name without a file dies with its owner; a ticket stays in the queue.
Killed(p) ==
  /\ p \in world.mortal
  /\ pc[p] \notin {"idle", "dead"}
  /\ Goto(p, "dead")
  /\ IF pc[p] = "named" THEN Unlinked({p}) /\ UNCHANGED cold ELSE UNCHANGED queue
  /\ UNCHANGED <<lock, history, world>>

Acquire(p) == \/ NameTicket(p) \/ Enqueue(p) \/ Poll(p) \/ LookAtLock(p)
              \/ ReclaimFile(p) \/ ReclaimDir(p) \/ Take(p) \/ WriteHolder(p) \/ GiveUp(p)
Release(p) == ReadLease(p) \/ RemoveFile(p) \/ RemoveDir(p)

Next ==
  \/ \E p \in Caller : \/ Acquire(p) \/ Touch(p) \/ Release(p) \/ Killed(p)
                       \/ TicketGoesCold(p) \/ TicketAges(p)
  \/ LockGoesStale(world.stalls) \/ ClockTicks

Spec == Init /\ [][Next]_vars

\* A live caller keeps running its loop and its turn ends (the harness ends
\* it on the response, the message or the agent's end); clocks go on.  Nobody
\* has to ask again, to give up, to oversleep or to die.
Fairness ==
  /\ \A p \in Caller :
       /\ WF_vars(Enqueue(p) \/ Poll(p) \/ LookAtLock(p) \/ ReclaimFile(p)
                    \/ ReclaimDir(p) \/ Take(p) \/ WriteHolder(p))
       /\ WF_vars(Release(p))
       /\ WF_vars(pc[p] = "dead" /\ TicketGoesCold(p))
       /\ WF_vars(TicketAges(p))
  /\ WF_vars(LockGoesStale({}))
  /\ WF_vars(ClockTicks)

FairSpec == Spec /\ Fairness
-----------------------------------------------------------------------------
(* Properties *)

\* Every variable keeps its type, and a caller has one ticket at most: the
\* names are in a strict order, one before the other.
TypeOK ==
  /\ ticket \subseteq Caller /\ older \subseteq Named \X Named
  /\ \A p, q \in Named : <<p, q>> \in older <=> p # q /\ <<q, p>> \notin older
  /\ fresh \subseteq Named /\ ahead \subseteq older
  /\ cold \subseteq ticket /\ aged \subseteq Named
  /\ reclaimed \subseteq Caller /\ raced \in BOOLEAN
  /\ lock \in [dir: BOOLEAN, holder: Caller \cup {NoOne}, stale: BOOLEAN]
  /\ pc \in [Caller -> PC]
  /\ world \in Worlds

\* admission.py:1, "ONE cross-process inference lane", of the holders that have
\* not overslept their lease.
OneLane == \A p, q \in Inside \ reclaimed : p = q

\* One caller at most is in its turn, whoever was killed, slept or had its stale
\* lock reclaimed, until a lock is made inside the gap of admission.py 145-146
\* or 65-70, between another caller's look at the lock and its removal by path.
OneHolder == raced \/ OneLane

\* A holder that nobody reclaimed finds its own lock in place: no other caller's
\* release or reclaim took it (admission.py 20-21, 60-70), until a lock is made
\* inside that gap.
HolderKeepsLock ==
  raced \/ \A p \in Inside \ reclaimed : lock.dir /\ lock.holder = p

\* First come, first served (admission.py 16): a caller that takes the lane
\* overtakes no ticket that was in the queue, a millisecond earlier, when it
\* came, but a human's turn that of a seat: whoever crashed, gave up, went cold
\* or aged before, and whoever named its ticket and wrote it late.
NoOvertaking ==
  [][\A p, q \in Caller :
       /\ pc[p] = "take" /\ pc'[p] = "write"
       /\ p \in ticket /\ <<q, p>> \in ahead
       => p \in world.human /\ q \notin world.human]_vars

\* Who waits gets its turn or gives up by itself: neither a killed holder, a
\* killed waiter, nor a stream of human turns keeps it out.
WaiterIsServed ==
  \A p \in Caller :
    pc[p] \in Waiting /\ p \notin world.stalls ~> pc[p] \notin Waiting
=============================================================================
