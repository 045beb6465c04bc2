----------------------------- MODULE BrokerInbox -----------------------------
(***************************************************************************)
(* The broker's inboxes (edp-broker/src/edp_broker/store.py, InboxStore and *)
(* AliasStore) and the live streams over them (service.py: publish, events, *)
(* StreamHub).                                                             *)
(*                                                                         *)
(* The event loop runs the handlers and the streams; appends and reads run  *)
(* in worker threads (asyncio.to_thread).  One action is one stretch of a   *)
(* worker's work, or what the loop does between two awaits.  An inbox is a  *)
(* file of lines; a reader keeps the ts of the last mail it received and    *)
(* asks for what is strictly newer.                                        *)
(***************************************************************************)
EXTENDS Naturals, Sequences, FiniteSets

CONSTANTS
  MailCount,  \* bound: how many publish requests are made
  SentTs,     \* the ts a sender may have stamped
  Address,    \* what mail can be addressed to
  SentTo,     \* the addresses the senders use
  Relative,   \* the addresses of the form owner/alias: names of no inbox
  Registered, \* Registered[a]: the targets the pool registers a under, in turn
  File,       \* the files of the data directory
  FileOf,     \* FileOf[a]: the name a sanitised; two addresses may share it
  Stream,     \* clients of /v1/events
  Sub,        \* Sub[s]: the recipient s asks for
  MaxFaults   \* bound: broker restarts, failed writes, dropped connections

Mail == 1..MailCount

None == 0 \* no mail, no ts

Alias == DOMAIN Registered

\* Streams ask for plain names; the same alias is never registered twice under
\* one target, and an alias and its targets live in different files (a colon
\* handle and its dash inbox, the session ids of a parent's child).
ASSUME AddressAssumption ==
  /\ MailCount \in Nat
  /\ SentTs \subseteq Nat \ {None}
  /\ SentTo \subseteq Address
  /\ Relative \subseteq Address
  /\ Alias \subseteq Address
  /\ Registered \in [Alias -> Seq(Address \ (Alias \cup Relative))]
  /\ FileOf \in [Address -> File]
  /\ Sub \in [Stream -> Address \ (Alias \cup Relative)]
  /\ MaxFaults \in Nat

ASSUME AliasAssumption ==
  \A a \in Alias :
    /\ \A i, j \in DOMAIN Registered[a] :
         FileOf[Registered[a][i]] = FileOf[Registered[a][j]] => i = j
    /\ \A i \in DOMAIN Registered[a] : FileOf[Registered[a][i]] # FileOf[a]

VARIABLES
  aliases,  \* aliases[a]: how many of a's targets were registered so far
  pc, to, ts, target, \* per publish request: where it is, and its message
  lock,     \* the request that holds _append_lock
  lines,    \* lines[f]: the mail whose line in f can be parsed, in order
  torn,     \* torn[f]: f ends in part of a line, without its newline
  lastTs,   \* _last_ts[f], None when absent
  flag,     \* StreamHub's event of each recipient
  at, batch, cursor, received, \* per stream: where it is, what it read and
                               \* has not sent yet, its cursor, what it sent
  glued, tears, \* history: acknowledged mail lost to a torn line, torn lines
  faults

request == <<pc, to, ts, target>>
files == <<lines, torn, lastTs>>
streams == <<at, batch, cursor, received>>
history == <<glued, tears>>
vars == <<aliases, pc, to, ts, target, lock, lines, torn, lastTs, flag,
          at, batch, cursor, received, glued, tears, faults>>

TypeOK ==
  /\ aliases \in [Alias -> Nat]
  /\ \A a \in Alias : aliases[a] <= Len(Registered[a])
  /\ pc \in [Mail -> {"new", "routed", "stamped", "written", "acked", "refused",
                      "failed"}]
  /\ to \in [Mail -> Address]
  /\ ts \in [Mail -> Nat]
  /\ target \in [Mail -> Address]
  /\ lock \in Mail \cup {None}
  /\ lines \in [File -> Seq(Mail)]
  /\ torn \in [File -> BOOLEAN]
  /\ lastTs \in [File -> Nat]
  /\ flag \in [Address -> BOOLEAN]
  /\ at \in [Stream -> {"away", "reading", "yielding", "blocked", "woken"}]
  /\ batch \in [Stream -> SUBSET Mail]
  /\ cursor \in [Stream -> Nat]
  /\ received \in [Stream -> Seq(Mail)]
  /\ glued \in SUBSET Mail
  /\ tears \in Nat
  /\ faults \in Nat

Init ==
  /\ aliases = [a \in Alias |-> 0]
  /\ pc = [m \in Mail |-> "new"]
  /\ to \in [Mail -> SentTo]
  /\ ts = [m \in Mail |-> None]
  /\ target = to
  /\ lock = None
  /\ lines = [f \in File |-> <<>>]
  /\ torn = [f \in File |-> FALSE]
  /\ lastTs = [f \in File |-> None]
  /\ flag = [a \in Address |-> FALSE]
  /\ at = [s \in Stream |-> "away"]
  /\ batch = [s \in Stream |-> {}]
  /\ cursor = [s \in Stream |-> None]
  /\ received = [s \in Stream |-> <<>>]
  /\ glued = {}
  /\ tears = 0
  /\ faults = 0

-----------------------------------------------------------------------------
(* Helpers *)

\* AliasStore.resolve, with the `or recipient' of its callers.
Resolve(a) ==
  IF a \in Alias /\ aliases[a] > 0 THEN Registered[a][aliases[a]] ELSE a

\* An unresolved relative ref has no inbox: BadRecipient.
Unroutable(a) == a \in Relative /\ Resolve(a) = a

In(m, f) == \E i \in DOMAIN lines[f] : lines[f][i] = m

Inbox(s) == FileOf[Sub[s]]

\* Mutant: the destination of a line is taken as it was sent.
IsForUnresolved(m, s) == to[m] = Sub[s]

\* read's filter: a file may hold the mail of another recipient, and the
\* address of a line is resolved when it is read.
IsFor(m, s) == Resolve(to[m]) = Sub[s]

\* Mutant: read compares with >=.
UnreadFrom(m, s) == In(m, Inbox(s)) /\ IsFor(m, s) /\ ts[m] >= cursor[s]

\* What a read of s's inbox returns: strictly newer than the cursor.
Unread(m, s) == In(m, Inbox(s)) /\ IsFor(m, s) /\ ts[m] > cursor[s]

\* _tail_ts: the cached high-water mark, else that of the last good line.
Prev(f) ==
  IF lastTs[f] # None \/ lines[f] = <<>> THEN lastTs[f]
  ELSE ts[lines[f][Len(lines[f])]]

Forward(t, prev) == IF t <= prev THEN prev + 1 ELSE t

-----------------------------------------------------------------------------
(* The pool registers an alias, again when the handle has a new session *)

PutAlias(a) ==
  /\ aliases[a] < Len(Registered[a])
  /\ aliases' = [aliases EXCEPT ![a] = @ + 1]
  /\ UNCHANGED <<request, lock, files, flag, streams, history, faults>>

-----------------------------------------------------------------------------
(* publish: POST /v1/publish.  Ids are taken in the order of the requests *)

\* A worker begins the append: it resolves the address, outside the lock.
Route(m) ==
  /\ pc[m] = "new"
  /\ \A k \in 1..(m - 1) : pc[k] # "new"
  /\ \E t \in SentTs : ts' = [ts EXCEPT ![m] = t]
  /\ IF Unroutable(to[m])
     THEN pc' = [pc EXCEPT ![m] = "refused"] /\ UNCHANGED target
     ELSE pc' = [pc EXCEPT ![m] = "routed"]
          /\ target' = [target EXCEPT ![m] = Resolve(to[m])]
  /\ UNCHANGED <<aliases, to, lock, files, flag, streams, history, faults>>

\* Mutant: the append does not wait for the lock.
StampUnlocked(m) ==
  LET f == FileOf[target[m]] IN
  /\ pc[m] = "routed"
  /\ lock' = m
  /\ ts' = [ts EXCEPT ![m] = Forward(@, Prev(f))]
  /\ lastTs' = [lastTs EXCEPT ![f] = ts'[m]]
  /\ pc' = [pc EXCEPT ![m] = "stamped"]
  /\ UNCHANGED <<aliases, to, target, lines, torn, flag, streams, history, faults>>

\* Under the lock: the ts is moved past the newest of the file.
Stamp(m) ==
  LET f == FileOf[target[m]] IN
  /\ pc[m] = "routed"
  /\ lock = None
  /\ lock' = m
  /\ ts' = [ts EXCEPT ![m] = Forward(@, Prev(f))]
  /\ lastTs' = [lastTs EXCEPT ![f] = ts'[m]]
  /\ pc' = [pc EXCEPT ![m] = "stamped"]
  /\ UNCHANGED <<aliases, to, target, lines, torn, flag, streams, history, faults>>

\* Mutant: the line is written without its newline.
WithoutNewline(f) == torn

\* A line ends in a newline, whatever it was appended to.
WithNewline(f) == [torn EXCEPT ![f] = FALSE]

\* The line is written, or, after a torn line, glued to it: it parses no more.
Write(m) ==
  LET f == FileOf[target[m]] IN
  /\ pc[m] = "stamped"
  /\ IF torn[f]
     THEN glued' = glued \cup {m} /\ UNCHANGED lines
     ELSE lines' = [lines EXCEPT ![f] = Append(@, m)] /\ UNCHANGED glued
  /\ torn' = WithNewline(f)
  /\ lock' = None
  /\ pc' = [pc EXCEPT ![m] = "written"]
  /\ UNCHANGED <<aliases, to, ts, target, lastTs, flag, streams, tears, faults>>

\* The write fails half-way (a full disk): the request ends in an error.
WriteTorn(m) ==
  LET f == FileOf[target[m]] IN
  /\ pc[m] = "stamped"
  /\ faults < MaxFaults
  /\ faults' = faults + 1
  /\ torn' = [torn EXCEPT ![f] = TRUE]
  /\ tears' = tears + 1
  /\ lock' = None
  /\ pc' = [pc EXCEPT ![m] = "failed"]
  /\ UNCHANGED <<aliases, to, ts, target, lines, lastTs, flag, streams, glued>>

\* Mutant: only the address of the message is notified.
NotifiedAsSent(m) == {to[m]}

\* The recipients whose event is set: the target, resolved anew, and the
\* address as it was sent.
Notified(m) == {Resolve(to[m]), to[m]}

\* Back on the loop: the events are set, their waiters wake, the id is
\* returned.
Notify(m) ==
  /\ pc[m] = "written"
  /\ flag' = [a \in Address |-> flag[a] \/ a \in Notified(m)]
  /\ at' = [s \in Stream |->
              IF at[s] = "blocked" /\ Sub[s] \in Notified(m) THEN "woken"
              ELSE at[s]]
  /\ pc' = [pc EXCEPT ![m] = "acked"]
  /\ UNCHANGED <<aliases, to, ts, target, lock, files, batch, cursor, received,
                 history, faults>>

-----------------------------------------------------------------------------
(* events: GET /v1/events, one generator per connected stream *)

Goto(s, where) == at' = [at EXCEPT ![s] = where]

\* Mutant: the hub forgets the event in place of clearing it.
Forgotten(s) == [a \in Address \ {Sub[s]} |-> flag[a]]

Cleared(s) == [flag EXCEPT ![Sub[s]] = FALSE]

\* A client connects with the ts of the last mail it received.
Connect(s) ==
  /\ at[s] = "away"
  /\ Goto(s, "reading")
  /\ UNCHANGED <<aliases, request, lock, files, flag, batch, cursor, received,
                 history, faults>>

\* A worker reads the inbox.
Read(s) ==
  /\ at[s] = "reading"
  /\ batch' = [batch EXCEPT ![s] = {m \in Mail : Unread(m, s)}]
  /\ Goto(s, "yielding")
  /\ UNCHANGED <<aliases, request, lock, files, flag, cursor, received, history,
                 faults>>

\* The first of the batch, in the order of the file, goes to the client; its
\* ts is the cursor from then on.
Yield(s) ==
  /\ at[s] = "yielding"
  /\ \E i \in DOMAIN lines[Inbox(s)] :
       LET m == lines[Inbox(s)][i] IN
       /\ m \in batch[s]
       /\ \A j \in 1..(i - 1) : lines[Inbox(s)][j] \notin batch[s]
       /\ received' = [received EXCEPT ![s] = Append(@, m)]
       /\ cursor' = [cursor EXCEPT ![s] = ts[m]]
       /\ batch' = [batch EXCEPT ![s] = @ \ {m}]
  /\ UNCHANGED <<aliases, request, lock, files, flag, at, history, faults>>

\* hub.wait: it returns at once, or blocks until it is notified.
Wait(s) ==
  /\ at[s] = "yielding"
  /\ batch[s] = {}
  /\ Goto(s, IF flag[Sub[s]] THEN "reading" ELSE "blocked")
  /\ flag' = Cleared(s)
  /\ UNCHANGED <<aliases, request, lock, files, batch, cursor, received, history,
                 faults>>

\* hub.wait returns, notified (the waiter clears the event when it runs, some
\* time after the notify), or after the keep-alive interval.
Resume(s) ==
  /\ flag' = Cleared(s)
  /\ Goto(s, "reading")
  /\ UNCHANGED <<aliases, request, lock, files, batch, cursor, received, history,
                 faults>>

Wake(s) == at[s] = "woken" /\ Resume(s)

KeepAlive(s) == at[s] = "blocked" /\ Resume(s)

\* The connection breaks; a wait that is cancelled clears the event as well.
Drop(s) ==
  /\ at[s] # "away"
  /\ faults < MaxFaults
  /\ faults' = faults + 1
  /\ flag' = IF at[s] \in {"blocked", "woken"} THEN Cleared(s) ELSE flag
  /\ Goto(s, "away")
  /\ batch' = [batch EXCEPT ![s] = {}]
  /\ UNCHANGED <<aliases, request, lock, files, cursor, received, history>>

-----------------------------------------------------------------------------
(* The broker stops and starts again: the files are what it keeps *)

Restart ==
  /\ faults < MaxFaults
  /\ faults' = faults + 1
  /\ pc' = [m \in Mail |->
              IF pc[m] \in {"routed", "stamped", "written"} THEN "failed"
              ELSE pc[m]]
  /\ \/ UNCHANGED <<torn, tears>>
     \/ /\ lock # None
        /\ torn' = [torn EXCEPT ![FileOf[target[lock]]] = TRUE]
        /\ tears' = tears + 1
  /\ lock' = None
  /\ lastTs' = [f \in File |-> None]
  /\ flag' = [a \in Address |-> FALSE]
  /\ at' = [s \in Stream |-> "away"]
  /\ batch' = [s \in Stream |-> {}]
  /\ UNCHANGED <<aliases, to, ts, target, lines, cursor, received, glued>>

Next ==
  \/ \E a \in Alias : PutAlias(a)
  \/ \E m \in Mail :
       Route(m) \/ Stamp(m) \/ Write(m) \/ WriteTorn(m) \/ Notify(m)
  \/ \E s \in Stream :
       Connect(s) \/ Read(s) \/ Yield(s) \/ Wait(s) \/ Wake(s) \/ KeepAlive(s)
         \/ Drop(s)
  \/ Restart

Spec == Init /\ [][Next]_vars

\* The loop and its workers run; a timeout fires; a client that lost its
\* connection comes back (the rx driver reconnects).
Fairness ==
  \A s \in Stream :
    WF_vars(Connect(s) \/ Read(s) \/ Yield(s) \/ Wait(s) \/ Wake(s) \/ KeepAlive(s))

FairSpec == Spec /\ Fairness

-----------------------------------------------------------------------------
(* Properties *)

HasReceived(s, m) == \E i \in DOMAIN received[s] : received[s][i] = m

\* The strict cursor hides no mail: what is in a stream's inbox for it was
\* received, or is newer than the cursor, after any restart and reconnect and
\* whatever the senders' clocks say (append's stamp, read's `ts > since').
NothingSkipped ==
  \A s \in Stream : \A m \in Mail :
    In(m, Inbox(s)) /\ IsFor(m, s) => HasReceived(s, m) \/ ts[m] > cursor[s]

\* Mail whose id was returned is in the inbox, or was the one message that a
\* torn line took with it (append, and read's skip of a malformed line).
AckedIsStored ==
  /\ \A m \in Mail :
       pc[m] = "acked" => In(m, FileOf[target[m]]) \/ m \in glued
  /\ Cardinality(glued) <= tears

\* A stream that has its recipient's event to itself never sleeps on mail: as
\* long as it is blocked, what it has not read is about to be notified
\* (StreamHub.wait, publish).
SoleReaderAwake ==
  \A s \in Stream :
    at[s] = "blocked" /\ (\A q \in Stream : Sub[q] = Sub[s] => q = s) =>
      \A m \in Mail : Unread(m, s) => pc[m] = "written"

\* Acknowledged mail reaches every stream on its inbox, unless a torn line took
\* it or its address moved to another session (publish to events).
EveryMailArrives ==
  \A s \in Stream : \A m \in Mail :
    (pc[m] = "acked" /\ m \notin glued /\ target[m] = Sub[s])
      ~> (HasReceived(s, m) \/ Resolve(to[m]) # target[m])

-----------------------------------------------------------------------------
(* What a reader is promised: Mailbox *)

MailOf(s) == {m \in Mail : In(m, Inbox(s)) /\ target[m] = Sub[s]}

\* The pairs of mail of s, the line of the first above that of the second.
Above(s) ==
  {p \in MailOf(s) \X MailOf(s) :
     \E i, j \in DOMAIN lines[Inbox(s)] :
       i < j /\ lines[Inbox(s)][i] = p[1] /\ lines[Inbox(s)][j] = p[2]}

Moved == {m \in Mail : pc[m] # "new" /\ Resolve(to[m]) # target[m]}

Promised ==
  INSTANCE Mailbox WITH
    Reader <- Stream,
    posted <- [s \in Stream |-> MailOf(s)],
    before <- [s \in Stream |-> Above(s)],
    moved <- Moved,
    got <- received

\* Streams implement mailboxes: mail in the order of the file, once each, and
\* none passed over unless its address moved (append, read, events).
DeliversInOrder == Promised!Spec

=============================================================================
