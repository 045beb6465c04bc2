--------------------------------- MODULE Feed ---------------------------------
(* A seat's feed: the board commits events and fans them out to bounded        *)
(* queues (board.py, store.py), the service streams a replay and then the      *)
(* queue (service.py), and a listener process in the seat merges that stream   *)
(* with the broker's copies of the messages, printing one line for each        *)
(* (feed_driver.py).  Both threads of the listener share one FeedState file.   *)
EXTENDS Integers, Sequences

CONSTANTS
    MaxEvents,     \* bound: events committed
    QueueMax,      \* FEED_QUEUE_MAX
    Kinds,         \* bound: the kinds the n-th event may be of
    MaxFaults,     \* bound: broken streams
    MaxCrashes     \* bound: restarts of the listener

\* A "plain" event names no message; a "message" may be longer than the
\* preview its event carries; an "own" event is the seat's own act.
AllKinds == {"plain", "message", "own"}

ASSUME FeedAssumption ==
    /\ MaxEvents \in Nat /\ QueueMax \in Nat \ {0}
    /\ Kinds \in [1..MaxEvents -> SUBSET AllKinds]
    /\ MaxFaults \in Nat /\ MaxCrashes \in Nat

Seqs == 1..MaxEvents
None == -1          \* no board cursor was ever saved

VARIABLES
    log,            \* board: the kinds of the committed events, in seq order
    unsent,         \* board: committed events whose fan-out is not done
    offer,          \* board: where the fan-out of an event stands at a full queue
    unpublished,    \* board: messages whose broker copy is not written yet
    inbox,          \* broker: the copies, in the order they were written
    stream,         \* service: "down", "replay" or "live"
    queue, resync,  \* service: the subscription's queue and its mark
    taken,          \* service: the event got from the queue, 0 if none
    read, cursor,   \* service: how far the replay has read, what was streamed
    boardSeq, brokerTs, seen, partial,      \* listener: the saved state
    reserved,       \* listener: messages a thread is printing, in memory
    boardThread, brokerThread,              \* listener: where each thread is
    broken,         \* listener: its output has no reader any more
    cut, full,      \* history: lines printed with the preview, with the whole
    first,          \* history: the first board cursor the listener saved
    dropped,        \* history: what was dropped from this subscription's queue
    passedOver,     \* history: what a later event was streamed before
    faults, crashes

board    == <<log, unpublished, inbox>>
fanout   == <<unsent, offer>>
service  == <<stream, queue, resync, taken, read, cursor>>
state    == <<boardSeq, brokerTs, seen, partial, reserved>>
history  == <<cut, full>>
gaps     == <<dropped, passedOver>>
counters == <<faults, crashes>>
vars     == <<board, fanout, service, state, boardThread, brokerThread, broken, history, first,
              gaps, counters>>

Idle    == [at |-> "idle", ev |-> 0, cut |-> FALSE]
At(place, s) == [at |-> place, ev |-> s, cut |-> FALSE]
Places  == {"idle", "checked", "claimed", "printed", "owing", "passed", "dead"}
Threads == [at : Places, ev : 0..MaxEvents, cut : BOOLEAN]

Committed  == 1..Len(log)
IsMessage(s) == log[s] = "message"
InQueue == {queue[i] : i \in DOMAIN queue}
Larger(a, b) == IF a > b THEN a ELSE b

Init ==
    /\ log = <<>> /\ unpublished = {} /\ inbox = <<>>
    /\ unsent = {} /\ offer = [s \in Seqs |-> "none"]
    /\ stream = "down" /\ queue = <<>> /\ resync = FALSE /\ taken = 0
    /\ read = 0 /\ cursor = 0
    /\ boardSeq = None /\ brokerTs = 0 /\ seen = {} /\ partial = {}
    /\ reserved = {} /\ boardThread = Idle /\ brokerThread = Idle /\ broken = FALSE
    /\ cut = [s \in Seqs |-> 0] /\ full = [s \in Seqs |-> 0]
    /\ first = None /\ dropped = {} /\ passedOver = {} /\ faults = 0 /\ crashes = 0

-------------------------------------------------------------------------------
(* The board *)

\* _emit: the event is put and committed under the store's lock; its fan-out is
\* a callback that runs after the lock is released.
Commit(kind) ==
    /\ Len(log) < MaxEvents /\ kind \in Kinds[Len(log) + 1]
    /\ log' = Append(log, kind)
    /\ unsent' = unsent \cup {Len(log) + 1}
    /\ unpublished' = IF kind = "message" THEN unpublished \cup {Len(log) + 1} ELSE unpublished
    /\ UNCHANGED <<inbox, offer, service, state, boardThread, brokerThread, broken, history, first,
                   gaps, counters>>

\* The steps of _fanout run in the thread of the writer, beside each other and
\* beside the stream, and touch the queue, its mark and their own place only.
ByWriter == UNCHANGED <<board, stream, taken, read, cursor, state, boardThread, brokerThread,
                        broken, history, first, passedOver, counters>>

Reaches(s, place) == offer' = [offer EXCEPT ![s] = place]

\* Mutant: a full queue takes one more.
FanOutOneMore(s) ==
    /\ s \in unsent /\ offer[s] = "none" /\ Len(queue) <= QueueMax
    /\ queue' = IF stream = "down" THEN queue ELSE Append(queue, s)
    /\ unsent' = unsent \ {s}
    /\ ByWriter /\ UNCHANGED <<offer, resync, dropped>>

\* _fanout, to the seat's subscription if there is one, and _offer's first
\* attempt; writers run their callbacks in any order.
FanOut(s) ==
    /\ s \in unsent /\ offer[s] = "none"
    /\ \/ /\ stream = "down"
          /\ unsent' = unsent \ {s}
          /\ UNCHANGED <<queue, offer>>
       \/ /\ stream # "down" /\ Len(queue) < QueueMax
          /\ queue' = Append(queue, s)
          /\ unsent' = unsent \ {s}
          /\ UNCHANGED offer
       \/ /\ stream # "down" /\ Len(queue) >= QueueMax
          /\ Reaches(s, "full")
          /\ UNCHANGED <<queue, unsent>>
    /\ ByWriter /\ UNCHANGED <<resync, dropped>>

\* _offer: the queue was full, so its oldest event is dropped, if the stream has
\* left one.
DropOldest(s) ==
    /\ offer[s] = "full"
    /\ Reaches(s, "dropped")
    /\ queue' = IF queue = <<>> THEN queue ELSE Tail(queue)
    /\ dropped' = IF queue = <<>> THEN dropped ELSE dropped \cup {Head(queue)}
    /\ ByWriter /\ UNCHANGED <<unsent, resync>>

\* Mutant: the queue is not marked.
MarkForgotten(s) ==
    /\ offer[s] = "dropped"
    /\ Reaches(s, "marked")
    /\ ByWriter /\ UNCHANGED <<unsent, queue, resync, dropped>>

\* Only then is the queue marked for resync ...
MarkResync(s) ==
    /\ offer[s] = "dropped"
    /\ Reaches(s, "marked")
    /\ resync' = TRUE
    /\ ByWriter /\ UNCHANGED <<unsent, queue, dropped>>

\* ... and the new event put, unless another writer has filled the queue again.
PutAgain(s) ==
    /\ offer[s] = "marked"
    /\ Reaches(s, "none")
    /\ unsent' = unsent \ {s}
    /\ queue' = IF Len(queue) < QueueMax THEN Append(queue, s) ELSE queue
    /\ ByWriter /\ UNCHANGED <<resync, dropped>>

WriterStep == \E s \in unsent : FanOut(s) \/ DropOldest(s) \/ MarkResync(s) \/ PutAgain(s)

\* after_message: the request writes the broker's copy once the message is
\* stored and its callbacks, the fan-out among them, have run in the request's
\* own thread; a copy that cannot be written is given up.
Publish(s) ==
    /\ s \in unpublished \ unsent
    /\ unpublished' = unpublished \ {s}
    /\ inbox' \in {Append(inbox, s), inbox}
    /\ UNCHANGED <<log, fanout, service, state, boardThread, brokerThread, broken, history, first,
                   gaps, counters>>

-------------------------------------------------------------------------------
(* The service's stream *)

\* The listener connects; the service subscribes first, then fixes the start:
\* the listener's cursor, or the newest event for one that has none.
Connect ==
    /\ stream = "down" /\ boardThread = Idle
    /\ stream' = "replay" /\ queue' = <<>> /\ resync' = FALSE
    /\ cursor' = IF boardSeq = None THEN Len(log) ELSE boardSeq
    /\ read' = cursor'
    /\ UNCHANGED <<board, fanout, taken, state, boardThread, brokerThread, broken, history, first,
                   gaps, counters>>

\* The listener reads a data line, once it is done with the one before.
Hand(s) ==
    /\ boardThread = Idle
    /\ boardThread' = At("checked", s)
    /\ cursor' = Larger(cursor, s)

Replay ==
    /\ stream = "replay" /\ read < Len(log)
    /\ read' = read + 1
    /\ Hand(read + 1)
    /\ UNCHANGED <<board, fanout, stream, queue, resync, taken, state, brokerThread, broken, history,
                   first, gaps, counters>>

\* FeedState.advance: the cursor only moves forward.
SaveBoardSeq(s) ==
    /\ boardSeq' = Larger(boardSeq, s)
    /\ first' = IF first = None THEN s ELSE first

\* A comment line with a cursor, which the listener saves at once.
Mark ==
    /\ boardThread = Idle
    /\ SaveBoardSeq(cursor)

\* ": ready", after a page of the replay came back empty.
Ready ==
    /\ stream = "replay" /\ read = Len(log)
    /\ Mark
    /\ stream' = "live"
    /\ UNCHANGED <<board, fanout, queue, resync, taken, read, cursor, brokerTs, seen, partial,
                   reserved, boardThread, brokerThread, broken, history, gaps, counters>>

\* The stream gets an event from its queue, and looks at the mark only then.
Take ==
    /\ stream = "live" /\ taken = 0 /\ queue # <<>> /\ boardThread = Idle
    /\ taken' = Head(queue)
    /\ queue' = Tail(queue)
    /\ UNCHANGED <<board, fanout, stream, resync, read, cursor, state, boardThread, brokerThread,
                   broken, history, first, gaps, counters>>

\* What the cursor goes past with s: an event whose fan-out is not done, that
\* waits behind s, or that was dropped while the queue is not marked yet.
PassesOver(s) == {t \in (cursor + 1)..(s - 1) : t \in unsent \cup InQueue \cup dropped}

Live ==
    /\ stream = "live" /\ taken # 0 /\ ~resync
    /\ Hand(taken)
    /\ taken' = 0
    /\ passedOver' = passedOver \cup PassesOver(taken)
    /\ UNCHANGED <<board, fanout, stream, queue, resync, read, state, brokerThread, broken, history,
                   first, dropped, counters>>

\* The stream is over: its subscription is dropped, and a writer that is not done
\* with its queue goes on with a queue nobody reads.
EndStream ==
    /\ stream' = "down" /\ queue' = <<>> /\ resync' = FALSE /\ taken' = 0 /\ dropped' = {}
    /\ offer' = [s \in Seqs |-> "none"]
    /\ unsent' = {s \in unsent : offer[s] = "none"}
    /\ UNCHANGED <<read, cursor, passedOver>>

\* Mutant: the service tells the listener of the gap and streams on.
ResyncStreamsOn ==
    /\ stream = "live" /\ taken # 0 /\ resync
    /\ Mark
    /\ resync' = FALSE /\ taken' = 0
    /\ UNCHANGED <<board, fanout, stream, queue, read, cursor, brokerTs, seen, partial, reserved,
                   boardThread, brokerThread, broken, history, gaps, counters>>

\* ": resync" ends the stream: the listener reconnects from what it saved.
Resync ==
    /\ stream = "live" /\ taken # 0 /\ resync
    /\ Mark
    /\ EndStream
    /\ UNCHANGED <<board, brokerTs, seen, partial, reserved, boardThread, brokerThread, broken,
                   history, counters>>

StreamStep == Connect \/ Replay \/ Ready \/ Take \/ Live \/ Resync

\* The connection breaks: what was on the way is lost.
Disconnect ==
    /\ stream # "down" /\ faults < MaxFaults
    /\ faults' = faults + 1
    /\ EndStream
    /\ UNCHANGED <<board, state, boardThread, brokerThread, broken, history, first, crashes>>

-------------------------------------------------------------------------------
(* The listener: the board's thread *)

\* Mutant: reserve looks at what was printed only.
FreeUnlessSeen(s) == IsMessage(s) => s \notin seen

\* reserve: neither printed nor being printed by the other thread.  An event
\* without a message is always its own line.
Free(s) == IsMessage(s) => s \notin seen \cup reserved

Reserve(s) == reserved' = IF IsMessage(s) THEN reserved \cup {s} ELSE reserved

\* Mutant: the thread saves its cursor before the line is written.
BoardClaimsAndAdvances ==
    LET s == boardThread.ev IN
    /\ boardThread.at = "checked"
    /\ IF log[s] # "own" /\ Free(s)
       THEN Reserve(s) /\ boardThread' = At("claimed", s)
       ELSE UNCHANGED reserved /\ boardThread' = At("passed", s)
    /\ SaveBoardSeq(s)
    /\ UNCHANGED <<board, fanout, gaps, service, brokerTs, seen, partial, brokerThread, broken,
                   history, counters>>

\* on_board: the seat's own act moves the cursor only, and so does a message
\* the broker's thread has.
BoardClaims ==
    LET s == boardThread.ev IN
    /\ boardThread.at = "checked"
    /\ IF log[s] # "own" /\ Free(s)
       THEN Reserve(s) /\ boardThread' = At("claimed", s)
       ELSE UNCHANGED reserved /\ boardThread' = At("passed", s)
    /\ UNCHANGED <<board, fanout, gaps, service, boardSeq, brokerTs, seen, partial, brokerThread,
                   broken, history, first, counters>>

\* _compose and the write: a message the preview cuts is fetched whole, or
\* printed as its preview when the fetch fails.
BoardPrints ==
    LET s == boardThread.ev IN
    /\ boardThread.at = "claimed" /\ ~broken
    /\ \/ /\ full' = [full EXCEPT ![s] = @ + 1]
          /\ boardThread' = At("printed", s)
          /\ UNCHANGED cut
       \/ /\ IsMessage(s)
          /\ cut' = [cut EXCEPT ![s] = @ + 1]
          /\ boardThread' = [At("printed", s) EXCEPT !.cut = TRUE]
          /\ UNCHANGED full
    /\ UNCHANGED <<board, fanout, gaps, service, state, broken, brokerThread, first, counters>>

\* commit: the message is seen, and owed in full when only its preview went out.
Keep(s, isCut) ==
    /\ reserved' = reserved \ {s}
    /\ seen' = IF IsMessage(s) THEN seen \cup {s} ELSE seen
    /\ partial' = IF isCut THEN partial \cup {s} ELSE partial

BoardCommits ==
    /\ boardThread.at = "printed"
    /\ Keep(boardThread.ev, boardThread.cut)
    /\ boardThread' = At("passed", boardThread.ev)
    /\ UNCHANGED <<board, fanout, gaps, service, boardSeq, brokerTs, brokerThread, broken, history,
                   first, counters>>

BoardAdvances ==
    /\ boardThread.at = "passed"
    /\ SaveBoardSeq(boardThread.ev)
    /\ boardThread' = Idle
    /\ UNCHANGED <<board, fanout, gaps, service, brokerTs, seen, partial, reserved, brokerThread,
                   broken, history, counters>>

BoardStep == BoardClaims \/ BoardPrints \/ BoardCommits \/ BoardAdvances

-------------------------------------------------------------------------------
(* The listener: the broker's thread *)

\* The inbox is append-only and read from the saved cursor.
\* is_partial: the board's thread printed the preview, the copy completes it.
BrokerReads ==
    LET s == inbox[brokerTs + 1] IN
    /\ brokerThread = Idle /\ brokerTs < Len(inbox)
    /\ brokerThread' = At(IF s \in partial THEN "owing" ELSE "checked", s)
    /\ UNCHANGED <<board, fanout, gaps, service, state, boardThread, broken, history, first, counters>>

BrokerClaims ==
    LET s == brokerThread.ev IN
    /\ brokerThread.at = "checked"
    /\ IF Free(s)
       THEN Reserve(s) /\ brokerThread' = At("claimed", s)
       ELSE UNCHANGED reserved /\ brokerThread' = At("passed", s)
    /\ UNCHANGED <<board, fanout, gaps, service, boardSeq, brokerTs, seen, partial, boardThread,
                   broken, history, first, counters>>

\* The copy carries the whole text.
BrokerPrints ==
    LET s == brokerThread.ev IN
    /\ brokerThread.at \in {"claimed", "owing"} /\ ~broken
    /\ full' = [full EXCEPT ![s] = @ + 1]
    /\ brokerThread' = [At("printed", s) EXCEPT !.cut = brokerThread.at = "owing"]
    /\ UNCHANGED <<board, fanout, gaps, service, state, broken, boardThread, cut, first, counters>>

\* The write raises because nobody reads the output any more: the reservation
\* is dropped, and the retry loop's own line about it ends the thread.
BrokerWriteFails ==
    /\ brokerThread.at \in {"claimed", "owing"} /\ crashes < MaxCrashes
    /\ broken' = TRUE
    /\ reserved' = IF brokerThread.at = "claimed" THEN reserved \ {brokerThread.ev} ELSE reserved
    /\ brokerThread' = At("dead", 0)
    /\ UNCHANGED <<board, fanout, gaps, service, boardSeq, brokerTs, seen, partial, boardThread,
                   history, first, counters>>

\* commit, or complete for a message that was owed.
BrokerCommits ==
    LET s == brokerThread.ev IN
    /\ brokerThread.at = "printed"
    /\ IF brokerThread.cut
       THEN partial' = partial \ {s} /\ UNCHANGED <<seen, reserved>>
       ELSE Keep(s, FALSE)
    /\ brokerThread' = At("passed", s)
    /\ UNCHANGED <<board, fanout, gaps, service, boardSeq, brokerTs, boardThread, broken, history, first, counters>>

BrokerAdvances ==
    /\ brokerThread.at = "passed"
    /\ brokerTs' = brokerTs + 1
    /\ brokerThread' = Idle
    /\ UNCHANGED <<board, fanout, gaps, service, boardSeq, seen, partial, reserved, boardThread, broken, history,
                   first, counters>>

BrokerStep == BrokerReads \/ BrokerClaims \/ BrokerPrints \/ BrokerCommits \/ BrokerAdvances

\* The listener dies, of a write that raised in the board's thread among other
\* things, and is started again with the state it saved.
Crash ==
    /\ crashes < MaxCrashes
    /\ crashes' = crashes + 1 /\ broken' = FALSE
    /\ reserved' = {} /\ boardThread' = Idle /\ brokerThread' = Idle
    /\ EndStream
    /\ UNCHANGED <<board, boardSeq, brokerTs, seen, partial, history, first, faults>>

Next ==
    \/ \E kind \in AllKinds : Commit(kind)
    \/ WriterStep
    \/ \E s \in unpublished : Publish(s)
    \/ StreamStep \/ Disconnect
    \/ BoardStep
    \/ BrokerStep \/ BrokerWriteFails
    \/ Crash

Spec == Init /\ [][Next]_vars

\* Callbacks run, the retry loops reconnect for ever, each thread goes on, and a
\* listener whose output nobody reads is started again by whoever needs it;
\* streams break and the listener dies only finitely often.
Fairness ==
    /\ WF_vars(WriterStep)
    /\ WF_vars(\E s \in unpublished : Publish(s))
    /\ WF_vars(StreamStep)
    /\ WF_vars(BoardStep) /\ WF_vars(BrokerStep) /\ WF_vars(broken /\ Crash)

FairSpec == Spec /\ Fairness

-------------------------------------------------------------------------------
(* Properties *)

BoardTypes ==
    /\ log \in Seq(AllKinds) /\ Len(log) <= MaxEvents
    /\ unpublished \subseteq Committed
    /\ inbox \in Seq(Committed)

WriterTypes ==
    /\ unsent \subseteq Committed
    /\ offer \in [Seqs -> {"none", "full", "dropped", "marked"}]
    /\ dropped \subseteq Committed /\ passedOver \subseteq Committed

ServiceTypes ==
    /\ stream \in {"down", "replay", "live"}
    /\ queue \in Seq(Committed) /\ Len(queue) <= QueueMax
    /\ taken \in Committed \cup {0}
    /\ read \in 0..Len(log) /\ cursor \in 0..Len(log)

ListenerTypes ==
    /\ boardSeq \in {None} \cup 0..Len(log) /\ brokerTs \in 0..Len(inbox)
    /\ seen \subseteq Committed /\ partial \subseteq seen /\ reserved \subseteq Committed
    /\ boardThread \in Threads /\ brokerThread \in Threads

HistoryTypes ==
    /\ cut \in [Seqs -> Nat] /\ full \in [Seqs -> Nat]
    /\ first \in {None} \cup 0..Len(log)
    /\ faults \in 0..MaxFaults /\ crashes \in 0..MaxCrashes

FlagTypes == resync \in BOOLEAN /\ broken \in BOOLEAN

\* Every variable has its type; the queue keeps to its bound.
TypeOK ==
    BoardTypes /\ WriterTypes /\ ServiceTypes /\ ListenerTypes /\ HistoryTypes /\ FlagTypes

Shown(s) == cut[s] + full[s] > 0

\* What the feed must deliver: events after the first cursor the listener saved
\* that are not the seat's own acts.
Owed(s) == first # None /\ s > first /\ log[s] # "own"

\* The broker's thread has yet to come to the copy of s.
CopyAhead(s) == \E i \in (brokerTs + 1)..Len(inbox) : inbox[i] = s

\* FeedState: nothing posted while the listener was down is lost.  The two
\* cursors and the reservations of the two threads agree: an event nobody has
\* printed is still ahead of the board's cursor, or its copy is still ahead of
\* the broker's, whatever overflows, breaks or restarts in between; but for an
\* event that a later one was streamed before.
NeverBehindBoth ==
    \A s \in Committed \ passedOver : Owed(s) /\ ~Shown(s) => s > boardSeq \/ CopyAhead(s)

\* FeedState: nothing already printed prints twice.  Both planes carry each
\* message and either may come first; only a death of the listener between the
\* write of a line and the save of the state repeats the line.
NeverTwice ==
    \A s \in Committed : IsMessage(s) => /\ full[s] <= 1 + crashes
                                         /\ cut[s] <= 1 + crashes

\* Some writer has dropped an event and has yet to mark the queue.
Unmarked == \E s \in Seqs : offer[s] = "dropped"

\* _offer and the feed: while a live stream carries no resync mark, and no writer
\* is about to set it, each event fanned out after what was streamed is in its
\* queue or at hand.
LiveStreamIsComplete ==
    stream = "live" /\ ~resync /\ ~Unmarked =>
        \A s \in Committed \ unsent : s > cursor => s \in InQueue \cup {taken}

\* Something the feed owes is not printed, and no later event was streamed
\* before it.
Outstanding == \E s \in Committed \ passedOver : Owed(s) /\ ~Shown(s)

\* Whatever the feed owes is printed in the end, over overflows of the queue,
\* broken streams, failed writes and restarts: once the writers are done, nothing
\* is outstanding, but for what a later event was streamed before.
EveryEventArrives == Outstanding ~> ~Outstanding
===============================================================================
