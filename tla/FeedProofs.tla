------------------------------ MODULE FeedProofs ------------------------------
(***************************************************************************)
(* Proofs about Feed, for any number of events, broken streams and deaths  *)
(* of the listener, any size of the queue and any order of the fan-outs    *)
(* and of their steps: the types, that a live stream without a resync mark *)
(* has every event, that a message is printed once but for the listener's  *)
(* deaths, and that nothing is lost but what a later event was streamed    *)
(* before.                                                                 *)
(***************************************************************************)
EXTENDS Feed, TLAPS

BusyPlaces == {"checked", "claimed", "printed", "passed"}

\* The board's thread is idle or on an event that was committed.
BoardWell ==
    /\ boardThread.at \in BusyPlaces \cup {"idle"}
    /\ boardThread.at # "idle" => boardThread.ev \in Committed
    /\ boardThread.cut => boardThread.at = "printed" /\ IsMessage(boardThread.ev)

\* The broker's thread is on the next copy of the inbox, which is a message.
BrokerWell ==
    /\ brokerThread.at \in BusyPlaces \cup {"idle", "owing", "dead"}
    /\ brokerThread.at \in BusyPlaces \cup {"owing"} =>
         /\ brokerThread.ev \in Committed /\ IsMessage(brokerThread.ev)
         /\ brokerTs < Len(inbox)
    /\ brokerThread.cut => brokerThread.at = "printed"

MessagesOnly ==
    /\ \A i \in DOMAIN inbox : IsMessage(inbox[i])
    /\ \A s \in unpublished \cup partial \cup reserved : IsMessage(s)

Typed == TypeOK /\ BoardWell /\ BrokerWell /\ MessagesOnly

LEMMA TypeInit == Init => Typed
    <1> SUFFICES ASSUME Init PROVE Typed
      OBVIOUS
    <1>1. Len(log) = 0 /\ Len(inbox) = 0 /\ Committed = {} /\ log \in Seq(AllKinds)
            /\ inbox \in Seq(Committed) /\ queue \in Seq(Committed) /\ Len(queue) = 0
      BY DEF Init, Committed
    <1>2. Idle \in Threads
      BY FeedAssumption DEF Idle, Threads, Places
    <1>3. BoardTypes /\ WriterTypes
      BY <1>1, FeedAssumption DEF Init, BoardTypes, WriterTypes
    <1>4. ServiceTypes
      BY <1>1, FeedAssumption DEF Init, ServiceTypes
    <1>5. ListenerTypes
      BY <1>1, <1>2 DEF Init, ListenerTypes, None
    <1>6. HistoryTypes
      BY <1>1, FeedAssumption DEF Init, HistoryTypes, Seqs, None
    <1>7. FlagTypes
      BY DEF Init, FlagTypes
    <1>8. BoardWell /\ BrokerWell /\ MessagesOnly
      BY <1>1 DEF Init, BoardWell, BrokerWell, MessagesOnly, Idle, BusyPlaces
    <1> QED BY <1>3, <1>4, <1>5, <1>6, <1>7, <1>8 DEF Typed, TypeOK

LEMMA AppendIs ==
    ASSUME NEW S, NEW q \in Seq(S), NEW e \in S
    PROVE  /\ Append(q, e) \in Seq(S) /\ Len(Append(q, e)) = Len(q) + 1
           /\ \A i \in 1..Len(q) : Append(q, e)[i] = q[i]
           /\ Append(q, e)[Len(q) + 1] = e
    OBVIOUS

LEMMA TailIs ==
    ASSUME NEW S, NEW q \in Seq(S), q # <<>>
    PROVE  /\ Tail(q) \in Seq(S) /\ Len(Tail(q)) = Len(q) - 1 /\ Head(q) \in S
           /\ Head(q) = q[1] /\ \A i \in 1..Len(Tail(q)) : Tail(q)[i] = q[i + 1]
           /\ Len(q) \in Nat \ {0}
    OBVIOUS

LEMMA CommitTyped ==
    ASSUME Typed, NEW kind \in AllKinds, Commit(kind)
    PROVE  Typed'
    <1> DEFINE n == Len(log)
    <1> USE DEF Typed, TypeOK
    <1>1. /\ log' \in Seq(AllKinds) /\ Len(log') = n + 1 /\ n \in Nat /\ Len(log') <= MaxEvents
          /\ (\A s \in 1..n : log'[s] = log[s]) /\ log'[n + 1] = kind
      BY AppendIs, FeedAssumption DEF Commit, BoardTypes
    <1>2. Committed' = Committed \cup {n + 1} /\ \A s \in Committed : IsMessage(s)' = IsMessage(s)
      BY <1>1 DEF Committed, IsMessage
    <1>4. unpublished' \subseteq Committed' /\ \A s \in unpublished' : IsMessage(s)'
      <2>1. \A s \in unpublished : s \in Committed' /\ IsMessage(s)'
        BY <1>2 DEF BoardTypes, MessagesOnly
      <2>2. kind = "message" => n + 1 \in Committed' /\ \A s : s = n + 1 => IsMessage(s)'
        BY <1>1, <1>2 DEF IsMessage
      <2> QED BY <2>1, <2>2 DEF Commit
    <1>5. inbox \in Seq(Committed') /\ queue \in Seq(Committed')
      BY <1>2 DEF BoardTypes, ServiceTypes
    <1>6. BoardTypes' /\ WriterTypes'
      <2>1. BoardTypes'
        BY <1>1, <1>2, <1>4, <1>5 DEF Commit, BoardTypes
      <2>2. WriterTypes'
        BY <1>1, <1>2 DEF Commit, WriterTypes, gaps
      <2> QED BY <2>1, <2>2
    <1>7. ServiceTypes'
      BY <1>1, <1>2, <1>5 DEF Commit, ServiceTypes, service
    <1>8. ListenerTypes'
      BY <1>1, <1>2 DEF Commit, ListenerTypes, state
    <1>9. HistoryTypes' /\ FlagTypes'
      <2>1. HistoryTypes'
        BY <1>1 DEF Commit, HistoryTypes, history, counters
      <2>2. FlagTypes'
        BY DEF Commit, FlagTypes, service
      <2> QED BY <2>1, <2>2
    <1>10. MessagesOnly'
      BY <1>2, <1>4 DEF Commit, MessagesOnly, BoardTypes, ListenerTypes, state
    <1>11. BoardWell' /\ BrokerWell'
      BY <1>2 DEF Commit, BoardWell, BrokerWell, state, BusyPlaces
    <1> QED BY <1>6, <1>7, <1>8, <1>9, <1>10, <1>11

\* The steps that leave the board's tables alone.
LEMMA SameLog ==
    ASSUME log' = log
    PROVE  Committed' = Committed /\ \A s : IsMessage(s)' = IsMessage(s)
    BY DEF Committed, IsMessage

LEMMA WriterLeaves == WriterStep => ByWriter
    BY DEF WriterStep, FanOut, DropOldest, MarkResync, PutAgain

\* What a writer does: it goes without a queue, puts its event, finds the queue
\* full, drops its head, finds it empty, marks it, or gives up what it has marked.
LEMMA WriterDoes ==
    ASSUME Typed, WriterStep
    PROVE  \E s \in unsent : s \in Committed /\ s \in Seqs /\
             \/ /\ stream = "down" /\ unsent' = unsent \ {s}
                /\ UNCHANGED <<queue, offer, resync, dropped>>
             \/ /\ Len(queue) < QueueMax /\ queue' = Append(queue, s)
                /\ stream # "down" \/ offer[s] = "marked"
                /\ unsent' = unsent \ {s} /\ UNCHANGED <<resync, dropped>>
                /\ offer' = offer \/ (offer[s] = "marked" /\ Reaches(s, "none"))
             \/ /\ offer[s] = "none" /\ Reaches(s, "full") /\ stream # "down"
                /\ UNCHANGED <<unsent, queue, resync, dropped>>
             \/ /\ offer[s] = "full" /\ Reaches(s, "dropped")
                /\ queue # <<>> /\ queue' = Tail(queue) /\ dropped' = dropped \cup {Head(queue)}
                /\ UNCHANGED <<unsent, resync>>
             \/ /\ offer[s] = "full" /\ Reaches(s, "dropped")
                /\ UNCHANGED <<unsent, queue, resync, dropped>>
             \/ /\ offer[s] = "dropped" /\ Reaches(s, "marked") /\ resync' = TRUE
                /\ UNCHANGED <<unsent, queue, dropped>>
             \/ /\ offer[s] = "marked" /\ Reaches(s, "none")
                /\ unsent' = unsent \ {s} /\ UNCHANGED <<queue, resync, dropped>>
    <1>1. PICK s \in unsent : FanOut(s) \/ DropOldest(s) \/ MarkResync(s) \/ PutAgain(s)
      BY DEF WriterStep
    <1>2. s \in Committed /\ s \in Seqs
      BY FeedAssumption DEF Typed, TypeOK, WriterTypes, BoardTypes, Committed, Seqs
    <1>4. CASE FanOut(s)
      BY <1>2, <1>4 DEF FanOut
    <1>5. CASE DropOldest(s)
      BY <1>2, <1>5 DEF DropOldest
    <1>6. CASE MarkResync(s)
      BY <1>2, <1>6 DEF MarkResync
    <1>7. CASE PutAgain(s)
      BY <1>2, <1>7 DEF PutAgain
    <1> QED BY <1>1, <1>4, <1>5, <1>6, <1>7

LEMMA WriterTyped ==
    ASSUME Typed, WriterStep
    PROVE  Typed'
    <1> USE DEF Typed, TypeOK
    <1>1. /\ UNCHANGED <<log, unpublished, inbox, stream, taken, read, cursor>>
          /\ UNCHANGED <<state, boardThread, brokerThread, broken, history, first, passedOver, counters>>
      BY WriterLeaves DEF ByWriter, board
    <1>2. queue' \in Seq(Committed) /\ Len(queue') <= QueueMax
      <2>1. QueueMax \in Nat \ {0} /\ queue \in Seq(Committed) /\ Len(queue) <= QueueMax
              /\ Len(queue) \in Nat
        BY FeedAssumption DEF ServiceTypes
      <2>2. CASE queue' = queue
        BY <2>1, <2>2
      <2>3. CASE \E s \in Committed : Len(queue) < QueueMax /\ queue' = Append(queue, s)
        BY <2>1, <2>3, AppendIs
      <2>4. CASE queue # <<>> /\ queue' = Tail(queue)
        BY <2>1, <2>4, TailIs
      <2> QED BY <2>2, <2>3, <2>4, WriterDoes
    <1>3. WriterTypes'
      <2>1. unsent' \subseteq unsent
        BY DEF WriterStep, FanOut, DropOldest, MarkResync, PutAgain
      <2>2. offer' \in [Seqs -> {"none", "full", "dropped", "marked"}]
        BY DEF WriterStep, FanOut, DropOldest, MarkResync, PutAgain, Reaches, WriterTypes
      <2>3. dropped' \subseteq Committed
        <3>1. queue # <<>> => Head(queue) \in Committed
          BY TailIs DEF ServiceTypes
        <3> QED BY <3>1 DEF WriterStep, FanOut, DropOldest, MarkResync, PutAgain, WriterTypes
      <2> QED BY <1>1, <2>1, <2>2, <2>3, SameLog DEF WriterTypes
    <1>4. FlagTypes'
      BY <1>1 DEF WriterStep, FanOut, DropOldest, MarkResync, PutAgain, FlagTypes
    <1>5. BoardTypes'
      BY <1>1, SameLog DEF BoardTypes
    <1>6. ServiceTypes'
      BY <1>1, <1>2, SameLog DEF ServiceTypes
    <1>7. ListenerTypes'
      BY <1>1, SameLog DEF ListenerTypes, state
    <1>8. HistoryTypes'
      BY <1>1 DEF HistoryTypes, history, counters
    <1>9. BoardWell' /\ BrokerWell' /\ MessagesOnly'
      BY <1>1, SameLog DEF BoardWell, BrokerWell, MessagesOnly, state
    <1> QED BY <1>3, <1>4, <1>5, <1>6, <1>7, <1>8, <1>9

LEMMA PublishTyped ==
    ASSUME Typed, NEW s \in unpublished, Publish(s)
    PROVE  Typed'
    <1> USE DEF Typed, TypeOK
    <1>1. s \in Committed /\ IsMessage(s) /\ log' = log /\ inbox \in Seq(Committed)
      BY DEF Publish, BoardTypes, MessagesOnly
    <1>2. /\ inbox' \in Seq(Committed) /\ Len(inbox') \in Nat /\ Len(inbox) \in Nat
          /\ Len(inbox) <= Len(inbox')
          /\ \A i \in DOMAIN inbox' : IsMessage(inbox'[i])
      <2>1. CASE inbox' = inbox
        BY <1>1, <2>1 DEF MessagesOnly
      <2>2. CASE inbox' = Append(inbox, s)
        BY <1>1, <2>2, AppendIs DEF MessagesOnly
      <2> QED BY <2>1, <2>2 DEF Publish
    <1>3. BoardTypes' /\ WriterTypes'
      BY <1>1, <1>2, SameLog DEF Publish, BoardTypes, WriterTypes, fanout, gaps
    <1>4. ServiceTypes'
      BY <1>1, SameLog DEF Publish, ServiceTypes, service
    <1>5. ListenerTypes'
      BY <1>1, <1>2, SameLog DEF Publish, ListenerTypes, state
    <1>6. HistoryTypes'
      BY <1>1 DEF Publish, HistoryTypes, history, counters
    <1>7. FlagTypes'
      BY DEF Publish, FlagTypes, service
    <1>8. brokerTs < Len(inbox) => brokerTs < Len(inbox')
      BY <1>2 DEF ListenerTypes
    <1>9. BoardWell' /\ BrokerWell'
      BY <1>1, <1>8, SameLog DEF Publish, BoardWell, BrokerWell, state
    <1>10. MessagesOnly'
      BY <1>1, <1>2, SameLog DEF Publish, MessagesOnly, state
    <1> QED BY <1>3, <1>4, <1>5, <1>6, <1>7, <1>9, <1>10

LEMMA SameBoard ==
    ASSUME Typed, UNCHANGED board
    PROVE  /\ log' = log /\ inbox' = inbox /\ unpublished' = unpublished
           /\ Committed' = Committed /\ \A s : IsMessage(s)' = IsMessage(s)
           /\ BoardTypes'
    <1>1. log' = log /\ inbox' = inbox /\ unpublished' = unpublished
      BY DEF board
    <1> QED BY <1>1, SameLog DEF Typed, TypeOK, BoardTypes

LEMMA SameWriters ==
    ASSUME Typed, UNCHANGED <<board, fanout, gaps>>
    PROVE  UNCHANGED <<unsent, offer, dropped, passedOver>> /\ WriterTypes'
    BY SameBoard DEF Typed, TypeOK, WriterTypes, fanout, gaps

\* What the end of a stream leaves.
LEMMA EndTyped ==
    ASSUME Typed, UNCHANGED board, EndStream
    PROVE  WriterTypes' /\ ServiceTypes' /\ resync' \in BOOLEAN
    <1>1. <<>> \in Seq(Committed) /\ Len(<<>>) <= QueueMax
      BY FeedAssumption
    <1>2. WriterTypes'
      BY SameBoard DEF EndStream, WriterTypes, Typed, TypeOK
    <1>3. ServiceTypes'
      BY <1>1, SameBoard DEF EndStream, ServiceTypes, Typed, TypeOK
    <1> QED BY <1>2, <1>3 DEF EndStream

\* The listener's cursor and what it saves of it.
LEMMA SaveTyped ==
    ASSUME Typed, UNCHANGED board, NEW s \in 0..Len(log), SaveBoardSeq(s)
    PROVE  boardSeq' \in {None} \cup 0..Len(log) /\ first' \in {None} \cup 0..Len(log)
    <1>1. boardSeq \in {None} \cup 0..Len(log) /\ first \in {None} \cup 0..Len(log)
            /\ Len(log) \in Nat
      BY DEF Typed, TypeOK, BoardTypes, ListenerTypes, HistoryTypes
    <1> QED BY <1>1 DEF SaveBoardSeq, Larger, None

LEMMA AtTyped ==
    ASSUME Typed, NEW place \in Places, NEW s \in Committed \cup {0}
    PROVE  /\ At(place, s) \in Threads /\ At(place, s).at = place
           /\ At(place, s).ev = s /\ ~At(place, s).cut
    <1>1. s \in 0..MaxEvents
      BY FeedAssumption DEF Typed, TypeOK, BoardTypes, Committed
    <1> QED BY <1>1 DEF At, Threads

LEMMA CommittedIsSeq == Typed => Committed \subseteq Seqs
    BY FeedAssumption DEF Typed, TypeOK, BoardTypes, Committed, Seqs

LEMMA IdleTyped == Idle \in Threads /\ Idle.at = "idle" /\ ~Idle.cut
    BY FeedAssumption DEF Idle, Threads, Places

LEMMA HandTyped ==
    ASSUME Typed, UNCHANGED <<board, brokerThread, state, history, first, counters>>,
           NEW s \in Committed, Hand(s), WriterTypes', taken' \in Committed \cup {0},
           read' \in 0..Len(log), stream' \in {"down", "replay", "live"},
           queue' \in Seq(Committed), Len(queue') <= QueueMax,
           resync' = resync, broken' = broken
    PROVE  Typed'
    <1> USE DEF Typed, TypeOK
    <1>1. /\ boardThread' = At("checked", s) /\ boardThread' \in Threads
          /\ boardThread'.at = "checked" /\ boardThread'.ev = s /\ ~boardThread'.cut
      BY AtTyped DEF Hand, Places
    <1>2. cursor' \in 0..Len(log)
      BY DEF Hand, Larger, Committed, ServiceTypes, BoardTypes
    <1>3. ServiceTypes'
      BY <1>2, SameBoard DEF ServiceTypes
    <1>4. ListenerTypes'
      BY <1>1, SameBoard DEF ListenerTypes, state
    <1>5. HistoryTypes' /\ FlagTypes'
      <2>1. HistoryTypes'
        BY SameBoard DEF HistoryTypes, history, counters
      <2>2. FlagTypes'
        BY DEF FlagTypes
      <2> QED BY <2>1, <2>2
    <1>6. BoardWell' /\ BrokerWell' /\ MessagesOnly'
      BY <1>1, SameBoard DEF BoardWell, BrokerWell, MessagesOnly, state, BusyPlaces
    <1> QED BY <1>3, <1>4, <1>5, <1>6, SameBoard

\* The steps of the service that hand nothing over.
LEMMA StreamTyped ==
    ASSUME Typed, Connect \/ Ready \/ Take \/ Resync \/ Disconnect
    PROVE  Typed'
    <1> USE DEF Typed, TypeOK
    <1>0. UNCHANGED <<board, brokerTs, seen, partial, reserved, boardThread, brokerThread,
                      broken, history, crashes>>
      BY DEF Connect, Ready, Take, Resync, Disconnect, state, counters
    <1>1. WriterTypes' /\ ServiceTypes' /\ resync' \in BOOLEAN
      <2>1. CASE Resync \/ Disconnect
        BY <1>0, <2>1, EndTyped DEF Resync, Disconnect
      <2>2. CASE Connect \/ Ready \/ Take
        <3>1. stream' \in {"down", "replay", "live"} /\ resync' \in BOOLEAN
          BY <2>2 DEF Connect, Ready, Take, FlagTypes, ServiceTypes
        <3>2. queue' \in Seq(Committed) /\ Len(queue') <= QueueMax /\ taken' \in Committed \cup {0}
          <4>1. <<>> \in Seq(Committed) /\ Len(<<>>) <= QueueMax
            BY FeedAssumption
          <4>2. CASE Connect \/ Ready
            BY <4>1, <4>2 DEF Connect, Ready, ServiceTypes
          <4>3. CASE Take
            BY <4>3, TailIs, FeedAssumption DEF Take, ServiceTypes
          <4> QED BY <2>2, <4>2, <4>3
        <3>3. cursor' \in 0..Len(log) /\ read' \in 0..Len(log)
          BY <2>2 DEF Connect, Ready, Take, ServiceTypes, ListenerTypes, BoardTypes, None
        <3>4. WriterTypes'
          BY <2>2, SameWriters DEF Connect, Ready, Take
        <3> QED BY <1>0, <3>1, <3>2, <3>3, <3>4, SameBoard DEF ServiceTypes
      <2> QED BY <2>1, <2>2
    <1>4. boardSeq' \in {None} \cup 0..Len(log) /\ first' \in {None} \cup 0..Len(log)
      <2>1. CASE Ready \/ Resync
        BY <1>0, <2>1, SaveTyped DEF Ready, Resync, Mark, ServiceTypes
      <2>2. CASE Connect \/ Take \/ Disconnect
        BY <2>2 DEF Connect, Take, Disconnect, state, ListenerTypes, HistoryTypes
      <2> QED BY <2>1, <2>2
    <1>5. faults' \in 0..MaxFaults
      BY FeedAssumption DEF Connect, Ready, Take, Resync, Disconnect, counters, HistoryTypes
    <1>6. BoardTypes' /\ ListenerTypes'
      BY <1>0, <1>4, SameBoard DEF ListenerTypes
    <1>7. HistoryTypes'
      BY <1>0, <1>4, <1>5, SameBoard DEF HistoryTypes, history
    <1>8. FlagTypes'
      BY <1>0, <1>1 DEF FlagTypes
    <1>9. BoardWell' /\ BrokerWell' /\ MessagesOnly'
      BY <1>0, SameBoard DEF BoardWell, BrokerWell, MessagesOnly
    <1> QED BY <1>1, <1>6, <1>7, <1>8, <1>9

LEMMA ServiceTyped ==
    ASSUME Typed, Replay \/ Live
    PROVE  Typed'
    <1> USE DEF Typed, TypeOK
    <1>1. CASE Replay
      <2>1. read + 1 \in Committed /\ read + 1 \in 0..Len(log)
        BY <1>1 DEF Replay, ServiceTypes, BoardTypes, Committed
      <2>2. WriterTypes'
        BY <1>1, SameWriters DEF Replay
      <2> QED BY <1>1, <2>1, <2>2, HandTyped DEF Replay, ServiceTypes
    <1>2. CASE Live
      <2>1. taken \in Committed
        BY <1>2 DEF Live, ServiceTypes
      <2>2. PassesOver(taken) \subseteq Committed
        BY <1>2, <2>1 DEF PassesOver, ServiceTypes, BoardTypes, Committed
      <2>3. WriterTypes'
        BY <1>2, <2>2, SameBoard DEF Live, WriterTypes, fanout
      <2> QED BY <1>2, <2>1, <2>3, HandTyped DEF Live, ServiceTypes
    <1> QED BY <1>1, <1>2

LEMMA BoardStepTyped ==
    ASSUME Typed, BoardStep
    PROVE  Typed'
    <1> USE DEF Typed, TypeOK
    <1> DEFINE s == boardThread.ev
    <1>1. /\ UNCHANGED <<board, fanout, gaps, service, brokerTs, brokerThread, broken, counters>>
          /\ s \in Committed
      BY DEF BoardStep, BoardClaims, BoardPrints, BoardCommits, BoardAdvances, BoardWell, state
    <1>2. /\ boardThread' \in Threads /\ boardThread'.at \in BusyPlaces \cup {"idle"}
          /\ boardThread'.at # "idle" => boardThread'.ev = s
          /\ boardThread'.cut => boardThread'.at = "printed" /\ IsMessage(boardThread'.ev)
      <2>1. CASE BoardClaims
        BY <1>1, <2>1, AtTyped DEF BoardClaims, Places, BusyPlaces
      <2>2. CASE BoardPrints
        <3>1. At("printed", s) \in Threads /\ At("printed", s).at = "printed" /\ At("printed", s).ev = s
                /\ ~At("printed", s).cut
          BY <1>1, AtTyped DEF Places
        <3>2. CASE boardThread' = At("printed", s)
          BY <3>1, <3>2 DEF BusyPlaces
        <3>3. CASE boardThread' = [At("printed", s) EXCEPT !.cut = TRUE] /\ IsMessage(s)
          BY <3>1, <3>3 DEF BusyPlaces, Threads
        <3> QED BY <2>2, <3>2, <3>3 DEF BoardPrints
      <2>3. CASE BoardCommits
        BY <1>1, <2>3, AtTyped DEF BoardCommits, Places, BusyPlaces
      <2>4. CASE BoardAdvances
        BY <2>4, IdleTyped DEF BoardAdvances
      <2> QED BY <2>1, <2>2, <2>3, <2>4 DEF BoardStep
    <1>3. boardSeq' \in {None} \cup 0..Len(log) /\ first' \in {None} \cup 0..Len(log)
      <2>1. CASE BoardAdvances
        BY <1>1, <2>1, SaveTyped DEF BoardAdvances, Committed, BoardTypes
      <2>2. CASE ~BoardAdvances
        BY <2>2 DEF BoardStep, BoardClaims, BoardPrints, BoardCommits, state, ListenerTypes, HistoryTypes
      <2> QED BY <2>1, <2>2
    <1>4. /\ seen' \subseteq Committed /\ partial' \subseteq seen' /\ reserved' \subseteq Committed
          /\ \A m \in partial' \cup reserved' : IsMessage(m)
      <2>1. CASE BoardClaims
        BY <1>1, <2>1 DEF BoardClaims, Reserve, ListenerTypes, MessagesOnly
      <2>2. CASE BoardCommits
        BY <1>1, <2>2 DEF BoardCommits, Keep, ListenerTypes, MessagesOnly, BoardWell
      <2>3. CASE BoardPrints \/ BoardAdvances
        BY <2>3 DEF BoardPrints, BoardAdvances, state, ListenerTypes, MessagesOnly
      <2> QED BY <2>1, <2>2, <2>3 DEF BoardStep
    <1>5. cut' \in [Seqs -> Nat] /\ full' \in [Seqs -> Nat]
      <2>1. CASE BoardPrints
        BY <2>1 DEF BoardPrints, HistoryTypes
      <2>2. CASE ~BoardPrints
        BY <2>2 DEF BoardStep, BoardClaims, BoardCommits, BoardAdvances, history, HistoryTypes
      <2> QED BY <2>1, <2>2
    <1>6. ServiceTypes' /\ ListenerTypes'
      BY <1>1, <1>2, <1>3, <1>4, SameBoard DEF ServiceTypes, ListenerTypes, service
    <1>7. HistoryTypes'
      BY <1>1, <1>3, <1>5, SameBoard DEF HistoryTypes, counters
    <1>8. FlagTypes'
      BY <1>1 DEF FlagTypes, service
    <1>9. BoardWell' /\ BrokerWell' /\ MessagesOnly'
      BY <1>1, <1>2, <1>4, SameBoard DEF BoardWell, BrokerWell, MessagesOnly
    <1> QED BY <1>1, <1>6, <1>7, <1>8, <1>9, SameBoard, SameWriters

LEMMA BrokerStepTyped ==
    ASSUME Typed, BrokerStep \/ BrokerWriteFails
    PROVE  Typed'
    <1> USE DEF Typed, TypeOK
    <1> DEFINE s == brokerThread.ev
    <1>1. UNCHANGED <<board, fanout, gaps, service, boardSeq, boardThread, first, counters>>
      BY DEF BrokerStep, BrokerReads, BrokerClaims, BrokerPrints, BrokerCommits, BrokerAdvances,
             BrokerWriteFails, state, history
    <1>2. ~BrokerReads => s \in Committed /\ IsMessage(s) /\ brokerTs < Len(inbox)
      BY DEF BrokerStep, BrokerClaims, BrokerPrints, BrokerCommits, BrokerAdvances,
             BrokerWriteFails, BrokerWell, BusyPlaces
    <1>3. brokerTs' \in 0..Len(inbox) /\ Len(inbox) \in Nat
            /\ (brokerTs < Len(inbox) /\ ~BrokerAdvances => brokerTs' < Len(inbox))
      <2>1. brokerTs \in 0..Len(inbox) /\ Len(inbox) \in Nat
        BY DEF ListenerTypes, BoardTypes
      <2>2. ~BrokerAdvances => brokerTs' = brokerTs
        BY DEF BrokerStep, BrokerReads, BrokerClaims, BrokerPrints, BrokerCommits, BrokerWriteFails,
               state
      <2>3. BrokerAdvances => brokerTs' = brokerTs + 1 /\ brokerTs < Len(inbox)
        BY DEF BrokerAdvances, BrokerWell, BusyPlaces
      <2> QED BY <2>1, <2>2, <2>3
    <1>4. /\ brokerThread' \in Threads
          /\ brokerThread'.at \in BusyPlaces \cup {"idle", "owing", "dead"}
          /\ brokerThread'.cut => brokerThread'.at = "printed"
          /\ brokerThread'.at \in BusyPlaces \cup {"owing"} =>
               brokerThread'.ev \in Committed /\ IsMessage(brokerThread'.ev)
          /\ BrokerAdvances => brokerThread'.at = "idle"
      <2>1. CASE BrokerReads
        <3> DEFINE m == inbox[brokerTs + 1]
        <3>1. m \in Committed /\ IsMessage(m)
          BY <2>1 DEF BrokerReads, ListenerTypes, BoardTypes, MessagesOnly
        <3>2. brokerThread' = At("owing", m) \/ brokerThread' = At("checked", m)
          BY <2>1 DEF BrokerReads
        <3>3. BrokerAdvances => FALSE
          BY <2>1, IdleTyped DEF BrokerReads, BrokerAdvances
        <3> QED BY <3>1, <3>2, <3>3, AtTyped DEF Places, BusyPlaces
      <2>2. CASE BrokerClaims
        <3>1. brokerThread' = At("claimed", s) \/ brokerThread' = At("passed", s)
          BY <2>2 DEF BrokerClaims
        <3>2. ~BrokerReads /\ ~BrokerAdvances
          BY <2>2, IdleTyped DEF BrokerReads, BrokerAdvances, BrokerClaims
        <3> QED BY <1>2, <3>1, <3>2, AtTyped DEF Places, BusyPlaces
      <2>3. CASE BrokerPrints
        <3>1. ~BrokerReads /\ ~BrokerAdvances
          BY <2>3, IdleTyped DEF BrokerReads, BrokerAdvances, BrokerPrints
        <3>2. /\ At("printed", s) \in Threads /\ At("printed", s).at = "printed"
              /\ At("printed", s).ev = s
          BY <1>2, <3>1, AtTyped DEF Places
        <3>3. (brokerThread.at = "owing") \in BOOLEAN
          OBVIOUS
        <3>4. brokerThread' \in Threads /\ brokerThread'.at = "printed" /\ brokerThread'.ev = s
          BY <2>3, <3>2, <3>3 DEF BrokerPrints, Threads
        <3> QED BY <1>2, <3>1, <3>4 DEF BusyPlaces
      <2>4. CASE BrokerCommits
        <3>1. ~BrokerReads /\ ~BrokerAdvances
          BY <2>4, IdleTyped DEF BrokerReads, BrokerAdvances, BrokerCommits
        <3> QED BY <1>2, <2>4, <3>1, AtTyped DEF BrokerCommits, Places, BusyPlaces
      <2>5. CASE BrokerAdvances
        BY <2>5, IdleTyped DEF BrokerAdvances, BusyPlaces
      <2>6. CASE BrokerWriteFails
        <3>1. ~BrokerAdvances
          BY <2>6 DEF BrokerAdvances, BrokerWriteFails
        <3> QED BY <2>6, <3>1, AtTyped DEF BrokerWriteFails, Places, BusyPlaces
      <2> QED BY <2>1, <2>2, <2>3, <2>4, <2>5, <2>6 DEF BrokerStep
    <1>5. /\ seen' \subseteq Committed /\ partial' \subseteq seen' /\ reserved' \subseteq Committed
          /\ \A m \in partial' \cup reserved' : IsMessage(m)
      <2>1. CASE BrokerClaims
        BY <1>2, <2>1 DEF BrokerClaims, Reserve, ListenerTypes, MessagesOnly, BrokerWell, BusyPlaces
      <2>2. CASE BrokerCommits
        BY <2>2 DEF BrokerCommits, Keep, ListenerTypes, MessagesOnly, BrokerWell, BusyPlaces
      <2>3. CASE BrokerReads \/ BrokerPrints \/ BrokerAdvances \/ BrokerWriteFails
        BY <2>3 DEF BrokerReads, BrokerPrints, BrokerAdvances, BrokerWriteFails, state, ListenerTypes,
                    MessagesOnly
      <2> QED BY <2>1, <2>2, <2>3 DEF BrokerStep
    <1>6. cut' \in [Seqs -> Nat] /\ full' \in [Seqs -> Nat]
      <2>1. CASE BrokerPrints
        <3>1. full' = [full EXCEPT ![s] = @ + 1] /\ cut' = cut
          BY <2>1 DEF BrokerPrints
        <3>2. cut \in [Seqs -> Nat] /\ full \in [Seqs -> Nat]
          BY DEF HistoryTypes
        <3>3. s \in Seqs
          <4>1. ~BrokerReads
            BY <2>1, IdleTyped DEF BrokerReads, BrokerPrints
          <4> QED BY <1>2, <4>1, CommittedIsSeq
        <3> HIDE DEF s
        <3> QED BY <3>1, <3>2, <3>3
      <2>2. CASE ~BrokerPrints
        BY <2>2 DEF BrokerStep, BrokerReads, BrokerClaims, BrokerCommits, BrokerAdvances,
                    BrokerWriteFails, history, HistoryTypes
      <2> QED BY <2>1, <2>2
    <1>7. ServiceTypes' /\ ListenerTypes'
      BY <1>1, <1>3, <1>4, <1>5, SameBoard DEF ServiceTypes, ListenerTypes, service
    <1>8. HistoryTypes'
      BY <1>1, <1>6, SameBoard DEF HistoryTypes, counters
    <1>9. FlagTypes'
      BY <1>1 DEF FlagTypes, service, BrokerStep, BrokerReads, BrokerClaims, BrokerPrints,
             BrokerCommits, BrokerAdvances, BrokerWriteFails
    <1>10. BrokerWell'
      <2>1. brokerThread'.at \in BusyPlaces \cup {"owing"} => brokerTs' < Len(inbox)
        <3>1. BrokerReads => brokerTs < Len(inbox)
          BY DEF BrokerReads
        <3> QED BY <1>2, <1>3, <1>4, <3>1 DEF BusyPlaces
      <2> QED BY <1>1, <1>4, <2>1, SameBoard DEF BrokerWell
    <1>11. BoardWell' /\ MessagesOnly'
      BY <1>1, <1>5, SameBoard DEF BoardWell, MessagesOnly
    <1> QED BY <1>1, <1>7, <1>8, <1>9, <1>10, <1>11, SameBoard, SameWriters

LEMMA CrashTyped ==
    ASSUME Typed, Crash
    PROVE  Typed'
    <1> USE DEF Typed, TypeOK
    <1>1. UNCHANGED <<board, boardSeq, brokerTs, seen, partial, history, first, faults>>
            /\ log' = log
      BY DEF Crash, board
    <1>2. WriterTypes' /\ ServiceTypes' /\ resync' \in BOOLEAN
      BY <1>1, EndTyped DEF Crash
    <1>3. ListenerTypes'
      BY <1>1, SameBoard, IdleTyped DEF Crash, ListenerTypes
    <1>4. HistoryTypes'
      BY <1>1, FeedAssumption DEF Crash, HistoryTypes, history
    <1>5. FlagTypes'
      BY <1>2 DEF Crash, FlagTypes
    <1>6. BoardWell' /\ BrokerWell' /\ MessagesOnly'
      BY <1>1, SameBoard, IdleTyped DEF Crash, BoardWell, BrokerWell, MessagesOnly, BusyPlaces
    <1> QED BY <1>1, <1>2, <1>3, <1>4, <1>5, <1>6, SameBoard

LEMMA TypeNext ==
    ASSUME Typed, [Next]_vars
    PROVE  Typed'
    <1>1. CASE UNCHANGED vars
      <2> USE <1>1 DEF vars, board, service, state, history, counters
      <2>1. UNCHANGED <<board, fanout, gaps, boardThread, brokerThread, broken, first>>
              /\ UNCHANGED <<service, state, history, counters>>
        OBVIOUS
      <2>2. BoardTypes' /\ WriterTypes' /\ ServiceTypes' /\ ListenerTypes' /\ HistoryTypes'
        BY <2>1, SameBoard, SameWriters DEF Typed, TypeOK, ServiceTypes, ListenerTypes, HistoryTypes
      <2>3. FlagTypes'
        BY <2>1 DEF Typed, TypeOK, FlagTypes
      <2>4. BoardWell' /\ BrokerWell' /\ MessagesOnly'
        BY <2>1, SameBoard DEF Typed, BoardWell, BrokerWell, MessagesOnly
      <2> QED BY <2>2, <2>3, <2>4 DEF Typed, TypeOK
    <1> QED BY <1>1, CommitTyped, WriterTyped, PublishTyped, StreamTyped, ServiceTyped,
               BoardStepTyped, BrokerStepTyped, CrashTyped DEF Next, StreamStep

\* Every variable of the board's queue, the service's stream and the listener
\* keeps its type, and the queue its bound, over broken streams and deaths.
THEOREM TypeCorrect == Spec => []TypeOK
    <1>1. Typed => TypeOK
      BY DEF Typed
    <1> QED BY <1>1, TypeInit, TypeNext, PTL DEF Spec

-------------------------------------------------------------------------------
(* What a live stream has *)

\* What was fanned out after what was streamed is in the queue or at hand, or was
\* dropped.
NothingElseMissing ==
    stream = "live" /\ ~resync =>
        \A s \in Committed \ unsent : s > cursor => s \in InQueue \cup {taken} \cup dropped

\* A replay has streamed what it has read, so nothing is left when it ends.
ReplayIsRead == stream = "replay" => cursor = read

\* What was dropped is marked, or about to be.
MarkComes == dropped # {} => resync \/ Unmarked
MarkIsSet == \A s \in Seqs : offer[s] = "marked" => resync

\* Without a stream there is no queue to be at.
QuietWhenDown ==
    stream = "down" => /\ dropped = {} /\ taken = 0 /\ queue = <<>>
                       /\ \A s \in Seqs : offer[s] = "none"

StreamInv == NothingElseMissing /\ ReplayIsRead /\ MarkComes /\ MarkIsSet /\ QuietWhenDown

LEMMA QueueAppends ==
    ASSUME Typed, NEW s \in Committed, queue' = Append(queue, s)
    PROVE  InQueue' = InQueue \cup {s}
    <1>1. queue \in Seq(Committed) /\ DOMAIN queue = 1..Len(queue) /\ Len(queue) \in Nat
      BY DEF Typed, TypeOK, ServiceTypes
    <1>2. /\ DOMAIN queue' = 1..(Len(queue) + 1) /\ queue'[Len(queue) + 1] = s
          /\ \A i \in 1..Len(queue) : queue'[i] = queue[i]
      BY <1>1, AppendIs
    <1>3. DOMAIN queue' = DOMAIN queue \cup {Len(queue) + 1}
      BY <1>1, <1>2
    <1> QED BY <1>1, <1>2, <1>3 DEF InQueue

LEMMA QueueDrops ==
    ASSUME Typed, queue # <<>>, queue' = Tail(queue)
    PROVE  /\ InQueue = InQueue' \cup {Head(queue)}
           /\ Head(queue) \in Committed
    <1>1. queue \in Seq(Committed) /\ DOMAIN queue = 1..Len(queue)
      BY DEF Typed, TypeOK, ServiceTypes
    <1>2. /\ Len(queue) \in Nat \ {0} /\ Head(queue) = queue[1] /\ Head(queue) \in Committed
          /\ DOMAIN queue' = 1..(Len(queue) - 1)
          /\ \A i \in 1..(Len(queue) - 1) : queue'[i] = queue[i + 1]
      BY <1>1, TailIs
    <1>3. \A i \in DOMAIN queue : i = 1 \/ (i - 1 \in DOMAIN queue' /\ queue'[i - 1] = queue[i])
      BY <1>1, <1>2
    <1>4. \A i \in DOMAIN queue' : i + 1 \in DOMAIN queue /\ queue[i + 1] = queue'[i]
      BY <1>1, <1>2
    <1>5. 1 \in DOMAIN queue
      BY <1>1, <1>2
    <1> QED BY <1>2, <1>3, <1>4, <1>5 DEF InQueue

LEMMA WriterStreams ==
    ASSUME Typed, StreamInv, WriterStep
    PROVE  StreamInv'
    <1>0. /\ UNCHANGED <<log, stream, taken, read, cursor>> /\ Committed' = Committed
          /\ offer \in [Seqs -> {"none", "full", "dropped", "marked"}]
      BY WriterLeaves, SameLog DEF ByWriter, board, Typed, TypeOK, WriterTypes
    <1>1. PICK s \in unsent : s \in Committed /\ s \in Seqs /\
             \/ /\ stream = "down" /\ unsent' = unsent \ {s}
                /\ UNCHANGED <<queue, offer, resync, dropped>>
             \/ /\ Len(queue) < QueueMax /\ queue' = Append(queue, s)
                /\ stream # "down" \/ offer[s] = "marked"
                /\ unsent' = unsent \ {s} /\ UNCHANGED <<resync, dropped>>
                /\ offer' = offer \/ (offer[s] = "marked" /\ Reaches(s, "none"))
             \/ /\ offer[s] = "none" /\ Reaches(s, "full") /\ stream # "down"
                /\ UNCHANGED <<unsent, queue, resync, dropped>>
             \/ /\ offer[s] = "full" /\ Reaches(s, "dropped")
                /\ queue # <<>> /\ queue' = Tail(queue) /\ dropped' = dropped \cup {Head(queue)}
                /\ UNCHANGED <<unsent, resync>>
             \/ /\ offer[s] = "full" /\ Reaches(s, "dropped")
                /\ UNCHANGED <<unsent, queue, resync, dropped>>
             \/ /\ offer[s] = "dropped" /\ Reaches(s, "marked") /\ resync' = TRUE
                /\ UNCHANGED <<unsent, queue, dropped>>
             \/ /\ offer[s] = "marked" /\ Reaches(s, "none")
                /\ unsent' = unsent \ {s} /\ UNCHANGED <<queue, resync, dropped>>
      BY WriterDoes
    <1>2. queue' = queue => InQueue' = InQueue
      BY DEF InQueue
    <1>3. NothingElseMissing'
      <2>1. CASE queue' = Append(queue, s) /\ unsent' = unsent \ {s} /\ UNCHANGED <<resync, dropped>>
        BY <1>0, <1>1, <2>1, QueueAppends DEF NothingElseMissing, StreamInv
      <2>2. CASE queue # <<>> /\ queue' = Tail(queue) /\ dropped' = dropped \cup {Head(queue)}
                   /\ UNCHANGED <<unsent, resync>>
        BY <1>0, <2>2, QueueDrops DEF NothingElseMissing, StreamInv
      <2>3. CASE queue' = queue /\ (stream = "down" \/ resync' \/ UNCHANGED <<unsent, resync, dropped>>)
        BY <1>0, <1>2, <2>3 DEF NothingElseMissing, StreamInv
      <2>4. offer[s] = "marked" => resync
        BY <1>1 DEF StreamInv, MarkIsSet
      <2> QED BY <1>1, <2>1, <2>2, <2>3, <2>4
    <1>4. MarkComes' /\ MarkIsSet'
      <2>1. offer[s] = "marked" => resync
        BY <1>1 DEF StreamInv, MarkIsSet
      <2>2. \A r \in Seqs \ {s} : offer'[r] = offer[r]
        BY <1>0, <1>1 DEF Reaches
      <2>3. \A place : Reaches(s, place) => offer'[s] = place
        BY <1>0, <1>1 DEF Reaches
      <2>4. MarkComes'
        <3>1. CASE UNCHANGED dropped /\ (offer[s] # "dropped" \/ offer' = offer) /\ resync' = resync
          BY <2>2, <3>1 DEF StreamInv, MarkComes, Unmarked
        <3>2. CASE Reaches(s, "dropped") \/ resync'
          BY <1>1, <2>3, <3>2 DEF MarkComes, Unmarked
        <3> QED BY <1>1, <3>1, <3>2
      <2>5. MarkIsSet'
        <3>1. resync => resync'
          BY <1>1
        <3>2. offer'[s] = "marked" => resync'
          <4>1. CASE offer' = offer
            BY <2>1, <3>1, <4>1
          <4>2. CASE Reaches(s, "none") \/ Reaches(s, "full") \/ Reaches(s, "dropped")
            BY <2>3, <4>2
          <4> QED BY <1>1, <4>1, <4>2
        <3> QED BY <2>2, <3>1, <3>2 DEF StreamInv, MarkIsSet
      <2> QED BY <2>4, <2>5
    <1>5. QuietWhenDown'
      <2>1. stream = "down" => offer[s] = "none" /\ queue = <<>>
        BY <1>1 DEF StreamInv, QuietWhenDown
      <2> QED BY <1>0, <1>1, <2>1 DEF StreamInv, QuietWhenDown
    <1>6. ReplayIsRead'
      BY <1>0 DEF StreamInv, ReplayIsRead
    <1> QED BY <1>3, <1>4, <1>5, <1>6 DEF StreamInv

LEMMA StreamNext ==
    ASSUME Typed, StreamInv, [Next]_vars
    PROVE  StreamInv'
    <1> USE DEF Typed, TypeOK
    <1>1. ASSUME NEW kind \in AllKinds, Commit(kind)
          PROVE  StreamInv'
      <2>1. Committed' \ unsent' \subseteq Committed \ unsent
        <3>1. log \in Seq(AllKinds) /\ log' = Append(log, kind) /\ unsent' = unsent \cup {Len(log) + 1}
          BY <1>1 DEF Commit, BoardTypes
        <3> QED BY <3>1, AppendIs DEF Committed
      <2>2. UNCHANGED <<offer, stream, queue, resync, taken, read, cursor, dropped>>
        BY <1>1 DEF Commit, service, gaps
      <2> QED BY <2>1, <2>2
              DEF StreamInv, NothingElseMissing, ReplayIsRead, MarkComes, MarkIsSet, QuietWhenDown,
                  Unmarked, InQueue
    <1>2. CASE WriterStep
      BY <1>2, WriterStreams
    <1>3. CASE Connect
      <2>1. /\ UNCHANGED <<offer, taken, dropped>> /\ queue' = <<>> /\ stream' = "replay"
            /\ cursor' = read' /\ stream = "down"
        BY <1>3 DEF Connect, fanout, gaps
      <2>2. dropped = {} /\ \A s \in Seqs : offer[s] = "none"
        BY <2>1 DEF StreamInv, QuietWhenDown
      <2> QED BY <2>1, <2>2
              DEF StreamInv, NothingElseMissing, ReplayIsRead, MarkComes, MarkIsSet, QuietWhenDown
    <1>4. CASE Resync \/ Disconnect \/ Crash
      <2>1. /\ stream' = "down" /\ queue' = <<>> /\ taken' = 0 /\ dropped' = {}
            /\ \A s \in Seqs : offer'[s] = "none"
        BY <1>4 DEF Resync, Disconnect, Crash, EndStream
      <2> QED BY <2>1
              DEF StreamInv, NothingElseMissing, ReplayIsRead, MarkComes, MarkIsSet, QuietWhenDown
    <1>5. CASE Replay
      <2>1. /\ cursor' = read' /\ stream' = "replay"
            /\ UNCHANGED <<offer, queue, resync, taken, dropped>>
        BY <1>5 DEF Replay, Hand, Larger, StreamInv, ReplayIsRead, ServiceTypes, fanout, gaps
      <2> QED BY <2>1
              DEF StreamInv, NothingElseMissing, ReplayIsRead, MarkComes, MarkIsSet, QuietWhenDown, Unmarked
    <1>6. CASE Ready
      <2>1. /\ log' = log /\ cursor' = Len(log) /\ stream' = "live"
            /\ UNCHANGED <<offer, queue, resync, taken, dropped>>
        BY <1>6 DEF Ready, StreamInv, ReplayIsRead, board, fanout, gaps
      <2>2. NothingElseMissing'
        BY <2>1 DEF NothingElseMissing, Committed, BoardTypes
      <2> QED BY <2>1, <2>2
              DEF StreamInv, ReplayIsRead, MarkComes, MarkIsSet, QuietWhenDown, Unmarked
    <1>7. CASE Take
      <2>1. /\ UNCHANGED <<log, unsent, offer, stream, resync, read, cursor, dropped>>
            /\ queue' = Tail(queue) /\ queue # <<>> /\ taken' = Head(queue) /\ stream = "live"
            /\ taken = 0
        BY <1>7 DEF Take, board, fanout, gaps
      <2>2. NothingElseMissing'
        <3>1. InQueue = InQueue' \cup {Head(queue)}
          BY <2>1, QueueDrops
        <3>2. Committed' = Committed /\ 0 \notin Committed
          BY <2>1, SameLog DEF Committed
        <3> QED BY <2>1, <3>1, <3>2 DEF StreamInv, NothingElseMissing
      <2> QED BY <2>1, <2>2
              DEF StreamInv, ReplayIsRead, MarkComes, MarkIsSet, QuietWhenDown, Unmarked
    <1>8. CASE Live
      <2>1. /\ UNCHANGED <<log, unsent, offer, stream, queue, resync, dropped>> /\ stream = "live"
            /\ ~resync /\ cursor' = Larger(cursor, taken)
        BY <1>8 DEF Live, Hand, board, fanout
      <2>2. NothingElseMissing'
        <3>1. cursor \in Int /\ taken \in Int
          BY DEF ServiceTypes, Committed
        <3>2. \A s \in Committed : s > cursor' => s > cursor /\ s # taken
          BY <2>1, <3>1 DEF Larger, Committed
        <3>3. InQueue' = InQueue
          BY <2>1 DEF InQueue
        <3> QED BY <2>1, <3>2, <3>3, SameLog DEF StreamInv, NothingElseMissing
      <2> QED BY <2>1, <2>2
              DEF StreamInv, ReplayIsRead, MarkComes, MarkIsSet, QuietWhenDown, Unmarked
    <1>9. CASE UNCHANGED <<log, unsent, offer, stream, queue, resync, taken, read, cursor, dropped>>
      BY <1>9, SameLog
      DEF StreamInv, NothingElseMissing, ReplayIsRead, MarkComes, MarkIsSet, QuietWhenDown, Unmarked,
          InQueue
    <1>10. (\E s \in unpublished : Publish(s)) \/ BoardStep \/ BrokerStep \/ BrokerWriteFails
            \/ UNCHANGED vars
            => UNCHANGED <<log, unsent, offer, stream, queue, resync, taken, read, cursor, dropped>>
      BY DEF Publish, BoardStep, BoardClaims, BoardPrints, BoardCommits, BoardAdvances,
             BrokerStep, BrokerReads, BrokerClaims, BrokerPrints, BrokerCommits, BrokerAdvances,
             BrokerWriteFails, board, fanout, gaps, service, vars
    <1> QED BY <1>1, <1>2, <1>3, <1>4, <1>5, <1>6, <1>7, <1>8, <1>9, <1>10 DEF Next, StreamStep

LEMMA StreamInit == Init => StreamInv
    BY DEF Init, StreamInv, NothingElseMissing, ReplayIsRead, MarkComes, MarkIsSet, QuietWhenDown

\* While a stream is live and carries no resync mark, and no writer that has
\* dropped an event is about to set it, each event fanned out after what was
\* streamed is in its queue or at hand, though the subscription begins before
\* the replay, the queue drops what does not fit and the writers put, drop and
\* mark beside each other and the stream (board.py 4421-4484, service.py
\* 2245-2272).
THEOREM NothingDropsUnmarked == Spec => []LiveStreamIsComplete
    <1>1. Typed /\ StreamInv /\ [Next]_vars => StreamInv'
      BY StreamNext
    <1>2. StreamInv => LiveStreamIsComplete
      BY DEF StreamInv, NothingElseMissing, MarkComes, LiveStreamIsComplete
    <1> QED BY <1>1, <1>2, TypeInit, TypeNext, StreamInit, PTL DEF Spec

-------------------------------------------------------------------------------
(* Who prints a message, and how often it was printed *)

BoardPrinting(s)  == boardThread.at \in {"claimed", "printed"} /\ boardThread.ev = s
BrokerPrinting(s) == /\ brokerThread.at \in {"claimed", "printed"} /\ ~brokerThread.cut
                     /\ brokerThread.ev = s
Completing(s) == /\ brokerThread.ev = s
                 /\ \/ brokerThread.at = "owing"
                    \/ brokerThread.at = "printed" /\ brokerThread.cut

BoardPut(s, isCut) == boardThread.at = "printed" /\ boardThread.ev = s /\ boardThread.cut = isCut
BrokerPut(s) == brokerThread.at = "printed" /\ brokerThread.ev = s

\* A reservation is one thread's, and keeps the other off the message; the
\* broker's thread completes only what is owed in full.
OnePrinter(s) ==
    /\ BoardPrinting(s) \/ BrokerPrinting(s) => s \in reserved /\ s \notin seen
    /\ ~(BoardPrinting(s) /\ BrokerPrinting(s))
    /\ Completing(s) => s \in partial

\* A message that is not seen, or owed in full, was printed in full before a
\* death of the listener or is by a thread that has yet to say so.
Counted(s) ==
    /\ full[s] <= crashes + 1 /\ cut[s] <= crashes + 1
    /\ s \notin seen => full[s] <= crashes \/ BoardPut(s, FALSE) \/ BrokerPut(s)
    /\ s \notin seen => cut[s] <= crashes \/ BoardPut(s, TRUE)
    /\ s \in partial => full[s] <= crashes \/ BrokerPut(s)

PrintInv ==
    /\ \A s \in Committed : IsMessage(s) => OnePrinter(s) /\ Counted(s)
    /\ \A s \in Seqs \ Committed : full[s] = 0 /\ cut[s] = 0

\* Steps that print nothing, hold nothing more, and forget nothing.
LEMMA PrintsStay ==
    ASSUME Typed, PrintInv,
           UNCHANGED <<log, seen, partial, reserved, brokerThread, cut, full, crashes>>,
           \/ boardThread' = boardThread
           \/ boardThread.at = "idle" /\ boardThread'.at = "checked"
    PROVE  PrintInv'
    <1>1. Committed' = Committed /\ \A s : IsMessage(s)' = IsMessage(s)
      BY SameLog
    <1>2. ASSUME NEW s \in Committed, IsMessage(s)
          PROVE  OnePrinter(s)' /\ Counted(s)'
      <2>1. OnePrinter(s) /\ Counted(s)
        BY <1>2 DEF PrintInv
      <2>2. CASE boardThread' = boardThread
        BY <2>1, <2>2 DEF OnePrinter, Counted, BoardPrinting, BrokerPrinting, Completing, BoardPut,
                          BrokerPut
      <2>3. CASE boardThread.at = "idle" /\ boardThread'.at = "checked"
        BY <2>1, <2>3 DEF OnePrinter, Counted, BoardPrinting, BrokerPrinting, Completing, BoardPut,
                          BrokerPut
      <2> QED BY <2>2, <2>3
    <1> QED BY <1>1, <1>2 DEF PrintInv

LEMMA CommitPrints ==
    ASSUME Typed, PrintInv, NEW kind \in AllKinds, Commit(kind)
    PROVE  PrintInv'
    <1> DEFINE n == Len(log)
    <1>1. n \in Nat /\ Committed' = Committed \cup {n + 1} /\ n + 1 \notin Committed
            /\ \A s \in Committed : IsMessage(s)' = IsMessage(s)
      BY AppendIs DEF Commit, Committed, IsMessage, Typed, TypeOK, BoardTypes
    <1>2. UNCHANGED <<seen, partial, reserved, boardThread, brokerThread, cut, full, crashes>>
      BY DEF Commit, state, history, counters
    <1>3. ASSUME NEW s \in Committed, IsMessage(s)
          PROVE  OnePrinter(s)' /\ Counted(s)'
      BY <1>2, <1>3 DEF PrintInv, OnePrinter, Counted, BoardPrinting, BrokerPrinting, Completing,
                        BoardPut, BrokerPut
    <1>4. ASSUME NEW s, s = n + 1
          PROVE  OnePrinter(s)' /\ Counted(s)'
      <2>1. s \notin Committed /\ ~BoardPrinting(s) /\ ~BrokerPrinting(s) /\ ~Completing(s)
              /\ s \notin partial
        BY <1>1, <1>4 DEF Typed, TypeOK, ListenerTypes, BoardWell, BrokerWell, BusyPlaces,
                          BoardPrinting, BrokerPrinting, Completing
      <2>2. s \in Seqs /\ full[s] = 0 /\ cut[s] = 0 /\ crashes \in Nat
        BY <1>1, <1>4, <2>1, FeedAssumption
        DEF Commit, PrintInv, Seqs, Typed, TypeOK, BoardTypes, HistoryTypes
      <2> QED BY <1>2, <2>1, <2>2
              DEF OnePrinter, Counted, BoardPrinting, BrokerPrinting, Completing, BoardPut, BrokerPut
    <1> HIDE DEF n
    <1> QED BY <1>1, <1>2, <1>3, <1>4 DEF PrintInv

LEMMA CrashPrints ==
    ASSUME Typed, PrintInv, Crash
    PROVE  PrintInv'
    <1>1. /\ log' = log /\ crashes' = crashes + 1 /\ crashes \in Nat
          /\ UNCHANGED <<seen, partial, cut, full>>
          /\ boardThread'.at = "idle" /\ brokerThread'.at = "idle"
          /\ full \in [Seqs -> Nat] /\ cut \in [Seqs -> Nat]
      BY IdleTyped DEF Crash, board, history, Typed, TypeOK, HistoryTypes
    <1>2. Committed' = Committed /\ (\A s : IsMessage(s)' = IsMessage(s)) /\ Committed \subseteq Seqs
      BY <1>1, SameLog, CommittedIsSeq
    <1>3. ASSUME NEW s \in Committed, IsMessage(s)
          PROVE  OnePrinter(s)' /\ Counted(s)'
      <2>1. full[s] <= crashes + 1 /\ cut[s] <= crashes + 1 /\ full[s] \in Nat /\ cut[s] \in Nat
        BY <1>1, <1>2, <1>3 DEF PrintInv, Counted
      <2>2. ~BoardPrinting(s)' /\ ~BrokerPrinting(s)' /\ ~Completing(s)'
        BY <1>1 DEF BoardPrinting, BrokerPrinting, Completing
      <2> QED BY <1>1, <2>1, <2>2
              DEF OnePrinter, Counted, BoardPrinting, BrokerPrinting, Completing, BoardPut, BrokerPut
    <1> QED BY <1>1, <1>2, <1>3 DEF PrintInv

LEMMA BoardStepPrints ==
    ASSUME Typed, PrintInv, BoardStep
    PROVE  PrintInv'
    <1> DEFINE e == boardThread.ev
    <1> USE DEF OnePrinter, Counted, BoardPrinting, BrokerPrinting, Completing, BoardPut, BrokerPut
    <1>1. log' = log /\ crashes' = crashes /\ brokerThread' = brokerThread /\ e \in Committed
      BY DEF BoardStep, BoardClaims, BoardPrints, BoardCommits, BoardAdvances, board, counters,
             Typed, BoardWell
    <1>2. Committed' = Committed /\ (\A s : IsMessage(s)' = IsMessage(s)) /\ Committed \subseteq Seqs
      BY <1>1, SameLog, CommittedIsSeq
    <1>3. full \in [Seqs -> Nat] /\ cut \in [Seqs -> Nat] /\ crashes \in Nat
            /\ partial \subseteq seen
      BY DEF Typed, TypeOK, HistoryTypes, ListenerTypes
    <1>4. \A place \in Places : /\ At(place, e).at = place /\ At(place, e).ev = e
                                /\ At(place, e).cut = FALSE
      BY DEF At
    <1>5. ASSUME NEW s \in Committed, IsMessage(s)
          PROVE  OnePrinter(s)' /\ Counted(s)'
      <2>0. OnePrinter(s) /\ Counted(s) /\ full[s] \in Nat /\ cut[s] \in Nat
        BY <1>2, <1>3, <1>5 DEF PrintInv
      <2>1. CASE BoardClaims
        <3>1. UNCHANGED <<seen, partial, cut, full>>
          BY <2>1 DEF BoardClaims, history
        <3>2. CASE boardThread' = At("passed", e) /\ reserved' = reserved
          BY <1>1, <1>4, <2>0, <2>1, <3>1, <3>2 DEF Places, BoardClaims
        <3>3. CASE boardThread' = At("claimed", e) /\ Free(e) /\ Reserve(e)
          BY <1>1, <1>4, <1>5, <2>0, <2>1, <3>1, <3>3 DEF Places, BoardClaims, Free, Reserve
        <3> QED BY <2>1, <3>2, <3>3 DEF BoardClaims
      <2>2. CASE BoardPrints
        <3>1. UNCHANGED <<seen, partial, reserved>> /\ boardThread.at = "claimed"
          BY <2>2 DEF BoardPrints, state
        <3>2. CASE full' = [full EXCEPT ![e] = @ + 1] /\ boardThread' = At("printed", e) /\ cut' = cut
          <4>1. boardThread'.at = "printed" /\ boardThread'.ev = e /\ boardThread'.cut = FALSE
            BY <1>4, <3>2 DEF Places
          <4>2. CASE s = e
            <5>1. full'[s] = full[s] + 1 /\ cut'[s] = cut[s]
              BY <1>2, <1>3, <3>2, <4>2
            <5>2. full[s] <= crashes /\ cut[s] <= crashes
              BY <1>3, <2>0, <3>1, <4>2
            <5> QED BY <1>1, <1>3, <2>0, <3>1, <4>1, <4>2, <5>1, <5>2
          <4>3. CASE s # e
            <5>1. full'[s] = full[s] /\ cut'[s] = cut[s]
              BY <1>2, <1>3, <3>2, <4>3
            <5> QED BY <1>1, <1>3, <2>0, <3>1, <4>1, <4>3, <5>1
          <4> QED BY <4>2, <4>3
        <3>3. CASE /\ cut' = [cut EXCEPT ![e] = @ + 1] /\ full' = full
                   /\ boardThread' = [At("printed", e) EXCEPT !.cut = TRUE]
          <4>1. boardThread'.at = "printed" /\ boardThread'.ev = e /\ boardThread'.cut = TRUE
            BY <1>4, <3>3 DEF Places, At
          <4>2. CASE s = e
            <5>1. cut'[s] = cut[s] + 1 /\ full'[s] = full[s]
              BY <1>2, <1>3, <3>3, <4>2
            <5>2. full[s] <= crashes /\ cut[s] <= crashes
              BY <1>3, <2>0, <3>1, <4>2
            <5> QED BY <1>1, <1>3, <2>0, <3>1, <4>1, <4>2, <5>1, <5>2
          <4>3. CASE s # e
            <5>1. full'[s] = full[s] /\ cut'[s] = cut[s]
              BY <1>2, <1>3, <3>3, <4>3
            <5> QED BY <1>1, <1>3, <2>0, <3>1, <4>1, <4>3, <5>1
          <4> QED BY <4>2, <4>3
        <3> QED BY <2>2, <3>2, <3>3 DEF BoardPrints
      <2>3. CASE BoardCommits
        <3>1. /\ boardThread.at = "printed" /\ boardThread'.at = "passed"
              /\ UNCHANGED <<cut, full>> /\ reserved' = reserved \ {e}
              /\ seen' = IF IsMessage(e) THEN seen \cup {e} ELSE seen
              /\ partial' = IF boardThread.cut THEN partial \cup {e} ELSE partial
          BY <1>4, <2>3 DEF BoardCommits, Keep, history, Places
        <3>2. boardThread.cut => boardThread.cut = TRUE
          BY DEF Typed, TypeOK, ListenerTypes, Threads
        <3>3. ~boardThread.cut => boardThread.cut = FALSE
          BY DEF Typed, TypeOK, ListenerTypes, Threads
        <3> QED BY <1>1, <1>3, <1>5, <2>0, <3>1, <3>2, <3>3
      <2>4. CASE BoardAdvances
        <3>1. /\ boardThread.at = "passed" /\ boardThread'.at = "idle"
              /\ UNCHANGED <<seen, partial, reserved, cut, full>>
          BY <2>4, IdleTyped DEF BoardAdvances, history
        <3> QED BY <1>1, <2>0, <3>1
      <2> QED BY <2>1, <2>2, <2>3, <2>4 DEF BoardStep
    <1>6. ASSUME NEW s \in Seqs \ Committed
          PROVE  full'[s] = full[s] /\ cut'[s] = cut[s]
      BY <1>1, <1>3, <1>6 DEF BoardStep, BoardClaims, BoardPrints, BoardCommits, BoardAdvances, history
    <1> HIDE DEF OnePrinter, Counted
    <1> QED BY <1>2, <1>5, <1>6 DEF PrintInv

LEMMA BrokerStepPrints ==
    ASSUME Typed, PrintInv, BrokerStep \/ BrokerWriteFails
    PROVE  PrintInv'
    <1> DEFINE e == brokerThread.ev
    <1> USE DEF OnePrinter, Counted, BoardPrinting, BrokerPrinting, Completing, BoardPut, BrokerPut
    <1>1. log' = log /\ crashes' = crashes /\ boardThread' = boardThread /\ cut' = cut
      BY DEF BrokerStep, BrokerReads, BrokerClaims, BrokerPrints, BrokerCommits, BrokerAdvances,
             BrokerWriteFails, board, counters, history
    <1>2. Committed' = Committed /\ (\A s : IsMessage(s)' = IsMessage(s)) /\ Committed \subseteq Seqs
      BY <1>1, SameLog, CommittedIsSeq
    <1>3. full \in [Seqs -> Nat] /\ crashes \in Nat /\ partial \subseteq seen
            /\ brokerThread.cut \in BOOLEAN
      BY DEF Typed, TypeOK, HistoryTypes, ListenerTypes, Threads
    <1>4. \A m : \A place \in Places : /\ At(place, m).at = place /\ At(place, m).ev = m
                                   /\ ~At(place, m).cut
      BY DEF At
    <1>5. ~BrokerReads /\ ~BrokerWriteFails => e \in Committed /\ IsMessage(e)
      BY DEF BrokerStep, BrokerClaims, BrokerPrints, BrokerCommits, BrokerAdvances, Typed, BrokerWell,
             BusyPlaces
    <1>6. ASSUME NEW s \in Committed, IsMessage(s)
          PROVE  OnePrinter(s)' /\ Counted(s)'
      <2>0. OnePrinter(s) /\ Counted(s) /\ full[s] \in Nat
        BY <1>2, <1>3, <1>6 DEF PrintInv
      <2>1. CASE BrokerReads
        <3> DEFINE m == inbox[brokerTs + 1]
        <3>1. /\ UNCHANGED <<seen, partial, reserved, full>>
              /\ brokerThread = Idle
              /\ \/ m \in partial /\ brokerThread' = At("owing", m)
                 \/ brokerThread' = At("checked", m)
          BY <2>1 DEF BrokerReads, state, history
        <3>2. brokerThread.at = "idle"
          BY <3>1, IdleTyped
        <3> HIDE DEF m
        <3>3. CASE m \in partial /\ brokerThread' = At("owing", m)
          <4>1. brokerThread'.at = "owing" /\ brokerThread'.ev = m
            BY <1>4, <3>3 DEF Places
          <4> QED BY <1>1, <2>0, <3>1, <3>2, <3>3, <4>1
        <3>4. CASE brokerThread' = At("checked", m)
          <4>1. brokerThread'.at = "checked"
            BY <1>4, <3>4 DEF Places
          <4> QED BY <1>1, <2>0, <3>1, <3>2, <4>1
        <3> QED BY <3>1, <3>3, <3>4
      <2>2. CASE BrokerClaims
        <3>1. UNCHANGED <<seen, partial, full>> /\ brokerThread.at = "checked"
          BY <2>2 DEF BrokerClaims, history
        <3>2. CASE brokerThread' = At("passed", e) /\ reserved' = reserved
          <4>1. brokerThread'.at = "passed"
            BY <1>4, <3>2 DEF Places
          <4> QED BY <1>1, <2>0, <3>1, <3>2, <4>1
        <3>3. CASE brokerThread' = At("claimed", e) /\ Free(e) /\ Reserve(e)
          <4>1. brokerThread'.at = "claimed" /\ brokerThread'.ev = e
            BY <1>4, <3>3 DEF Places
          <4>2. e \notin seen \cup reserved /\ reserved' = reserved \cup {e}
            BY <1>5, <2>2, <3>3, IdleTyped DEF Free, Reserve, BrokerClaims, BrokerReads, BrokerWriteFails
          <4> QED BY <1>1, <2>0, <3>1, <4>1, <4>2
        <3> QED BY <2>2, <3>2, <3>3 DEF BrokerClaims
      <2>3. CASE BrokerPrints
        <3>1. /\ UNCHANGED <<seen, partial, reserved>> /\ brokerThread.at \in {"claimed", "owing"}
              /\ full' = [full EXCEPT ![e] = @ + 1] /\ ~brokerThread.cut
          BY <2>3 DEF BrokerPrints, state, Typed, BrokerWell
        <3>2. brokerThread'.at = "printed" /\ brokerThread'.ev = e
                /\ (brokerThread'.cut <=> brokerThread.at = "owing")
          BY <2>3 DEF BrokerPrints, At
        <3>3. CASE s = e
          <4>1. full'[s] = full[s] + 1
            BY <1>2, <1>3, <3>1, <3>3
          <4>2. full[s] <= crashes
            <5>1. CASE brokerThread.at = "claimed"
              BY <2>0, <3>1, <3>3, <5>1
            <5>2. CASE brokerThread.at = "owing"
              <6>1. Completing(s) /\ ~BrokerPut(s)
                BY <3>3, <5>2
              <6>2. s \in partial
                BY <2>0, <6>1
              <6> QED BY <2>0, <6>1, <6>2
            <5> QED BY <3>1, <5>1, <5>2
          <4>3. OnePrinter(s)'
            <5>1. CASE brokerThread.at = "claimed"
              <6>1. ~brokerThread'.cut
                BY <3>2, <5>1
              <6> QED BY <1>1, <2>0, <3>1, <3>2, <3>3, <5>1, <6>1
            <5>2. CASE brokerThread.at = "owing"
              <6>1. s \in partial /\ s \in seen
                BY <1>3, <2>0, <3>3, <5>2
              <6>2. ~BoardPrinting(s) /\ brokerThread'.cut
                BY <2>0, <3>2, <5>2, <6>1
              <6> QED BY <1>1, <2>0, <3>1, <3>2, <3>3, <6>1, <6>2
            <5> QED BY <3>1, <5>1, <5>2
          <4>4. Counted(s)'
            BY <1>1, <1>3, <2>0, <3>1, <3>2, <3>3, <4>1, <4>2
          <4> QED BY <4>3, <4>4
        <3>4. CASE s # e
          <4>1. full'[s] = full[s]
            BY <1>2, <1>3, <3>1, <3>4
          <4> QED BY <1>1, <2>0, <3>1, <3>2, <3>4, <4>1
        <3> QED BY <3>3, <3>4
      <2>4. CASE BrokerCommits
        <3>1. brokerThread.at = "printed" /\ brokerThread'.at = "passed" /\ full' = full
          BY <1>4, <2>4 DEF BrokerCommits, history, Places
        <3>2. CASE brokerThread.cut
          <4>1. partial' = partial \ {e} /\ seen' = seen /\ reserved' = reserved
            BY <2>4, <3>2 DEF BrokerCommits
          <4> QED BY <1>1, <1>3, <2>0, <3>1, <3>2, <4>1
        <3>3. CASE ~brokerThread.cut
          <4>1. /\ seen' = seen \cup {e} /\ reserved' = reserved \ {e} /\ partial' = partial
            BY <1>5, <2>4, <3>3, IdleTyped DEF BrokerCommits, BrokerReads, BrokerWriteFails, Keep
          <4> QED BY <1>1, <1>3, <2>0, <3>1, <3>3, <4>1
        <3> QED BY <3>2, <3>3
      <2>5. CASE BrokerAdvances
        <3>1. /\ brokerThread.at = "passed" /\ brokerThread'.at = "idle"
              /\ UNCHANGED <<seen, partial, reserved, full>>
          BY <2>5, IdleTyped DEF BrokerAdvances, history
        <3> QED BY <1>1, <2>0, <3>1
      <2>6. CASE BrokerWriteFails
        <3>1. /\ brokerThread.at \in {"claimed", "owing"} /\ brokerThread'.at = "dead"
              /\ UNCHANGED <<seen, partial, full>>
          BY <1>4, <2>6 DEF BrokerWriteFails, history, Places
        <3>2. reserved' = IF brokerThread.at = "claimed" THEN reserved \ {e} ELSE reserved
          BY <2>6 DEF BrokerWriteFails
        <3>3. ~brokerThread.cut
          BY <3>1 DEF Typed, BrokerWell
        <3> QED BY <1>1, <2>0, <3>1, <3>2, <3>3
      <2> QED BY <2>1, <2>2, <2>3, <2>4, <2>5, <2>6 DEF BrokerStep
    <1>7. ASSUME NEW s \in Seqs \ Committed
          PROVE  full'[s] = full[s]
      <2>1. CASE BrokerPrints
        <3>1. full' = [full EXCEPT ![e] = @ + 1] /\ e # s
          BY <1>5, <1>7, <2>1, IdleTyped DEF BrokerPrints, BrokerReads, BrokerWriteFails, BrokerWell, Typed,
                                            BusyPlaces
        <3> QED BY <1>3, <3>1
      <2>2. CASE ~BrokerPrints
        BY <2>2 DEF BrokerStep, BrokerReads, BrokerClaims, BrokerCommits, BrokerAdvances,
                    BrokerWriteFails, history
      <2> QED BY <2>1, <2>2
    <1> HIDE DEF OnePrinter, Counted
    <1> QED BY <1>1, <1>2, <1>6, <1>7 DEF PrintInv

LEMMA PrintInit == Init => PrintInv
    BY DEF Init, PrintInv, Committed, Seqs

LEMMA PrintNext ==
    ASSUME Typed, PrintInv, [Next]_vars
    PROVE  PrintInv'
    <1>1. ASSUME \/ WriterStep
                 \/ \E s \in unpublished : Publish(s)
                 \/ StreamStep \/ Disconnect \/ UNCHANGED vars
          PROVE  PrintInv'
      <2>1. UNCHANGED <<log, seen, partial, reserved, brokerThread, cut, full, crashes>>
        BY <1>1, WriterLeaves
        DEF ByWriter, Publish, StreamStep, Connect, Replay, Ready, Take, Live, Resync, Disconnect, vars,
            board, state, history, counters
      <2>2. \/ boardThread' = boardThread
            \/ boardThread = Idle /\ \E s \in Int : boardThread' = At("checked", s)
        <3>1. Replay => read + 1 \in Int
          BY DEF Typed, TypeOK, ServiceTypes
        <3>2. Live => taken \in Int
          BY DEF Live, Typed, TypeOK, ServiceTypes, Committed
        <3> QED BY <1>1, <3>1, <3>2, WriterLeaves
                DEF ByWriter, Publish, StreamStep, Connect, Replay, Ready, Take, Live, Resync, Disconnect,
                    Hand, vars
      <2>3. \A s : At("checked", s).at = "checked"
        BY DEF At
      <2> QED BY <2>1, <2>2, <2>3, PrintsStay, IdleTyped
    <1> QED BY <1>1, CommitPrints, CrashPrints, BoardStepPrints, BrokerStepPrints DEF Next

\* A message is printed once, as its preview and in full, but for one more time
\* per death of the listener: neither the plane that came second, nor a
\* reconnection, nor a replay repeats it (feed_driver.py 309-332, 552-596,
\* 676-735).
THEOREM MessagesPrintOnce == Spec => []NeverTwice
    <1>1. Typed /\ PrintInv => NeverTwice
      <2>1. Typed => /\ crashes \in Nat /\ full \in [Seqs -> Nat] /\ cut \in [Seqs -> Nat]
                     /\ Committed \subseteq Seqs
        BY CommittedIsSeq DEF Typed, TypeOK, HistoryTypes
      <2>2. ASSUME Typed, PrintInv, NEW s \in Committed, IsMessage(s)
            PROVE  full[s] <= 1 + crashes /\ cut[s] <= 1 + crashes
        <3>1. full[s] <= crashes + 1 /\ cut[s] <= crashes + 1
          BY <2>2 DEF PrintInv, Counted
        <3> QED BY <2>1, <2>2, <3>1
      <2> QED BY <2>2 DEF NeverTwice
    <1>2. Typed /\ PrintInv /\ [Next]_vars => (Typed /\ PrintInv)'
      BY TypeNext, PrintNext
    <1> QED BY <1>1, <1>2, TypeInit, PrintInit, PTL DEF Spec

-------------------------------------------------------------------------------
(* What nobody has printed is still to come *)

\* A copy is of an event whose fan-out is done.
SentInv == \A i \in DOMAIN inbox : inbox[i] \notin unsent

BoardBusy == boardThread.at \in BusyPlaces

\* Between the saved cursor and what was streamed, or the event the board's thread
\* is at, there is nothing but what a later event was streamed before.
CursorInv ==
    /\ first = None <=> boardSeq = None
    /\ stream = "live" => boardSeq # None
    /\ stream # "down" /\ boardSeq # None =>
         \A u \in Committed : boardSeq < u /\ u <= cursor =>
             u \in passedOver \/ (BoardBusy /\ u = boardThread.ev)
    /\ stream = "replay" => boardSeq <= cursor
    /\ stream = "replay" /\ BoardBusy => boardThread.ev = cursor
    /\ BoardBusy /\ boardSeq # None =>
         \A u \in Committed : boardSeq < u /\ u < boardThread.ev => u \in passedOver

\* What is seen was printed, what is reserved is being printed.
ShownInv ==
    /\ \A s \in seen : Shown(s)
    /\ boardThread.at = "printed" => Shown(boardThread.ev)
    /\ brokerThread.at = "printed" => Shown(brokerThread.ev)
    /\ \A s \in reserved : BoardPrinting(s) \/ BrokerPrinting(s)
    /\ brokerThread.at \in BusyPlaces \cup {"owing"} => brokerThread.ev = inbox[brokerTs + 1]

\* The broker's thread has s and has not printed it, or died of it.
Held(s) == \/ brokerThread.at = "dead"
           \/ brokerThread.at = "claimed" /\ brokerThread.ev = s

\* A thread passes a message unprinted only for the sake of the other.
PassedInv ==
    /\ boardThread.at = "passed" =>
         \/ log[boardThread.ev] = "own" \/ Shown(boardThread.ev)
         \/ CopyAhead(boardThread.ev) /\ Held(boardThread.ev)
    /\ brokerThread.at = "passed" /\ ~Shown(brokerThread.ev) =>
         boardThread.at = "claimed" /\ boardThread.ev = brokerThread.ev

\* The board's stream brings an event once more.
Again(s) == \/ s \in InQueue \/ taken = s
            \/ boardThread.at \in {"checked", "claimed"} /\ boardThread.ev = s

Skipped(s) == s \notin passedOver /\ Owed(s) /\ ~Shown(s) /\ s <= boardSeq

\* The copy of what the board's cursor has skipped is ahead; and the board's
\* thread is at it once more only while the broker's has it.
SkipInv == \A s \in Committed : Skipped(s) => CopyAhead(s) /\ (Again(s) => Held(s))

LEMMA SentNext ==
    ASSUME Typed, SentInv, [Next]_vars
    PROVE  SentInv'
    <1>0. inbox \in Seq(Committed) /\ Len(log) \in Nat
      BY DEF Typed, TypeOK, BoardTypes
    <1>1. ASSUME NEW kind \in AllKinds, Commit(kind)
          PROVE  SentInv'
      <2>1. unsent' = unsent \cup {Len(log) + 1} /\ inbox' = inbox
        BY <1>1 DEF Commit
      <2>2. \A i \in DOMAIN inbox : inbox[i] # Len(log) + 1
        BY <1>0 DEF Committed
      <2> QED BY <2>1, <2>2 DEF SentInv
    <1>2. ASSUME NEW s \in unpublished, Publish(s)
          PROVE  SentInv'
      <2>1. unsent' = unsent /\ s \notin unsent /\ s \in Committed
        BY <1>2 DEF Publish, fanout, Typed, TypeOK, BoardTypes
      <2>2. CASE inbox' = inbox
        BY <2>1, <2>2 DEF SentInv
      <2>3. CASE inbox' = Append(inbox, s)
        <3>1. /\ DOMAIN inbox' = 1..(Len(inbox) + 1) /\ inbox'[Len(inbox) + 1] = s
              /\ \A i \in 1..Len(inbox) : inbox'[i] = inbox[i]
              /\ DOMAIN inbox = 1..Len(inbox) /\ Len(inbox) \in Nat
          BY <1>0, <2>1, <2>3, AppendIs
        <3>2. \A i \in DOMAIN inbox' : i \in DOMAIN inbox \/ i = Len(inbox) + 1
          BY <3>1
        <3> QED BY <2>1, <3>1, <3>2 DEF SentInv
      <2> QED BY <1>2, <2>2, <2>3 DEF Publish
    <1>3. CASE inbox' = inbox /\ unsent' \subseteq unsent
      BY <1>3 DEF SentInv
    <1>4. WriterStep => inbox' = inbox /\ unsent' \subseteq unsent
      BY WriterLeaves DEF ByWriter, board, WriterStep, FanOut, DropOldest, MarkResync, PutAgain
    <1>5. Resync \/ Disconnect \/ Crash => inbox' = inbox /\ unsent' \subseteq unsent
      BY DEF Resync, Disconnect, Crash, EndStream, board
    <1>6. Connect \/ Replay \/ Ready \/ Take \/ Live \/ BoardStep \/ BrokerStep \/ BrokerWriteFails
            \/ UNCHANGED vars => UNCHANGED <<inbox, unsent>>
      BY DEF Connect, Replay, Ready, Take, Live, BoardStep, BoardClaims, BoardPrints, BoardCommits,
             BoardAdvances, BrokerStep, BrokerReads, BrokerClaims, BrokerPrints, BrokerCommits,
             BrokerAdvances, BrokerWriteFails, board, fanout, vars
    <1> QED BY <1>1, <1>2, <1>3, <1>4, <1>5, <1>6 DEF Next, StreamStep

LEMMA CursorStays ==
    ASSUME CursorInv, UNCHANGED <<log, first, boardSeq, stream, cursor>>,
           passedOver \subseteq passedOver',
           \/ boardThread' = boardThread
           \/ BoardBusy /\ BoardBusy' /\ boardThread'.ev = boardThread.ev
    PROVE  CursorInv'
    <1>1. Committed' = Committed
      BY SameLog
    <1> QED BY <1>1 DEF CursorInv, BoardBusy

\* A live stream that goes on to s has streamed what is before s, or goes past it.
LEMMA LiveGoesOn ==
    ASSUME Typed, StreamInv, Live
    PROVE  /\ taken \in Committed
           /\ \A u \in Committed : cursor < u /\ u < taken => u \in passedOver'
    <1>1. /\ taken \in Committed /\ stream = "live" /\ ~resync
          /\ passedOver' = passedOver \cup PassesOver(taken)
          /\ cursor \in Nat /\ Committed \subseteq Nat
      BY DEF Live, Typed, TypeOK, ServiceTypes, BoardTypes, Committed
    <1>2. ASSUME NEW u \in Committed, cursor < u, u < taken
          PROVE  u \in PassesOver(taken)
      <2>1. u \in unsent \cup InQueue \cup dropped
        BY <1>1, <1>2 DEF StreamInv, NothingElseMissing
      <2>2. u \in (cursor + 1)..(taken - 1)
        BY <1>1, <1>2
      <2> QED BY <2>1, <2>2 DEF PassesOver
    <1> QED BY <1>1, <1>2

LEMMA HandCursor ==
    ASSUME Typed, CursorInv, NEW s \in Committed, Hand(s), stream # "down",
           UNCHANGED <<log, first, boardSeq, stream>>, passedOver \subseteq passedOver',
           \A u \in Committed : cursor < u /\ u < s => u \in passedOver',
           stream = "replay" => s = cursor + 1
    PROVE  CursorInv'
    <1>1. /\ boardThread = Idle /\ boardThread' = At("checked", s) /\ cursor' = Larger(cursor, s)
          /\ cursor \in Nat /\ s \in Nat /\ boardSeq \in Int /\ Committed \subseteq Nat
      BY DEF Hand, Typed, TypeOK, ServiceTypes, ListenerTypes, BoardTypes, Committed, None
    <1>2. ~BoardBusy /\ BoardBusy' /\ boardThread'.ev = s
      BY <1>1, IdleTyped DEF At, BoardBusy, BusyPlaces
    <1>3. boardSeq # None => \A u \in Committed : boardSeq < u /\ u <= cursor => u \in passedOver'
      BY <1>2 DEF CursorInv
    <1>4. Committed' = Committed
      BY SameLog
    <1>5. boardSeq # None => \A u \in Committed : boardSeq < u /\ u < s => u \in passedOver'
      <2>1. \A u \in Committed : u <= cursor \/ cursor < u
        BY <1>1
      <2> QED BY <1>3, <2>1
    <1>6. \A u \in Committed : u <= cursor' => u <= cursor \/ u < s \/ u = s
      BY <1>1 DEF Larger
    <1>7. stream = "replay" => cursor' = s /\ boardSeq <= cursor'
      BY <1>1 DEF CursorInv, Larger
    <1> QED BY <1>2, <1>3, <1>4, <1>5, <1>6, <1>7 DEF CursorInv

LEMMA CursorNext ==
    ASSUME Typed, StreamInv, CursorInv, [Next]_vars
    PROVE  CursorInv'
    <1>0. /\ cursor \in Nat /\ boardSeq \in {None} \cup Nat /\ first \in {None} \cup Nat
          /\ Len(log) \in Nat /\ read \in Nat /\ stream \in {"down", "replay", "live"}
          /\ Committed = 1..Len(log) /\ cursor <= Len(log)
      BY DEF Typed, TypeOK, ServiceTypes, ListenerTypes, HistoryTypes, BoardTypes, Committed
    <1>1. ASSUME WriterStep \/ (\E s \in unpublished : Publish(s)) \/ Take
                   \/ BrokerStep \/ BrokerWriteFails \/ UNCHANGED vars
          PROVE  CursorInv'
      <2>1. UNCHANGED <<log, first, boardSeq, stream, cursor, boardThread, passedOver>>
        BY <1>1, WriterLeaves
        DEF ByWriter, Publish, Take, BrokerStep, BrokerReads, BrokerClaims, BrokerPrints,
            BrokerCommits, BrokerAdvances, BrokerWriteFails, vars, board, service, state, gaps
      <2> QED BY <2>1, CursorStays
    <1>9. ASSUME NEW kind \in AllKinds, Commit(kind)
          PROVE  CursorInv'
      <2>1. /\ UNCHANGED <<first, boardSeq, stream, cursor, boardThread, passedOver>>
            /\ Committed' = Committed \cup {Len(log) + 1}
        BY <1>0, <1>9, AppendIs DEF Commit, Committed, service, state, gaps, Typed, TypeOK, BoardTypes
      <2>2. BoardBusy' = BoardBusy /\ (BoardBusy => boardThread.ev \in Committed)
        BY <2>1 DEF BoardBusy, BusyPlaces, Typed, BoardWell
      <2>3. ~(Len(log) + 1 <= cursor) /\ (BoardBusy => ~(Len(log) + 1 < boardThread.ev))
        BY <1>0, <2>2
      <2> QED BY <2>1, <2>2, <2>3 DEF CursorInv
    <1>2. CASE Connect
      <2>1. /\ UNCHANGED <<first, boardSeq, boardThread>> /\ boardThread = Idle /\ stream' = "replay"
            /\ cursor' = IF boardSeq = None THEN Len(log) ELSE boardSeq
        BY <1>2 DEF Connect, state
      <2>2. ~BoardBusy'
        BY <2>1, IdleTyped DEF BoardBusy, BusyPlaces
      <2>3. Committed' = Committed
        BY <1>2, SameLog DEF Connect, board
      <2>4. boardSeq # None => \A u \in Committed : ~(boardSeq < u /\ u <= cursor')
        BY <1>0, <2>1 DEF None
      <2> QED BY <1>0, <2>1, <2>2, <2>3, <2>4 DEF CursorInv, None
    <1>3. CASE Replay
      <2>1. read + 1 \in Committed /\ cursor = read
        BY <1>0, <1>3 DEF Replay, StreamInv, ReplayIsRead, Committed
      <2>2. /\ UNCHANGED <<log, first, boardSeq, stream, passedOver>> /\ Hand(read + 1)
            /\ stream = "replay"
        BY <1>3 DEF Replay, board, gaps, state
      <2>3. \A u \in Committed : ~(cursor < u /\ u < read + 1)
        BY <1>0, <2>1
      <2> QED BY <2>1, <2>2, <2>3, HandCursor
    <1>4. CASE Live
      <2>1. taken \in Committed /\ \A u \in Committed : cursor < u /\ u < taken => u \in passedOver'
        BY <1>4, LiveGoesOn
      <2>2. /\ UNCHANGED <<log, first, boardSeq, stream>> /\ Hand(taken) /\ stream = "live"
            /\ passedOver \subseteq passedOver'
        BY <1>4 DEF Live, board, state
      <2> QED BY <2>1, <2>2, HandCursor
    <1>5. CASE Ready \/ Resync
      <2>1. /\ boardThread = Idle /\ boardThread' = boardThread /\ stream # "down"
            /\ stream' \in {"live", "down"} /\ cursor' = cursor
            /\ boardSeq' = Larger(boardSeq, cursor)
            /\ first' = IF first = None THEN cursor ELSE first
        BY <1>5 DEF Ready, Resync, Mark, SaveBoardSeq, EndStream
      <2>2. ~BoardBusy /\ ~BoardBusy'
        BY <2>1, IdleTyped DEF BoardBusy, BusyPlaces
      <2>3. Committed' = Committed
        BY <1>5, SameLog DEF Ready, Resync, board
      <2>4. \A u \in Committed : ~(boardSeq' < u /\ u <= cursor')
        BY <1>0, <2>1 DEF Larger, None
      <2>5. first' # None /\ boardSeq' # None
        BY <1>0, <2>1 DEF CursorInv, Larger, None
      <2> QED BY <2>1, <2>2, <2>3, <2>4, <2>5 DEF CursorInv
    <1>6. CASE Disconnect \/ Crash
      <2>1. UNCHANGED <<first, boardSeq, passedOver>> /\ stream' = "down" /\ Committed' = Committed
              /\ (boardThread' = boardThread \/ boardThread' = Idle)
        BY <1>6, SameLog DEF Disconnect, Crash, EndStream, state, board
      <2>2. BoardBusy' => BoardBusy /\ boardThread' = boardThread
        BY <2>1, IdleTyped DEF BoardBusy, BusyPlaces
      <2> QED BY <2>1, <2>2 DEF CursorInv
    <1>7. CASE BoardClaims \/ BoardPrints \/ BoardCommits
      <2>1. UNCHANGED <<log, first, boardSeq, stream, cursor, passedOver>>
        BY <1>7 DEF BoardClaims, BoardPrints, BoardCommits, service, state, board, gaps
      <2>2. BoardBusy /\ BoardBusy' /\ boardThread'.ev = boardThread.ev
        BY <1>7 DEF BoardClaims, BoardPrints, BoardCommits, BoardBusy, BusyPlaces, At
      <2> QED BY <2>1, <2>2, CursorStays
    <1>8. CASE BoardAdvances
      <2>1. /\ UNCHANGED <<log, stream, cursor, passedOver>> /\ boardThread.at = "passed"
            /\ boardThread' = Idle
            /\ boardSeq' = Larger(boardSeq, boardThread.ev)
            /\ first' = IF first = None THEN boardThread.ev ELSE first
        BY <1>8 DEF BoardAdvances, SaveBoardSeq, service, board, gaps
      <2>2. BoardBusy /\ ~BoardBusy' /\ Committed' = Committed
        BY <2>1, IdleTyped, SameLog DEF BoardBusy, BusyPlaces
      <2>3. boardThread.ev \in Nat \ {0}
        BY <2>1 DEF Typed, BoardWell, TypeOK, BoardTypes, Committed
      <2>4. stream # "down" => \A u \in Committed : boardSeq' < u /\ u <= cursor => u \in passedOver
        <3>1. boardThread.ev <= boardSeq' /\ (boardSeq # None => boardSeq <= boardSeq')
                /\ boardSeq' \in Nat
          BY <1>0, <2>1, <2>3 DEF Larger, None
        <3>2. CASE boardSeq = None
          <4>1. stream # "down" => cursor = boardThread.ev
            BY <1>0, <2>2, <3>2 DEF CursorInv
          <4> QED BY <1>0, <2>3, <3>1, <4>1
        <3>3. CASE boardSeq # None
          <4>1. \A u \in Committed : boardSeq' < u => boardSeq < u /\ u # boardThread.ev
            BY <1>0, <2>3, <3>1, <3>3
          <4> QED BY <2>2, <3>3, <4>1 DEF CursorInv
        <3> QED BY <3>2, <3>3
      <2>5. stream = "replay" => boardSeq' <= cursor
        BY <1>0, <2>1, <2>2, <2>3 DEF CursorInv, Larger, None
      <2>6. first' # None /\ boardSeq' # None
        BY <1>0, <2>1, <2>3 DEF Larger, None
      <2> QED BY <2>1, <2>2, <2>4, <2>5, <2>6 DEF CursorInv
    <1> QED BY <1>1, <1>2, <1>3, <1>4, <1>5, <1>6, <1>7, <1>8, <1>9 DEF Next, StreamStep, BoardStep

\* What was passed over stays so.
LEMMA PassedStays == [Next]_vars => passedOver \subseteq passedOver'
    BY WriterLeaves
    DEF Next, Commit, ByWriter, Publish, StreamStep, Connect, Replay, Ready, Take, Live, Resync,
        Disconnect, EndStream, BoardStep, BoardClaims, BoardPrints, BoardCommits, BoardAdvances,
        BrokerStep, BrokerReads, BrokerClaims, BrokerPrints, BrokerCommits, BrokerAdvances,
        BrokerWriteFails, Crash, gaps, vars

\* Only a commit writes the log.
LEMMA LogStays == [Next]_vars /\ ~(\E kind \in AllKinds : Commit(kind)) => log' = log
    BY WriterLeaves
    DEF Next, ByWriter, Publish, StreamStep, Connect, Replay, Ready, Take, Live, Resync, Disconnect,
        BoardStep, BoardClaims, BoardPrints, BoardCommits, BoardAdvances, BrokerStep, BrokerReads,
        BrokerClaims, BrokerPrints, BrokerCommits, BrokerAdvances, BrokerWriteFails, Crash, board, vars

LEMMA ShownKept ==
    ASSUME Typed, [Next]_vars, NEW s \in Seqs
    PROVE  Shown(s) => Shown(s)'
    <1>1. cut \in [Seqs -> Nat] /\ full \in [Seqs -> Nat]
      BY DEF Typed, TypeOK, HistoryTypes
    <1>2. CASE UNCHANGED <<cut, full>>
      BY <1>2 DEF Shown
    <1>3. CASE \E e : full' = [full EXCEPT ![e] = @ + 1] /\ cut' = cut
      <2>1. full'[s] >= full[s]
        BY <1>1, <1>3
      <2> QED BY <1>1, <1>3, <2>1 DEF Shown
    <1>4. CASE \E e : cut' = [cut EXCEPT ![e] = @ + 1] /\ full' = full
      <2>1. cut'[s] >= cut[s]
        BY <1>1, <1>4
      <2> QED BY <1>1, <1>4, <2>1 DEF Shown
    <1>5. CASE BoardPrints \/ BrokerPrints
      BY <1>3, <1>4, <1>5 DEF BoardPrints, BrokerPrints
    <1>6. ~BoardPrints /\ ~BrokerPrints => UNCHANGED <<cut, full>>
      BY WriterLeaves
      DEF Next, Commit, ByWriter, Publish, StreamStep, Connect, Replay, Ready, Take, Live, Resync,
          Disconnect, BoardStep, BoardClaims, BoardCommits, BoardAdvances, BrokerStep, BrokerReads,
          BrokerClaims, BrokerCommits, BrokerAdvances, BrokerWriteFails, Crash, history, vars
    <1> QED BY <1>2, <1>5, <1>6

LEMMA PrintsShow ==
    ASSUME Typed
    PROVE  /\ BoardPrints => Shown(boardThread.ev)'
           /\ BrokerPrints => Shown(brokerThread.ev)'
    <1>1. cut \in [Seqs -> Nat] /\ full \in [Seqs -> Nat]
      BY DEF Typed, TypeOK, HistoryTypes
    <1>2. \A e \in Seqs : full' = [full EXCEPT ![e] = @ + 1] /\ cut' = cut => cut'[e] + full'[e] > 0
      BY <1>1
    <1>3. \A e \in Seqs : cut' = [cut EXCEPT ![e] = @ + 1] /\ full' = full => cut'[e] + full'[e] > 0
      BY <1>1
    <1>4. BoardPrints => boardThread.ev \in Seqs /\ boardThread'.ev = boardThread.ev
      BY CommittedIsSeq DEF BoardPrints, Typed, BoardWell, At
    <1>5. BrokerPrints => brokerThread.ev \in Seqs /\ brokerThread'.ev = brokerThread.ev
      BY CommittedIsSeq DEF BrokerPrints, Typed, BrokerWell, BusyPlaces, At
    <1> QED BY <1>2, <1>3, <1>4, <1>5 DEF BoardPrints, BrokerPrints, Shown

\* The place a thread takes, whatever the event.
LEMMA AtIs == \A place, s : At(place, s).at = place /\ At(place, s).ev = s /\ At(place, s).cut = FALSE
    BY DEF At

LEMMA ShownNext ==
    ASSUME Typed, ShownInv, [Next]_vars
    PROVE  ShownInv'
    <1>0. /\ seen \subseteq Committed /\ Committed \subseteq Seqs /\ seen \subseteq Seqs
          /\ \A s \in Seqs : Shown(s) => Shown(s)'
      BY ShownKept, CommittedIsSeq DEF Typed, TypeOK, ListenerTypes
    <1>1. /\ boardThread.at = "printed" => boardThread.ev \in Seqs
          /\ brokerThread.at = "printed" => brokerThread.ev \in Seqs
      BY <1>0 DEF Typed, BoardWell, BrokerWell, BusyPlaces
    <1>2. ASSUME UNCHANGED <<seen, reserved, brokerThread, brokerTs, inbox>>,
                 \/ boardThread' = boardThread
                 \/ boardThread.at \in {"idle", "passed"} /\ boardThread'.at \in {"idle", "checked"}
          PROVE  ShownInv'
      BY <1>0, <1>1, <1>2 DEF ShownInv, BoardPrinting, BrokerPrinting
    <1>3. ASSUME NEW s \in unpublished, Publish(s)
          PROVE  ShownInv'
      <2>1. UNCHANGED <<seen, reserved, brokerThread, brokerTs, boardThread>>
        BY <1>3 DEF Publish, state
      <2>2. ASSUME brokerTs < Len(inbox)
            PROVE  inbox'[brokerTs + 1] = inbox[brokerTs + 1]
        <3>1. inbox \in Seq(Committed) /\ s \in Committed /\ brokerTs + 1 \in 1..Len(inbox)
          BY <2>2 DEF Typed, TypeOK, BoardTypes, ListenerTypes
        <3> QED BY <1>3, <3>1, AppendIs DEF Publish
      <2> QED BY <1>0, <1>1, <2>1, <2>2
              DEF ShownInv, BoardPrinting, BrokerPrinting, Typed, BrokerWell
    <1>4. CASE Crash
      <2>1. /\ seen' = seen /\ reserved' = {}
            /\ boardThread'.at = "idle" /\ brokerThread'.at = "idle"
        BY <1>4, IdleTyped DEF Crash
      <2> QED BY <1>0, <2>1 DEF ShownInv, BusyPlaces
    <1>5. ASSUME \/ \E kind \in AllKinds : Commit(kind)
                 \/ WriterStep \/ Connect \/ Ready \/ Take \/ Resync \/ Disconnect \/ UNCHANGED vars
          PROVE  ShownInv'
      <2>1. UNCHANGED <<seen, reserved, brokerThread, brokerTs, inbox, boardThread>>
        BY <1>5, WriterLeaves
        DEF Commit, ByWriter, Connect, Ready, Take, Resync, Disconnect, vars, board, state
      <2> QED BY <1>2, <2>1
    <1>6. CASE Replay \/ Live
      <2>1. UNCHANGED <<seen, reserved, brokerThread, brokerTs, inbox>>
        BY <1>6 DEF Replay, Live, board, state
      <2>2. boardThread = Idle /\ \E s : boardThread' = At("checked", s)
        BY <1>6 DEF Replay, Live, Hand
      <2> QED BY <1>2, <2>1, <2>2, IdleTyped, AtIs
    <1>7. CASE BoardStep
      <2> DEFINE e == boardThread.ev
      <2>0. UNCHANGED <<brokerThread, brokerTs, inbox>>
        BY <1>7 DEF BoardStep, BoardClaims, BoardPrints, BoardCommits, BoardAdvances, board, state
      <2>1. CASE BoardClaims
        <3>1. /\ boardThread.at = "checked" /\ seen' = seen
              /\ boardThread'.ev = e
              /\ \/ boardThread'.at = "passed" /\ reserved' = reserved
                 \/ boardThread'.at = "claimed" /\ reserved' \subseteq reserved \cup {e}
          BY <2>1, AtIs DEF BoardClaims, Reserve
        <3> QED BY <1>0, <1>1, <2>0, <3>1 DEF ShownInv, BoardPrinting, BrokerPrinting
      <2>2. CASE BoardPrints
        <3>1. /\ boardThread.at = "claimed" /\ UNCHANGED <<seen, reserved>>
              /\ boardThread'.at = "printed" /\ boardThread'.ev = e
          BY <2>2 DEF BoardPrints, state, At
        <3>2. Shown(boardThread.ev)'
          BY <2>2, PrintsShow
        <3> QED BY <1>0, <1>1, <2>0, <3>1, <3>2 DEF ShownInv, BoardPrinting, BrokerPrinting
      <2>3. CASE BoardCommits
        <3>1. /\ boardThread.at = "printed" /\ boardThread'.at = "passed" /\ boardThread'.ev = e
              /\ reserved' = reserved \ {e} /\ seen' \subseteq seen \cup {e}
          BY <2>3, AtIs DEF BoardCommits, Keep
        <3>2. Shown(boardThread.ev)'
          BY <1>0, <1>1, <3>1 DEF ShownInv
        <3> QED BY <1>0, <1>1, <2>0, <3>1, <3>2 DEF ShownInv, BoardPrinting, BrokerPrinting
      <2>4. CASE BoardAdvances
        <3>1. boardThread.at = "passed" /\ boardThread'.at = "idle" /\ UNCHANGED <<seen, reserved>>
          BY <2>4, IdleTyped DEF BoardAdvances
        <3> QED BY <1>2, <2>0, <3>1
      <2> QED BY <1>7, <2>1, <2>2, <2>3, <2>4 DEF BoardStep
    <1>8. CASE BrokerStep \/ BrokerWriteFails
      <2> DEFINE e == brokerThread.ev
      <2>0. UNCHANGED <<boardThread, inbox>>
        BY <1>8 DEF BrokerStep, BrokerReads, BrokerClaims, BrokerPrints, BrokerCommits, BrokerAdvances,
                    BrokerWriteFails, board
      <2>1. CASE BrokerReads
        <3>1. /\ brokerThread.at = "idle" /\ UNCHANGED <<seen, reserved, brokerTs>>
              /\ brokerThread'.at \in {"owing", "checked"}
              /\ brokerThread'.ev = inbox[brokerTs + 1]
          BY <2>1, IdleTyped, AtIs DEF BrokerReads, state
        <3> QED BY <1>0, <1>1, <2>0, <3>1 DEF ShownInv, BoardPrinting, BrokerPrinting
      <2>2. CASE BrokerClaims
        <3>1. /\ brokerThread.at = "checked" /\ UNCHANGED <<seen, brokerTs>>
              /\ brokerThread'.ev = e /\ brokerThread'.cut = FALSE
              /\ \/ brokerThread'.at = "passed" /\ reserved' = reserved
                 \/ brokerThread'.at = "claimed" /\ reserved' \subseteq reserved \cup {e}
          BY <2>2, AtIs DEF BrokerClaims, Reserve
        <3> QED BY <1>0, <1>1, <2>0, <3>1 DEF ShownInv, BoardPrinting, BrokerPrinting, BusyPlaces
      <2>3. CASE BrokerPrints
        <3>1. /\ brokerThread.at \in {"claimed", "owing"} /\ UNCHANGED <<seen, reserved, brokerTs>>
              /\ brokerThread'.at = "printed" /\ brokerThread'.ev = e
              /\ brokerThread.at = "claimed" => ~brokerThread'.cut
          BY <2>3 DEF BrokerPrints, state, At
        <3>3. Shown(brokerThread.ev)'
          BY <2>3, PrintsShow
        <3>4. e = inbox[brokerTs + 1]
          BY <3>1 DEF ShownInv, BusyPlaces
        <3>5. \A s \in reserved' : BoardPrinting(s)' \/ BrokerPrinting(s)'
          BY <2>0, <3>1 DEF ShownInv, BoardPrinting, BrokerPrinting
        <3> QED BY <1>0, <1>1, <2>0, <3>1, <3>3, <3>4, <3>5 DEF ShownInv
      <2>4. CASE BrokerCommits
        <3>1. /\ brokerThread.at = "printed" /\ brokerTs' = brokerTs
              /\ brokerThread'.at = "passed" /\ brokerThread'.ev = e
              /\ seen' \subseteq seen \cup {e}
              /\ \/ brokerThread.cut /\ reserved' = reserved
                 \/ reserved' = reserved \ {e}
          BY <2>4, AtIs DEF BrokerCommits, Keep
        <3>2. Shown(brokerThread.ev)'
          BY <1>0, <1>1, <3>1 DEF ShownInv
        <3>3. e = inbox[brokerTs + 1]
          BY <3>1 DEF ShownInv, BusyPlaces
        <3>4. \A s \in reserved' : BoardPrinting(s)' \/ BrokerPrinting(s)'
          BY <2>0, <3>1 DEF ShownInv, BoardPrinting, BrokerPrinting
        <3> QED BY <1>0, <1>1, <2>0, <3>1, <3>2, <3>3, <3>4 DEF ShownInv
      <2>5. CASE BrokerAdvances
        <3>1. brokerThread.at = "passed" /\ brokerThread'.at = "idle" /\ UNCHANGED <<seen, reserved>>
          BY <2>5, IdleTyped DEF BrokerAdvances
        <3> QED BY <1>0, <1>1, <2>0, <3>1 DEF ShownInv, BoardPrinting, BrokerPrinting, BusyPlaces
      <2>6. CASE BrokerWriteFails
        <3>1. /\ brokerThread.at \in {"claimed", "owing"} /\ brokerThread'.at = "dead" /\ seen' = seen
              /\ reserved' = IF brokerThread.at = "claimed" THEN reserved \ {e} ELSE reserved
          BY <2>6, AtIs DEF BrokerWriteFails
        <3> QED BY <1>0, <1>1, <2>0, <3>1 DEF ShownInv, BoardPrinting, BrokerPrinting, BusyPlaces
      <2> QED BY <1>8, <2>1, <2>2, <2>3, <2>4, <2>5, <2>6 DEF BrokerStep
    <1> QED BY <1>3, <1>4, <1>5, <1>6, <1>7, <1>8 DEF Next, StreamStep

\* A copy stays ahead of the broker's thread until it goes past it.
LEMMA CopyKept ==
    ASSUME Typed, ShownInv, [Next]_vars, NEW s, CopyAhead(s)
    PROVE  \/ CopyAhead(s)'
           \/ BrokerAdvances /\ brokerThread.at = "passed" /\ brokerThread.ev = s
    <1>0. inbox \in Seq(Committed) /\ brokerTs \in Nat /\ Len(inbox) \in Nat
      BY DEF Typed, TypeOK, BoardTypes, ListenerTypes
    <1>1. PICK i \in (brokerTs + 1)..Len(inbox) : inbox[i] = s
      BY DEF CopyAhead
    <1>2. CASE UNCHANGED <<inbox, brokerTs>>
      BY <1>2 DEF CopyAhead
    <1>3. ASSUME NEW m \in unpublished, Publish(m)
          PROVE  CopyAhead(s)'
      <2>1. m \in Committed /\ brokerTs' = brokerTs
        BY <1>3 DEF Publish, state, Typed, TypeOK, BoardTypes
      <2>2. i \in (brokerTs' + 1)..Len(inbox') /\ inbox'[i] = s
        <3>1. CASE inbox' = inbox
          BY <1>0, <1>1, <2>1, <3>1
        <3>2. CASE inbox' = Append(inbox, m)
          BY <1>0, <1>1, <2>1, <3>2, AppendIs
        <3> QED BY <1>3, <3>1, <3>2 DEF Publish
      <2> QED BY <2>2 DEF CopyAhead
    <1>4. CASE BrokerAdvances
      <2>1. /\ inbox' = inbox /\ brokerTs' = brokerTs + 1 /\ brokerThread.at = "passed"
            /\ brokerThread.ev = inbox[brokerTs + 1]
        BY <1>4 DEF BrokerAdvances, board, ShownInv, BusyPlaces
      <2>2. CASE i = brokerTs + 1
        BY <1>1, <1>4, <2>1, <2>2
      <2>3. CASE i \in (brokerTs' + 1)..Len(inbox')
        BY <1>1, <2>1, <2>3 DEF CopyAhead
      <2> QED BY <1>0, <1>1, <2>1, <2>2, <2>3
    <1>5. ~BrokerAdvances /\ ~(\E m \in unpublished : Publish(m)) => UNCHANGED <<inbox, brokerTs>>
      BY WriterLeaves
      DEF Next, Commit, ByWriter, StreamStep, Connect, Replay, Ready, Take, Live, Resync, Disconnect,
          BoardStep, BoardClaims, BoardPrints, BoardCommits, BoardAdvances, BrokerStep, BrokerReads,
          BrokerClaims, BrokerPrints, BrokerCommits, BrokerWriteFails, Crash, board, state, vars
    <1> QED BY <1>2, <1>3, <1>4, <1>5

\* What the broker's thread has it prints, or dies of, until the next start.
LEMMA HeldKept ==
    ASSUME Typed, [Next]_vars, NEW s, Held(s)
    PROVE  (Held(s)' \/ Shown(s)' \/ Crash) /\ ~BrokerAdvances
    <1>1. ~BrokerAdvances
      BY DEF Held, BrokerAdvances
    <1>2. CASE BrokerStep \/ BrokerWriteFails
      <2>1. ~BrokerReads /\ ~BrokerClaims /\ ~BrokerCommits
        BY IdleTyped DEF Held, BrokerReads, BrokerClaims, BrokerCommits
      <2>2. CASE BrokerPrints
        <3>1. brokerThread.ev = s /\ brokerThread'.ev = s
          BY <2>2 DEF Held, BrokerPrints, At
        <3>2. Shown(brokerThread.ev)'
          BY <2>2, PrintsShow
        <3> QED BY <1>1, <3>1, <3>2 DEF Shown
      <2>3. CASE BrokerWriteFails
        BY <1>1, <2>3, AtIs DEF BrokerWriteFails, Held
      <2> QED BY <1>1, <1>2, <2>1, <2>2, <2>3 DEF BrokerStep
    <1>3. ~BrokerStep /\ ~BrokerWriteFails /\ ~Crash => brokerThread' = brokerThread
      BY WriterLeaves
      DEF Next, Commit, ByWriter, Publish, StreamStep, Connect, Replay, Ready, Take, Live, Resync,
          Disconnect, BoardStep, BoardClaims, BoardPrints, BoardCommits, BoardAdvances, vars
    <1> QED BY <1>1, <1>2, <1>3 DEF Held

\* A thread that finds a message taken finds it printed or with the other.
LEMMA NotFree ==
    ASSUME Typed, ShownInv, NEW s, ~Free(s)
    PROVE  Shown(s) \/ BoardPrinting(s) \/ BrokerPrinting(s)
    BY DEF Free, ShownInv

LEMMA PassedNext ==
    ASSUME Typed, ShownInv, PassedInv, [Next]_vars
    PROVE  PassedInv'
    <1>0. /\ \A s \in Seqs : Shown(s) => Shown(s)'
          /\ boardThread.at # "idle" => boardThread.ev \in Seqs /\ boardThread.ev \in Committed
          /\ brokerThread.at \in BusyPlaces \cup {"owing"} => brokerThread.ev \in Seqs
      BY ShownKept, CommittedIsSeq DEF Typed, BoardWell, BrokerWell
    <1>1. \A s \in Committed : log'[s] = log[s]
      <2>1. ASSUME NEW kind \in AllKinds, Commit(kind)
            PROVE  \A s \in Committed : log'[s] = log[s]
        BY <2>1, AppendIs DEF Commit, Committed, Typed, TypeOK, BoardTypes
      <2>2. ~(\E kind \in AllKinds : Commit(kind)) => log' = log
        BY LogStays
      <2> QED BY <2>1, <2>2
    <1>2. CASE Crash
      BY <1>2, IdleTyped DEF Crash, PassedInv
    <1>3. ASSUME boardThread.at = "passed", boardThread' = boardThread, ~Crash
          PROVE  \/ log'[boardThread.ev] = "own" \/ Shown(boardThread.ev)'
                 \/ CopyAhead(boardThread.ev)' /\ Held(boardThread.ev)'
      <2> DEFINE e == boardThread.ev
      <2>1. CASE log[e] = "own" \/ Shown(e)
        BY <1>0, <1>1, <1>3, <2>1 DEF Shown
      <2>2. CASE CopyAhead(e) /\ Held(e)
        <3>1. ASSUME NEW s, s = e
              PROVE  (Held(s)' \/ Shown(s)') /\ CopyAhead(s)'
          <4>1. CopyAhead(s) /\ Held(s)
            BY <2>2, <3>1
          <4> QED BY <1>3, <4>1, HeldKept, CopyKept
        <3> QED BY <1>3, <3>1 DEF Held, Shown, CopyAhead
      <2> QED BY <1>3, <2>1, <2>2 DEF PassedInv
    <1>4. ASSUME brokerThread.at = "passed", brokerThread' = brokerThread, ~Crash,
                 \/ boardThread' = boardThread
                 \/ boardThread.at # "claimed"
          PROVE  ~Shown(brokerThread.ev)' =>
                   boardThread'.at = "claimed" /\ boardThread'.ev = brokerThread'.ev
      <2>1. ~Shown(brokerThread.ev)' => ~Shown(brokerThread.ev)
        BY <1>0, <1>4 DEF BusyPlaces, Shown
      <2> QED BY <1>4, <2>1 DEF PassedInv
    <1>5. CASE BoardClaims
      <2>1. brokerThread' = brokerThread /\ ~Crash /\ boardThread.at = "checked" /\ log' = log
        BY <1>5, IdleTyped, AtIs DEF BoardClaims, Crash, board
      <2>2. ASSUME boardThread'.at = "passed"
            PROVE  \/ log'[boardThread'.ev] = "own" \/ Shown(boardThread.ev)'
                   \/ CopyAhead(boardThread.ev)' /\ Held(boardThread.ev)'
        <3> DEFINE e == boardThread.ev
        <3>1. boardThread'.ev = e /\ (log[e] = "own" \/ ~Free(e))
          BY <1>5, <2>2, AtIs DEF BoardClaims
        <3>2. CASE log[e] = "own"
          BY <2>1, <3>1, <3>2
        <3>3. CASE Shown(e)
          BY <1>0, <2>1, <3>1, <3>3 DEF Shown
        <3>4. CASE BrokerPrinting(e)
          <4>1. CASE brokerThread.at = "printed"
            BY <1>0, <2>1, <3>1, <3>4, <4>1 DEF BrokerPrinting, ShownInv, Shown, BusyPlaces
          <4>2. CASE brokerThread.at = "claimed"
            <5>1. UNCHANGED <<inbox, brokerTs, brokerThread>>
              BY <1>5 DEF BoardClaims, board
            <5>2. e = inbox[brokerTs + 1] /\ brokerTs + 1 \in (brokerTs + 1)..Len(inbox)
              BY <3>4, <4>2 DEF BrokerPrinting, ShownInv, Typed, BrokerWell, BusyPlaces, TypeOK,
                                BoardTypes, ListenerTypes
            <5> QED BY <3>1, <3>4, <4>2, <5>1, <5>2 DEF BrokerPrinting, CopyAhead, Held
          <4> QED BY <3>4, <4>1, <4>2 DEF BrokerPrinting
        <3>5. ~BoardPrinting(e)
          BY <2>1 DEF BoardPrinting
        <3> QED BY <3>1, <3>2, <3>3, <3>4, <3>5, NotFree
      <2> QED BY <1>4, <2>1, <2>2 DEF PassedInv
    <1>6. CASE BoardPrints
      <2>1. /\ brokerThread' = brokerThread /\ boardThread'.at = "printed"
            /\ boardThread'.ev = boardThread.ev
        BY <1>6 DEF BoardPrints, At
      <2>2. Shown(boardThread.ev)'
        BY <1>6, PrintsShow
      <2>3. brokerThread.at = "passed" /\ ~Shown(brokerThread.ev)' => brokerThread.ev = boardThread.ev
        BY <1>0, <2>1 DEF PassedInv, Shown, BusyPlaces
      <2> QED BY <2>1, <2>2, <2>3 DEF PassedInv, Shown
    <1>7. CASE BoardCommits
      <2>1. /\ brokerThread' = brokerThread /\ boardThread.at = "printed" /\ ~Crash
            /\ boardThread'.ev = boardThread.ev
        BY <1>7, IdleTyped, AtIs DEF BoardCommits, Crash
      <2>2. Shown(boardThread.ev)'
        BY <1>0, <2>1 DEF ShownInv, Shown
      <2> QED BY <1>4, <2>1, <2>2 DEF PassedInv
    <1>8. CASE BoardAdvances
      <2>1. brokerThread' = brokerThread /\ boardThread.at = "passed" /\ boardThread'.at = "idle"
        BY <1>8, IdleTyped DEF BoardAdvances
      <2>2. brokerThread.at = "passed" /\ ~Shown(brokerThread.ev)' => ~Shown(brokerThread.ev)
        BY <1>0, <2>1 DEF Shown, BusyPlaces
      <2> QED BY <2>1, <2>2 DEF PassedInv
    <1>9. CASE BrokerStep \/ BrokerWriteFails
      <2>1. boardThread' = boardThread
        BY <1>9 DEF BrokerStep, BrokerReads, BrokerClaims, BrokerPrints, BrokerCommits, BrokerAdvances,
                    BrokerWriteFails
      <2>2. CASE BrokerClaims
        <3>1. /\ brokerThread.at = "checked" /\ brokerThread'.ev = brokerThread.ev
              /\ brokerThread'.at = "passed" => ~Free(brokerThread.ev)
              /\ ~Crash
          BY <2>2, IdleTyped, AtIs DEF BrokerClaims, Crash
        <3>2. ASSUME ~Free(brokerThread.ev), ~Shown(brokerThread.ev)'
              PROVE  boardThread.at = "claimed" /\ boardThread.ev = brokerThread.ev
          <4>1. ~Shown(brokerThread.ev)
            BY <1>0, <3>1, <3>2 DEF Shown, BusyPlaces
          <4>2. BoardPrinting(brokerThread.ev)
            BY <3>1, <3>2, <4>1, NotFree DEF BrokerPrinting
          <4> QED BY <4>1, <4>2 DEF BoardPrinting, ShownInv
        <3> QED BY <1>3, <2>1, <3>1, <3>2 DEF PassedInv
      <2>3. CASE BrokerCommits
        <3>1. /\ brokerThread.at = "printed" /\ brokerThread'.ev = brokerThread.ev /\ ~Crash
          BY <2>3, IdleTyped, AtIs DEF BrokerCommits, Crash
        <3>2. Shown(brokerThread.ev)'
          BY <1>0, <3>1 DEF ShownInv, Shown, BusyPlaces
        <3> QED BY <1>3, <2>1, <3>1, <3>2 DEF PassedInv
      <2>4. CASE BrokerReads \/ BrokerPrints \/ BrokerAdvances \/ BrokerWriteFails
        <3>1. brokerThread'.at # "passed"
          BY <2>4, IdleTyped, AtIs DEF BrokerReads, BrokerPrints, BrokerAdvances, BrokerWriteFails, At
        <3>2. Crash => FALSE
          <4>1. Crash => boardThread' = Idle
            BY DEF Crash
          <4>2. BrokerReads \/ BrokerPrints \/ BrokerWriteFails => brokerThread'.at # "idle"
            BY IdleTyped, AtIs DEF BrokerReads, BrokerPrints, BrokerWriteFails, At
          <4>3. Crash => brokerThread'.at = "idle"
            BY IdleTyped DEF Crash
          <4>4. Crash /\ BrokerAdvances => FALSE
            <5>1. Crash => brokerTs' = brokerTs /\ brokerTs \in Nat
              BY DEF Crash, Typed, TypeOK, ListenerTypes
            <5> QED BY <5>1 DEF BrokerAdvances
          <4> QED BY <2>4, <4>2, <4>3, <4>4
        <3> QED BY <1>3, <2>1, <3>1, <3>2 DEF PassedInv
      <2> QED BY <1>9, <2>2, <2>3, <2>4 DEF BrokerStep
    <1>10. CASE UNCHANGED <<boardThread, brokerThread>> /\ ~Crash
      BY <1>3, <1>4, <1>10 DEF PassedInv
    <1>11. CASE Replay \/ Live
      <2>1. /\ brokerThread' = brokerThread /\ boardThread.at = "idle"
            /\ boardThread'.at = "checked"
        BY <1>11, IdleTyped, AtIs DEF Replay, Live, Hand
      <2>2. brokerThread.at = "passed" /\ ~Shown(brokerThread.ev)' => ~Shown(brokerThread.ev)
        BY <1>0, <2>1 DEF Shown, BusyPlaces
      <2> QED BY <2>1, <2>2 DEF PassedInv
    <1>12. \/ Crash \/ BoardStep \/ BrokerStep \/ BrokerWriteFails \/ Replay \/ Live
           \/ UNCHANGED <<boardThread, brokerThread>>
      BY WriterLeaves
      DEF Next, Commit, ByWriter, Publish, StreamStep, Connect, Ready, Take, Resync, Disconnect, vars
    <1> QED BY <1>2, <1>5, <1>6, <1>7, <1>8, <1>9, <1>10, <1>11, <1>12 DEF BoardStep

\* What the cursor's next save takes in that it had not: the event the board's
\* thread has passed, and no other.
LEMMA NewlySkipped ==
    ASSUME Typed, CursorInv, PassedInv, [Next]_vars,
           NEW s \in Committed, Skipped(s)', ~Skipped(s)
    PROVE  BoardAdvances /\ CopyAhead(s) /\ Held(s)
    <1>0. /\ s \in Seqs /\ s \in Nat /\ (Shown(s) => Shown(s)') /\ Len(log) \in Nat
          /\ boardSeq \in {None} \cup Nat /\ first \in {None} \cup Nat /\ cursor \in Nat
      <2>1. s \in Seqs
        BY CommittedIsSeq
      <2>2. Shown(s) => Shown(s)'
        BY <2>1, ShownKept
      <2> QED BY <2>1, <2>2
              DEF Typed, TypeOK, BoardTypes, ListenerTypes, HistoryTypes, ServiceTypes, Committed
    <1>2. log'[s] = log[s]
      <2>1. ASSUME NEW kind \in AllKinds, Commit(kind)
            PROVE  log'[s] = log[s]
        BY <1>0, <2>1, AppendIs DEF Commit, Committed, Typed, TypeOK, BoardTypes
      <2> QED BY <2>1, LogStays
    <1>3. /\ ~Shown(s) /\ log[s] # "own" /\ first' # None /\ s > first' /\ s <= boardSeq'
          /\ s \notin passedOver
      BY <1>0, <1>2, PassedStays DEF Skipped, Owed, Shown
    <1>4. ~(first # None /\ s > first /\ s <= boardSeq)
      BY <1>3 DEF Skipped, Owed
    <1>5. CASE Ready \/ Resync
      <2>1. /\ boardThread = Idle /\ stream # "down"
            /\ boardSeq' = Larger(boardSeq, cursor)
            /\ first' = IF first = None THEN cursor ELSE first
        BY <1>5 DEF Ready, Resync, Mark, SaveBoardSeq
      <2>2. boardSeq # None => ~(boardSeq < s /\ s <= cursor)
        BY <1>3, <2>1, IdleTyped DEF CursorInv, BoardBusy, BusyPlaces
      <2> QED BY <1>0, <1>3, <1>4, <2>1, <2>2 DEF CursorInv, Larger, None
    <1>6. CASE BoardAdvances
      <2> DEFINE e == boardThread.ev
      <2>1. /\ boardThread.at = "passed" /\ boardSeq' = Larger(boardSeq, e)
            /\ first' = IF first = None THEN e ELSE first
            /\ e \in Nat
        BY <1>6 DEF BoardAdvances, SaveBoardSeq, Typed, BoardWell, TypeOK, BoardTypes, Committed
      <2>2. boardSeq # None => ~(boardSeq < s /\ s < e)
        BY <1>3, <2>1 DEF CursorInv, BoardBusy, BusyPlaces
      <2>3. s = e
        BY <1>0, <1>3, <1>4, <2>1, <2>2 DEF CursorInv, Larger, None
      <2>4. CopyAhead(s) /\ Held(s)
        BY <1>3, <2>1, <2>3 DEF PassedInv
      <2> QED BY <1>6, <2>4
    <1>7. ~Ready /\ ~Resync /\ ~BoardAdvances => UNCHANGED <<boardSeq, first>>
      BY WriterLeaves
      DEF Next, Commit, ByWriter, Publish, StreamStep, Connect, Replay, Take, Live, Disconnect,
          BoardStep, BoardClaims, BoardPrints, BoardCommits, BrokerStep, BrokerReads, BrokerClaims,
          BrokerPrints, BrokerCommits, BrokerAdvances, BrokerWriteFails, Crash, state, vars
    <1> QED BY <1>3, <1>4, <1>5, <1>6, <1>7

\* An event the cursor has skipped is not brought once more by a new fan-out or
\* a replay.
LEMMA AgainKept ==
    ASSUME Typed, StreamInv, SentInv, CursorInv, SkipInv, [Next]_vars,
           NEW s \in Committed, Skipped(s), Again(s)'
    PROVE  Again(s) /\ ~Crash
    <1>0. /\ s \in Nat \ {0} /\ s \notin unsent /\ cursor \in Nat /\ read \in Nat
          /\ boardSeq \in Int /\ s <= boardSeq
      <2>1. CopyAhead(s) /\ s <= boardSeq
        BY DEF SkipInv, Skipped
      <2>2. brokerTs \in Nat /\ inbox \in Seq(Committed)
        BY DEF Typed, TypeOK, ListenerTypes, BoardTypes
      <2>3. s \notin unsent
        BY <2>1, <2>2 DEF CopyAhead, SentInv
      <2> QED BY <2>1, <2>3
              DEF Typed, TypeOK, BoardTypes, ListenerTypes, ServiceTypes, Committed, None
    <1>1. CASE WriterStep
      <2>1. UNCHANGED <<boardThread, taken, counters>>
        BY <1>1, WriterLeaves DEF ByWriter
      <2>2. ~Crash
        BY <2>1 DEF Crash, counters, Typed, TypeOK, HistoryTypes
      <2>3. s \in InQueue' => s \in InQueue
        <3>1. CASE queue' = queue
          BY <3>1 DEF InQueue
        <3>2. ASSUME NEW m \in unsent, m \in Committed, queue' = Append(queue, m)
              PROVE  s \in InQueue' => s \in InQueue
          BY <1>0, <3>2, QueueAppends
        <3>3. CASE queue # <<>> /\ queue' = Tail(queue)
          BY <3>3, QueueDrops
        <3> QED BY <1>1, <3>1, <3>2, <3>3, WriterDoes
      <2> QED BY <2>1, <2>2, <2>3 DEF Again
    <1>2. CASE Replay
      <2>1. /\ boardThread' = At("checked", read + 1) /\ cursor = read
            /\ stream = "replay" /\ UNCHANGED <<queue, taken, counters>>
        BY <1>2 DEF Replay, Hand, StreamInv, ReplayIsRead
      <2>2. read + 1 # s
        BY <1>0, <2>1 DEF CursorInv
      <2>3. ~Crash
        BY <2>1 DEF Crash, counters, Typed, TypeOK, HistoryTypes
      <2> QED BY <2>1, <2>2, <2>3, AtIs DEF Again, InQueue
    <1>3. CASE Take
      <2>1. /\ queue # <<>> /\ queue' = Tail(queue) /\ taken' = Head(queue)
            /\ UNCHANGED <<boardThread, counters>>
        BY <1>3 DEF Take
      <2>2. InQueue = InQueue' \cup {taken'}
        BY <2>1, QueueDrops
      <2>3. ~Crash
        BY <2>1 DEF Crash, counters, Typed, TypeOK, HistoryTypes
      <2> QED BY <2>1, <2>2, <2>3 DEF Again
    <1>4. CASE Live
      <2>1. /\ boardThread' = At("checked", taken) /\ taken' = 0 /\ UNCHANGED <<queue, counters>>
        BY <1>4 DEF Live, Hand
      <2>2. ~Crash
        BY <2>1 DEF Crash, counters, Typed, TypeOK, HistoryTypes
      <2> QED BY <1>0, <2>1, <2>2, AtIs DEF Again, InQueue
    <1>5. CASE Connect
      <2>1. queue' = <<>> /\ UNCHANGED <<boardThread, taken, counters>>
        BY <1>5 DEF Connect
      <2>2. ~Crash
        BY <2>1 DEF Crash, counters, Typed, TypeOK, HistoryTypes
      <2> QED BY <2>1, <2>2 DEF Again, InQueue
    <1>6. CASE Resync \/ Disconnect
      <2>1. queue' = <<>> /\ taken' = 0 /\ boardThread' = boardThread /\ crashes' = crashes
        BY <1>6 DEF Resync, Disconnect, EndStream, counters
      <2>2. ~Crash
        BY <2>1 DEF Crash, Typed, TypeOK, HistoryTypes
      <2> QED BY <1>0, <2>1, <2>2 DEF Again, InQueue
    <1>7. CASE Crash
      <2>1. queue' = <<>> /\ taken' = 0 /\ boardThread'.at = "idle"
        BY <1>7, IdleTyped DEF Crash, EndStream
      <2> QED BY <1>0, <2>1 DEF Again, InQueue
    <1>8. CASE BoardStep /\ ~Crash
      <2>1. UNCHANGED <<queue, taken>>
        BY <1>8 DEF BoardStep, BoardClaims, BoardPrints, BoardCommits, BoardAdvances, service
      <2>2. boardThread'.at \in {"checked", "claimed"} =>
              boardThread.at = "checked" /\ boardThread'.ev = boardThread.ev
        BY <1>8, IdleTyped, AtIs
        DEF BoardStep, BoardClaims, BoardPrints, BoardCommits, BoardAdvances, At
      <2> QED BY <1>8, <2>1, <2>2 DEF Again, InQueue
    <1>9. CASE UNCHANGED <<queue, taken, boardThread>> /\ ~Crash
      BY <1>9 DEF Again, InQueue
    <1>10. \/ WriterStep \/ Replay \/ Take \/ Live \/ Connect \/ Resync \/ Disconnect \/ BoardStep
           \/ Crash \/ UNCHANGED <<queue, taken, boardThread>>
      BY DEF Next, StreamStep, Commit, Publish, Ready, BrokerStep, BrokerReads, BrokerClaims,
             BrokerPrints, BrokerCommits, BrokerAdvances, BrokerWriteFails, service, vars
    <1> QED BY <1>1, <1>2, <1>3, <1>4, <1>5, <1>6, <1>7, <1>8, <1>9, <1>10

LEMMA SkipNext ==
    ASSUME Typed, StreamInv, SentInv, CursorInv, ShownInv, PassedInv, SkipInv, [Next]_vars
    PROVE  SkipInv'
    <1>0. Len(log) \in Nat /\ boardSeq \in {None} \cup 0..Len(log)
      BY DEF Typed, TypeOK, BoardTypes, ListenerTypes
    <1>1. ASSUME NEW s \in Committed', Skipped(s)'
          PROVE  s \in Committed
      <2>1. ASSUME NEW kind \in AllKinds, Commit(kind)
            PROVE  s \in Committed
        <3>1. Committed' = Committed \cup {Len(log) + 1} /\ boardSeq' = boardSeq
          BY <1>0, <2>1, AppendIs DEF Commit, Committed, Typed, TypeOK, BoardTypes, state
        <3>2. s <= boardSeq
          BY <1>1, <3>1 DEF Skipped
        <3> QED BY <1>0, <3>1, <3>2 DEF None
      <2> QED BY <1>1, <2>1, LogStays, SameLog
    <1>2. ASSUME NEW s \in Committed, Skipped(s)', Skipped(s)
          PROVE  CopyAhead(s)' /\ (Again(s)' => Held(s)')
      <2>1. CopyAhead(s) /\ (Again(s) => Held(s)) /\ ~Shown(s) /\ ~Shown(s)'
        BY <1>2 DEF SkipInv, Skipped
      <2>2. CopyAhead(s)'
        <3>1. ASSUME BrokerAdvances, brokerThread.at = "passed", brokerThread.ev = s
              PROVE  FALSE
          <4>1. boardThread.at = "claimed" /\ boardThread.ev = s
            BY <2>1, <3>1 DEF PassedInv
          <4>2. Held(s)
            BY <2>1, <4>1 DEF Again
          <4> QED BY <3>1, <4>2 DEF Held
        <3> QED BY <2>1, <3>1, CopyKept
      <2>3. ASSUME Again(s)'
            PROVE  Held(s)'
        <3>1. Again(s) /\ ~Crash
          BY <1>2, <2>3, AgainKept
        <3> QED BY <2>1, <3>1, HeldKept
      <2> QED BY <2>2, <2>3
    <1>3. ASSUME NEW s \in Committed, Skipped(s)', ~Skipped(s)
          PROVE  CopyAhead(s)' /\ (Again(s)' => Held(s)')
      <2>1. BoardAdvances /\ CopyAhead(s) /\ Held(s)
        BY <1>3, NewlySkipped
      <2>2. UNCHANGED <<inbox, brokerTs, brokerThread>>
        BY <2>1 DEF BoardAdvances, board
      <2> QED BY <2>1, <2>2 DEF CopyAhead, Held
    <1> QED BY <1>1, <1>2, <1>3 DEF SkipInv

StillToCome == SentInv /\ CursorInv /\ ShownInv /\ PassedInv /\ SkipInv

\* Whatever overflows, breaks or restarts, and in whatever order the writers fan
\* out, drop and mark, an owed event nobody has printed is ahead of the board's
\* saved cursor or has its copy ahead of the broker's, but for one that a later
\* event was streamed before: a reconnection goes back to it, or the broker's
\* thread comes to it (feed_driver.py 309-332, 552-596, 676-735; board.py
\* 4442-4484; service.py 2245-2272).
THEOREM NothingIsLost == Spec => []NeverBehindBoth
    <1> DEFINE Inv == Typed /\ StreamInv /\ PrintInv /\ StillToCome
    <1>1. Init => Inv
      <2>1. Init => StillToCome
        BY IdleTyped DEF Init, StillToCome, SentInv, CursorInv, ShownInv, PassedInv, SkipInv,
                         Committed, BoardBusy, BusyPlaces
      <2> QED BY <2>1, TypeInit, StreamInit, PrintInit
    <1>2. Inv /\ [Next]_vars => Inv'
      BY TypeNext, StreamNext, PrintNext, SentNext, CursorNext, ShownNext, PassedNext, SkipNext
      DEF StillToCome
    <1>3. Inv => NeverBehindBoth
      <2>1. ASSUME Inv, NEW s \in Committed \ passedOver, Owed(s), ~Shown(s)
            PROVE  s > boardSeq \/ CopyAhead(s)
        <3>1. s \in Int /\ boardSeq \in Int
          BY <2>1 DEF Typed, TypeOK, ListenerTypes, Committed, None
        <3>2. s <= boardSeq => CopyAhead(s)
          BY <2>1 DEF StillToCome, SkipInv, Skipped
        <3> QED BY <3>1, <3>2
      <2> QED BY <2>1 DEF NeverBehindBoth
    <1> QED BY <1>1, <1>2, <1>3, PTL DEF Spec

================================================================================
