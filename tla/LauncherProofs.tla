---------------------------- MODULE LauncherProofs ----------------------------
(* Theorems about Launcher: its types, and that a stop which succeeded holds,  *)
(* for any commands, faults and processes, in a bundle.                        *)
EXTENDS Launcher, TLAPS

ActorType == [at : Places, op : Ops, via : BOOLEAN, ident : Proc \cup {Nobody},
              view : SUBSET Proc, saved : Records]
SupType == [up : BOOLEAN, stopping : BOOLEAN, paused : BOOLEAN, failed : BOOLEAN,
            fails : 0..FailThreshold-1, recent : 0..CrashLoopMax]

StartPlaces == {"start", "recover", "port", "detach", "wait", "race", "record"}
StopPlaces  == {"stop", "kill", "verify"}

\* Where an actor is goes with what it was asked to do.
Well(r) ==
    /\ r.at \in StartPlaces => r.op \in {"start", "restart"}
    /\ r.at \in StopPlaces => r.op \in {"stop", "stop_all", "restart"}
    /\ r.at = "ask" => r.op \in {"start", "stop", "restart"}
    /\ r.at = "shutdown" => r.op = "stop_all"
    /\ r.at = "record" => r.view # {}
    /\ r.via => /\ r.at \in StartPlaces \cup StopPlaces
                /\ r.op \in {"start", "stop", "restart"}

\* The supervisor's own restart is one that it may still count.
TickWell ==
    /\ act[Tick].op \in {"none", "ok", "miss", "restart"} /\ ~act[Tick].via
    /\ act[Tick].op = "restart" => sup.recent < CrashLoopMax

\* The lock has one holder, none without a supervisor; a stop asked of the
\* supervisor has paused the service.
LockWell ==
    /\ ~sup.up => \A a \in Actor : ~Holds(a)
    /\ \A a, b \in Actor : Holds(a) /\ Holds(b) => a = b
    /\ \A c \in Cli : act[c].via /\ act[c].op = "stop" => sup.paused

Wells == (\A a \in Actor : Well(act[a])) /\ TickWell /\ LockWell
Sound == TypeOK /\ Wells

LEMMA Names == /\ Tick \in Actor /\ Cli \subseteq Actor /\ Tick \notin Cli
               /\ \A a \in Actor : a # Tick => a \in Cli
               /\ NoRecord \in Records /\ Idle \in ActorType /\ NoSup \in SupType
               /\ Idle.at = "idle" /\ Idle.op = "none" /\ ~Idle.via /\ Well(Idle)
  BY LauncherAssumption
  DEF Actor, NoRecord, Records, Idle, ActorType, NoSup, SupType, Places, Ops, Well,
      StartPlaces, StopPlaces

\* What TypeOK says of the rest.
Rest == /\ proc \in [Proc -> Living \cup {"dead"}]
        /\ \A p, q \in Listeners : p = q
        /\ record \in Records
        /\ quiet \in SUBSET Cli /\ held \in BOOLEAN
        /\ commands \in 0..MaxCommands /\ faults \in 0..MaxFaults

LEMMA SoundInit == Init => Sound
  <1> SUFFICES ASSUME Init PROVE Sound
    OBVIOUS
  <1>1. act \in [Actor -> ActorType] /\ sup \in SupType
    BY Names DEF Init
  <1>2. /\ proc \in [Proc -> Living \cup {"dead"}] /\ Listeners = {}
        /\ record \in Records /\ quiet \in SUBSET Cli
    BY Names DEF Init, Listeners, Living
  <1>3. held \in BOOLEAN
    BY Zenon DEF Init
  <1>4. commands \in 0..MaxCommands /\ faults \in 0..MaxFaults
    BY LauncherAssumption DEF Init
  <1>5. Wells
    BY Names DEF Init, Wells, TickWell, LockWell, Holds
  <1> QED BY <1>1, <1>2, <1>3, <1>4, <1>5 DEF Sound, TypeOK, Rest, ActorType, SupType

\* One actor goes on.  It takes no lock it did not have, and the supervisor's
\* memory changes only by its own thread.
Moves(a, r) ==
    /\ act' = [act EXCEPT ![a] = r]
    /\ r \in ActorType /\ Well(r)
    /\ r.via => act[a].via /\ r.op = act[a].op
    /\ a = Tick => /\ r.op \in {"none", "ok", "miss", "restart"} /\ ~r.via
                   /\ r.op = "restart" => sup'.recent < CrashLoopMax
                   /\ r.at # "idle" => act[a].at # "idle"
    /\ sup' \in SupType /\ sup'.up = sup.up /\ sup'.paused = sup.paused
    /\ a # Tick => sup'.recent = sup.recent

LEMMA MovesWell ==
  ASSUME Sound, NEW a \in Actor, NEW r, Moves(a, r)
  PROVE  Wells' /\ act' \in [Actor -> ActorType] /\ sup' \in SupType
  <1>1. /\ act \in [Actor -> ActorType] /\ sup \in SupType
        /\ act'[a] = r /\ \A b \in Actor \ {a} : act'[b] = act[b]
    BY DEF Sound, TypeOK, Moves, ActorType, SupType
  <1>2. \A b \in Actor : Well(act'[b])
    BY <1>1 DEF Sound, Wells, Moves
  <1>3. TickWell'
    BY <1>1, Names DEF Sound, Wells, TickWell, Moves
  <1>4. \A b \in Actor : Holds(b)' => Holds(b)
    BY <1>1 DEF Holds, Moves
  <1>5. sup'.up = sup.up /\ sup'.paused = sup.paused
    BY DEF Moves
  <1>6. \A c \in Cli : act'[c].via /\ act'[c].op = "stop" => act[c].via /\ act[c].op = "stop"
    BY <1>1, Names DEF Moves
  <1>7. LockWell'
    BY <1>4, <1>5, <1>6 DEF Sound, Wells, LockWell
  <1>8. act' \in [Actor -> ActorType] /\ sup' \in SupType
    BY <1>1 DEF Moves
  <1> QED BY <1>2, <1>3, <1>7, <1>8 DEF Wells

LEMMA ActorTyped ==
  ASSUME Sound, NEW a \in Actor
  PROVE  /\ act[a] \in ActorType /\ Well(act[a]) /\ sup \in SupType
         /\ a = Tick => /\ act[a].op \in {"none", "ok", "miss", "restart"} /\ ~act[a].via
                        /\ act[a].op = "restart" => sup.recent < CrashLoopMax
  BY DEF Sound, TypeOK, Wells, TickWell, ActorType, SupType

LEMMA FinishMoves ==
  ASSUME Sound, NEW a \in Actor, Finish(a),
         a = Tick => act[a].op = "restart"
  PROVE  Moves(a, Idle)
  <1>1. ASSUME a = Tick
        PROVE  sup' \in SupType /\ sup'.up = sup.up /\ sup'.paused = sup.paused
    <2>1. sup \in SupType /\ sup.recent < CrashLoopMax
      BY <1>1, ActorTyped
    <2>2. sup.recent \in Nat /\ sup.recent + 1 \in 0..CrashLoopMax /\ 0 \in 0..FailThreshold-1
      BY <2>1, LauncherAssumption DEF SupType
    <2>3. sup' = [sup EXCEPT !.fails = 0, !.recent = sup.recent + 1]
      BY <1>1 DEF Finish
    <2> QED BY <2>1, <2>2, <2>3 DEF SupType
  <1>2. a # Tick => sup' = sup /\ sup \in SupType
    BY ActorTyped DEF Finish
  <1> QED BY <1>1, <1>2, Names DEF Moves, Finish

\* The actor goes to another place in the same command.
LEMMA AtMoves ==
  ASSUME Sound, NEW a \in Actor, NEW where \in Places, NEW r,
         act' = [act EXCEPT ![a] = r], r \in ActorType,
         r.at = where, r.op = act[a].op, r.via = act[a].via,
         where = "record" => r.view # {},
         sup' = sup,
         \/ act[a].at \in StartPlaces /\ where \in StartPlaces
         \/ act[a].at \in StopPlaces /\ where \in StopPlaces
         \/ act[a].at \in StopPlaces /\ ~Stops(a) /\ where = "start"
  PROVE  Moves(a, r)
  BY ActorTyped DEF Moves, Well, StartPlaces, StopPlaces, Stops

LEMMA MovesSound ==
  ASSUME Sound, NEW a \in Actor, NEW r, Moves(a, r), Rest'
  PROVE  Sound'
  BY MovesWell DEF Sound, TypeOK, Rest, ActorType, SupType

-----------------------------------------------------------------------------
(* The steps of a stop and a start *)

\* Kills and faults among the processes.
LEMMA KillTyped ==
  ASSUME Sound, NEW P, Kill(P)
  PROVE  proc' \in [Proc -> Living \cup {"dead"}] /\ Listeners' \subseteq Listeners
  BY DEF Sound, TypeOK, Kill, Listeners

LEMMA AdoptTyped ==
  ASSUME Sound, Adopt, Answering # {}
  PROVE  record' \in Records
  <1>1. (CHOOSE p \in Answering : TRUE) \in Proc
    BY DEF Answering
  <1> QED BY <1>1 DEF Sound, TypeOK, Adopt, Records

LEMMA StartedMoves ==
  ASSUME Sound, NEW a \in Actor, Started(a), act[a].at \in StartPlaces
  PROVE  \E r : Moves(a, r)
  <1>1. CASE act[a].op = "start"
    <2> DEFINE r == [Idle EXCEPT !.at = "ensure", !.op = "ensure"]
    <2>1. r \in ActorType /\ Well(r) /\ ~r.via
      BY Names DEF Idle, ActorType, Places, Ops, Well, StartPlaces, StopPlaces
    <2>2. a # Tick
      BY <1>1, ActorTyped
    <2>3. sup' = sup /\ sup \in SupType
      BY <1>1, ActorTyped DEF Started
    <2> QED BY <1>1, <2>1, <2>2, <2>3 DEF Moves, Started
  <1>2. CASE act[a].op = "restart"
    BY <1>2, FinishMoves DEF Started
  <1> QED BY <1>1, <1>2, ActorTyped DEF Well

LEMMA StoppedMoves ==
  ASSUME Sound, NEW a \in Actor, NEW gone, Stopped(a, gone), act[a].at \in StopPlaces
  PROVE  \E r : Moves(a, r)
  <1>1. CASE gone /\ ~Stops(a)
    <2> DEFINE r == [act[a] EXCEPT !.at = "start"]
    <2>1. r \in ActorType /\ r.at = "start" /\ r.op = act[a].op /\ r.via = act[a].via
      BY ActorTyped DEF ActorType, Places
    <2>2. act' = [act EXCEPT ![a] = r] /\ sup' = sup
      BY <1>1 DEF Stopped, At
    <2> QED BY <1>1, <2>1, <2>2, AtMoves DEF Places
  <1>2. CASE ~(gone /\ ~Stops(a))
    <2>1. a = Tick => act[a].op = "restart"
      BY ActorTyped DEF Well, StopPlaces
    <2> QED BY <1>2, <2>1, FinishMoves DEF Stopped
  <1> QED BY <1>1, <1>2

\* What a step of a stop or a start leaves of the rest.
LEMMA RestTyped ==
  ASSUME Sound, proc' \in [Proc -> Living \cup {"dead"}], \A p, q \in Listeners' : p = q,
         record' \in Records, quiet' \in SUBSET Cli, held' \in BOOLEAN,
         commands' \in 0..MaxCommands, faults' \in 0..MaxFaults
  PROVE  Rest'
  BY DEF Rest

LEMMA FaultTyped ==
  ASSUME Sound, faults < MaxFaults, faults' = faults + 1
  PROVE  faults' \in 0..MaxFaults
  BY LauncherAssumption DEF Sound, TypeOK

LEMMA StopStepsSound ==
  ASSUME Sound, NEW a \in Actor,
         StopFindsNothing(a) \/ StopLook(a) \/ StopKill(a) \/ StopVerify(a)
  PROVE  Sound'
  <1>0. /\ proc \in [Proc -> Living \cup {"dead"}] /\ \A p, q \in Listeners : p = q
        /\ record \in Records /\ quiet \in SUBSET Cli /\ held \in BOOLEAN
        /\ commands \in 0..MaxCommands /\ faults \in 0..MaxFaults
        /\ NoRecord \in Records
    BY Names DEF Sound, TypeOK
  <1>1. CASE StopFindsNothing(a)
    <2>1. \E r : Moves(a, r)
      BY <1>1, StoppedMoves DEF StopFindsNothing, StopPlaces
    <2>2. held' \in BOOLEAN
      BY <1>1, <1>0, Zenon DEF StopFindsNothing, Stops, Alone
    <2>3. Rest'
      BY <1>0, <1>1, <2>2, Zenon DEF StopFindsNothing, Rest, Listeners
    <2> QED BY <2>1, <2>3, MovesSound
  <1>2. CASE StopLook(a)
    <2> DEFINE r == [act[a] EXCEPT !.at = "kill", !.view = Targets]
    <2>1. Targets \in SUBSET Proc
      BY DEF Targets, Recorded, Ours, Alive, Answering, Listeners
    <2>2. r \in ActorType /\ r.at = "kill" /\ r.op = act[a].op /\ r.via = act[a].via
      BY <2>1, ActorTyped DEF ActorType, Places
    <2>3. act' = [act EXCEPT ![a] = r] /\ sup' = sup
      BY <1>2 DEF StopLook
    <2>4. Moves(a, r)
      BY <1>2, <2>2, <2>3, AtMoves DEF StopLook, StopPlaces, Places
    <2>5. quiet' \in SUBSET Cli
      <3>1. Stops(a) => a \in Cli
        BY Names, ActorTyped DEF Stops
      <3> QED BY <1>0, <1>2, <3>1 DEF StopLook
    <2>6. Rest'
      BY <1>0, <1>2, <2>5, Zenon DEF StopLook, Rest, Listeners
    <2> QED BY <2>4, <2>6, MovesSound
  <1>3. CASE StopKill(a)
    <2> DEFINE r == [act[a] EXCEPT !.at = "verify", !.view = {}]
    <2>1. r \in ActorType /\ r.at = "verify" /\ r.op = act[a].op /\ r.via = act[a].via
      BY ActorTyped DEF ActorType, Places
    <2>2. act' = [act EXCEPT ![a] = r] /\ sup' = sup
      BY <1>3 DEF StopKill
    <2>3. Moves(a, r)
      BY <1>3, <2>1, <2>2, AtMoves DEF StopKill, StopPlaces, Places
    <2>4. proc' \in [Proc -> Living \cup {"dead"}] /\ \A p, q \in Listeners' : p = q
      BY <1>0, <1>3, KillTyped DEF StopKill
    <2>5. Rest'
      BY <1>0, <1>3, <2>4 DEF StopKill, Rest
    <2> QED BY <2>3, <2>5, MovesSound
  <1>4. CASE StopVerify(a)
    <2>1. \E r : Moves(a, r)
      BY <1>4, StoppedMoves DEF StopVerify, StopPlaces
    <2>2. held' \in BOOLEAN
      BY <1>4, <1>0, Zenon DEF StopVerify
    <2>3. record' \in Records /\ quiet' \in SUBSET Cli
      BY <1>4, <1>0 DEF StopVerify
    <2>4. Rest'
      BY <1>0, <1>4, <2>2, <2>3, Zenon DEF StopVerify, Rest, Listeners
    <2> QED BY <2>1, <2>4, MovesSound
  <1> QED BY <1>1, <1>2, <1>3, <1>4

StartSteps(a) ==
    \/ StartLook(a) \/ RecoverAdopts(a) \/ RecoverClears(a) \/ StartPort(a)
    \/ \E p \in Proc : Detach(a, p)
    \/ WaitAnswered(a) \/ WaitExited(a) \/ WaitTimesOut(a)
    \/ RaceAdopts(a) \/ RaceIsLost(a) \/ WriteRecord(a) \/ WriteFails(a)

LEMMA StartPlaced ==
  ASSUME NEW a \in Actor, StartSteps(a)
  PROVE  act[a].at \in StartPlaces
  BY DEF StartSteps, StartLook, RecoverAdopts, RecoverClears, StartPort, Detach, WaitAnswered,
         WaitExited, WaitTimesOut, RaceAdopts, RaceIsLost, WriteRecord, WriteFails, StartPlaces

LEMMA GivenUp ==
  ASSUME Sound, NEW a \in Actor, Finish(a), act[a].at \in StartPlaces
  PROVE  \E r : Moves(a, r)
  BY FinishMoves, ActorTyped DEF Well

LEMMA StartStepsSound ==
  ASSUME Sound, NEW a \in Actor, StartSteps(a)
  PROVE  Sound'
  <1>0. /\ proc \in [Proc -> Living \cup {"dead"}] /\ \A p, q \in Listeners : p = q
        /\ record \in Records /\ quiet \in SUBSET Cli /\ held \in BOOLEAN
        /\ commands \in 0..MaxCommands /\ faults \in 0..MaxFaults
        /\ act[a] \in ActorType /\ sup \in SupType /\ act[a].at \in StartPlaces
    BY ActorTyped, StartPlaced DEF Sound, TypeOK
  \* A step to another place of the start, with what it learned.
  <1>1. ASSUME NEW where \in StartPlaces, NEW v \in SUBSET Proc, NEW i \in Proc \cup {Nobody},
               act' = [act EXCEPT ![a] = [act[a] EXCEPT !.at = where, !.view = v, !.ident = i]],
               where = "record" => v # {}, sup' = sup, Rest'
        PROVE  Sound'
    <2> DEFINE r == [act[a] EXCEPT !.at = where, !.view = v, !.ident = i]
    <2>1. where \in Places
      BY DEF StartPlaces, Places
    <2>2. /\ r \in ActorType /\ r.at = where /\ r.op = act[a].op /\ r.via = act[a].via
          /\ r.view = v
      BY <1>0, <2>1 DEF ActorType
    <2>3. Moves(a, r)
      BY <1>0, <1>1, <2>1, <2>2, AtMoves
    <2> QED BY <1>1, <2>3, MovesSound
  <1>2. CASE StartLook(a)
    <2>1. PICK where \in StartPlaces, v \in SUBSET Proc :
            /\ act' = [act EXCEPT ![a].at = where, ![a].view = v]
            /\ where # "record"
      <3> DEFINE left == IF Recorded = {} THEN Alive ELSE {}
                 place == IF left = {} THEN "port" ELSE "recover"
      <3>1. left \in SUBSET Proc
        BY DEF Alive
      <3>2. place \in StartPlaces /\ place # "record"
        BY DEF StartPlaces
      <3>3. act' = [act EXCEPT ![a].at = place, ![a].view = left]
        BY <1>2 DEF StartLook
      <3> HIDE DEF left, place
      <3> QED BY <3>1, <3>2, <3>3
    <2>2. act' = [act EXCEPT ![a] = [act[a] EXCEPT !.at = where, !.view = v,
                                                   !.ident = act[a].ident]]
      BY <1>0, <2>1 DEF ActorType
    <2>3. act[a].ident \in Proc \cup {Nobody}
      BY <1>0 DEF ActorType
    <2>4. Rest' /\ sup' = sup
      BY <1>0, <1>2, Zenon DEF StartLook, Rest, Listeners
    <2> QED BY <1>1, <2>1, <2>2, <2>3, <2>4
  <1>3. CASE RecoverAdopts(a) \/ RaceAdopts(a)
    <2>1. Adopt /\ Answering # {} /\ Started(a)
      BY <1>3 DEF RecoverAdopts, RaceAdopts
    <2>2. record' \in Records
      BY <2>1, AdoptTyped
    <2>3. Rest'
      BY <1>0, <1>3, <2>2, Zenon DEF RecoverAdopts, RaceAdopts, Rest, Listeners
    <2> QED BY <1>0, <2>1, <2>3, StartedMoves, MovesSound
  <1>4. CASE RecoverClears(a)
    <2>1. act' = [act EXCEPT ![a] = [act[a] EXCEPT !.at = "port", !.view = {},
                                                   !.ident = act[a].ident]]
      BY <1>0, <1>4 DEF RecoverClears, ActorType
    <2>2. act[a].ident \in Proc \cup {Nobody}
      BY <1>0 DEF ActorType
    <2>3. faults' \in 0..MaxFaults
      BY <1>0, <1>4, FaultTyped DEF RecoverClears
    <2>4. proc' \in [Proc -> Living \cup {"dead"}] /\ \A p, q \in Listeners' : p = q
      BY <1>0, <1>4, KillTyped DEF RecoverClears
    <2>5. Rest' /\ sup' = sup
      BY <1>0, <1>4, <2>3, <2>4 DEF RecoverClears, Rest
    <2> QED BY <1>1, <2>1, <2>2, <2>5 DEF StartPlaces
  <1>5. CASE StartPort(a)
    <2>0. UNCHANGED <<proc, quiet, held, commands, faults>>
      BY <1>5 DEF StartPort
    <2>1. CASE Listeners = {}
      <3>1. act' = [act EXCEPT ![a] = [act[a] EXCEPT !.at = "detach", !.view = act[a].view,
                                                     !.ident = act[a].ident]]
        BY <1>0, <1>5, <2>1 DEF StartPort, At, ActorType
      <3>2. act[a].ident \in Proc \cup {Nobody} /\ act[a].view \in SUBSET Proc
        BY <1>0 DEF ActorType
      <3>3. record' = record /\ sup' = sup
        BY <1>5, <2>1 DEF StartPort
      <3>4. Rest'
        BY <1>0, <2>0, <3>3, Zenon DEF Rest, Listeners
      <3> QED BY <1>1, <3>1, <3>2, <3>3, <3>4 DEF StartPlaces
    <2>2. CASE Listeners # {} /\ Answering # {}
      <3>1. Adopt /\ Started(a)
        BY <1>5, <2>2 DEF StartPort
      <3>2. record' \in Records
        BY <2>2, <3>1, AdoptTyped
      <3>3. Rest'
        BY <1>0, <2>0, <3>2, Zenon DEF Rest, Listeners
      <3> QED BY <1>0, <3>1, <3>3, StartedMoves, MovesSound
    <2>3. CASE Listeners # {} /\ Answering = {}
      <3>1. Finish(a) /\ record' = record
        BY <1>5, <2>3 DEF StartPort
      <3>2. Rest'
        BY <1>0, <2>0, <3>1, Zenon DEF Rest, Listeners
      <3> QED BY <1>0, <3>1, <3>2, GivenUp, MovesSound
    <2> QED BY <2>1, <2>2, <2>3
  <1>6. ASSUME NEW p \in Proc, Detach(a, p) PROVE Sound'
    <2>1. act' = [act EXCEPT ![a] = [act[a] EXCEPT !.at = "wait", !.view = act[a].view,
                                                   !.ident = p]]
      BY <1>0, <1>6 DEF Detach, ActorType
    <2>2. act[a].view \in SUBSET Proc
      BY <1>0 DEF ActorType
    <2>3. proc' \in [Proc -> Living \cup {"dead"}] /\ \A x, y \in Listeners' : x = y
      BY <1>0, <1>6 DEF Detach, Living, Listeners
    <2>4. Rest' /\ sup' = sup
      BY <1>0, <1>6, <2>3 DEF Detach, Rest
    <2> QED BY <1>1, <2>1, <2>2, <2>4 DEF StartPlaces
  <1>7. CASE WaitAnswered(a)
    <2>1. act' = [act EXCEPT ![a] = [act[a] EXCEPT !.at = "record", !.view = Answering,
                                                   !.ident = act[a].ident]]
      BY <1>0, <1>7 DEF WaitAnswered, ActorType
    <2>2. act[a].ident \in Proc \cup {Nobody} /\ Answering \in SUBSET Proc /\ Answering # {}
      BY <1>0, <1>7 DEF ActorType, Answering, WaitAnswered
    <2>3. Rest' /\ sup' = sup
      BY <1>0, <1>7, Zenon DEF WaitAnswered, Rest, Listeners
    <2> QED BY <1>1, <2>1, <2>2, <2>3 DEF StartPlaces
  <1>8. CASE WaitExited(a)
    <2>1. act' = [act EXCEPT ![a] = [act[a] EXCEPT !.at = "race", !.view = act[a].view,
                                                   !.ident = act[a].ident]]
      BY <1>0, <1>8 DEF WaitExited, At, ActorType
    <2>2. act[a].ident \in Proc \cup {Nobody} /\ act[a].view \in SUBSET Proc
      BY <1>0 DEF ActorType
    <2>3. Rest' /\ sup' = sup
      BY <1>0, <1>8, Zenon DEF WaitExited, Rest, Listeners
    <2> QED BY <1>1, <2>1, <2>2, <2>3 DEF StartPlaces
  <1>9. CASE WaitTimesOut(a)
    <2>1. proc' \in [Proc -> Living \cup {"dead"}] /\ \A p, q \in Listeners' : p = q
      BY <1>0, <1>9, KillTyped DEF WaitTimesOut
    <2>2. faults' \in 0..MaxFaults
      BY <1>0, <1>9, FaultTyped DEF WaitTimesOut
    <2>3. Rest' /\ Finish(a)
      BY <1>0, <1>9, <2>1, <2>2 DEF WaitTimesOut, Rest
    <2> QED BY <1>0, <2>3, GivenUp, MovesSound
  <1>10. CASE RaceIsLost(a)
    <2>1. Rest'
      BY <1>0, <1>10, Zenon DEF RaceIsLost, Rest, Listeners
    <2>2. Finish(a)
      BY <1>10 DEF RaceIsLost
    <2> QED BY <1>0, <2>1, <2>2, GivenUp, MovesSound
  <1>11. CASE WriteRecord(a)
    <2>1. act[a].view # {} /\ act[a].view \subseteq Proc
      BY <1>0, <1>11, ActorTyped DEF WriteRecord, Well, ActorType
    <2>2. (CHOOSE p \in act[a].view : TRUE) \in Proc /\ act[a].ident \in Proc \cup {Nobody}
      BY <1>0, <2>1 DEF ActorType
    <2>3. record' \in Records
      BY <1>11, <2>2 DEF WriteRecord, Records
    <2>4. Rest'
      BY <1>0, <1>11, <2>3, Zenon DEF WriteRecord, Rest, Listeners
    <2>5. Started(a)
      BY <1>11 DEF WriteRecord
    <2> QED BY <1>0, <2>4, <2>5, StartedMoves, MovesSound
  <1>12. CASE WriteFails(a)
    <2>1. proc' \in [Proc -> Living \cup {"dead"}] /\ \A p, q \in Listeners' : p = q
      BY <1>0, <1>12, KillTyped DEF WriteFails
    <2>2. faults' \in 0..MaxFaults
      BY <1>12, FaultTyped DEF WriteFails
    <2>3. Rest' /\ Finish(a)
      BY <1>0, <1>12, <2>1, <2>2 DEF WriteFails, Rest
    <2> QED BY <1>0, <2>3, GivenUp, MovesSound
  <1> QED BY <1>2, <1>3, <1>4, <1>5, <1>6, <1>7, <1>8, <1>9, <1>10, <1>11, <1>12 DEF StartSteps

-----------------------------------------------------------------------------
(* The commands and the supervisor *)

CliActions(c) ==
    \/ \E op \in {"start", "stop", "restart"} : Ask(c, op)
    \/ AskAll(c) \/ AskOther(c) \/ Granted(c) \/ Fallback(c) \/ SupStopped(c)
    \/ Ensure(c) \/ Interrupt(c)

\* A command goes to where it asks, acts or makes sure of the supervisor.
LEMMA CommandMoves ==
  ASSUME Sound, NEW c \in Cli, NEW where \in Places, NEW op \in Ops,
         act' = [act EXCEPT ![c] = [Idle EXCEPT !.op = op, !.at = where]],
         sup' \in SupType, sup'.up = sup.up, sup'.paused = sup.paused, sup'.recent = sup.recent,
         Well([Idle EXCEPT !.op = op, !.at = where])
  PROVE  \E r : Moves(c, r)
  <1> DEFINE r == [Idle EXCEPT !.op = op, !.at = where]
  <1>1. r \in ActorType /\ ~r.via /\ c # Tick
    BY Names DEF ActorType, Idle
  <1> QED BY <1>1, Names DEF Moves

LEMMA AskSound ==
  ASSUME Sound, NEW c \in Cli,
         (\E op \in {"start", "stop", "restart"} : Ask(c, op)) \/ AskAll(c) \/ AskOther(c)
  PROVE  Sound'
  <1>0. /\ proc \in [Proc -> Living \cup {"dead"}] /\ \A p, q \in Listeners : p = q
        /\ record \in Records /\ quiet \in SUBSET Cli /\ held \in BOOLEAN
        /\ commands \in 0..MaxCommands /\ faults \in 0..MaxFaults
        /\ sup \in SupType /\ c \in Actor
    BY Names, ActorTyped DEF Sound, TypeOK, SupType
  <1>1. ASSUME NEW op, Asks(op), UNCHANGED <<proc, record, faults>> PROVE Rest'
    <2>1. commands' \in 0..MaxCommands
      BY <1>0, <1>1, LauncherAssumption DEF Asks
    <2>2. held' \in BOOLEAN
      BY <1>0, <1>1, Zenon DEF Asks
    <2>3. quiet' \in SUBSET Cli
      BY <1>0, <1>1 DEF Asks
    <2> QED BY <1>0, <1>1, <2>1, <2>2, <2>3, Zenon DEF Rest, Listeners
  <1>2. ASSUME NEW op \in {"start", "stop", "restart"}, Ask(c, op) PROVE Sound'
    <2>1. PICK where \in {"ask", "start", "stop"} :
            /\ act' = [act EXCEPT ![c] = [Idle EXCEPT !.op = op, !.at = where]]
            /\ where = "start" => op = "start"
            /\ where = "stop" => op # "start"
      BY <1>2 DEF Ask, First
    <2>2. Well([Idle EXCEPT !.op = op, !.at = where])
      BY <2>1 DEF Well, Idle, StartPlaces, StopPlaces
    <2>3. where \in Places /\ op \in Ops /\ sup' = sup
      BY <1>2 DEF Places, Ops, Ask
    <2>4. \E r : Moves(c, r)
      BY <1>0, <2>1, <2>2, <2>3, CommandMoves
    <2>5. Rest'
      BY <1>1, <1>2 DEF Ask
    <2> QED BY <1>0, <2>4, <2>5, MovesSound
  <1>3. CASE AskAll(c)
    <2>1. Well([Idle EXCEPT !.op = "stop_all", !.at = "shutdown"])
      BY DEF Well, Idle, StartPlaces, StopPlaces
    <2>2. /\ sup' \in SupType /\ sup'.up = sup.up /\ sup'.paused = sup.paused
          /\ sup'.recent = sup.recent
      BY <1>0, <1>3 DEF AskAll, SupType
    <2>3. \E r : Moves(c, r)
      BY <1>3, <2>1, <2>2, CommandMoves DEF AskAll, Places, Ops
    <2>4. Rest'
      BY <1>1, <1>3 DEF AskAll
    <2> QED BY <1>0, <2>3, <2>4, MovesSound
  <1>4. CASE AskOther(c)
    <2>1. Well([Idle EXCEPT !.op = "ensure", !.at = "ensure"])
      BY DEF Well, Idle, StartPlaces, StopPlaces
    <2>2. \E r : Moves(c, r)
      BY <1>0, <1>4, <2>1, CommandMoves DEF AskOther, Places, Ops
    <2>3. Rest'
      BY <1>1, <1>4 DEF AskOther
    <2> QED BY <1>0, <2>2, <2>3, MovesSound
  <1> QED BY <1>2, <1>3, <1>4

\* The lock is free and taken by one.
LEMMA GrantSound ==
  ASSUME Sound, NEW c \in Cli, Granted(c)
  PROVE  Sound'
  <1>0. /\ proc \in [Proc -> Living \cup {"dead"}] /\ \A p, q \in Listeners : p = q
        /\ record \in Records /\ quiet \in SUBSET Cli /\ held \in BOOLEAN
        /\ commands \in 0..MaxCommands /\ faults \in 0..MaxFaults
        /\ act \in [Actor -> ActorType] /\ sup \in SupType /\ sup.up /\ c \in Actor /\ c # Tick
        /\ Well(act[c]) /\ act[c].at = "ask"
    BY Names, ActorTyped DEF Sound, TypeOK, SupType, ActorType, Granted
  <1> DEFINE r == [act[c] EXCEPT !.at = First(act[c].op), !.via = TRUE]
  <1>1. act' = [act EXCEPT ![c] = r]
    BY <1>0 DEF Granted
  <1>2. r \in ActorType /\ r.op = act[c].op /\ Well(r)
    <2>1. /\ First(act[c].op) \in Places \cap (StartPlaces \cup StopPlaces)
          /\ act[c].op \in {"start", "stop", "restart"}
          /\ IF act[c].op = "start" THEN First(act[c].op) = "start" ELSE First(act[c].op) = "stop"
      BY <1>0 DEF Places, First, Well, StartPlaces, StopPlaces
    <2>2. r \in ActorType /\ r.op = act[c].op /\ r.at = First(act[c].op)
      BY <1>0, <2>1 DEF ActorType
    <2> HIDE DEF r
    <2> QED BY <2>1, <2>2 DEF Well, StartPlaces, StopPlaces
  <1>3. act'[c] = r /\ \A b \in Actor \ {c} : act'[b] = act[b]
    BY <1>0, <1>1
  <1>4. /\ sup' \in SupType /\ sup'.up /\ (act[c].op = "stop" => sup'.paused)
        /\ sup'.recent = sup.recent \/ sup'.recent < CrashLoopMax
    <2>1. CASE act[c].op = "stop"
      BY <1>0, <2>1 DEF Granted, SupType
    <2>2. CASE act[c].op # "stop"
      <3>1. sup' = [sup EXCEPT !.paused = FALSE, !.failed = FALSE, !.fails = 0, !.recent = 0]
        BY <2>2 DEF Granted
      <3>2. 0 \in 0..FailThreshold-1 /\ 0 \in 0..CrashLoopMax /\ 0 < CrashLoopMax
        BY LauncherAssumption
      <3> QED BY <1>0, <2>2, <3>1, <3>2 DEF SupType
    <2> QED BY <2>1, <2>2
  <1>5. \A b \in Actor : Holds(b)' => b = c
    BY <1>3, Zenon DEF Holds, Granted, LockFree
  <1>6. TickWell'
    <2>1. act'[Tick] = act[Tick] /\ Tick \in Actor
      BY <1>0, <1>3, Names
    <2> QED BY <1>4, <2>1, ActorTyped DEF TickWell
  <1>7. LockWell'
    <2>1. \A d \in Cli : act'[d].via => d = c
      BY <1>5, Names DEF Holds
    <2> QED BY <1>2, <1>3, <1>4, <1>5, <2>1 DEF LockWell
  <1>8. \A b \in Actor : Well(act'[b])
    BY <1>2, <1>3, ActorTyped
  <1>9. act' \in [Actor -> ActorType]
    BY <1>0, <1>1, <1>2
  <1>10. Rest'
    BY <1>0, Zenon DEF Rest, Granted, Listeners
  <1> QED BY <1>4, <1>6, <1>7, <1>8, <1>9, <1>10 DEF Sound, Wells, TypeOK, Rest, ActorType, SupType

LEMMA NoSupTyped == NoSup \in SupType /\ ~NoSup.up /\ NoSup.recent < CrashLoopMax
  BY LauncherAssumption DEF NoSup, SupType

\* The supervisor is gone, and nobody acts through it.
LEMMA InterruptedSound ==
  ASSUME Sound, NEW c, NEW at \in Places, Interrupted(c, at), sup' = NoSup,
         c \in Cli => act[c].at = "shutdown" /\ at = "stop",
         c # Tick, UNCHANGED <<proc, record, held, commands>>, faults' \in 0..MaxFaults
  PROVE  Sound'
  <1>0. /\ proc \in [Proc -> Living \cup {"dead"}] /\ \A p, q \in Listeners : p = q
        /\ record \in Records /\ quiet \in SUBSET Cli /\ held \in BOOLEAN
        /\ commands \in 0..MaxCommands
        /\ act \in [Actor -> ActorType]
    BY DEF Sound, TypeOK, ActorType
  <1>1. ASSUME NEW b \in Actor
        PROVE  act'[b] \in ActorType /\ Well(act'[b]) /\ ~act'[b].via
    <2>0. act[b] \in ActorType /\ Well(act[b])
      BY ActorTyped
    <2>1. CASE b = c
      <3>1. b \in Cli /\ act'[b] = [act[b] EXCEPT !.at = "stop"] /\ act[b].at = "shutdown"
        BY <2>1, Names DEF Interrupted
      <3> QED BY <2>0, <3>1 DEF ActorType, Places, Well, StartPlaces, StopPlaces
    <2>2. CASE b # c /\ b = Tick
      BY <2>2, Names DEF Interrupted
    <2>3. CASE b # c /\ b # Tick /\ act[b].via
      <3>1. act'[b] = [Idle EXCEPT !.at = "ask", !.op = act[b].op]
        BY <2>3 DEF Interrupted
      <3>2. act[b].op \in {"start", "stop", "restart"}
        BY <2>0, <2>3 DEF Well
      <3>3. "ask" \in Places /\ act[b].op \in Ops
        BY <3>2 DEF Places, Ops
      <3>4. /\ act'[b] \in ActorType /\ act'[b].at = "ask" /\ ~act'[b].via
            /\ act'[b].op = act[b].op
        BY <3>1, <3>3, Names DEF ActorType, Idle
      <3> QED BY <3>2, <3>4 DEF Well, StartPlaces, StopPlaces
    <2>4. CASE b # c /\ b # Tick /\ ~act[b].via
      BY <2>0, <2>4 DEF Interrupted
    <2> QED BY <2>1, <2>2, <2>3, <2>4
  <1>2. act' = [b \in Actor |-> act'[b]]
    BY DEF Interrupted
  <1>3. act' \in [Actor -> ActorType]
    BY <1>1, <1>2
  <1>4. act'[Tick] = Idle
    BY Names DEF Interrupted
  <1>5. \A b \in Actor : ~Holds(b)'
    BY <1>1, <1>4, Names DEF Holds
  <1>6. TickWell' /\ LockWell'
    BY <1>1, <1>4, <1>5, Names, NoSupTyped DEF TickWell, LockWell
  <1>7. Rest'
    <2>1. quiet' \in SUBSET Cli
      BY <1>0 DEF Interrupted
    <2> QED BY <1>0, <2>1, Zenon DEF Rest, Listeners
  <1> QED BY <1>1, <1>3, <1>6, <1>7, NoSupTyped DEF Sound, Wells, TypeOK, Rest, ActorType, SupType

LEMMA CommandSound ==
  ASSUME Sound, NEW c \in Cli, Fallback(c) \/ SupStopped(c) \/ Ensure(c) \/ Interrupt(c)
  PROVE  Sound'
  <1>0. /\ proc \in [Proc -> Living \cup {"dead"}] /\ \A p, q \in Listeners : p = q
        /\ record \in Records /\ quiet \in SUBSET Cli /\ held \in BOOLEAN
        /\ commands \in 0..MaxCommands /\ faults \in 0..MaxFaults
        /\ act \in [Actor -> ActorType]
        /\ act[c] \in ActorType /\ Well(act[c]) /\ sup \in SupType /\ c \in Actor /\ c # Tick
    BY Names, ActorTyped DEF Sound, TypeOK, SupType, ActorType
  <1>1. ASSUME act' = [act EXCEPT ![c] = Idle], sup' = sup PROVE Moves(c, Idle)
    BY <1>0, <1>1, Names DEF Moves
  <1>2. CASE Fallback(c)
    <2> DEFINE r == [act[c] EXCEPT !.at = First(act[c].op)]
    <2>1. act' = [act EXCEPT ![c] = r] /\ sup' = sup
      BY <1>0, <1>2 DEF Fallback, At
    <2>2. r \in ActorType /\ r.op = act[c].op /\ ~r.via /\ Well(r)
      BY <1>0, <1>2 DEF Fallback, ActorType, Places, First, Well, StartPlaces, StopPlaces
    <2>3. Moves(c, r)
      BY <1>0, <2>1, <2>2 DEF Moves
    <2>4. Rest'
      BY <1>0, <1>2, Zenon DEF Fallback, Rest, Listeners
    <2> QED BY <1>0, <2>3, <2>4, MovesSound
  <1>3. CASE SupStopped(c)
    BY <1>0, <1>3, InterruptedSound DEF SupStopped, Places
  <1>4. CASE Ensure(c) /\ sup.up
    <2>1. Rest'
      BY <1>0, <1>4, Zenon DEF Ensure, Rest, Listeners
    <2>2. Moves(c, Idle)
      BY <1>1, <1>4 DEF Ensure
    <2> QED BY <1>0, <2>1, <2>2, MovesSound
  <1>5. CASE Ensure(c) /\ ~sup.up
    <2>1. act'[c] = Idle /\ \A b \in Actor \ {c} : act'[b] = act[b]
      BY <1>0, <1>5 DEF Ensure
    <2>2. sup' = [NoSup EXCEPT !.up = TRUE] /\ sup' \in SupType
      BY <1>5, NoSupTyped DEF Ensure, SupType
    <2>3. sup'.recent < CrashLoopMax
      BY <2>2, LauncherAssumption DEF NoSup
    <2>4. \A b \in Actor : ~Holds(b)
      BY <1>5 DEF Sound, Wells, LockWell
    <2>5. \A b \in Actor : ~Holds(b)'
      BY <1>0, <2>1, <2>4, Names DEF Holds
    <2>6. TickWell' /\ LockWell'
      BY <1>0, <2>1, <2>3, <2>5, Names, ActorTyped DEF TickWell, LockWell, Holds
    <2>7. act' \in [Actor -> ActorType] /\ \A b \in Actor : Well(act'[b])
      BY <1>0, <1>5, <2>1, Names, ActorTyped DEF Ensure
    <2>8. held' \in BOOLEAN
      BY <1>5, Zenon DEF Ensure
    <2>9. quiet' \in SUBSET Cli
      BY <1>5 DEF Ensure
    <2>10. Rest'
      BY <1>0, <1>5, <2>8, <2>9, Zenon DEF Ensure, Rest, Listeners
    <2> QED BY <2>2, <2>6, <2>7, <2>10 DEF Sound, Wells, TypeOK, Rest, ActorType, SupType
  <1>6. CASE Interrupt(c)
    <2>1. faults' \in 0..MaxFaults
      BY <1>6, FaultTyped DEF Interrupt
    <2>2. quiet' \in SUBSET Cli
      BY <1>0, <1>6 DEF Interrupt
    <2>3. Rest'
      BY <1>0, <1>6, <2>1, <2>2, Zenon DEF Interrupt, Rest, Listeners
    <2>4. Moves(c, Idle)
      BY <1>1, <1>6 DEF Interrupt
    <2> QED BY <1>0, <2>3, <2>4, MovesSound
  <1> QED BY <1>2, <1>3, <1>4, <1>5, <1>6

LEMMA RoundSound ==
  ASSUME Sound, TickProbe \/ TickMark \/ TickDecide \/ SupExits \/ SupDies
  PROVE  Sound'
  <1>0. /\ proc \in [Proc -> Living \cup {"dead"}] /\ \A p, q \in Listeners : p = q
        /\ record \in Records /\ quiet \in SUBSET Cli /\ held \in BOOLEAN
        /\ commands \in 0..MaxCommands /\ faults \in 0..MaxFaults
        /\ act \in [Actor -> ActorType] /\ Tick \in Actor
        /\ act[Tick] \in ActorType /\ Well(act[Tick]) /\ sup \in SupType
        /\ act[Tick].op \in {"none", "ok", "miss", "restart"} /\ ~act[Tick].via
    BY Names, ActorTyped DEF Sound, TypeOK, SupType, ActorType
  <1>1. CASE TickProbe
    <2> DEFINE r == [Idle EXCEPT !.at = "mark", !.saved = record,
                                 !.op = IF Answering # {} THEN "ok" ELSE "miss"]
    <2>1. act' = [act EXCEPT ![Tick] = r] /\ sup' = sup /\ sup.up
      BY <1>1 DEF TickProbe
    <2>2. r \in ActorType /\ Well(r) /\ r.op \in {"ok", "miss"} /\ ~r.via
      <3>1. "mark" \in Places /\ "ok" \in Ops /\ "miss" \in Ops
        BY DEF Places, Ops
      <3>2. /\ r \in ActorType /\ r.at = "mark" /\ r.op \in {"ok", "miss"} /\ ~r.via
        BY <1>0, <3>1, Names DEF Idle, ActorType
      <3> HIDE DEF r
      <3> QED BY <3>2 DEF Well, StartPlaces, StopPlaces
    <2>3. act'[Tick] = r /\ \A b \in Actor \ {Tick} : act'[b] = act[b]
      BY <1>0, <2>1
    <2>4. \A b \in Actor : Holds(b)' => b = Tick
      BY <1>1, <2>3, Zenon DEF TickProbe, LockFree, Holds
    <2>5. TickWell'
      BY <2>2, <2>3 DEF TickWell
    <2>6. LockWell'
      <3>1. \A d \in Cli : ~act'[d].via
        BY <2>4, Names DEF Holds
      <3> QED BY <2>1, <2>4, <3>1 DEF LockWell
    <2>7. act' \in [Actor -> ActorType] /\ \A b \in Actor : Well(act'[b])
      BY <1>0, <2>1, <2>2, <2>3, ActorTyped
    <2>8. Rest'
      BY <1>0, <1>1, Zenon DEF TickProbe, Rest, Listeners
    <2> QED BY <1>0, <2>1, <2>5, <2>6, <2>7, <2>8 DEF Sound, Wells, TypeOK, Rest, ActorType, SupType
  <1>2. CASE TickMark
    <2> DEFINE r == [act[Tick] EXCEPT !.at = "decide", !.saved = NoRecord]
    <2>1. act' = [act EXCEPT ![Tick] = r] /\ sup' = sup
      BY <1>0, <1>2 DEF TickMark
    <2>2. r \in ActorType /\ Well(r) /\ ~r.via /\ r.op = act[Tick].op
      BY <1>0, Names DEF ActorType, Places, Well, StartPlaces, StopPlaces
    <2>3. Moves(Tick, r)
      BY <1>0, <1>2, <2>1, <2>2, ActorTyped DEF Moves, TickMark
    <2>4. record' \in Records
      BY <1>0, <1>2 DEF TickMark, ActorType
    <2>5. Rest'
      BY <1>0, <1>2, <2>4, Zenon DEF TickMark, Rest, Listeners
    <2> QED BY <1>0, <2>3, <2>5, MovesSound
  <1>3. CASE TickDecide
    <2>0. Rest'
      BY <1>0, <1>3, Zenon DEF TickDecide, Rest, Listeners
    <2>1. ASSUME act' = [act EXCEPT ![Tick] = Idle], sup' \in SupType,
                 sup'.up = sup.up, sup'.paused = sup.paused
          PROVE  Sound'
      <3>1. Moves(Tick, Idle)
        BY <2>1, Names DEF Moves
      <3> QED BY <1>0, <2>0, <3>1, MovesSound
    <2>2. CASE act' = [act EXCEPT ![Tick] = Idle] /\ sup' = [sup EXCEPT !.fails = 0]
      <3>1. sup' \in SupType /\ sup'.up = sup.up /\ sup'.paused = sup.paused
        BY <1>0, <2>2, LauncherAssumption DEF SupType
      <3> QED BY <2>1, <2>2, <3>1
    <2>3. CASE /\ act' = [act EXCEPT ![Tick] = Idle] /\ sup.fails + 1 < FailThreshold
               /\ sup' = [sup EXCEPT !.fails = sup.fails + 1]
      <3>1. sup.fails + 1 \in 0..FailThreshold-1
        BY <1>0, <2>3, LauncherAssumption DEF SupType
      <3>2. sup' \in SupType /\ sup'.up = sup.up /\ sup'.paused = sup.paused
        BY <1>0, <2>3, <3>1 DEF SupType
      <3> QED BY <2>1, <2>3, <3>2
    <2>4. CASE act' = [act EXCEPT ![Tick] = Idle] /\ sup' = [sup EXCEPT !.failed = TRUE]
      <3>1. sup' \in SupType /\ sup'.up = sup.up /\ sup'.paused = sup.paused
        BY <1>0, <2>4 DEF SupType
      <3> QED BY <2>1, <2>4, <3>1
    <2>5. CASE /\ act' = [act EXCEPT ![Tick].at = "stop", ![Tick].op = "restart"]
               /\ sup' = sup /\ ~CrashLoop
      <3> DEFINE r == [act[Tick] EXCEPT !.at = "stop", !.op = "restart"]
      <3>1. act' = [act EXCEPT ![Tick] = r]
        BY <1>0, <2>5
      <3>2. r \in ActorType /\ Well(r) /\ ~r.via /\ r.op = "restart"
        BY <1>0 DEF ActorType, Places, Ops, Well, StartPlaces, StopPlaces
      <3>3. sup.recent < CrashLoopMax
        BY <1>0, <2>5, LauncherAssumption DEF CrashLoop, SupType
      <3>4. act[Tick].at # "idle"
        BY <1>3 DEF TickDecide
      <3>5. Moves(Tick, r)
        BY <1>0, <2>5, <3>1, <3>2, <3>3, <3>4 DEF Moves
      <3> QED BY <1>0, <2>0, <3>5, MovesSound
    <2> QED BY <1>3, <2>2, <2>3, <2>4, <2>5 DEF TickDecide
  <1>4. ASSUME Interrupted(Nobody, "ask"), sup' = NoSup,
               UNCHANGED <<proc, record, held, commands>>, faults' \in 0..MaxFaults
        PROVE  Sound'
    BY <1>4, LauncherAssumption, InterruptedSound DEF Places
  <1>5. CASE SupExits
    BY <1>0, <1>4, <1>5 DEF SupExits
  <1>6. CASE SupDies
    BY <1>4, <1>6, FaultTyped DEF SupDies
  <1> QED BY <1>1, <1>2, <1>3, <1>5, <1>6

ProcessActions ==
    \/ \E p \in Proc : \/ ComesUp(p) \/ AnswersAgain(p)
                       \/ \E s \in {"dead", "hung", "deaf"} : Breaks(p, s)
    \/ WindowPasses

LEMMA ProcessSound ==
  ASSUME Sound, ProcessActions
  PROVE  Sound' /\ Alive' \subseteq Alive
  <1>0. /\ proc \in [Proc -> Living \cup {"dead"}] /\ \A p, q \in Listeners : p = q
        /\ record \in Records /\ quiet \in SUBSET Cli /\ held \in BOOLEAN
        /\ commands \in 0..MaxCommands /\ faults \in 0..MaxFaults /\ sup \in SupType
    BY Names, ActorTyped DEF Sound, TypeOK, SupType
  <1>1. ASSUME UNCHANGED <<record, sup, act, quiet, held, commands>>, faults' \in 0..MaxFaults,
               proc' \in [Proc -> Living \cup {"dead"}], \A p, q \in Listeners' : p = q
        PROVE  Sound'
    <2>1. Rest'
      BY <1>0, <1>1, Zenon DEF Rest
    <2>2. Wells'
      BY <1>1 DEF Sound, Wells, TickWell, LockWell, Holds
    <2> QED BY <1>0, <1>1, <2>1, <2>2 DEF Sound, TypeOK, Rest
  <1>2. ASSUME NEW p \in Proc, ComesUp(p) PROVE Sound' /\ Alive' \subseteq Alive
    <2>1. proc' \in [Proc -> Living \cup {"dead"}] /\ \A x, y \in Listeners' : x = y
      BY <1>0, <1>2 DEF ComesUp, Living, Listeners
    <2>2. Alive' \subseteq Alive
      BY <1>0, <1>2 DEF ComesUp, Alive
    <2> QED BY <1>0, <1>1, <1>2, <2>1, <2>2 DEF ComesUp
  <1>3. ASSUME NEW p \in Proc, AnswersAgain(p) PROVE Sound' /\ Alive' \subseteq Alive
    <2>1. proc' \in [Proc -> Living \cup {"dead"}] /\ \A x, y \in Listeners' : x = y
      BY <1>0, <1>3 DEF AnswersAgain, Living, Listeners
    <2>2. Alive' \subseteq Alive
      BY <1>0, <1>3 DEF AnswersAgain, Alive
    <2> QED BY <1>0, <1>1, <1>3, <2>1, <2>2 DEF AnswersAgain
  <1>4. ASSUME NEW p \in Proc, NEW s \in {"dead", "hung", "deaf"}, Breaks(p, s)
        PROVE  Sound' /\ Alive' \subseteq Alive
    <2>1. proc' = [proc EXCEPT ![p] = s] /\ p \in Alive
      BY <1>4 DEF Breaks
    <2>2. s = "hung" => proc[p] = "serving"
      BY <1>4 DEF Breaks
    <2>3. proc' \in [Proc -> Living \cup {"dead"}] /\ \A x, y \in Listeners' : x = y
      BY <1>0, <2>1, <2>2 DEF Living, Listeners
    <2>4. Alive' \subseteq Alive
      BY <1>0, <2>1 DEF Alive
    <2>5. faults' \in 0..MaxFaults /\ UNCHANGED <<record, sup, act, quiet, held, commands>>
      BY <1>4, FaultTyped DEF Breaks
    <2> QED BY <1>1, <2>3, <2>4, <2>5
  <1>5. ASSUME WindowPasses PROVE Sound' /\ Alive' \subseteq Alive
    <2>1. faults' \in 0..MaxFaults
      BY <1>5, FaultTyped DEF WindowPasses
    <2>2. Rest' /\ act' = act
      BY <1>0, <1>5, <2>1, Zenon DEF WindowPasses, Rest, Listeners
    <2>3. /\ sup' \in SupType /\ sup'.up = sup.up /\ sup'.paused = sup.paused
          /\ sup'.recent < CrashLoopMax
      BY <1>0, <1>5, LauncherAssumption DEF WindowPasses, SupType
    <2>4. Wells'
      BY <2>2, <2>3 DEF Sound, Wells, TickWell, LockWell, Holds
    <2>5. act' \in [Actor -> ActorType]
      BY <2>2 DEF Sound, TypeOK, ActorType
    <2>6. Alive' \subseteq Alive
      BY <1>5 DEF WindowPasses, Alive
    <2> QED BY <2>2, <2>3, <2>4, <2>5, <2>6 DEF Sound, TypeOK, Rest, ActorType, SupType
  <1> QED BY <1>2, <1>3, <1>4, <1>5 DEF ProcessActions

StopSteps(a) == StopFindsNothing(a) \/ StopLook(a) \/ StopKill(a) \/ StopVerify(a)

\* The steps, sorted by what they do.
LEMMA NextSorted ==
  ASSUME Next
  PROVE  \/ \E a \in Actor : StopSteps(a) \/ StartSteps(a)
         \/ \E c \in Cli : CliActions(c)
         \/ TickProbe \/ TickMark \/ TickDecide \/ SupExits \/ SupDies
         \/ ProcessActions
  <1>1. ASSUME NEW a \in Actor, Steps(a) PROVE StopSteps(a) \/ StartSteps(a)
    BY <1>1, Zenon DEF Steps, StopSteps, StartSteps
  <1>2. ASSUME NEW c \in Cli,
               \/ \E op \in {"start", "stop", "restart"} : Ask(c, op)
               \/ AskAll(c) \/ AskOther(c) \/ Granted(c) \/ CliSteps(c) \/ Interrupt(c)
        PROVE  CliActions(c) \/ Steps(c)
    BY <1>2, Zenon DEF CliActions, CliSteps
  <1>3. ASSUME TickSteps PROVE Steps(Tick) \/ TickMark \/ TickDecide
    BY <1>3 DEF TickSteps
  <1>4. ASSUME NEW a \in Actor, WriteFails(a) PROVE StartSteps(a)
    BY <1>4 DEF StartSteps
  <1>5. ASSUME \/ \E p \in Proc : \/ ComesUp(p) \/ AnswersAgain(p)
                                  \/ \E s \in {"dead", "hung", "deaf"} : Breaks(p, s)
               \/ WindowPasses
        PROVE  ProcessActions
    BY <1>5 DEF ProcessActions
  <1> QED BY <1>1, <1>2, <1>3, <1>4, <1>5, Names, Zenon DEF Next

LEMMA SoundNext ==
  ASSUME Sound, [Next]_vars
  PROVE  Sound'
  <1>1. CASE UNCHANGED vars
    BY <1>1 DEF vars, Sound, TypeOK, Wells, TickWell, LockWell, Holds, Listeners
  <1>2. ASSUME NEW c \in Cli, CliActions(c) PROVE Sound'
    BY <1>2, AskSound, GrantSound, CommandSound, Zenon DEF CliActions
  <1>3. ASSUME NEW a \in Actor, StopSteps(a) \/ StartSteps(a) PROVE Sound'
    BY <1>3, StopStepsSound, StartStepsSound, Zenon DEF StopSteps
  <1>4. CASE Next
    BY <1>2, <1>3, <1>4, NextSorted, RoundSound, ProcessSound, Zenon
  <1> QED BY <1>1, <1>4

\* Every state of the launcher has the types and the one listener TypeOK states.
THEOREM TypeCorrect == Spec => []TypeOK
  <1>1. Sound => TypeOK
    BY DEF Sound
  <1> QED BY <1>1, SoundInit, SoundNext, PTL DEF Spec

-----------------------------------------------------------------------------
(* A stop that succeeded holds *)

\* Nobody is starting the service, and no supervisor is about to.
Calm ==
    /\ \A b \in Actor : act[b].op \notin {"start", "restart"}
    /\ sup.up => sup.paused
    /\ act[Tick].at = "idle"

\* A stop that nothing has overlapped: what it is about to kill is all there is.
QuietStop(a) ==
    /\ act[a].at \in {"kill", "verify"} /\ Stops(a)
    /\ act[a].via \/ ~sup.up
    /\ act[a].at = "kill" => Alive \subseteq act[a].view
    /\ act[a].at = "verify" => Alive = {}

Kept ==
    /\ quiet # {} \/ held => Calm
    /\ \A a \in quiet : QuietStop(a)
    /\ StopHolds

LEMMA KeptInit == Init => Kept
  BY Names DEF Init, Kept, Calm, StopHolds, Holds

\* Nothing is promised while somebody starts the service or might.
LEMMA NothingPromised ==
  ASSUME Kept, ~Calm, quiet' \subseteq quiet, held' => held
  PROVE  Kept'
  BY DEF Kept, StopHolds

LEMMA CalmGoesOn ==
  ASSUME Sound, Calm, NEW c \in Cli, NEW r,
         act' = [act EXCEPT ![c] = r], r.op \notin {"start", "restart"},
         sup'.up => sup.up, sup'.up => (sup.paused => sup'.paused)
  PROVE  Calm'
  <1>1. /\ act'[c] = r /\ \A b \in Actor \ {c} : act'[b] = act[b]
        /\ Tick # c /\ Tick \in Actor /\ c \in Actor
    BY Names DEF Sound, TypeOK
  <1> QED BY <1>1 DEF Calm

LEMMA OthersStayQuiet ==
  ASSUME Sound, NEW c \in Cli, NEW r, act' = [act EXCEPT ![c] = r],
         sup'.up = sup.up, Alive' \subseteq Alive,
         NEW b \in Actor, b # c, QuietStop(b)
  PROVE  QuietStop(b)'
  <1>1. act'[b] = act[b]
    BY DEF Sound, TypeOK
  <1> QED BY <1>1 DEF QuietStop, Stops

\* A command goes on that starts nothing and promises nothing.
LEMMA CommandKept ==
  ASSUME Sound, Kept, NEW c \in Cli, NEW r,
         act' = [act EXCEPT ![c] = r], r.op \notin {"start", "restart"},
         sup'.up = sup.up, sup.paused => sup'.paused, proc' = proc,
         quiet' \subseteq quiet \ {c}, held' => held
  PROVE  Kept'
  <1>1. Alive' = Alive
    BY DEF Alive
  <1>2. quiet' # {} \/ held' => Calm'
    BY CalmGoesOn DEF Kept
  <1>3. ASSUME NEW b \in quiet' PROVE QuietStop(b)'
    <2>1. b \in quiet /\ b # c /\ b \in Actor
      BY <1>3, Names DEF Sound, TypeOK
    <2> QED BY <1>1, <2>1, OthersStayQuiet DEF Kept
  <1>4. StopHolds'
    BY <1>1 DEF Kept, StopHolds
  <1> QED BY <1>2, <1>3, <1>4 DEF Kept

LEMMA StartKept ==
  ASSUME Sound, Kept, NEW a \in Actor, StartSteps(a)
  PROVE  Kept'
  <1>1. ~Calm
    BY StartPlaced, ActorTyped DEF Calm, Well
  <1>2. quiet' = quiet /\ held' = held
    BY DEF StartSteps, StartLook, RecoverAdopts, RecoverClears, StartPort, Detach, WaitAnswered,
         WaitExited, WaitTimesOut, RaceAdopts, RaceIsLost, WriteRecord, WriteFails
  <1> QED BY <1>1, <1>2, NothingPromised

\* A stop that is alone runs while nobody starts the service.
LEMMA AloneIsCalm ==
  ASSUME Sound, NEW a \in Actor, Stops(a), Alone(a), act[a].at \in StopPlaces
  PROVE  Calm
  <1>1. \A b \in Actor : act[b].op \notin {"start", "restart"}
    BY DEF Alone, Stops
  <1>2. a # Tick /\ a \in Cli
    BY Names, ActorTyped DEF Stops
  <1>3. CASE act[a].via
    <2>1. act[a].op = "stop"
      BY <1>1, <1>3, ActorTyped DEF Well
    <2>2. sup.paused
      BY <1>2, <1>3, <2>1 DEF Sound, Wells, LockWell
    <2>3. ~Holds(Tick)
      <3>1. Holds(a)
        BY <1>2, <1>3 DEF Holds
      <3> QED BY <1>2, <3>1, Names DEF Sound, Wells, LockWell
    <2> QED BY <1>1, <2>2, <2>3 DEF Calm, Holds
  <1>4. CASE ~act[a].via
    <2>1. ~sup.up
      BY <1>4 DEF Alone
    <2>2. ~Holds(Tick)
      BY <2>1, Names DEF Sound, Wells, LockWell
    <2> QED BY <1>1, <2>1, <2>2 DEF Calm, Holds
  <1> QED BY <1>3, <1>4

LEMMA BundleFindsAll ==
  ASSUME Bundled PROVE Alive \subseteq Targets
  BY DEF Targets

LEMMA StopKept ==
  ASSUME Bundled, Sound, Kept, NEW a \in Actor, StopSteps(a)
  PROVE  Kept'
  <1>0. act[a].at \in StopPlaces
    BY DEF StopSteps, StopFindsNothing, StopLook, StopKill, StopVerify, StopPlaces
  <1>1. CASE ~Stops(a)
    <2>1. ~Calm
      BY <1>0, <1>1, ActorTyped DEF Calm, Well, Stops
    <2>2. quiet = {} /\ ~held
      BY <2>1 DEF Kept
    <2>3. quiet' \subseteq quiet
      BY <1>1, <2>2 DEF StopSteps, StopFindsNothing, StopLook, StopKill, StopVerify
    <2>4. a \notin quiet
      BY <2>2
    <2>5. held' => held
      BY <1>1, <2>4, Zenon DEF StopSteps, StopFindsNothing, StopLook, StopKill, StopVerify
    <2> QED BY <2>1, <2>3, <2>5, NothingPromised
  <1>2. CASE Stops(a)
    <2>0. a \in Cli /\ act \in [Actor -> ActorType]
      BY <1>2, Names, ActorTyped DEF Stops, Sound, TypeOK, ActorType
    <2>1. CASE StopFindsNothing(a)
      <3>1. Finish(a) /\ proc' = proc /\ quiet' = quiet
        BY <1>2, <2>1 DEF StopFindsNothing, Stopped
      <3>2. act' = [act EXCEPT ![a] = Idle] /\ sup' = sup
        BY <2>0, <3>1, Names DEF Finish
      <3>3. Alive = {} /\ Alive' = Alive
        BY <2>1, <3>1, BundleFindsAll DEF StopFindsNothing, Alive
      <3>4. a \notin quiet
        BY <2>1 DEF StopFindsNothing, Kept, QuietStop
      <3>5. ASSUME quiet # {} \/ held' PROVE Calm
        BY <2>1, <3>5, <1>0, AloneIsCalm DEF StopFindsNothing, Kept
      <3>6. quiet' # {} \/ held' => Calm'
        BY <2>0, <3>1, <3>2, <3>5, CalmGoesOn, Names
      <3>7. \A b \in quiet' : QuietStop(b)'
        BY <2>0, <3>1, <3>2, <3>3, <3>4, OthersStayQuiet, Names DEF Kept, Sound, TypeOK
      <3> QED BY <3>3, <3>6, <3>7 DEF Kept, StopHolds
    <2>2. CASE StopLook(a)
      <3> DEFINE r == [act[a] EXCEPT !.at = "kill", !.view = Targets]
      <3>1. act' = [act EXCEPT ![a] = r] /\ sup' = sup /\ proc' = proc /\ held' = held
        BY <2>0, <2>2 DEF StopLook
      <3>2. r.op = act[a].op /\ r.at = "kill" /\ r.view = Targets /\ r.via = act[a].via
        BY <2>0, Names DEF ActorType
      <3>3. Alive' = Alive
        BY <3>1 DEF Alive
      <3>4. a \notin quiet
        BY <2>2 DEF StopLook, Kept, QuietStop
      <3>5. ASSUME quiet' # {} \/ held' PROVE Calm
        BY <2>2, <3>1, <3>5, <1>0, AloneIsCalm DEF StopLook, Kept
      <3>6. quiet' # {} \/ held' => Calm'
        BY <1>2, <2>0, <3>1, <3>2, <3>5, CalmGoesOn DEF Stops
      <3>7. ASSUME NEW b \in quiet' PROVE QuietStop(b)'
        <4>1. CASE b = a
          <5>1. act'[a] = r
            BY <2>0, <3>1, Names
          <5>2. Alone(a)
            BY <2>2, <3>4, <3>7, <4>1 DEF StopLook
          <5> QED BY <1>2, <3>1, <3>2, <3>3, <4>1, <5>1, <5>2, BundleFindsAll
                  DEF QuietStop, Stops, Alone
        <4>2. CASE b # a
          <5>1. b \in quiet /\ b \in Actor
            BY <2>2, <3>7, <4>2, Names DEF StopLook, Sound, TypeOK
          <5> QED BY <2>0, <3>1, <3>3, <4>2, <5>1, OthersStayQuiet DEF Kept
        <4> QED BY <4>1, <4>2
      <3> QED BY <3>1, <3>3, <3>6, <3>7 DEF Kept, StopHolds
    <2>3. CASE StopKill(a)
      <3> DEFINE r == [act[a] EXCEPT !.at = "verify", !.view = {}]
      <3>1. act' = [act EXCEPT ![a] = r] /\ sup' = sup /\ held' = held /\ quiet' = quiet
        BY <2>0, <2>3 DEF StopKill
      <3>2. r.op = act[a].op /\ r.at = "verify" /\ r.via = act[a].via
        BY <2>0, Names DEF ActorType
      <3>3. Alive' = Alive \ act[a].view
        BY <2>3 DEF StopKill, Kill, Alive
      <3>4. quiet' # {} \/ held' => Calm'
        BY <1>2, <2>0, <3>1, <3>2, CalmGoesOn DEF Stops, Kept
      <3>5. ASSUME NEW b \in quiet' PROVE QuietStop(b)'
        <4>1. CASE b = a
          <5>1. act'[a] = r
            BY <2>0, <3>1, Names
          <5>2. QuietStop(a)
            BY <3>1, <3>5, <4>1 DEF Kept
          <5>3. Alive' = {}
            BY <2>3, <3>3, <5>2 DEF QuietStop, StopKill
          <5> QED BY <3>1, <3>2, <4>1, <5>1, <5>2, <5>3 DEF QuietStop, Stops
        <4>2. CASE b # a
          <5>1. b \in quiet /\ b \in Actor /\ Alive' \subseteq Alive
            BY <3>1, <3>3, <3>5, Names DEF Sound, TypeOK
          <5> QED BY <2>0, <3>1, <4>2, <5>1, OthersStayQuiet DEF Kept
        <4> QED BY <4>1, <4>2
      <3> QED BY <3>1, <3>3, <3>4, <3>5 DEF Kept, StopHolds
    <2>4. CASE StopVerify(a)
      <3>1. Finish(a) /\ proc' = proc /\ quiet' = quiet \ {a}
        BY <1>2, <2>4 DEF StopVerify, Stopped
      <3>2. act' = [act EXCEPT ![a] = Idle] /\ sup' = sup
        BY <2>0, <3>1, Names DEF Finish
      <3>3. Alive' = Alive
        BY <3>1 DEF Alive
      <3>4. held' => held \/ a \in quiet
        BY <2>4 DEF StopVerify
      <3>5. quiet' # {} \/ held' => Calm'
        BY <2>0, <3>1, <3>2, <3>4, CalmGoesOn, Names DEF Kept
      <3>6. ASSUME NEW b \in quiet' PROVE QuietStop(b)'
        BY <2>0, <3>1, <3>2, <3>3, <3>6, OthersStayQuiet, Names DEF Kept, Sound, TypeOK
      <3>7. StopHolds'
        <4>1. a \in quiet => Alive = {}
          BY <2>4 DEF Kept, QuietStop, StopVerify
        <4> QED BY <3>3, <3>4, <4>1 DEF Kept, StopHolds
      <3> QED BY <3>5, <3>6, <3>7 DEF Kept
    <2> QED BY <2>1, <2>2, <2>3, <2>4 DEF StopSteps
  <1> QED BY <1>1, <1>2

\* The supervisor is gone: the stops it was asked to do begin again, the others
\* go on.
LEMMA InterruptedKept ==
  ASSUME Sound, Kept, NEW c, NEW at, Interrupted(c, at), sup' = NoSup, c # Tick,
         c \in Cli => act[c].at = "shutdown", proc' = proc, held' = held
  PROVE  Kept'
  <1>1. act'[Tick] = Idle
    BY Names DEF Interrupted
  <1>2. ASSUME NEW b \in Actor, b # Tick PROVE act'[b].op = act[b].op
    <2>1. act[b] \in ActorType
      BY ActorTyped
    <2> QED BY <1>2, <2>1 DEF Interrupted, ActorType, Idle
  <1>3. ~sup'.up
    BY NoSupTyped
  <1>4. Calm => Calm'
    BY <1>1, <1>2, <1>3, Names DEF Calm
  <1>5. quiet' \subseteq quiet /\ Alive' = Alive
    BY DEF Interrupted, Alive
  <1>6. ASSUME NEW b \in quiet' PROVE QuietStop(b)'
    <2>1. b \in quiet /\ ~act[b].via /\ b \in Cli /\ b \in Actor /\ b # Tick
      BY <1>6, Names DEF Interrupted, Sound, TypeOK
    <2>2. QuietStop(b) /\ b # c
      BY <2>1 DEF Kept, QuietStop
    <2>3. act'[b] = act[b]
      BY <2>1, <2>2 DEF Interrupted
    <2> QED BY <1>3, <1>5, <2>2, <2>3 DEF QuietStop, Stops
  <1>7. quiet' # {} \/ held' => Calm'
    BY <1>4, <1>5 DEF Kept
  <1> QED BY <1>5, <1>6, <1>7 DEF Kept, StopHolds

LEMMA CliKept ==
  ASSUME Sound, Kept, NEW c \in Cli, CliActions(c)
  PROVE  Kept'
  <1>0. /\ act[c] \in ActorType /\ Well(act[c]) /\ c \in Actor /\ c # Tick /\ sup \in SupType
        /\ act \in [Actor -> ActorType]
    BY Names, ActorTyped DEF Sound, TypeOK, ActorType
  <1>1. act[c].at \notin {"kill", "verify"} => c \notin quiet
    BY DEF Kept, QuietStop
  <1>2. ASSUME NEW op \in {"start", "stop", "restart"}, Ask(c, op) PROVE Kept'
    <2>1. CASE op \in {"start", "restart"}
      <3>1. quiet' = {} /\ ~held'
        BY <1>2, <2>1 DEF Ask, Asks
      <3> QED BY <3>1 DEF Kept, StopHolds
    <2>2. CASE op = "stop"
      <3>1. PICK where :
              act' = [act EXCEPT ![c] = [Idle EXCEPT !.op = "stop", !.at = where]]
        BY <1>2, <2>2 DEF Ask
      <3> DEFINE r == [Idle EXCEPT !.op = "stop", !.at = where]
      <3>2. r.op = "stop" /\ act' = [act EXCEPT ![c] = r]
        BY <3>1 DEF Idle
      <3>3. quiet' = quiet /\ (held' => held) /\ proc' = proc /\ sup' = sup
        BY <1>2, <2>2 DEF Ask, Asks
      <3>4. c \notin quiet
        BY <1>1, <1>2 DEF Ask
      <3>5. quiet' \subseteq quiet \ {c}
        BY <3>3, <3>4
      <3> HIDE DEF r
      <3> QED BY <3>1, <3>2, <3>3, <3>5, CommandKept
    <2> QED BY <2>1, <2>2
  <1>3. CASE AskAll(c) \/ AskOther(c)
    <2>0. \A op, at : [Idle EXCEPT !.op = op, !.at = at].op = op
      BY DEF Idle
    <2>1. PICK r : act' = [act EXCEPT ![c] = r] /\ r.op \notin {"start", "restart"}
      <3>1. CASE AskAll(c)
        <4> DEFINE r == [Idle EXCEPT !.op = "stop_all", !.at = "shutdown"]
        <4>1. act' = [act EXCEPT ![c] = r] /\ r.op = "stop_all"
          BY <2>0, <3>1 DEF AskAll
        <4> HIDE DEF r
        <4> QED BY <4>1
      <3>2. CASE AskOther(c)
        <4> DEFINE r == [Idle EXCEPT !.op = "ensure", !.at = "ensure"]
        <4>1. act' = [act EXCEPT ![c] = r] /\ r.op = "ensure"
          BY <2>0, <3>2 DEF AskOther
        <4> HIDE DEF r
        <4> QED BY <4>1
      <3> QED BY <1>3, <3>1, <3>2
    <2>2. quiet' = quiet /\ (held' => held)
      BY <1>3 DEF AskAll, AskOther, Asks
    <2>3. proc' = proc /\ sup'.up = sup.up /\ sup'.paused = sup.paused
      BY <1>0, <1>3 DEF AskAll, AskOther, SupType
    <2>4. quiet' \subseteq quiet \ {c}
      BY <1>1, <1>3, <2>2 DEF AskAll, AskOther
    <2> QED BY <2>1, <2>2, <2>3, <2>4, CommandKept
  <1>4. CASE Granted(c)
    <2>1. quiet' = quiet /\ held' = held /\ proc' = proc /\ sup.up /\ act[c].at = "ask"
      BY <1>4 DEF Granted
    <2>2. CASE act[c].op # "stop"
      <3>1. ~Calm
        BY <1>0, <2>1, <2>2 DEF Calm, Well
      <3> QED BY <2>1, <3>1, NothingPromised
    <2>3. CASE act[c].op = "stop"
      <3> DEFINE r == [act[c] EXCEPT !.at = First(act[c].op), !.via = TRUE]
      <3>1. act' = [act EXCEPT ![c] = r] /\ sup' = [sup EXCEPT !.paused = TRUE]
        BY <1>0, <1>4, <2>3 DEF Granted
      <3>2. r.op = "stop" /\ sup'.up = sup.up /\ sup'.paused
        BY <1>0, <2>3, <3>1 DEF ActorType, SupType
      <3>3. quiet' \subseteq quiet \ {c}
        BY <1>1, <2>1
      <3> HIDE DEF r
      <3> QED BY <2>1, <3>1, <3>2, <3>3, CommandKept
    <2> QED BY <2>2, <2>3
  <1>5. CASE Fallback(c)
    <2>1. /\ quiet' = quiet /\ held' = held /\ proc' = proc /\ sup' = sup
          /\ act[c].at = "ask" /\ At(c, First(act[c].op))
      BY <1>5 DEF Fallback
    <2>2. CASE act[c].op # "stop"
      <3>1. ~Calm
        BY <1>0, <2>1, <2>2 DEF Calm, Well
      <3> QED BY <2>1, <3>1, NothingPromised
    <2>3. CASE act[c].op = "stop"
      <3> DEFINE r == [act[c] EXCEPT !.at = First(act[c].op)]
      <3>1. act' = [act EXCEPT ![c] = r] /\ r.op = "stop"
        BY <1>0, <2>1, <2>3 DEF At, ActorType
      <3>2. quiet' \subseteq quiet \ {c}
        BY <1>1, <2>1
      <3> HIDE DEF r
      <3> QED BY <2>1, <3>1, <3>2, CommandKept
    <2> QED BY <2>2, <2>3
  <1>6. CASE SupStopped(c)
    BY <1>0, <1>6, InterruptedKept DEF SupStopped
  <1>7. CASE Ensure(c) /\ sup.up
    <2>1. /\ act' = [act EXCEPT ![c] = Idle] /\ sup' = sup /\ quiet' = quiet /\ held' = held
          /\ proc' = proc /\ act[c].at = "ensure"
      BY <1>7 DEF Ensure
    <2>2. quiet' \subseteq quiet \ {c}
      BY <1>1, <2>1
    <2>3. Idle.op \notin {"start", "restart"}
      BY Names
    <2> QED BY <2>1, <2>2, <2>3, CommandKept
  <1>8. CASE Ensure(c) /\ ~sup.up
    <2>1. quiet' = {} /\ held' = FALSE
      BY <1>8 DEF Ensure
    <2> QED BY <2>1 DEF Kept, StopHolds
  <1>9. CASE Interrupt(c)
    <2>1. /\ act' = [act EXCEPT ![c] = Idle] /\ sup' = sup /\ quiet' = quiet \ {c}
          /\ held' = held /\ proc' = proc
      BY <1>9 DEF Interrupt
    <2> QED BY <2>1, Names, CommandKept
  <1> QED BY <1>2, <1>3, <1>4, <1>5, <1>6, <1>7, <1>8, <1>9 DEF CliActions

LEMMA RoundKept ==
  ASSUME Sound, Kept, TickProbe \/ TickMark \/ TickDecide \/ SupExits \/ SupDies
  PROVE  Kept'
  <1>1. CASE TickProbe \/ TickMark \/ TickDecide
    <2>1. ~Calm
      BY <1>1 DEF TickProbe, TickMark, TickDecide, Calm
    <2>2. quiet' = quiet /\ held' = held
      BY <1>1 DEF TickProbe, TickMark, TickDecide
    <2> QED BY <2>1, <2>2, NothingPromised
  <1>2. CASE SupExits \/ SupDies
    <2>1. /\ Interrupted(Nobody, "ask") /\ sup' = NoSup /\ proc' = proc /\ held' = held
      BY <1>2 DEF SupExits, SupDies
    <2>2. Nobody # Tick /\ Nobody \notin Cli
      BY LauncherAssumption
    <2> QED BY <2>1, <2>2, InterruptedKept
  <1> QED BY <1>1, <1>2

LEMMA ProcessKept ==
  ASSUME Sound, Kept, ProcessActions
  PROVE  Kept'
  <1>1. Alive' \subseteq Alive
    BY ProcessSound
  <1>2. act' = act /\ quiet' = quiet /\ held' = held
    BY DEF ProcessActions, ComesUp, Breaks, AnswersAgain, WindowPasses
  <1>3. sup'.up = sup.up /\ sup'.paused = sup.paused
    <2>1. sup \in SupType
      BY Names, ActorTyped
    <2> QED BY <2>1 DEF ProcessActions, ComesUp, Breaks, AnswersAgain, WindowPasses, SupType
  <1>4. Calm => Calm'
    BY <1>2, <1>3 DEF Calm
  <1>5. \A b \in quiet : QuietStop(b) => QuietStop(b)'
    BY <1>1, <1>2, <1>3 DEF QuietStop, Stops
  <1> QED BY <1>1, <1>2, <1>4, <1>5 DEF Kept, StopHolds

LEMMA KeptNext ==
  ASSUME Bundled, Sound, Kept, [Next]_vars
  PROVE  Kept'
  <1>1. CASE UNCHANGED vars
    BY <1>1 DEF vars, Kept, Calm, QuietStop, Stops, StopHolds, Alive
  <1>2. CASE Next
    BY <1>2, NextSorted, StopKept, StartKept, CliKept, RoundKept, ProcessKept, Zenon
  <1> QED BY <1>1, <1>2

\* In a bundle, where a service is told by its command line, a stop that
\* succeeded holds: no process of the service runs until a start is asked for or
\* a new supervisor is brought up, whatever failed or was interrupted before.
THEOREM StopsHold ==
  ASSUME Bundled PROVE Spec => []StopHolds
  <1>1. Init => Sound /\ Kept
    BY SoundInit, KeptInit
  <1>2. Sound /\ Kept /\ [Next]_vars => (Sound /\ Kept)'
    BY SoundNext, KeptNext
  <1>3. Sound /\ Kept => StopHolds
    BY DEF Kept
  <1> QED BY <1>1, <1>2, <1>3, PTL DEF Spec

===============================================================================
