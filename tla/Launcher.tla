------------------------------- MODULE Launcher -------------------------------
(* How a service is kept running: `heronry start`, `stop' and `restart'        *)
(* (cli.py) ask the supervisor over its control port, or act themselves when   *)
(* none runs; both sides use the one code path that starts and stops a service *)
(* (launcher.py) and the one run record (run_state.py).  The supervisor probes *)
(* the service and restarts it (supervisor.py).                                *)
(*                                                                             *)
(* One service with a port, and its processes.  A process is named by its pid  *)
(* and start time, so a dead one is never mistaken for another.                *)
EXTENDS Naturals

CONSTANTS
    Proc,           \* bound: processes that can be told apart at one time
    Cli,            \* commands at one time
    Tick,           \* the supervisor's own thread
    Nobody,         \* no process
    Bundled,        \* is a service recognised by its command line (a bundle)?
    FailThreshold,  \* FAIL_THRESHOLD
    CrashLoopMax,   \* CRASH_LOOP_MAX
    MaxCommands,    \* bound: commands given
    MaxFaults       \* bound: what goes wrong by itself

ASSUME LauncherAssumption ==
    /\ Tick \notin Cli /\ Nobody \notin Proc \cup Cli \cup {Tick}
    /\ Bundled \in BOOLEAN
    /\ FailThreshold \in Nat \ {0} /\ CrashLoopMax \in Nat \ {0}
    /\ MaxCommands \in Nat /\ MaxFaults \in Nat

Actor == Cli \cup {Tick}

VARIABLES
    proc,       \* each process: coming up, answering, or alive without it
    record,     \* <svc>.json: the pid and the root it names
    sup,        \* the supervisor: whether it runs, and its memory
    act,        \* each actor: where it is, in which command, what it knows
    quiet,      \* history: stops that no start has overlapped so far
    held,       \* history: a stop succeeded, and nobody asked for a start since
    commands, faults

vars == <<proc, record, sup, act, quiet, held, commands, faults>>

\* "serving" answers the health route; "hung" listens and does not answer;
\* "deaf" has lost its listener (the failure of the pool in design 18.3).
Living  == {"warming", "serving", "hung", "deaf"}
NoRecord == [pid |-> Nobody, root |-> Nobody]
Records == [pid : Proc \cup {Nobody}, root : Proc \cup {Nobody}]
NoSup   == [up |-> FALSE, stopping |-> FALSE, paused |-> FALSE, failed |-> FALSE,
            fails |-> 0, recent |-> 0]
Idle    == [at |-> "idle", op |-> "none", via |-> FALSE, ident |-> Nobody,
            view |-> {}, saved |-> NoRecord]
Ops     == {"none", "start", "stop", "stop_all", "restart", "ensure", "ok", "miss"}
Places  == {"idle", "ask", "shutdown", "stop", "kill", "verify", "start", "recover",
            "port", "detach", "wait", "race", "record", "ensure", "mark", "decide"}

Init ==
    /\ proc = [p \in Proc |-> "dead"] /\ record = NoRecord
    /\ sup = NoSup /\ act = [a \in Actor |-> Idle]
    /\ quiet = {} /\ held = FALSE
    /\ commands = 0 /\ faults = 0

-------------------------------------------------------------------------------
(* What a look at the machine finds *)

Alive     == {p \in Proc : proc[p] # "dead"}
Listeners == {p \in Proc : proc[p] \in {"serving", "hung"}}
Answering == {p \in Proc : proc[p] = "serving"}
Recorded  == {record.pid, record.root} \cap Alive

\* _ours: the listener reports this home, or is a process the record names.
Ours == Answering \cup (Listeners \cap Recorded)

\* Mutant: stop trusts the record alone.
TargetsRecorded == Recorded

\* _targets and, in a bundle, unrecorded.
Targets == Recorded \cup Ours \cup (IF Bundled THEN Alive ELSE {})

Known == {record.pid, record.root}
           \cup UNION {act[a].view \cup {act[a].ident, act[a].saved.pid, act[a].saved.root} :
                       a \in Actor}

Kill(P) == proc' = [p \in Proc |-> IF p \in P THEN "dead" ELSE proc[p]]

\* The supervisor's lock: its own round, or a request it was asked to do.
Holds(a) == IF a = Tick THEN act[a].at # "idle" ELSE act[a].via
LockFree == \A a \in Actor : ~Holds(a)

At(a, where) == act' = [act EXCEPT ![a].at = where]

\* The command is over; the supervisor's restart counts, however it ended.
Finish(a) ==
    /\ act' = [act EXCEPT ![a] = Idle]
    /\ sup' = IF a = Tick THEN [sup EXCEPT !.fails = 0, !.recent = @ + 1] ELSE sup

-------------------------------------------------------------------------------
(* launcher.stop *)

\* No start is under way, and the supervisor, if any, is held off.
Alone(a) ==
    /\ act[a].via \/ ~sup.up
    /\ \A b \in Actor \ {a} : act[b].op \notin {"start", "restart"}

Stops(a) == act[a].op \in {"stop", "stop_all"}

\* A stop is over; a restart goes on to start the service, or raises.
Stopped(a, gone) ==
    IF gone /\ ~Stops(a) THEN At(a, "start") /\ UNCHANGED sup ELSE Finish(a)

StopFindsNothing(a) ==
    /\ act[a].at = "stop" /\ Targets = {}
    /\ record' = NoRecord
    /\ Stopped(a, TRUE)
    /\ held' = (held \/ (Stops(a) /\ Alone(a)))
    /\ UNCHANGED <<proc, quiet, commands, faults>>

StopLook(a) ==
    /\ act[a].at = "stop" /\ Targets # {}
    /\ act' = [act EXCEPT ![a].at = "kill", ![a].view = Targets]
    /\ quiet' = IF Stops(a) /\ Alone(a) THEN quiet \cup {a} ELSE quiet
    /\ UNCHANGED <<proc, record, sup, held, commands, faults>>

\* kill_tree of each target.
StopKill(a) ==
    /\ act[a].at = "kill"
    /\ Kill(act[a].view)
    /\ act' = [act EXCEPT ![a].at = "verify", ![a].view = {}]
    /\ UNCHANGED <<record, sup, quiet, held, commands, faults>>

\* A listener of this home is a survivor, else the record is cleared.
StopVerify(a) ==
    /\ act[a].at = "verify"
    /\ record' = IF Ours = {} THEN NoRecord ELSE record
    /\ Stopped(a, Ours = {})
    /\ held' = (held \/ (Ours = {} /\ a \in quiet))
    /\ quiet' = quiet \ {a}
    /\ UNCHANGED <<proc, commands, faults>>

-------------------------------------------------------------------------------
(* launcher.start *)

\* run_state.adopt: a record that names the listener is left alone.
Adopt ==
    record' = IF record.pid \in Answering THEN record
              ELSE [pid |-> CHOOSE p \in Answering : TRUE, root |-> Nobody]

\* `heronry start' makes sure of the supervisor once the service is started.
Started(a) ==
    IF act[a].op = "start"
    THEN act' = [act EXCEPT ![a] = [Idle EXCEPT !.at = "ensure", !.op = "ensure"]] /\ UNCHANGED sup
    ELSE Finish(a)

\* leftovers: what an interrupted start left, when the record names nobody alive.
StartLook(a) ==
    LET left == IF Recorded = {} THEN Alive ELSE {} IN
    /\ act[a].at = "start"
    /\ act' = [act EXCEPT ![a].at = IF left = {} THEN "port" ELSE "recover", ![a].view = left]
    /\ UNCHANGED <<proc, record, sup, quiet, held, commands, faults>>

\* _recover: what was left answers, and is adopted.
RecoverAdopts(a) ==
    /\ act[a].at = "recover" /\ act[a].view \cap Alive # {} /\ Answering # {}
    /\ Adopt
    /\ Started(a)
    /\ UNCHANGED <<proc, quiet, held, commands, faults>>

\* Mutant: a leftover that neither answers nor ends is waited for.
RecoverWaits(a) ==
    /\ act[a].at = "recover" /\ act[a].view \cap Alive = {}
    /\ act' = [act EXCEPT ![a].at = "port", ![a].view = {}]
    /\ UNCHANGED <<proc, record, sup, quiet, held, commands, faults>>

\* It ended, makes no progress, or (a fault) warms up for longer than the
\* ceiling: what is left of it is stopped.
RecoverClears(a) ==
    LET left == act[a].view \cap Alive
        slow == \E p \in left : proc[p] = "warming" IN
    /\ act[a].at = "recover"
    /\ left = {} \/ Answering = {}
    /\ slow => faults < MaxFaults
    /\ faults' = IF slow THEN faults + 1 ELSE faults
    /\ Kill(left)
    /\ act' = [act EXCEPT ![a].at = "port", ![a].view = {}]
    /\ UNCHANGED <<record, sup, quiet, held, commands>>

\* A service of this home that answers is adopted, any other listener refused.
StartPort(a) ==
    /\ act[a].at = "port"
    /\ IF Listeners = {} THEN At(a, "detach") /\ UNCHANGED <<record, sup>>
       ELSE IF Answering # {} THEN Adopt /\ Started(a)
       ELSE Finish(a) /\ UNCHANGED record
    /\ UNCHANGED <<proc, quiet, held, commands, faults>>

Detach(a, p) ==
    /\ act[a].at = "detach" /\ p \notin Alive \cup Known
    /\ proc' = [proc EXCEPT ![p] = "warming"]
    /\ act' = [act EXCEPT ![a].at = "wait", ![a].ident = p]
    /\ UNCHANGED <<record, sup, quiet, held, commands, faults>>

\* Somebody of this home answers while the started process lives: whoever owns
\* the listener is recorded as the service, the process started as its root.
WaitAnswered(a) ==
    /\ act[a].at = "wait" /\ act[a].ident \in Alive /\ Answering # {}
    /\ act' = [act EXCEPT ![a].at = "record", ![a].view = Answering]
    /\ UNCHANGED <<proc, record, sup, quiet, held, commands, faults>>

WaitExited(a) ==
    /\ act[a].at = "wait" /\ act[a].ident \notin Alive
    /\ At(a, "race")
    /\ UNCHANGED <<proc, record, sup, quiet, held, commands, faults>>

\* wait_s is over: the process is stopped again.  It is a fault when it would
\* still have come up.
WaitTimesOut(a) ==
    LET slow == proc[act[a].ident] = "warming" IN
    /\ act[a].at = "wait" /\ act[a].ident \in Alive /\ Answering = {}
    /\ slow => faults < MaxFaults
    /\ faults' = IF slow THEN faults + 1 ELSE faults
    /\ Kill({act[a].ident})
    /\ Finish(a)
    /\ UNCHANGED <<record, quiet, held, commands>>

\* _adopt_race_winner: another start of this home took the port, or nobody did
\* within RACE_ADOPT_S.
RaceAdopts(a) ==
    /\ act[a].at = "race" /\ Answering # {}
    /\ Adopt
    /\ Started(a)
    /\ UNCHANGED <<proc, quiet, held, commands, faults>>

RaceIsLost(a) ==
    /\ act[a].at = "race" /\ Answering = {}
    /\ Finish(a)
    /\ UNCHANGED <<proc, record, quiet, held, commands, faults>>

WriteRecord(a) ==
    /\ act[a].at = "record"
    /\ record' = [pid |-> CHOOSE p \in act[a].view : TRUE, root |-> act[a].ident]
    /\ Started(a)
    /\ UNCHANGED <<proc, quiet, held, commands, faults>>

\* A record that cannot be written fails the start.
WriteFails(a) ==
    /\ act[a].at = "record" /\ faults < MaxFaults
    /\ faults' = faults + 1
    /\ Kill({act[a].ident})
    /\ Finish(a)
    /\ UNCHANGED <<record, quiet, held, commands>>

-------------------------------------------------------------------------------
(* The supervisor *)

\* One round: a service that an admin stopped, or that was given up, is not
\* probed.  mark_probe reads the record now and writes it back.
TickProbe ==
    /\ sup.up /\ ~sup.stopping /\ LockFree
    /\ ~sup.paused /\ ~sup.failed
    /\ act' = [act EXCEPT ![Tick] =
                 [Idle EXCEPT !.at = "mark", !.saved = record,
                              !.op = IF Answering # {} THEN "ok" ELSE "miss"]]
    /\ UNCHANGED <<proc, record, sup, quiet, held, commands, faults>>

TickMark ==
    /\ act[Tick].at = "mark"
    /\ record' = IF act[Tick].saved = NoRecord THEN record ELSE act[Tick].saved
    /\ act' = [act EXCEPT ![Tick].at = "decide", ![Tick].saved = NoRecord]
    /\ UNCHANGED <<proc, sup, quiet, held, commands, faults>>

\* Mutant: one restart more than allowed.
CrashLoopLate == sup.recent > CrashLoopMax

\* As many restarts in CRASH_LOOP_WINDOW_S as are allowed.
CrashLoop == sup.recent >= CrashLoopMax

TickDecide ==
    LET missed == sup.fails + 1 IN
    /\ act[Tick].at = "decide"
    /\ \/ /\ act[Tick].op = "ok"
          /\ sup' = [sup EXCEPT !.fails = 0]
          /\ act' = [act EXCEPT ![Tick] = Idle]
       \/ /\ act[Tick].op = "miss" /\ missed < FailThreshold
          /\ sup' = [sup EXCEPT !.fails = missed]
          /\ act' = [act EXCEPT ![Tick] = Idle]
       \/ /\ act[Tick].op = "miss" /\ missed >= FailThreshold /\ CrashLoop
          /\ sup' = [sup EXCEPT !.failed = TRUE]
          /\ act' = [act EXCEPT ![Tick] = Idle]
       \/ /\ act[Tick].op = "miss" /\ missed >= FailThreshold /\ ~CrashLoop
          /\ act' = [act EXCEPT ![Tick].at = "stop", ![Tick].op = "restart"]
          /\ UNCHANGED sup
    /\ UNCHANGED <<proc, record, quiet, held, commands, faults>>

\* The supervisor ends, and with it what its threads were doing; a service it
\* started is not of its tree.  Whoever asked it goes on by himself.
Interrupted(c, at) ==
    /\ act' = [a \in Actor |->
              IF a = c THEN [act[a] EXCEPT !.at = at]
              ELSE IF a = Tick THEN Idle
              ELSE IF act[a].via THEN [Idle EXCEPT !.at = "ask", !.op = act[a].op]
              ELSE act[a]]
    /\ quiet' = {a \in quiet : ~act[a].via}

SupExits ==
    /\ sup.up /\ sup.stopping /\ act[Tick].at = "idle"
    /\ sup' = NoSup
    /\ Interrupted(Nobody, "ask")
    /\ UNCHANGED <<proc, record, held, commands, faults>>

SupDies ==
    /\ sup.up /\ faults < MaxFaults
    /\ faults' = faults + 1
    /\ sup' = NoSup
    /\ Interrupted(Nobody, "ask")
    /\ UNCHANGED <<proc, record, held, commands>>

-------------------------------------------------------------------------------
(* The commands *)

First(op) == IF op = "start" THEN "start" ELSE "stop"

\* A start that is asked for ends what a stop promised.
Asks(op) ==
    /\ commands < MaxCommands
    /\ commands' = commands + 1
    /\ held' = (held /\ op \notin {"start", "restart"})
    /\ quiet' = IF op \in {"start", "restart"} THEN {} ELSE quiet

\* heronry start | stop | restart <svc>: through the supervisor if one runs.
Ask(c, op) ==
    /\ act[c].at = "idle"
    /\ Asks(op)
    /\ act' = [act EXCEPT ![c] = [Idle EXCEPT !.op = op,
                                    !.at = IF sup.up THEN "ask" ELSE First(op)]]
    /\ UNCHANGED <<proc, record, sup, faults>>

\* heronry stop: the supervisor goes first.
AskAll(c) ==
    /\ act[c].at = "idle"
    /\ Asks("stop_all")
    /\ act' = [act EXCEPT ![c] = [Idle EXCEPT !.op = "stop_all", !.at = "shutdown"]]
    /\ sup' = [sup EXCEPT !.stopping = sup.up]
    /\ UNCHANGED <<proc, record, faults>>

\* heronry start <another service> only makes sure of the supervisor here.
AskOther(c) ==
    /\ act[c].at = "idle"
    /\ Asks("ensure")
    /\ act' = [act EXCEPT ![c] = [Idle EXCEPT !.op = "ensure", !.at = "ensure"]]
    /\ UNCHANGED <<proc, record, sup, faults>>

\* dispatch, under the lock: a stop pauses the service first, a start or restart
\* puts it under supervision again.
Granted(c) ==
    /\ act[c].at = "ask" /\ sup.up /\ LockFree
    /\ act' = [act EXCEPT ![c].at = First(act[c].op), ![c].via = TRUE]
    /\ sup' = IF act[c].op = "stop" THEN [sup EXCEPT !.paused = TRUE]
              ELSE [sup EXCEPT !.paused = FALSE, !.failed = FALSE, !.fails = 0, !.recent = 0]
    /\ UNCHANGED <<proc, record, quiet, held, commands, faults>>

\* ControlUnavailable: the command does it itself.
Fallback(c) ==
    /\ act[c].at = "ask" /\ ~sup.up
    /\ At(c, First(act[c].op))
    /\ UNCHANGED <<proc, record, sup, quiet, held, commands, faults>>

\* stop_supervisor: it ended, or is killed after five seconds.
SupStopped(c) ==
    /\ act[c].at = "shutdown"
    /\ sup' = NoSup
    /\ Interrupted(c, "stop")
    /\ UNCHANGED <<proc, record, held, commands, faults>>

\* ensure_supervisor.  A new one knows of no stop.
Ensure(c) ==
    /\ act[c].at = "ensure"
    /\ act' = [act EXCEPT ![c] = Idle]
    /\ IF sup.up THEN UNCHANGED <<sup, quiet, held>>
       ELSE sup' = [NoSup EXCEPT !.up = TRUE] /\ quiet' = {} /\ held' = FALSE
    /\ UNCHANGED <<proc, record, commands, faults>>

\* Ctrl+C: the process that a start has detached stays.
Interrupt(c) ==
    /\ act[c].at # "idle" /\ ~act[c].via /\ faults < MaxFaults
    /\ faults' = faults + 1
    /\ act' = [act EXCEPT ![c] = Idle]
    /\ quiet' = quiet \ {c}
    /\ UNCHANGED <<proc, record, sup, held, commands>>

-------------------------------------------------------------------------------
(* The processes of the service *)

ComesUp(p) ==
    /\ proc[p] = "warming"
    /\ proc' = [proc EXCEPT ![p] = IF Listeners = {} THEN "serving" ELSE "dead"]
    /\ UNCHANGED <<record, sup, act, quiet, held, commands, faults>>

\* It dies, stops answering or loses its listener; a hung one may answer again.
Breaks(p, s) ==
    /\ p \in Alive /\ faults < MaxFaults
    /\ CASE proc[p] = "serving" -> s \in {"dead", "hung", "deaf"}
         [] proc[p] = "warming" -> s \in {"dead", "deaf"}
         [] OTHER               -> s \in {"dead"}
    /\ faults' = faults + 1
    /\ proc' = [proc EXCEPT ![p] = s]
    /\ UNCHANGED <<record, sup, act, quiet, held, commands>>

AnswersAgain(p) ==
    /\ proc[p] = "hung"
    /\ proc' = [proc EXCEPT ![p] = "serving"]
    /\ UNCHANGED <<record, sup, act, quiet, held, commands, faults>>

\* CRASH_LOOP_WINDOW_S passes without many restarts.
WindowPasses ==
    /\ sup.recent > 0 /\ faults < MaxFaults
    /\ faults' = faults + 1
    /\ sup' = [sup EXCEPT !.recent = 0]
    /\ UNCHANGED <<proc, record, act, quiet, held, commands>>

-------------------------------------------------------------------------------
Steps(a) ==
    \/ StopFindsNothing(a) \/ StopLook(a) \/ StopKill(a) \/ StopVerify(a)
    \/ StartLook(a) \/ RecoverAdopts(a) \/ RecoverClears(a) \/ StartPort(a)
    \/ \E p \in Proc : Detach(a, p)
    \/ WaitAnswered(a) \/ WaitExited(a) \/ WaitTimesOut(a)
    \/ RaceAdopts(a) \/ RaceIsLost(a) \/ WriteRecord(a)

CliSteps(c) == Steps(c) \/ Fallback(c) \/ SupStopped(c) \/ Ensure(c)
TickSteps == Steps(Tick) \/ TickMark \/ TickDecide

Next ==
    \/ \E c \in Cli :
         \/ \E op \in {"start", "stop", "restart"} : Ask(c, op)
         \/ AskAll(c) \/ AskOther(c) \/ Granted(c) \/ CliSteps(c) \/ Interrupt(c)
    \/ TickProbe \/ TickSteps \/ SupExits \/ SupDies
    \/ \E a \in Actor : WriteFails(a)
    \/ \E p \in Proc :
         \/ ComesUp(p) \/ AnswersAgain(p)
         \/ \E s \in {"dead", "hung", "deaf"} : Breaks(p, s)
    \/ WindowPasses

Spec == Init /\ [][Next]_vars

\* Commands and the supervisor go on, processes come up, and the supervisor's
\* lock, free for the whole wait between two rounds, is granted to who waits.
Fairness ==
    /\ \A c \in Cli : WF_vars(CliSteps(c)) /\ SF_vars(Granted(c))
    /\ WF_vars(TickProbe) /\ WF_vars(TickSteps) /\ WF_vars(SupExits)
    /\ \A p \in Proc : WF_vars(ComesUp(p))

FairSpec == Spec /\ Fairness

-------------------------------------------------------------------------------
TypeOK ==
    /\ proc \in [Proc -> Living \cup {"dead"}]
    /\ \A p, q \in Listeners : p = q
    /\ record \in Records
    /\ sup \in [up : BOOLEAN, stopping : BOOLEAN, paused : BOOLEAN, failed : BOOLEAN,
                fails : 0..FailThreshold-1, recent : 0..CrashLoopMax]
    /\ act \in [Actor -> [at : Places, op : Ops, via : BOOLEAN, ident : Proc \cup {Nobody},
                          view : SUBSET Proc, saved : Records]]
    /\ quiet \in SUBSET Cli /\ held \in BOOLEAN
    /\ commands \in 0..MaxCommands /\ faults \in 0..MaxFaults

\* A stop that reported success holds: whatever the record said and whatever an
\* interrupted start had left, no process of the service runs until somebody
\* asks for a start or brings up a supervisor that never heard of the stop.
StopHolds == held => Alive = {}

\* While a supervisor looks after it, a service that does not answer answers in
\* the end, or is given up as a crash loop.
ComesBack ==
    (sup.up /\ Answering = {}) ~> (Answering # {} \/ sup.paused \/ sup.failed \/ ~sup.up)

===============================================================================
