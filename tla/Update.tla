------------------------------- MODULE Update -------------------------------
(***************************************************************************)
(* `heronry update`: the calling process takes the update lock and hands   *)
(* over to a detached helper. Between them they park the seats, stop the   *)
(* services, install, start the new version, resume the seats, and put the *)
(* old version back when a step fails. In a desktop bundle the helper does *)
(* all of it; in a tool environment the caller parks and stops, and the    *)
(* helper does the rest.                                                   *)
(* Beside them run the pool's own pass over the seats the updater parked,  *)
(* the mail that resumes a parked seat, and a person who starts Heronry.   *)
(***************************************************************************)
EXTENDS FiniteSets

CONSTANTS
  Seat,     \* the seats that are live when the update begins
  Trouble   \* what may go wrong besides commands and requests that fail:
            \* "killed": the helper, "raised": an exception in a step,
            \* "launch": the pool cannot launch the shell of a resumed seat

ASSUME TroubleAssumption == Trouble \subseteq {"killed", "raised", "launch"}

VARIABLES
  kind,     \* what is updated: a desktop bundle or a tool environment
  caller,   \* where the calling process stands
  helper,   \* where the work stands, and the variables of who does it
  lock,     \* the pids in update.lock; empty when there is no such file
  install,  \* the version that is registered, and the files there are
  db,       \* the version whose schema the database has
  services, \* the version that runs, or "down"
  passDue,  \* the pool has started and not yet looked for marked rows
  seat,     \* per seat its row, the updater's mark, and whether its shell lives
  outcome   \* update-result.json: the state, and the seats it names as missing

vars == <<kind, caller, helper, lock, install, db, services, passDue, seat, outcome>>
system == <<kind, install, db, services, passDue, seat>>

Version == {"old", "new"}
Working == {"verify", "list", "park", "stop", "end", "look", "install", "start",
            "backstop", "reinstall", "restore", "repair", "resume"}
At == Working \cup {"off", "join", "wait", "done", "dead"}
Goal == {"new", "refuse", "lost", "abort", "recover", "back", "repaired"}
State == {"none", "ok", "incomplete", "rolled_back", "failed"}

Work ==
  [at : At, phase : {"none", "parked", "stopped", "installing", "installed"},
   goal : Goal, todo : SUBSET Seat, parked : SUBSET Seat, failed : SUBSET Seat,
   resumed : SUBSET Seat, newIn : BOOLEAN, reinstalled : BOOLEAN,
   got : Version \cup {"none"}, raised : BOOLEAN]
Files == [registered : Version \cup {"none"}, files : Version \cup {"mixed", "none"}]
Row == [row : {"active", "parked", "dead"}, mark : BOOLEAN, shell : BOOLEAN]

TypeOK ==
  /\ kind \in {"bundle", "tool"}
  /\ caller \in {"lock", "prepare", "work", "detach", "add", "confirm", "gone"}
  /\ helper \in Work
  /\ lock \subseteq {"caller", "helper"}
  /\ install \in Files
  /\ db \in Version
  /\ services \in Version \cup {"down"}
  /\ passDue \in BOOLEAN
  /\ seat \in [Seat -> Row]
  /\ outcome \in [state : State, missing : SUBSET Seat]

Init ==
  /\ kind \in {"bundle", "tool"}
  /\ caller = "lock"
  /\ helper = [at |-> "off", phase |-> "none", goal |-> "new", todo |-> {}, parked |-> {},
               failed |-> {}, resumed |-> {}, newIn |-> FALSE, reinstalled |-> FALSE,
               got |-> "none", raised |-> FALSE]
  /\ lock = {}
  /\ install = [registered |-> "old", files |-> "old"]
  /\ db = "old"
  /\ services = "old"
  /\ passDue = FALSE
  /\ seat = [h \in Seat |-> [row |-> "active", mark |-> FALSE, shell |-> TRUE]]
  /\ outcome = [state |-> "none", missing |-> {}]

-----------------------------------------------------------------------------
(* The lock.                                                               *)

Alive(p) ==
  \/ p = "caller" /\ caller # "gone"
  \/ p = "helper" /\ helper.at \notin {"off", "done", "dead"}

\* held(): the lock counts while one of its processes lives.
Held == \E p \in lock : Alive(p)

\* add_pid and join write into a lock that is there, and into no other.
With(p) == IF lock = {} THEN {} ELSE lock \cup {p}

-----------------------------------------------------------------------------
(* What the steps are made of.                                             *)

Go(at) == helper' = [helper EXCEPT !.at = at]

\* finish(): the outcome is written, then the lock is released.
Finish(state, missing) ==
  /\ outcome' = [state |-> state, missing |-> missing]
  /\ lock' = {}
  /\ helper' = [helper EXCEPT !.at = "done"]

\* The seats that were parked are resumed again.
Undo(h, goal) == [h EXCEPT !.at = "resume", !.goal = goal, !.todo = h.parked]

\* back(): a version that was installed is stopped and removed first.
Back(h, newIn) ==
  [h EXCEPT !.newIn = newIn, !.reinstalled = FALSE, !.goal = "back",
            !.at = IF newIn THEN "backstop" ELSE "start"]

\* The pool starts: a row whose shell is gone is interrupted, unless the
\* updater has marked it, and the pool will look for those.
Interrupted(s) ==
  IF ~s.shell /\ (s.row = "active" \/ (s.row = "parked" /\ ~s.mark))
  THEN [s EXCEPT !.row = "dead"] ELSE s

\* Version v comes up; the new one may change the schema on the way.
Boot(v) ==
  /\ services' = v
  /\ db' \in {db} \cup (IF v = "new" THEN {"new"} ELSE {})
  /\ seat' = [h \in Seat |-> Interrupted(seat[h])]
  /\ passDue' = TRUE

\* A stop that works takes down some of the shells too.
StopsServices ==
  /\ services' = "down" /\ passDue' = FALSE
  /\ \E gone \in SUBSET Seat :
       seat' = [h \in Seat |-> [seat[h] EXCEPT !.shell = @ /\ h \notin gone]]
  /\ UNCHANGED db

StopFails == UNCHANGED <<services, passDue, seat, db>>

\* What a resume makes of a row. A live shell is only restored; otherwise one
\* is launched, and when that fails the row is left parked, without the mark.
Resumed(s) ==
  LET awake == [row |-> "active", mark |-> FALSE, shell |-> TRUE]
      left == [row |-> "parked", mark |-> FALSE, shell |-> FALSE]
  IN  IF ~s.shell /\ "launch" \in Trouble THEN {awake, left} ELSE {awake}

-----------------------------------------------------------------------------
(* The caller.                                                             *)

CallerLocks ==
  /\ caller = "lock" /\ ~Held
  /\ caller' = "prepare" /\ lock' = {"caller"}
  /\ UNCHANGED <<helper, system, outcome>>

\* The backup fails, or the plan or the start of a bundle's helper: the lock
\* is given up.
CallerRefuses ==
  /\ caller = "prepare"
  /\ caller' = "gone" /\ lock' = {}
  /\ UNCHANGED <<helper, system, outcome>>

\* In a tool environment the caller itself parks the seats and stops.
CallerWorks ==
  /\ caller = "prepare" /\ kind = "tool"
  /\ caller' = "work" /\ helper' = [helper EXCEPT !.at = "list"]
  /\ UNCHANGED <<lock, system, outcome>>

CallerStops ==
  /\ caller = "work" /\ helper.at = "stop"
  /\ StopsServices
  /\ caller' = "detach" /\ helper' = [helper EXCEPT !.at = "off"]
  /\ UNCHANGED <<kind, lock, install, outcome>>

\* The services do not stop, or the helper cannot be started.
CallerFails ==
  /\ \/ caller = "work" /\ helper.at = "stop" /\ StopFails
     \/ caller = "detach" /\ UNCHANGED <<services, passDue, seat, db>>
  /\ caller' = "work" /\ helper' = Undo(helper, "refuse")
  /\ UNCHANGED <<kind, lock, install, outcome>>

\* The seats it parked are resumed, and the lock is given up unless it was
\* handed over.
CallerGivesUp ==
  /\ caller = "work" /\ helper.at = "resume" /\ helper.todo = {}
  /\ caller' = "gone" /\ lock' = IF helper.goal = "lost" THEN lock ELSE {}
  /\ helper' = [helper EXCEPT !.at = "off"]
  /\ UNCHANGED <<system, outcome>>

CallerDetaches ==
  /\ \/ caller = "prepare" /\ kind = "bundle"
     \/ caller = "detach"
  /\ caller' = "add" /\ helper' = [helper EXCEPT !.at = "join"]
  /\ UNCHANGED <<lock, system, outcome>>

\* Mutant: the helper is left to join on its own.
CallerForgetsPid ==
  /\ caller = "add"
  /\ caller' = "confirm"
  /\ UNCHANGED <<helper, lock, system, outcome>>

CallerAddsPid ==
  /\ caller = "add"
  /\ caller' = "confirm" /\ lock' = With("helper")
  /\ UNCHANGED <<helper, system, outcome>>

\* The helper runs, or it has written its outcome.
CallerEnds ==
  /\ caller = "confirm" /\ helper.at # "dead"
  /\ caller' = "gone"
  /\ UNCHANGED <<helper, lock, system, outcome>>

\* The helper is gone and said nothing.
CallerMissesHelper ==
  /\ caller = "confirm" /\ helper.at = "dead"
  /\ IF kind = "tool" THEN caller' = "work" /\ helper' = Undo(helper, "lost")
                      ELSE caller' = "gone" /\ UNCHANGED helper
  /\ UNCHANGED <<lock, system, outcome>>

-----------------------------------------------------------------------------
(* The helper, up to the install.                                          *)

HelperJoins ==
  /\ helper.at = "join"
  /\ lock' = With("helper") /\ Go("wait")
  /\ UNCHANGED <<caller, system, outcome>>

CallerGone ==
  /\ helper.at = "wait" /\ caller = "gone"
  /\ Go(IF kind = "bundle" THEN "verify" ELSE "install")
  /\ UNCHANGED <<caller, lock, system, outcome>>

CallerStays ==
  /\ helper.at = "wait" /\ caller # "gone"
  /\ Finish("failed", {})
  /\ UNCHANGED <<caller, system>>

InstallerVerified ==
  /\ helper.at = "verify"
  /\ Go("list")
  /\ UNCHANGED <<caller, lock, system, outcome>>

InstallerChanged ==
  /\ helper.at = "verify"
  /\ Finish("failed", {})
  /\ UNCHANGED <<caller, system>>

\* A pool that does not answer has no seat to park.
ListSeats ==
  /\ helper.at = "list"
  /\ \E rows \in {{}, {h \in Seat : seat[h].row = "active"}} :
       helper' = [helper EXCEPT !.at = "park", !.todo = rows]
  /\ UNCHANGED <<caller, lock, system, outcome>>

\* Mutant: parked without for_update.
ParkedUnmarked(s) == IF s.row = "active" THEN [s EXCEPT !.row = "parked"] ELSE s

Parked(s) == IF s.row = "active" THEN [s EXCEPT !.row = "parked", !.mark = TRUE] ELSE s

ParkSeat(h) ==
  /\ helper.at = "park" /\ h \in helper.todo
  /\ seat' = [seat EXCEPT ![h] = Parked(@)]
  /\ helper' = [helper EXCEPT !.todo = @ \ {h}, !.parked = @ \cup {h}]
  /\ UNCHANGED <<kind, caller, lock, install, db, services, passDue, outcome>>

\* No answer: the request or its answer is lost.
ParkFails(h) ==
  /\ helper.at = "park" /\ h \in helper.todo
  /\ seat' \in {seat, [seat EXCEPT ![h] = Parked(@)]}
  /\ helper' = [helper EXCEPT !.todo = @ \ {h}, !.failed = @ \cup {h}]
  /\ UNCHANGED <<kind, caller, lock, install, db, services, passDue, outcome>>

ParkDone ==
  /\ helper.at = "park" /\ helper.todo = {}
  /\ helper' = IF helper.failed = {}
               THEN [helper EXCEPT !.at = "stop", !.phase = "parked"]
               ELSE Undo([helper EXCEPT !.phase = "parked"],
                         IF kind = "bundle" THEN "abort" ELSE "refuse")
  /\ UNCHANGED <<caller, lock, system, outcome>>

Stop ==
  /\ helper.at = "stop" /\ kind = "bundle"
  /\ StopsServices
  /\ helper' = [helper EXCEPT !.at = "end", !.phase = "stopped"]
  /\ UNCHANGED <<kind, caller, lock, install, outcome>>

\* The board still answers: nothing is installed over it.
StopRefused ==
  /\ helper.at = "stop" /\ kind = "bundle"
  /\ StopFails
  /\ helper' = [helper EXCEPT !.at = "start", !.goal = "abort"]
  /\ UNCHANGED <<kind, caller, lock, install, outcome>>

\* The shells of the parked seats are ended, as far as that works.
EndsShells ==
  \E ended \in SUBSET helper.parked :
    seat' = [h \in Seat |-> [seat[h] EXCEPT !.shell = @ /\ h \notin ended]]

EndParkedShells ==
  /\ helper.at = "end"
  /\ EndsShells
  /\ Go("look")
  /\ UNCHANGED <<kind, caller, lock, install, db, services, passDue, outcome>>

FolderIsFree ==
  /\ helper.at = "look" /\ services = "down"
  /\ helper' = [helper EXCEPT !.at = "install", !.phase = "installing"]
  /\ UNCHANGED <<caller, lock, system, outcome>>

\* A spared seat, a held file, no answer, or an installer that changed.
FolderIsHeld ==
  /\ helper.at = "look"
  /\ helper' = Back(helper, FALSE)
  /\ UNCHANGED <<caller, lock, system, outcome>>

\* How an installer's transaction may end: committed, committed with files
\* still in use, or rolled back, well or badly.
Committed == [registered |-> "new", files |-> "new"]
\* Mutant: the old product stays registered beside the new one.
BothRegistered == [registered |-> "both", files |-> "mixed"]

NeedsReboot == [registered |-> "new", files |-> "mixed"]
RolledBack == {[registered |-> "old", files |-> f] : f \in {"old", "mixed"}}

InstallSucceeds ==
  /\ helper.at = "install"
  /\ install' = Committed
  /\ helper' = [helper EXCEPT !.at = "start", !.phase = "installed", !.goal = "new"]
  /\ UNCHANGED <<kind, caller, lock, db, services, passDue, seat, outcome>>

InstallNeedsReboot ==
  /\ helper.at = "install" /\ kind = "bundle"
  /\ install' = NeedsReboot
  /\ helper' = Back([helper EXCEPT !.phase = "installed"], TRUE)
  /\ UNCHANGED <<kind, caller, lock, db, services, passDue, seat, outcome>>

\* In a tool environment the way back is the same whether files changed or not.
InstallFails ==
  /\ helper.at = "install"
  /\ install' \in RolledBack
  /\ helper' = Back([helper EXCEPT !.phase = "stopped"], kind = "tool")
  /\ UNCHANGED <<kind, caller, lock, db, services, passDue, seat, outcome>>

\* msiexec is given up: what it did is seen once the installer is idle.
InstallTimesOut ==
  /\ helper.at = "install" /\ kind = "bundle"
  /\ install' \in RolledBack \cup {Committed, NeedsReboot}
  /\ helper' = Back(helper, install'.registered = "new")
  /\ UNCHANGED <<kind, caller, lock, db, services, passDue, seat, outcome>>

-----------------------------------------------------------------------------
(* relaunch(): start, and ask the board for its version.                   *)

\* What the helper does next, once it knows the version that answers.
AfterStart(h) ==
  LET close == [h EXCEPT !.at = "resume", !.todo = IF h.got = "none" THEN {} ELSE h.parked]
  IN  CASE h.goal = "new" -> IF h.got = "new" THEN close ELSE Back(h, TRUE)
        [] h.goal = "back" /\ h.got = "none" /\ ~h.newIn -> [h EXCEPT !.at = "repair"]
        [] OTHER -> close

Heard(got) == helper' = AfterStart([helper EXCEPT !.got = got])

\* Services of another version than the installed one are replaced.
StartsInstalled == install.files \in Version \ {services} /\ Boot(install.files)

\* Services of the installed version are left alone.
Starts ==
  /\ helper.at = "start" /\ install.files \in Version
  /\ \/ StartsInstalled
     \/ services = install.files /\ UNCHANGED <<services, db, seat, passDue>>
  /\ Heard(install.files)
  /\ UNCHANGED <<kind, caller, lock, install, outcome>>

\* They come up and do not answer, or they do not come up.
StartsUnhealthy ==
  /\ helper.at = "start"
  /\ StartsInstalled \/ UNCHANGED <<services, db, seat, passDue>>
  /\ Heard("none")
  /\ UNCHANGED <<kind, caller, lock, install, outcome>>

\* There is nothing to start, but what ran still runs.
StillRuns ==
  /\ helper.at = "start" /\ install.files \notin Version /\ services # "down"
  /\ Heard(services)
  /\ UNCHANGED <<caller, lock, system, outcome>>

-----------------------------------------------------------------------------
(* back(): the previous version is put back.                               *)

BackStops ==
  /\ helper.at = "backstop"
  /\ StopsServices \/ StopFails
  /\ Go("reinstall")
  /\ UNCHANGED <<kind, caller, lock, install, outcome>>

\* The previous installer is not cached, or its file has changed.
NoWayBack ==
  /\ helper.at = "reinstall" /\ kind = "bundle"
  /\ Finish("failed", {})
  /\ UNCHANGED <<caller, system>>

\* The registered product is removed, then the previous one installed. It is
\* refused over a newer product that could not be removed.
Removals == {[registered |-> "none", files |-> "none"]} \cup {install}
Installs(i) == {i} \cup (IF i.registered = "new" THEN {}
                         ELSE {[registered |-> "old", files |-> "old"]})

Reinstall ==
  /\ helper.at = "reinstall" /\ kind = "bundle"
  /\ \E removed \in Removals : \E done \in Installs(removed) :
       /\ install' = done
       /\ helper' = [helper EXCEPT !.at = "restore",
                       !.reinstalled = /\ install.registered # "none"
                                       /\ removed.registered = "none"
                                       /\ done.registered = "old"]
  /\ UNCHANGED <<kind, caller, lock, db, services, passDue, seat, outcome>>

\* In a tool environment the previous wheels are installed over what is there,
\* if they are cached and that works; the rest goes on without.
ToolReinstall ==
  /\ helper.at = "reinstall" /\ kind = "tool"
  /\ install' \in {install, [install EXCEPT !.files = "mixed"],
                    [registered |-> "old", files |-> "old"]}
  /\ \E worked \in BOOLEAN :
       /\ worked => install' = [registered |-> "old", files |-> "old"]
       /\ helper' = [helper EXCEPT !.at = "restore", !.reinstalled = worked]
  /\ UNCHANGED <<kind, caller, lock, db, services, passDue, seat, outcome>>

\* Mutant: the backup is put back only after a reinstall that worked.
RestoreIfReinstalled ==
  /\ helper.at = "restore"
  /\ db' = IF helper.reinstalled THEN "old" ELSE db
  /\ Go("start")
  /\ UNCHANGED <<kind, caller, lock, install, services, passDue, seat, outcome>>

\* _restore(): a database the new version changed is put back, any other kept.
Restore ==
  /\ helper.at = "restore"
  /\ db' = "old"
  /\ Go("start")
  /\ UNCHANGED <<kind, caller, lock, install, services, passDue, seat, outcome>>

Repaired == {install, [registered |-> "old", files |-> "old"]}

\* Nothing was installed, yet the old version does not come up: it is repaired
\* from the cached installer, when that is there and unchanged.
Repair ==
  /\ helper.at = "repair"
  /\ StopsServices \/ StopFails
  /\ install' \in Repaired
  /\ helper' = [helper EXCEPT !.at = "start", !.goal = "repaired",
                              !.reinstalled = install'.files = "old"]
  /\ UNCHANGED <<kind, caller, lock, outcome>>

NoRepair ==
  /\ helper.at = "repair"
  /\ helper' = [helper EXCEPT !.at = "resume", !.todo = {}]
  /\ UNCHANGED <<caller, lock, system, outcome>>

-----------------------------------------------------------------------------
(* The seats are resumed, and the outcome is written.                      *)

\* Any answer of the pool counts as a seat resumed, once per update.
ResumeSeat(h) ==
  /\ helper.at = "resume" /\ h \in helper.todo
  /\ h \in helper.resumed \/ services # "down"
  /\ seat' \in IF h \in helper.resumed THEN {seat}
               ELSE {[seat EXCEPT ![h] = s] : s \in Resumed(seat[h])}
  /\ helper' = [helper EXCEPT !.todo = @ \ {h}, !.resumed = @ \cup {h}]
  /\ UNCHANGED <<kind, caller, lock, install, db, services, passDue, outcome>>

ResumeFails(h) ==
  /\ helper.at = "resume" /\ h \in helper.todo \ helper.resumed
  /\ seat' \in {seat} \cup (IF services = "down" THEN {}
                            ELSE {[seat EXCEPT ![h] = s] : s \in Resumed(seat[h])})
  /\ helper' = [helper EXCEPT !.todo = @ \ {h}]
  /\ UNCHANGED <<kind, caller, lock, install, db, services, passDue, outcome>>

Missing == helper.parked \ helper.resumed

\* Mutant: any version that answers will do.
BackAnswers == helper.got # "none"

BackWorked ==
  IF kind = "tool" THEN helper.reinstalled /\ helper.got # "none"
  ELSE /\ helper.got = "old" /\ install.registered = "old"
       /\ helper.reinstalled \/ ~helper.newIn

OutcomeState ==
  CASE helper.goal = "new" -> IF Missing = {} THEN "ok" ELSE "incomplete"
    [] helper.goal = "abort" -> "failed"
    [] helper.goal = "recover" -> IF helper.got = "old" THEN "rolled_back" ELSE "failed"
    [] OTHER -> IF BackWorked THEN "rolled_back" ELSE "failed"

\* A tool environment's way back finishes with the lists of the parked and the
\* resumed seats only: nothing in its outcome names the seats that are missing.
NamesMissing == kind = "bundle" \/ helper.goal = "new"

ResumeDone ==
  /\ caller = "gone" /\ helper.at = "resume" /\ helper.todo = {}
  /\ Finish(OutcomeState, IF NamesMissing THEN Missing ELSE {})
  /\ UNCHANGED <<caller, system>>

-----------------------------------------------------------------------------
(* What goes wrong.                                                        *)

\* Where an exception can come from: parking and resuming catch their own.
Raising == {"stop", "end", "look", "install", "start", "backstop", "reinstall",
            "restore", "repair"}

\* A step that is cut short has had its effect, or part of it, or none. A
\* running installer ends its transaction on its own.
CutShort ==
  \/ UNCHANGED <<install, db, services, passDue, seat>>
  \/ helper.at = "end" /\ EndsShells /\ UNCHANGED <<install, db, services, passDue>>
  \/ helper.at \in {"stop", "backstop", "repair"} /\ StopsServices /\ UNCHANGED install
  \/ helper.at = "start" /\ StartsInstalled /\ UNCHANGED install
  \/ /\ \/ helper.at = "install" /\ install' \in {Committed, NeedsReboot} \cup RolledBack
        \/ helper.at = "reinstall" /\ \E removed \in Removals : install' \in Installs(removed)
        \/ helper.at = "repair" /\ install' \in Repaired
     /\ UNCHANGED <<db, services, passDue, seat>>
  \/ helper.at = "restore" /\ db' = "old" /\ UNCHANGED <<install, services, passDue, seat>>

\* In a bundle, the first exception brings a version back, whatever the phase.
Recover ==
  CASE helper.phase \in {"parked", "stopped"} ->
         [helper EXCEPT !.raised = TRUE, !.goal = "recover", !.at = "start"]
    [] helper.phase = "installing" ->
         Back([helper EXCEPT !.raised = TRUE], install'.registered = "new")
    [] OTHER -> Back([helper EXCEPT !.raised = TRUE], TRUE)

HelperRaises ==
  /\ "raised" \in Trouble /\ kind = "bundle"
  /\ ~helper.raised /\ helper.at \in Raising
  /\ CutShort
  /\ helper' = Recover
  /\ UNCHANGED <<kind, caller, lock, outcome>>

\* An exception in the recovery, or in a tool environment, ends the update.
HelperCrashes ==
  /\ "raised" \in Trouble /\ caller = "gone"
  /\ helper.raised \/ kind = "tool"
  /\ helper.at \in Raising
  /\ CutShort
  /\ Finish("failed", {})
  /\ UNCHANGED <<kind, caller>>

HelperKilled ==
  /\ "killed" \in Trouble /\ caller \in {"add", "confirm", "gone"}
  /\ helper.at \in Working \cup {"join", "wait"}
  /\ CutShort
  /\ Go("dead")
  /\ UNCHANGED <<kind, caller, lock, outcome>>

-----------------------------------------------------------------------------
(* The others.                                                             *)

\* `heronry start`: refused while the lock is held, and a dead one is cleared.
UserStarts ==
  /\ ~Held
  /\ lock' = {}
  /\ StartsInstalled \/ UNCHANGED <<services, db, seat, passDue>>
  /\ UNCHANGED <<kind, caller, helper, install, outcome>>

\* The pool resumes the rows the updater parked, unless an update holds the lock.
PoolPass ==
  /\ passDue /\ services # "down"
  /\ passDue' = FALSE
  /\ LET due == {h \in Seat : seat[h].row = "parked" /\ seat[h].mark /\ ~seat[h].shell}
     IN  IF Held THEN UNCHANGED seat
         ELSE /\ seat' \in [Seat -> UNION {{seat[h]} \cup Resumed(seat[h]) : h \in Seat}]
              /\ \A h \in Seat : seat'[h] \in IF h \in due THEN Resumed(seat[h]) ELSE {seat[h]}
  /\ UNCHANGED <<kind, caller, helper, lock, install, db, services, outcome>>

\* The watchdog resumes a parked seat that has mail.
MailResumes(h) ==
  /\ services # "down" /\ seat[h].row = "parked"
  /\ seat' \in {[seat EXCEPT ![h] = s] : s \in Resumed(seat[h])}
  /\ UNCHANGED <<kind, caller, helper, lock, install, db, services, passDue, outcome>>

-----------------------------------------------------------------------------
CallerSteps ==
  \/ CallerLocks \/ CallerRefuses \/ CallerWorks \/ CallerStops
  \/ CallerFails \/ CallerGivesUp
  \/ CallerDetaches \/ CallerAddsPid \/ CallerEnds \/ CallerMissesHelper

HelperSteps ==
  \/ HelperJoins \/ CallerGone \/ CallerStays
  \/ InstallerVerified \/ InstallerChanged \/ ListSeats
  \/ \E h \in Seat : ParkSeat(h) \/ ParkFails(h) \/ ResumeSeat(h) \/ ResumeFails(h)
  \/ ParkDone \/ Stop \/ StopRefused \/ EndParkedShells \/ FolderIsFree \/ FolderIsHeld
  \/ InstallSucceeds \/ InstallNeedsReboot \/ InstallFails \/ InstallTimesOut
  \/ Starts \/ StartsUnhealthy \/ StillRuns
  \/ BackStops \/ NoWayBack \/ Reinstall \/ ToolReinstall \/ Restore
  \/ Repair \/ NoRepair
  \/ ResumeDone

Next ==
  \/ CallerSteps \/ HelperSteps
  \/ HelperRaises \/ HelperCrashes \/ HelperKilled
  \/ UserStarts \/ PoolPass \/ \E h \in Seat : MailResumes(h)

Spec == Init /\ [][Next]_vars
FairSpec == Spec /\ WF_vars(CallerSteps) /\ WF_vars(HelperSteps)

-----------------------------------------------------------------------------
(* What the update promises.                                               *)

\* A seat that is not back is named as missing or, by a tool environment that was
\* rolled back, left out of the seats that are listed as resumed.
Accounted(h) ==
  \/ seat'[h].row = "active"
  \/ IF NamesMissing THEN h \in outcome'.missing ELSE h \notin helper.resumed

\* An outcome says what is so when it is written: "ok" that the new version is
\* installed and runs and every parked seat is back, "incomplete" the same but
\* for the seats it names, "rolled_back" that the old version is installed and
\* runs on the old data, and that a seat that is not back is not said to be.
OutcomeIsTrue ==
  [][outcome' # outcome =>
       LET runs(v) == services' = v /\ install' = [registered |-> v, files |-> v]
       IN  /\ outcome'.state = "ok" => runs("new") /\ outcome'.missing = {}
           /\ outcome'.state = "incomplete" => runs("new")
           /\ outcome'.state = "rolled_back" => runs("old") /\ db' = "old"
           /\ outcome'.state # "failed" => \A h \in helper.parked : Accounted(h)]_vars

\* The old version never runs on data the new one has changed, while the helper
\* works or after an outcome other than "failed".
OldRunsOnOldData ==
  services = "old" /\ db = "new" => helper.at = "dead" \/ outcome.state = "failed"

\* While anything is changed, the lock names a live process of the update, so
\* nobody starts the services and the pool leaves the parked seats to it.
LockCoversUpdate == helper.at \in Working => Held

Over == caller = "gone" /\ helper.at \in {"off", "done", "dead"}

\* A seat the update parked is not left parked: it is taken up again, or named,
\* or keeps the mark by which the next start of the pool takes it up.
SeatsComeBack ==
  \A h \in Seat : h \in helper.parked ~>
    \/ seat[h].row # "parked"
    \/ seat[h].mark /\ Over
    \/ h \in outcome.missing
=============================================================================
