---------------------------- MODULE UpdateProofs ----------------------------
(***************************************************************************)
(* What Update promises of the lock, the data and the outcome, proved for  *)
(* every set of seats and every trouble: one of the processes the lock     *)
(* names is alive from before the first seat is parked until the outcome   *)
(* is written; the old version never runs on data the new one has changed; *)
(* and an outcome says what is so.                                         *)
(***************************************************************************)
EXTENDS Update, TLAPS

-----------------------------------------------------------------------------
(* Types.                                                                  *)

\* The changes of the work in hand keep its shape.
LEMMA UndoWork ==
  ASSUME NEW h \in Work, NEW goal \in Goal
  PROVE  Undo(h, goal) \in Work
  BY DEF Work, Undo, At, Working

LEMMA BackWork ==
  ASSUME NEW h \in Work, NEW newIn \in BOOLEAN
  PROVE  Back(h, newIn) \in Work
  <1>1. ASSUME NEW at \in {"backstop", "start"}
        PROVE  [h EXCEPT !.newIn = newIn, !.reinstalled = FALSE, !.goal = "back",
                         !.at = at] \in Work
    BY <1>1 DEF Work, At, Working, Goal
  <1> QED BY <1>1 DEF Back

LEMMA AfterStartWork ==
  ASSUME NEW h \in Work
  PROVE  AfterStart(h) \in Work
  <1>1. Back(h, TRUE) \in Work
    BY BackWork
  <1>2. [h EXCEPT !.at = "repair"] \in Work
    BY DEF Work, At, Working
  <1>3. [h EXCEPT !.at = "resume", !.todo = IF h.got = "none" THEN {} ELSE h.parked] \in Work
    BY DEF Work, At, Working
  <1> QED BY <1>1, <1>2, <1>3 DEF AfterStart

LEMMA RecoverWork ==
  ASSUME helper \in Work
  PROVE  Recover \in Work
  <1>1. [helper EXCEPT !.raised = TRUE, !.goal = "recover", !.at = "start"] \in Work
    BY DEF Work, At, Working, Goal
  <1>2. [helper EXCEPT !.raised = TRUE] \in Work
    BY DEF Work
  <1>3. \A b \in BOOLEAN : Back([helper EXCEPT !.raised = TRUE], b) \in Work
    BY <1>2, BackWork
  <1> QED BY <1>1, <1>3 DEF Recover

LEMMA RestoreWork ==
  ASSUME helper \in Work, NEW b \in BOOLEAN
  PROVE  [helper EXCEPT !.at = "restore", !.reinstalled = b] \in Work
  BY DEF Work, At, Working

LEMMA GoWork ==
  ASSUME helper \in Work, NEW at \in At, Go(at)
  PROVE  helper' \in Work
  BY DEF Work, Go

LEMMA FinishTypes ==
  ASSUME TypeOK, NEW state \in State, NEW missing \in SUBSET Seat, Finish(state, missing)
  PROVE  /\ helper' \in Work /\ lock' \subseteq {"caller", "helper"}
         /\ outcome' \in [state : State, missing : SUBSET Seat]
  BY DEF TypeOK, Work, Finish, At

\* What a start, a stop, and the end of a shell leave of the rows.
LEMMA BootTypes ==
  ASSUME TypeOK, NEW v \in Version, Boot(v)
  PROVE  /\ db' \in Version /\ services' \in Version \cup {"down"}
         /\ passDue' \in BOOLEAN /\ seat' \in [Seat -> Row]
  BY DEF TypeOK, Version, Boot, Interrupted, Row

LEMMA ShellEndsRow ==
  ASSUME NEW s \in Row, NEW b \in BOOLEAN
  PROVE  [s EXCEPT !.shell = @ /\ b] \in Row
  <1>1. (s.shell /\ b) \in BOOLEAN
    OBVIOUS
  <1> HIDE <1>1
  <1> DEFINE shell == s.shell /\ b
  <1>2. shell \in BOOLEAN
    BY <1>1
  <1> HIDE DEF shell
  <1>3. [s EXCEPT !.shell = shell] \in Row
    BY <1>2 DEF Row
  <1> QED BY <1>3 DEF shell

LEMMA StopTypes ==
  ASSUME TypeOK, StopsServices
  PROVE  /\ db' \in Version /\ services' \in Version \cup {"down"}
         /\ passDue' \in BOOLEAN /\ seat' \in [Seat -> Row]
  <1>1. \A gone \in SUBSET Seat : \A h \in Seat :
          [seat[h] EXCEPT !.shell = @ /\ h \notin gone] \in Row
    BY ShellEndsRow DEF TypeOK
  <1>2. seat' \in [Seat -> Row]
    BY <1>1 DEF StopsServices
  <1> QED BY <1>2 DEF TypeOK, StopsServices

LEMMA EndTypes ==
  ASSUME TypeOK, EndsShells
  PROVE  seat' \in [Seat -> Row]
  <1>1. \A ended \in SUBSET helper.parked : \A h \in Seat :
          [seat[h] EXCEPT !.shell = @ /\ h \notin ended] \in Row
    BY ShellEndsRow DEF TypeOK
  <1>2. PICK ended \in SUBSET helper.parked :
          seat' = [h \in Seat |-> [seat[h] EXCEPT !.shell = @ /\ h \notin ended]]
    BY Zenon DEF EndsShells
  <1> QED BY <1>1, <1>2

LEMMA ResumedRow ==
  ASSUME NEW s \in Row
  PROVE  Resumed(s) \subseteq Row
  <1>1. /\ [row |-> "active", mark |-> FALSE, shell |-> TRUE] \in Row
        /\ [row |-> "parked", mark |-> FALSE, shell |-> FALSE] \in Row
    BY DEF Row
  <1> QED BY <1>1, Zenon DEF Resumed

LEMMA ParkedRow ==
  ASSUME NEW s \in Row
  PROVE  Parked(s) \in Row
  BY DEF Parked, Row

\* What an installer leaves.
LEMMA InstallTypes ==
  ASSUME TypeOK
  PROVE  /\ {Committed, NeedsReboot} \cup RolledBack \cup Repaired \cup Removals \subseteq Files
         /\ \A i \in Files : Installs(i) \subseteq Files
  BY
  DEF TypeOK, Files, Version, Committed, NeedsReboot, RolledBack, Repaired, Removals, Installs

LEMMA CutShortTypes ==
  ASSUME TypeOK, CutShort
  PROVE  /\ install' \in Files /\ db' \in Version /\ services' \in Version \cup {"down"}
         /\ passDue' \in BOOLEAN /\ seat' \in [Seat -> Row]
  <1>1. CASE UNCHANGED <<install, db, services, passDue, seat>>
    BY <1>1 DEF TypeOK
  <1>2. CASE EndsShells /\ UNCHANGED <<install, db, services, passDue>>
    BY <1>2, EndTypes DEF TypeOK
  <1>3. CASE StopsServices /\ UNCHANGED install
    BY <1>3, StopTypes DEF TypeOK
  <1>4. CASE StartsInstalled /\ UNCHANGED install
    BY <1>4, BootTypes DEF TypeOK, StartsInstalled
  <1>5. CASE /\ \/ install' \in {Committed, NeedsReboot} \cup RolledBack
                \/ \E removed \in Removals : install' \in Installs(removed)
                \/ install' \in Repaired
             /\ UNCHANGED <<db, services, passDue, seat>>
    BY <1>5, InstallTypes DEF TypeOK
  <1>6. CASE db' = "old" /\ UNCHANGED <<install, services, passDue, seat>>
    BY <1>6 DEF TypeOK, Version
  <1> QED BY <1>1, <1>2, <1>3, <1>4, <1>5, <1>6 DEF CutShort

\* Every step keeps the types.
LEMMA TypeNext ==
  ASSUME TypeOK, [Next]_vars
  PROVE  TypeOK'
  <1>1. CASE CallerLocks
    BY <1>1 DEF TypeOK, Work, At, Working, Goal, system, With, CallerLocks
  <1>2. CASE CallerRefuses
    BY <1>2 DEF TypeOK, Work, At, Working, Goal, system, With, CallerRefuses
  <1>3. CASE CallerWorks
    BY <1>3 DEF TypeOK, Work, At, Working, Goal, system, With, CallerWorks
  <1>4. CASE CallerDetaches
    BY <1>4 DEF TypeOK, Work, At, Working, Goal, system, With, CallerDetaches
  <1>5. CASE CallerAddsPid
    <2>1. With("helper") \subseteq {"caller", "helper"}
      BY DEF TypeOK, With
    <2> QED BY <1>5, <2>1 DEF TypeOK, system, CallerAddsPid
  <1>6. CASE CallerEnds
    BY <1>6 DEF TypeOK, Work, At, Working, Goal, system, With, CallerEnds
  <1>7. CASE CallerStops
    BY <1>7, StopTypes DEF TypeOK, Work, At, Working, Goal, system, CallerStops
  <1>8. CASE CallerFails
    BY <1>8, UndoWork DEF TypeOK, Work, At, Working, Goal, system, StopFails, CallerFails
  <1>9. CASE CallerGivesUp
    BY <1>9 DEF TypeOK, Work, At, Working, Goal, system, CallerGivesUp
  <1>10. CASE CallerMissesHelper
    BY <1>10, UndoWork DEF TypeOK, Work, At, Working, Goal, system, CallerMissesHelper
  <1>11. CASE HelperJoins
    <2>1. With("helper") \subseteq {"caller", "helper"}
      BY DEF TypeOK, With
    <2>2. helper' \in Work
      BY <1>11, GoWork DEF TypeOK, At, HelperJoins
    <2> QED BY <1>11, <2>1, <2>2 DEF TypeOK, system, HelperJoins
  <1>12. CASE CallerGone
    BY <1>12, GoWork DEF TypeOK, Work, At, Working, Goal, system, CallerGone
  <1>13. CASE InstallerVerified
    BY <1>13, GoWork DEF TypeOK, Work, At, Working, Goal, system, InstallerVerified
  <1>14. CASE CallerStays
    BY <1>14, FinishTypes DEF TypeOK, State, system, CallerStays
  <1>15. CASE InstallerChanged
    BY <1>15, FinishTypes DEF TypeOK, State, system, InstallerChanged
  <1>16. CASE NoWayBack
    BY <1>16, FinishTypes DEF TypeOK, State, system, NoWayBack
  <1>17. CASE ListSeats
    <2>1. PICK rows \in SUBSET Seat : helper' = [helper EXCEPT !.at = "park", !.todo = rows]
      BY <1>17 DEF ListSeats
    <2>2. helper' \in Work
      BY <2>1 DEF TypeOK, Work, At, Working
    <2> QED BY <1>17, <2>2 DEF TypeOK, system, ListSeats
  <1>18. ASSUME NEW h \in Seat, ParkSeat(h)
         PROVE  TypeOK'
    <2>1. [seat EXCEPT ![h] = Parked(@)] \in [Seat -> Row]
      BY ParkedRow DEF TypeOK
    <2>2. [helper EXCEPT !.todo = @ \ {h}, !.parked = @ \cup {h}] \in Work
      BY DEF TypeOK, Work
    <2> QED BY <1>18, <2>1, <2>2 DEF TypeOK, ParkSeat
  <1>19. ASSUME NEW h \in Seat, ParkFails(h)
         PROVE  TypeOK'
    <2>1. [seat EXCEPT ![h] = Parked(@)] \in [Seat -> Row]
      BY ParkedRow DEF TypeOK
    <2>2. [helper EXCEPT !.todo = @ \ {h}, !.failed = @ \cup {h}] \in Work
      BY DEF TypeOK, Work
    <2> QED BY <1>19, <2>1, <2>2 DEF TypeOK, ParkFails
  <1>20. ASSUME NEW h \in Seat, ResumeSeat(h)
         PROVE  TypeOK'
    <2>1. {[seat EXCEPT ![h] = s] : s \in Resumed(seat[h])} \subseteq [Seat -> Row]
      BY ResumedRow DEF TypeOK
    <2>2. [helper EXCEPT !.todo = @ \ {h}, !.resumed = @ \cup {h}] \in Work
      BY DEF TypeOK, Work
    <2> QED BY <1>20, <2>1, <2>2 DEF TypeOK, ResumeSeat
  <1>21. ASSUME NEW h \in Seat, ResumeFails(h)
         PROVE  TypeOK'
    <2>1. {[seat EXCEPT ![h] = s] : s \in Resumed(seat[h])} \subseteq [Seat -> Row]
      BY ResumedRow DEF TypeOK
    <2>2. [helper EXCEPT !.todo = @ \ {h}] \in Work
      BY DEF TypeOK, Work
    <2> QED BY <1>21, <2>1, <2>2 DEF TypeOK, ResumeFails
  <1>22. CASE ParkDone
    <2>1. [helper EXCEPT !.at = "stop", !.phase = "parked"] \in Work
      BY DEF TypeOK, Work, At, Working
    <2>2. [helper EXCEPT !.phase = "parked"] \in Work
      BY DEF TypeOK, Work
    <2>3. \A goal \in Goal : Undo([helper EXCEPT !.phase = "parked"], goal) \in Work
      BY <2>2, UndoWork
    <2> QED BY <1>22, <2>1, <2>3 DEF TypeOK, Goal, system, ParkDone
  <1>23. CASE Stop
    BY <1>23, StopTypes DEF TypeOK, Work, At, Working, Goal, system, Stop
  <1>24. CASE StopRefused
    BY <1>24 DEF TypeOK, Work, At, Working, Goal, system, StopFails, StopRefused
  <1>25. CASE EndParkedShells
    BY <1>25, EndTypes, GoWork DEF TypeOK, Work, At, Working, Goal, system, EndParkedShells
  <1>26. CASE FolderIsFree
    BY <1>26 DEF TypeOK, Work, At, Working, Goal, system, FolderIsFree
  <1>27. CASE FolderIsHeld
    BY <1>27, BackWork DEF TypeOK, Work, At, Working, Goal, system, FolderIsHeld
  <1>28. CASE InstallSucceeds
    <2>1. [helper EXCEPT !.at = "start", !.phase = "installed", !.goal = "new"] \in Work
      BY DEF TypeOK, Work, At, Working, Goal
    <2> QED BY <1>28, <2>1, InstallTypes DEF TypeOK, InstallSucceeds
  <1>29. CASE InstallNeedsReboot
    <2>1. [helper EXCEPT !.phase = "installed"] \in Work
      BY DEF TypeOK, Work
    <2>2. Back([helper EXCEPT !.phase = "installed"], TRUE) \in Work
      BY <2>1, BackWork
    <2> QED BY <1>29, <2>2, InstallTypes DEF TypeOK, InstallNeedsReboot
  <1>30. CASE InstallFails
    <2>1. [helper EXCEPT !.phase = "stopped"] \in Work
      BY DEF TypeOK, Work
    <2>2. \A b \in BOOLEAN : Back([helper EXCEPT !.phase = "stopped"], b) \in Work
      BY <2>1, BackWork
    <2>3. (kind = "tool") \in BOOLEAN
      OBVIOUS
    <2>4. helper' \in Work
      BY <1>30, <2>2, <2>3 DEF InstallFails
    <2> QED BY <1>30, <2>4, InstallTypes DEF TypeOK, InstallFails
  <1>31. CASE InstallTimesOut
    BY <1>31, InstallTypes, BackWork
    DEF TypeOK, Work, At, Working, Goal, system, InstallTimesOut
  <1>32. CASE Starts
    BY <1>32, BootTypes, AfterStartWork
    DEF TypeOK, Work, At, Working, Goal, system, StartsInstalled, Heard, Version, Starts
  <1>33. CASE StartsUnhealthy
    BY <1>33, BootTypes, AfterStartWork
    DEF TypeOK, Work, At, Working, Goal, system, StartsInstalled, Heard, Version,
        StartsUnhealthy
  <1>34. CASE StillRuns
    BY <1>34, AfterStartWork DEF TypeOK, Work, At, Working, Goal, system, Heard, StillRuns
  <1>35. CASE BackStops
    BY <1>35, StopTypes, GoWork
    DEF TypeOK, Work, At, Working, Goal, system, StopFails, BackStops
  <1>36. CASE Reinstall
    <2>1. PICK removed \in Removals : \E done \in Installs(removed) :
            /\ install' = done
            /\ helper' = [helper EXCEPT !.at = "restore",
                            !.reinstalled = /\ install.registered # "none"
                                            /\ removed.registered = "none"
                                            /\ done.registered = "old"]
      BY <1>36 DEF Reinstall
    <2> DEFINE worked == /\ install.registered # "none"
                         /\ removed.registered = "none"
                         /\ install'.registered = "old"
    <2>2. install' \in Installs(removed)
      BY <2>1
    <2>3. helper' = [helper EXCEPT !.at = "restore", !.reinstalled = worked]
      BY <2>1
    <2>4. worked \in BOOLEAN
      OBVIOUS
    <2> HIDE DEF worked
    <2>5. install' \in Files
      BY <2>2, InstallTypes
    <2>6. helper' \in Work
      BY <2>3, <2>4, RestoreWork DEF TypeOK
    <2> QED BY <1>36, <2>5, <2>6 DEF TypeOK, Reinstall
  <1>37. CASE ToolReinstall
    <2>1. install' \in Files
      BY <1>37 DEF TypeOK, Files, Version, ToolReinstall
    <2>2. PICK worked \in BOOLEAN :
            helper' = [helper EXCEPT !.at = "restore", !.reinstalled = worked]
      BY <1>37 DEF ToolReinstall
    <2>3. helper' \in Work
      BY <2>2, RestoreWork DEF TypeOK
    <2> QED BY <1>37, <2>1, <2>3 DEF TypeOK, ToolReinstall
  <1>38. CASE Restore
    BY <1>38, GoWork DEF TypeOK, Work, At, Working, Goal, system, Version, Restore
  <1>39. CASE Repair
    <2>1. install' \in Files
      BY <1>39, InstallTypes DEF Repair
    <2>2. helper' \in Work
      <3>1. (install'.files = "old") \in BOOLEAN
        OBVIOUS
      <3> HIDE <3>1
      <3> DEFINE old == install'.files = "old"
      <3>2. old \in BOOLEAN
        BY <3>1
      <3>3. helper' = [helper EXCEPT !.at = "start", !.goal = "repaired", !.reinstalled = old]
        BY <1>39 DEF Repair
      <3> HIDE DEF old
      <3> QED BY <3>2, <3>3 DEF TypeOK, Work, At, Working, Goal
    <2> QED BY <1>39, <2>1, <2>2, StopTypes DEF TypeOK, StopFails, Repair
  <1>40. CASE NoRepair
    BY <1>40 DEF TypeOK, Work, At, Working, Goal, system, NoRepair
  <1>41. CASE ResumeDone
    BY <1>41, FinishTypes DEF TypeOK, State, system, Work, Missing, NamesMissing, OutcomeState, ResumeDone
  <1>42. CASE HelperRaises
    BY <1>42, CutShortTypes, RecoverWork
    DEF TypeOK, Work, At, Working, Goal, system, HelperRaises
  <1>43. CASE HelperCrashes
    BY <1>43, CutShortTypes, FinishTypes DEF TypeOK, State, HelperCrashes
  <1>44. CASE HelperKilled
    BY <1>44, CutShortTypes, GoWork DEF TypeOK, Work, At, Working, Goal, system, HelperKilled
  <1>45. CASE UserStarts
    BY <1>45, BootTypes
    DEF TypeOK, Work, At, Working, Goal, system, StartsInstalled, UserStarts
  <1>46. CASE PoolPass
    <2>1. \A h \in Seat : Resumed(seat[h]) \subseteq Row
      BY ResumedRow DEF TypeOK
    <2>2. ASSUME ~Held
          PROVE  seat' \in [Seat -> Row]
      <3> DEFINE All == UNION {{seat[h]} \cup Resumed(seat[h]) : h \in Seat}
      <3>1. All \subseteq Row
        BY <2>1 DEF TypeOK
      <3>2. seat' \in [Seat -> All]
        BY <1>46, <2>2 DEF PoolPass
      <3> HIDE DEF All
      <3> QED BY <3>1, <3>2
    <2>3. seat' \in [Seat -> Row]
      BY <1>46, <2>2 DEF TypeOK, PoolPass
    <2> QED BY <1>46, <2>3 DEF TypeOK, PoolPass
  <1>47. ASSUME NEW h \in Seat, MailResumes(h)
         PROVE  TypeOK'
    <2>1. {[seat EXCEPT ![h] = s] : s \in Resumed(seat[h])} \subseteq [Seat -> Row]
      BY ResumedRow DEF TypeOK
    <2> QED BY <1>47, <2>1 DEF TypeOK, MailResumes
  <1>48. CASE UNCHANGED vars
    BY <1>48 DEF TypeOK, vars
  <1> QED
    BY <1>1, <1>2, <1>3, <1>4, <1>5, <1>6, <1>7, <1>8, <1>9, <1>10, <1>11, <1>12, <1>13,
       <1>14, <1>15, <1>16, <1>17, <1>18, <1>19, <1>20, <1>21, <1>22, <1>23, <1>24, <1>25,
       <1>26, <1>27, <1>28, <1>29, <1>30, <1>31, <1>32, <1>33, <1>34, <1>35, <1>36, <1>37,
       <1>38, <1>39, <1>40, <1>41, <1>42, <1>43, <1>44, <1>45, <1>46, <1>47, <1>48
    DEF Next, CallerSteps, HelperSteps

\* The shape of the state holds in every behaviour of the update.
THEOREM TypeCorrect == Spec => []TypeOK
  <1>1. Init => TypeOK
    <2> SUFFICES ASSUME Init PROVE TypeOK
      OBVIOUS
    <2>1. helper \in Work
      BY DEF Init, Work, At, Goal
    <2>2. seat \in [Seat -> Row]
      BY DEF Init, Row
    <2>3. install \in Files /\ db \in Version /\ services \in Version \cup {"down"}
      BY DEF Init, Files, Version
    <2> QED BY <2>1, <2>2, <2>3 DEF Init, TypeOK, State
  <1>2. TypeOK /\ [Next]_vars => TypeOK'
    BY TypeNext
  <1> QED BY <1>1, <1>2, PTL DEF Spec

-----------------------------------------------------------------------------
(* The lock.                                                               *)

\* Where the work can stand while the caller is still there.
CallerAndWork ==
  /\ caller \in {"lock", "prepare", "detach"} => helper.at = "off"
  /\ caller \in {"work", "detach"} => kind = "tool"
  /\ caller = "work" => helper.at \in {"list", "park", "stop", "resume"}
  /\ caller \in {"add", "confirm"} => helper.at \in {"join", "wait", "done", "dead"}

\* Who is in the lock until the outcome is written: the caller from the moment
\* it takes the lock, the helper from the moment the caller has added its pid.
LockNames ==
  /\ caller \notin {"lock", "gone"} /\ helper.at # "done" => "caller" \in lock
  /\ caller = "confirm" /\ helper.at # "done" => "helper" \in lock
  /\ caller = "gone" /\ helper.at \in Working \cup {"join", "wait"} => "helper" \in lock

LockInv == CallerAndWork /\ LockNames

\* What only the caller in a tool environment does besides the helper.
Shared == {"list", "park", "stop", "resume"}

\* The helper works alone, except where the caller parks, stops and resumes.
LEMMA AloneInLock ==
  ASSUME TypeOK, LockInv, helper.at \in Working
  PROVE  /\ caller \in {"work", "gone"}
         /\ caller = "work" => helper.at \in Shared /\ kind = "tool"
  BY DEF TypeOK, LockInv, CallerAndWork, Working, Shared

\* A step of the work that goes on with the work leaves the lock as it is.
LEMMA WorkGoesOn ==
  ASSUME TypeOK, LockInv, helper.at \in Working, helper'.at \in Working,
         UNCHANGED <<kind, caller, lock>>,
         caller = "work" => helper'.at \in Shared
  PROVE  LockInv'
  BY AloneInLock DEF LockInv, CallerAndWork, LockNames, Working, Shared

\* Once the outcome is written nobody needs the lock.
LEMMA WorkEnds ==
  ASSUME NEW state, NEW missing, TypeOK, LockInv, Finish(state, missing),
         UNCHANGED <<kind, caller>>, caller \in {"add", "confirm", "gone"}
  PROVE  LockInv'
  BY DEF TypeOK, Work, LockInv, CallerAndWork, LockNames, Finish, Working

\* Where the changes of the work in hand lead.
LEMMA BackAt ==
  ASSUME NEW h \in Work, NEW newIn
  PROVE  Back(h, newIn).at \in {"backstop", "start"}
  BY DEF Work, Back

LEMMA UndoAt ==
  ASSUME NEW h \in Work, NEW goal
  PROVE  Undo(h, goal).at = "resume"
  BY DEF Work, Undo

LEMMA AfterStartAt ==
  ASSUME NEW h \in Work
  PROVE  AfterStart(h).at \in {"resume", "repair", "backstop", "start"}
  BY BackAt DEF Work, AfterStart

LEMMA RecoverAt ==
  ASSUME helper \in Work
  PROVE  Recover.at \in {"start", "backstop"}
  <1>1. [helper EXCEPT !.raised = TRUE] \in Work
    BY DEF Work
  <1>2. \A b : Back([helper EXCEPT !.raised = TRUE], b).at \in {"backstop", "start"}
    BY <1>1, BackAt
  <1>3. [helper EXCEPT !.raised = TRUE, !.goal = "recover", !.at = "start"].at = "start"
    BY DEF Work
  <1> QED BY <1>2, <1>3 DEF Recover

LEMMA HeardAt ==
  ASSUME helper \in Work, NEW got \in Version \cup {"none"}, Heard(got)
  PROVE  helper'.at \in {"resume", "repair", "backstop", "start"}
  <1>1. [helper EXCEPT !.got = got] \in Work
    BY DEF Work
  <1> QED BY <1>1, AfterStartAt DEF Heard

\* Every step keeps the lock named.
LEMMA LockNext ==
  ASSUME TypeOK, LockInv, [Next]_vars
  PROVE  LockInv'
  <1>1. CASE CallerLocks
    BY <1>1 DEF LockInv, CallerAndWork, LockNames, CallerLocks
  <1>2. CASE CallerRefuses
    BY <1>2 DEF LockInv, CallerAndWork, LockNames, Working, CallerRefuses
  <1>3. CASE CallerWorks
    BY <1>3 DEF LockInv, CallerAndWork, LockNames, system, CallerWorks
  <1>4. CASE CallerStops
    BY <1>4 DEF LockInv, CallerAndWork, LockNames, CallerStops
  <1>5. CASE CallerFails
    BY <1>5, UndoAt DEF TypeOK, LockInv, CallerAndWork, LockNames, CallerFails
  <1>6. CASE CallerGivesUp
    BY <1>6 DEF LockInv, CallerAndWork, LockNames, Working, CallerGivesUp
  <1>7. CASE CallerDetaches
    BY <1>7 DEF LockInv, CallerAndWork, LockNames, CallerDetaches
  <1>8. CASE CallerAddsPid
    BY <1>8 DEF LockInv, CallerAndWork, LockNames, CallerAddsPid, With
  <1>9. CASE CallerEnds
    BY <1>9 DEF LockInv, CallerAndWork, LockNames, Working, CallerEnds
  <1>10. CASE CallerMissesHelper
    BY <1>10, UndoAt
    DEF TypeOK, LockInv, CallerAndWork, LockNames, system, CallerMissesHelper
  <1>11. CASE HelperJoins
    BY <1>11 DEF LockInv, CallerAndWork, LockNames, Go, With, HelperJoins
  <1>12. CASE CallerGone
    BY <1>12 DEF LockInv, CallerAndWork, LockNames, Go, CallerGone
  <1>13. CASE CallerStays
    BY <1>13, WorkEnds DEF TypeOK, LockInv, CallerAndWork, system, CallerStays
  <1>14. CASE InstallerChanged
    BY <1>14, AloneInLock, WorkEnds DEF Working, Shared, system, InstallerChanged
  <1>15. CASE NoWayBack
    BY <1>15, AloneInLock, WorkEnds DEF Working, system, NoWayBack
  <1>16. CASE InstallerVerified
    BY <1>16, WorkGoesOn DEF Working, Shared, system, Go, InstallerVerified
  <1>17. CASE ListSeats
    BY <1>17, WorkGoesOn DEF Working, Shared, system, ListSeats
  <1>18. CASE \E h \in Seat : ParkSeat(h)
    BY <1>18, WorkGoesOn DEF Working, Shared, ParkSeat
  <1>19. CASE \E h \in Seat : ParkFails(h)
    BY <1>19, WorkGoesOn DEF Working, Shared, ParkFails
  <1>20. CASE \E h \in Seat : ResumeSeat(h)
    BY <1>20, WorkGoesOn DEF Working, Shared, ResumeSeat
  <1>21. CASE \E h \in Seat : ResumeFails(h)
    BY <1>21, WorkGoesOn DEF Working, Shared, ResumeFails
  <1>22. CASE ParkDone
    BY <1>22, WorkGoesOn DEF Working, Shared, system, Undo, ParkDone
  <1>23. CASE Stop
    BY <1>23, WorkGoesOn, AloneInLock DEF Working, Stop
  <1>24. CASE StopRefused
    BY <1>24, WorkGoesOn, AloneInLock DEF Working, StopRefused
  <1>25. CASE EndParkedShells
    BY <1>25, WorkGoesOn, AloneInLock DEF Working, Shared, Go, EndParkedShells
  <1>26. CASE FolderIsFree
    BY <1>26, WorkGoesOn, AloneInLock DEF Working, Shared, system, FolderIsFree
  <1>27. CASE FolderIsHeld
    BY <1>27, WorkGoesOn, AloneInLock DEF Working, Shared, system, Back, FolderIsHeld
  <1>28. CASE InstallSucceeds
    BY <1>28, WorkGoesOn, AloneInLock DEF Working, Shared, InstallSucceeds
  <1>29. CASE InstallNeedsReboot
    BY <1>29, WorkGoesOn, AloneInLock DEF Working, Back, InstallNeedsReboot
  <1>30. CASE InstallFails
    BY <1>30, WorkGoesOn, AloneInLock DEF Working, Shared, Back, InstallFails
  <1>31. CASE InstallTimesOut
    BY <1>31, WorkGoesOn, AloneInLock DEF Working, Back, InstallTimesOut
  <1>32. CASE Starts
    BY <1>32, HeardAt, WorkGoesOn, AloneInLock DEF TypeOK, Working, Shared, Starts
  <1>33. CASE StartsUnhealthy
    BY <1>33, HeardAt, WorkGoesOn, AloneInLock DEF TypeOK, Working, Shared, StartsUnhealthy
  <1>34. CASE StillRuns
    BY <1>34, HeardAt, WorkGoesOn, AloneInLock
    DEF TypeOK, Working, Shared, system, StillRuns
  <1>35. CASE BackStops
    BY <1>35, WorkGoesOn, AloneInLock DEF Working, Shared, Go, BackStops
  <1>36. CASE Reinstall
    BY <1>36, WorkGoesOn, AloneInLock DEF Working, Reinstall
  <1>37. CASE ToolReinstall
    BY <1>37, WorkGoesOn, AloneInLock DEF Working, Shared, ToolReinstall
  <1>38. CASE Restore
    BY <1>38, WorkGoesOn, AloneInLock DEF Working, Shared, Go, Restore
  <1>39. CASE Repair
    BY <1>39, WorkGoesOn, AloneInLock DEF Working, Shared, Repair
  <1>40. CASE NoRepair
    BY <1>40, WorkGoesOn DEF Working, Shared, system, NoRepair
  <1>41. CASE ResumeDone
    BY <1>41, WorkEnds DEF system, ResumeDone
  <1>42. CASE HelperRaises
    BY <1>42, RecoverAt, WorkGoesOn, AloneInLock DEF TypeOK, Working, Raising, HelperRaises
  <1>43. CASE HelperCrashes
    BY <1>43, WorkEnds DEF HelperCrashes
  <1>44. CASE HelperKilled
    BY <1>44 DEF LockInv, CallerAndWork, LockNames, Working, Go, HelperKilled
  <1>45. CASE UserStarts
    BY <1>45 DEF LockInv, CallerAndWork, LockNames, Working, Held, Alive, UserStarts
  <1>46. CASE PoolPass
    BY <1>46 DEF LockInv, CallerAndWork, LockNames, PoolPass
  <1>47. CASE \E h \in Seat : MailResumes(h)
    BY <1>47 DEF LockInv, CallerAndWork, LockNames, MailResumes
  <1>48. CASE UNCHANGED vars
    BY <1>48 DEF LockInv, CallerAndWork, LockNames, vars
  <1> QED
    BY <1>1, <1>2, <1>3, <1>4, <1>5, <1>6, <1>7, <1>8, <1>9, <1>10, <1>11, <1>12, <1>13, <1>14,
       <1>15, <1>16, <1>17, <1>18, <1>19, <1>20, <1>21, <1>22, <1>23, <1>24, <1>25, <1>26,
       <1>27, <1>28, <1>29, <1>30, <1>31, <1>32, <1>33, <1>34, <1>35, <1>36, <1>37, <1>38,
       <1>39, <1>40, <1>41, <1>42, <1>43, <1>44, <1>45, <1>46, <1>47, <1>48
    DEF Next, CallerSteps, HelperSteps

LEMMA LockInit == Init => LockInv
  BY DEF Init, LockInv, CallerAndWork, LockNames, Working

LEMMA LockCovers ==
  ASSUME TypeOK, LockInv
  PROVE  LockCoversUpdate
  BY AloneInLock DEF LockInv, LockNames, LockCoversUpdate, Held, Alive, Working

\* While anything of an update is changed, the update lock names a live process
\* of it: nobody starts the services, and the pool leaves the parked seats alone.
THEOREM LockIsHeld == Spec => []LockCoversUpdate
  <1>1. TypeOK /\ LockInv /\ [Next]_vars => LockInv'
    BY LockNext
  <1>2. TypeOK /\ LockInv => LockCoversUpdate
    BY LockCovers
  <1> QED BY LockInit, <1>1, <1>2, TypeCorrect, PTL DEF Spec

-----------------------------------------------------------------------------
(* The data.                                                               *)

\* The new version has neither been installed nor run.
Fresh == db = "old" /\ services # "new" /\ install.registered # "new"

\* Where that is so: before the installer is done, while the caller is there,
\* and in the ways back from a step before the install.
StillFresh ==
  /\ caller # "gone" => Fresh
  /\ helper.at \in {"off", "join", "wait", "verify", "list", "park", "stop", "end",
                    "look", "install", "repair"} => Fresh
  /\ helper.at \in Working /\ helper.phase \in {"none", "parked", "stopped"} => Fresh
  /\ helper.at = "start" =>
       \/ Fresh
       \/ helper.goal = "new" /\ helper.phase = "installed"
       \/ helper.goal = "back" /\ helper.newIn
  /\ helper.at \in {"backstop", "reinstall", "restore"} => helper.goal = "back" /\ helper.newIn

\* An installer that was given up has not let anything of the new version run,
\* until it is found to be the version that is installed.
InstallingIsQuiet ==
  /\ helper.at = "install" /\ kind = "bundle" => helper.phase = "installing"
  /\ helper.at \in Raising /\ helper.phase = "installing" /\ ~helper.raised =>
       db = "old" /\ services # "new"

\* Wherever the old version may be started it finds the old data.
OldFindsOld ==
  /\ install.files = "new" => install.registered = "new"
  /\ helper.at \in {"start", "resume"} /\ install.files = "old" => db = "old"
  /\ helper.at = "done" /\ outcome.state # "failed" /\ install.files = "old" => db = "old"

OutcomeIsLast == outcome.state # "none" => helper.at = "done"

DataInv == StillFresh /\ InstallingIsQuiet /\ OldFindsOld /\ OutcomeIsLast /\ OldRunsOnOldData

\* Every step keeps the old version off new data.
LEMMA DataNext ==
  ASSUME TypeOK, LockInv, DataInv, [Next]_vars
  PROVE  DataInv'
  <1>1. CASE CallerLocks
    BY <1>1
    DEF DataInv, StillFresh, Fresh, InstallingIsQuiet, OldFindsOld, OutcomeIsLast,
        OldRunsOnOldData, system, CallerLocks
  <1>2. CASE CallerRefuses
    BY <1>2
    DEF DataInv, StillFresh, Fresh, InstallingIsQuiet, OldFindsOld, OutcomeIsLast,
        OldRunsOnOldData, system, CallerRefuses
  <1>3. CASE CallerWorks
    BY <1>3
    DEF LockInv, CallerAndWork, DataInv, StillFresh, Fresh, InstallingIsQuiet, OldFindsOld,
        OutcomeIsLast, OldRunsOnOldData, system, CallerWorks
  <1>4. CASE CallerStops
    BY <1>4
    DEF DataInv, StillFresh, Fresh, InstallingIsQuiet, OldFindsOld, OutcomeIsLast,
        OldRunsOnOldData, StopsServices, CallerStops
  <1>5. CASE CallerFails
    BY <1>5
    DEF LockInv, CallerAndWork, DataInv, StillFresh, Fresh, InstallingIsQuiet, OldFindsOld,
        OutcomeIsLast, OldRunsOnOldData, StopFails, Undo, CallerFails
  <1>6. CASE CallerGivesUp
    BY <1>6
    DEF DataInv, StillFresh, Fresh, InstallingIsQuiet, OldFindsOld, OutcomeIsLast,
        OldRunsOnOldData, system, CallerGivesUp
  <1>7. CASE CallerDetaches
    BY <1>7
    DEF LockInv, CallerAndWork, DataInv, StillFresh, Fresh, InstallingIsQuiet, OldFindsOld,
        OutcomeIsLast, OldRunsOnOldData, system, CallerDetaches
  <1>8. CASE CallerAddsPid
    BY <1>8
    DEF DataInv, StillFresh, Fresh, InstallingIsQuiet, OldFindsOld, OutcomeIsLast,
        OldRunsOnOldData, system, CallerAddsPid
  <1>9. CASE CallerEnds
    BY <1>9
    DEF DataInv, StillFresh, Fresh, InstallingIsQuiet, OldFindsOld, OutcomeIsLast,
        OldRunsOnOldData, system, CallerEnds
  <1>10. CASE CallerMissesHelper
    <2>1. Fresh /\ Fresh'
      BY <1>10 DEF DataInv, StillFresh, Fresh, system, CallerMissesHelper
    <2>2. /\ outcome.state = "none" /\ UNCHANGED <<install, outcome>>
          /\ helper'.at \in {"resume", "dead"}
      BY <1>10 DEF TypeOK, Work, DataInv, OutcomeIsLast, system, Undo, CallerMissesHelper
    <2> QED BY <2>1, <2>2
        DEF DataInv, StillFresh, Fresh, InstallingIsQuiet, OldFindsOld, OutcomeIsLast,
            OldRunsOnOldData
  <1>11. CASE HelperJoins
    BY <1>11
    DEF DataInv, StillFresh, Fresh, InstallingIsQuiet, OldFindsOld, OutcomeIsLast,
        OldRunsOnOldData, system, Go, HelperJoins
  <1>12. CASE CallerGone
    BY <1>12
    DEF DataInv, StillFresh, Fresh, InstallingIsQuiet, OldFindsOld, OutcomeIsLast,
        OldRunsOnOldData, system, Go, CallerGone
  <1>13. CASE CallerStays
    BY <1>13
    DEF DataInv, StillFresh, Fresh, InstallingIsQuiet, OldFindsOld, OutcomeIsLast,
        OldRunsOnOldData, system, Finish, CallerStays
  <1>14. CASE InstallerVerified
    BY <1>14
    DEF DataInv, StillFresh, Fresh, InstallingIsQuiet, OldFindsOld, OutcomeIsLast,
        OldRunsOnOldData, system, Go, InstallerVerified
  <1>15. CASE InstallerChanged
    BY <1>15
    DEF DataInv, StillFresh, Fresh, InstallingIsQuiet, OldFindsOld, OutcomeIsLast,
        OldRunsOnOldData, system, Finish, InstallerChanged
  <1>16. CASE ListSeats
    BY <1>16
    DEF DataInv, StillFresh, Fresh, InstallingIsQuiet, OldFindsOld, OutcomeIsLast,
        OldRunsOnOldData, system, ListSeats
  <1>17. CASE \E h \in Seat : ParkSeat(h)
    BY <1>17
    DEF DataInv, StillFresh, Fresh, InstallingIsQuiet, OldFindsOld, OutcomeIsLast,
        OldRunsOnOldData, ParkSeat
  <1>18. CASE \E h \in Seat : ParkFails(h)
    BY <1>18
    DEF DataInv, StillFresh, Fresh, InstallingIsQuiet, OldFindsOld, OutcomeIsLast,
        OldRunsOnOldData, ParkFails
  <1>19. CASE \E h \in Seat : ResumeSeat(h)
    BY <1>19
    DEF DataInv, StillFresh, Fresh, InstallingIsQuiet, OldFindsOld, OutcomeIsLast,
        OldRunsOnOldData, ResumeSeat
  <1>20. CASE \E h \in Seat : ResumeFails(h)
    BY <1>20
    DEF DataInv, StillFresh, Fresh, InstallingIsQuiet, OldFindsOld, OutcomeIsLast,
        OldRunsOnOldData, ResumeFails
  <1>21. CASE ParkDone
    BY <1>21
    DEF DataInv, StillFresh, Fresh, InstallingIsQuiet, OldFindsOld, OutcomeIsLast,
        OldRunsOnOldData, system, Undo, ParkDone
  <1>22. CASE Stop
    BY <1>22
    DEF DataInv, StillFresh, Fresh, InstallingIsQuiet, OldFindsOld, OutcomeIsLast,
        OldRunsOnOldData, StopsServices, Stop
  <1>23. CASE StopRefused
    BY <1>23
    DEF DataInv, StillFresh, Fresh, InstallingIsQuiet, OldFindsOld, OutcomeIsLast,
        OldRunsOnOldData, StopFails, StopRefused
  <1>24. CASE EndParkedShells
    BY <1>24
    DEF DataInv, StillFresh, Fresh, InstallingIsQuiet, OldFindsOld, OutcomeIsLast,
        OldRunsOnOldData, Go, EndParkedShells
  <1>25. CASE FolderIsFree
    BY <1>25
    DEF DataInv, StillFresh, Fresh, InstallingIsQuiet, OldFindsOld, OutcomeIsLast,
        OldRunsOnOldData, system, FolderIsFree
  <1>26. CASE FolderIsHeld
    BY <1>26
    DEF DataInv, StillFresh, Fresh, InstallingIsQuiet, OldFindsOld, OutcomeIsLast,
        OldRunsOnOldData, system, Back, FolderIsHeld
  <1>27. CASE InstallSucceeds
    BY <1>27
    DEF TypeOK, LockInv, CallerAndWork, DataInv, StillFresh, InstallingIsQuiet, OldFindsOld,
        OutcomeIsLast, OldRunsOnOldData, Committed, InstallSucceeds
  <1>28. CASE InstallNeedsReboot
    BY <1>28
    DEF TypeOK, LockInv, CallerAndWork, DataInv, StillFresh, InstallingIsQuiet, OldFindsOld,
        OutcomeIsLast, OldRunsOnOldData, Back, NeedsReboot, InstallNeedsReboot
  <1>29. CASE InstallFails
    <2>1. /\ helper' = Back([helper EXCEPT !.phase = "stopped"], kind = "tool")
          /\ install'.registered = "old" /\ install'.files # "new"
          /\ UNCHANGED <<kind, caller, db, services, outcome>>
      BY <1>29 DEF RolledBack, InstallFails
    <2>2. /\ helper'.at = IF kind = "tool" THEN "backstop" ELSE "start"
          /\ helper'.goal = "back" /\ helper'.newIn = (kind = "tool")
          /\ helper'.phase = "stopped"
      BY <2>1 DEF Back
    <2>3. Fresh /\ Fresh'
      BY <1>29, <2>1 DEF DataInv, StillFresh, Fresh, InstallFails
    <2>4. outcome.state = "none"
      BY <1>29 DEF DataInv, OutcomeIsLast, InstallFails
    <2> QED BY <2>1, <2>2, <2>3, <2>4
        DEF DataInv, StillFresh, Fresh, InstallingIsQuiet, OldFindsOld, OutcomeIsLast,
            OldRunsOnOldData
  <1>30. CASE InstallTimesOut
    <2>1. /\ helper' = Back(helper, install'.registered = "new")
          /\ install'.files = "new" => install'.registered = "new"
          /\ UNCHANGED <<kind, caller, db, services, outcome>>
      BY <1>30 DEF RolledBack, Committed, NeedsReboot, InstallTimesOut
    <2>2. /\ helper'.at = IF install'.registered = "new" THEN "backstop" ELSE "start"
          /\ helper'.goal = "back" /\ helper'.newIn = (install'.registered = "new")
          /\ helper'.phase = "installing"
      BY <1>30, <2>1 DEF Back, DataInv, InstallingIsQuiet, InstallTimesOut
    <2>3. Fresh /\ caller = "gone"
      BY <1>30, AloneInLock DEF DataInv, StillFresh, InstallTimesOut, Working
    <2>4. outcome.state = "none"
      BY <1>30 DEF DataInv, OutcomeIsLast, InstallTimesOut
    <2> QED BY <2>1, <2>2, <2>3, <2>4
        DEF DataInv, StillFresh, Fresh, InstallingIsQuiet, OldFindsOld, OutcomeIsLast,
            OldRunsOnOldData
  <1>31. CASE Starts
    BY <1>31
    DEF DataInv, StillFresh, Fresh, InstallingIsQuiet, OldFindsOld, OutcomeIsLast,
        OldRunsOnOldData, Working, Raising, StartsInstalled, Boot, Heard, AfterStart, Back,
        Starts
  <1>32. CASE StartsUnhealthy
    BY <1>32
    DEF DataInv, StillFresh, Fresh, InstallingIsQuiet, OldFindsOld, OutcomeIsLast,
        OldRunsOnOldData, Working, Raising, StartsInstalled, Boot, Heard, AfterStart, Back,
        StartsUnhealthy
  <1>33. CASE StillRuns
    BY <1>33
    DEF DataInv, StillFresh, Fresh, InstallingIsQuiet, OldFindsOld, OutcomeIsLast,
        OldRunsOnOldData, Working, Raising, system, Heard, AfterStart, Back, StillRuns
  <1>34. CASE BackStops
    BY <1>34
    DEF DataInv, StillFresh, Fresh, InstallingIsQuiet, OldFindsOld, OutcomeIsLast,
        OldRunsOnOldData, Working, Raising, StopsServices, StopFails, Go, BackStops
  <1>35. CASE NoWayBack
    BY <1>35
    DEF DataInv, StillFresh, Fresh, InstallingIsQuiet, OldFindsOld, OutcomeIsLast,
        OldRunsOnOldData, Working, Raising, system, Finish, NoWayBack
  <1>36. CASE Reinstall
    BY <1>36
    DEF DataInv, StillFresh, Fresh, InstallingIsQuiet, OldFindsOld, OutcomeIsLast,
        OldRunsOnOldData, Working, Raising, Removals, Installs, Reinstall
  <1>37. CASE ToolReinstall
    BY <1>37
    DEF TypeOK, Files, DataInv, StillFresh, Fresh, InstallingIsQuiet, OldFindsOld,
        OutcomeIsLast, OldRunsOnOldData, Working, Raising, ToolReinstall
  <1>38. CASE Restore
    BY <1>38
    DEF DataInv, StillFresh, Fresh, InstallingIsQuiet, OldFindsOld, OutcomeIsLast,
        OldRunsOnOldData, Working, Raising, Go, Restore
  <1>39. CASE Repair
    BY <1>39
    DEF DataInv, StillFresh, Fresh, InstallingIsQuiet, OldFindsOld, OutcomeIsLast,
        OldRunsOnOldData, StopsServices, StopFails, Repaired, Repair
  <1>40. CASE NoRepair
    BY <1>40
    DEF DataInv, StillFresh, Fresh, InstallingIsQuiet, OldFindsOld, OutcomeIsLast,
        OldRunsOnOldData, system, NoRepair
  <1>41. CASE ResumeDone
    BY <1>41
    DEF DataInv, StillFresh, InstallingIsQuiet, OldFindsOld, OutcomeIsLast,
        OldRunsOnOldData, Working, Raising, system, Finish, ResumeDone
  <1>42. CASE HelperRaises
    <2>1. helper.at \in Working /\ caller = "gone" /\ helper'.at \in {"start", "backstop"}
      BY <1>42, RecoverAt, AloneInLock DEF TypeOK, Working, Raising, HelperRaises
    <2>2. /\ helper' = Recover /\ ~helper.raised /\ helper.at \in Raising
          /\ kind = "bundle" /\ UNCHANGED <<kind, caller, outcome>>
      BY <1>42 DEF HelperRaises
    <2>3. outcome.state = "none"
      BY <2>1 DEF Working, DataInv, OutcomeIsLast
    <2>4. install'.files = "new" => install'.registered = "new"
      BY <1>42
      DEF DataInv, OldFindsOld, HelperRaises, CutShort, StartsInstalled, Committed,
          NeedsReboot, RolledBack, Removals, Installs, Repaired
    <2>5. services' = "old" /\ db' = "new" => FALSE
      BY <1>42, <2>1, <2>3
      DEF DataInv, OldFindsOld, OldRunsOnOldData, Working, HelperRaises, CutShort,
          StopsServices, StartsInstalled, Boot
    <2>6. ASSUME Fresh, helper.at # "install"
          PROVE  Fresh'
      BY <1>42, <2>6
      DEF DataInv, Fresh, OldFindsOld, HelperRaises, CutShort, StopsServices,
          StartsInstalled, Boot, Removals, Installs, Repaired
    <2>7. ASSUME db = "old", services # "new", install'.registered # "new"
          PROVE  Fresh'
      BY <1>42, <2>4, <2>7
      DEF Fresh, HelperRaises, CutShort, StopsServices, StartsInstalled, Boot
    <2>8. CASE helper.phase \in {"parked", "stopped"}
      <3>1. /\ helper'.at = "start" /\ helper'.goal = "recover" /\ helper'.raised
            /\ helper'.phase = helper.phase
        BY <2>2, <2>8 DEF TypeOK, Work, Recover
      <3>2. helper.at # "install" /\ Fresh
        BY <2>1, <2>2, <2>8 DEF DataInv, StillFresh, InstallingIsQuiet
      <3> QED BY <2>1, <2>2, <2>3, <2>4, <2>5, <2>6, <3>1, <3>2
          DEF DataInv, StillFresh, Fresh, InstallingIsQuiet, OldFindsOld, OutcomeIsLast,
              OldRunsOnOldData
    <2>9. CASE helper.phase = "installing"
      <3>1. /\ helper'.at = IF install'.registered = "new" THEN "backstop" ELSE "start"
            /\ helper'.goal = "back" /\ helper'.raised
            /\ helper'.newIn = (install'.registered = "new")
            /\ helper'.phase = "installing"
        BY <2>2, <2>9 DEF TypeOK, Work, Recover, Back
      <3>2. db = "old" /\ services # "new"
        BY <2>2, <2>9 DEF DataInv, InstallingIsQuiet
      <3> QED BY <2>1, <2>2, <2>3, <2>4, <2>5, <2>7, <3>1, <3>2
          DEF DataInv, StillFresh, Fresh, InstallingIsQuiet, OldFindsOld, OutcomeIsLast,
              OldRunsOnOldData
    <2>10. CASE helper.phase \in {"none", "installed"}
      <3>1. /\ helper'.at = "backstop" /\ helper'.goal = "back" /\ helper'.raised
            /\ helper'.newIn /\ helper'.phase = helper.phase
        BY <2>2, <2>10 DEF Recover, Back
      <3>2. helper.phase = "none" => helper.at # "install" /\ Fresh
        BY <2>1, <2>2 DEF DataInv, StillFresh, InstallingIsQuiet
      <3> QED BY <2>1, <2>2, <2>3, <2>4, <2>5, <2>6, <2>10, <3>1, <3>2
          DEF DataInv, StillFresh, InstallingIsQuiet, OldFindsOld, OutcomeIsLast,
              OldRunsOnOldData
    <2> QED BY <2>8, <2>9, <2>10 DEF TypeOK, Work
  <1>43. CASE HelperCrashes
    BY <1>43
    DEF DataInv, StillFresh, InstallingIsQuiet, OldFindsOld, OutcomeIsLast,
        OldRunsOnOldData, Working, Raising, CutShort, StartsInstalled, Committed,
        NeedsReboot, RolledBack, Removals, Installs, Repaired, Finish, HelperCrashes
  <1>44. CASE HelperKilled
    BY <1>44
    DEF LockInv, CallerAndWork, DataInv, StillFresh, Fresh, InstallingIsQuiet, OldFindsOld,
        OutcomeIsLast, OldRunsOnOldData, Working, Raising, CutShort, StartsInstalled,
        Committed, NeedsReboot, RolledBack, Removals, Installs, Repaired, Go, HelperKilled
  <1>45. CASE UserStarts
    <2>1. helper.at \notin Working
      BY <1>45, LockCovers DEF LockCoversUpdate, UserStarts
    <2> QED BY <1>45, <2>1
        DEF TypeOK, Work, DataInv, StillFresh, Fresh, InstallingIsQuiet, OldFindsOld,
            OutcomeIsLast, OldRunsOnOldData, Raising, At, StartsInstalled, Boot, UserStarts
  <1>46. CASE PoolPass
    BY <1>46
    DEF DataInv, StillFresh, Fresh, InstallingIsQuiet, OldFindsOld, OutcomeIsLast,
        OldRunsOnOldData, PoolPass
  <1>47. CASE \E h \in Seat : MailResumes(h)
    BY <1>47
    DEF DataInv, StillFresh, Fresh, InstallingIsQuiet, OldFindsOld, OutcomeIsLast,
        OldRunsOnOldData, MailResumes
  <1>48. CASE UNCHANGED vars
    BY <1>48
    DEF DataInv, StillFresh, Fresh, InstallingIsQuiet, OldFindsOld, OutcomeIsLast,
        OldRunsOnOldData, vars
  <1> QED
    BY <1>1, <1>2, <1>3, <1>4, <1>5, <1>6, <1>7, <1>8, <1>9, <1>10, <1>11, <1>12, <1>13, <1>14,
       <1>15, <1>16, <1>17, <1>18, <1>19, <1>20, <1>21, <1>22, <1>23, <1>24, <1>25, <1>26,
       <1>27, <1>28, <1>29, <1>30, <1>31, <1>32, <1>33, <1>34, <1>35, <1>36, <1>37, <1>38,
       <1>39, <1>40, <1>41, <1>42, <1>43, <1>44, <1>45, <1>46, <1>47, <1>48
    DEF Next, CallerSteps, HelperSteps

\* The old version never runs on data the new one has changed, unless the helper
\* was killed or the outcome says that the update failed.
THEOREM OldDataForOld == Spec => []OldRunsOnOldData
  <1>1. Init => LockInv /\ DataInv
    BY LockInit
    DEF Init, DataInv, StillFresh, Fresh, InstallingIsQuiet, OldFindsOld, OutcomeIsLast,
       OldRunsOnOldData, Working, Raising
  <1>2. TypeOK /\ LockInv /\ DataInv /\ [Next]_vars => LockInv' /\ DataInv'
    BY LockNext, DataNext
  <1>3. DataInv => OldRunsOnOldData
    BY DEF DataInv
  <1> QED BY <1>1, <1>2, <1>3, TypeCorrect, PTL DEF Spec

-----------------------------------------------------------------------------
(* The outcome.                                                            *)

\* Up to the end of the install.
Early == {"join", "wait", "verify", "list", "park", "stop", "end", "look", "install"}

Previous == [registered |-> "old", files |-> "old"]

\* Until then the previous version is installed, nobody has asked which version
\* answers, and nobody has put one back.
NothingYet ==
  caller # "gone" \/ helper.at \in Early =>
    install = Previous /\ helper.got = "none" /\ ~helper.reinstalled

\* The files of the old product go with its registration, and none with none.
FilesMatch ==
  /\ install.files = "old" => install.registered = "old"
  /\ install.files = "none" => install.registered = "none"

\* Nothing runs of an installation that was left half done.
HalfIsDown ==
  kind = "bundle" =>
    /\ helper.at = "install" => services = "down"
    /\ helper.at \in Working /\ install.registered = "old" /\ install.files = "mixed" =>
         services = "down"

\* A product is removed only on the way back from an install, and what may raise
\* comes after the parking.
RemovedLate ==
  kind = "bundle" =>
    /\ helper.at \in {"backstop", "reinstall", "restore"} =>
         helper.phase \in {"installing", "installed"}
    /\ install.registered = "none" => helper.phase \in {"installing", "installed"}
    /\ helper.at \in Raising => helper.phase # "none"

\* A reinstall that worked has left the files of the old version.
ReinstalledIsOld ==
  /\ helper.at \in {"backstop", "reinstall"} => ~helper.reinstalled
  /\ helper.at \in {"restore", "start", "repair", "resume"} /\ helper.reinstalled =>
       install.files = "old"

\* What is installed when a start is tried, for each thing it is tried for.
StartHas ==
  /\ helper.at \in {"start", "resume"} /\ helper.goal = "new" => install = Committed
  /\ helper.goal = "recover" => kind = "bundle"
  /\ helper.at \in {"start", "resume"} /\ helper.goal = "recover" => install.registered = "old"

\* The version that answered is the one that runs, and the installed one if
\* that could be started.
AnswerIs ==
  /\ helper.at = "repair" => helper.got = "none" /\ helper.goal = "back"
  /\ helper.at = "resume" =>
       /\ helper.goal = "new" => helper.got = "new"
       /\ helper.got # "none" => services = helper.got
       /\ helper.got # "none" /\ install.files \in Version => install.files = helper.got

TruthInv ==
  /\ NothingYet /\ FilesMatch /\ HalfIsDown /\ RemovedLate
  /\ ReinstalledIsOld /\ StartHas /\ AnswerIs

\* Every step keeps what is known of the install and of the answer.
LEMMA TruthNext ==
  ASSUME TypeOK, LockInv, DataInv, TruthInv, [Next]_vars
  PROVE  TruthInv'
  <1>1. CASE CallerLocks
    BY <1>1
    DEF TruthInv, NothingYet, FilesMatch, HalfIsDown, RemovedLate, ReinstalledIsOld,
        StartHas, AnswerIs, system, CallerLocks
  <1>2. CASE CallerRefuses
    BY <1>2
    DEF TruthInv, NothingYet, FilesMatch, HalfIsDown, RemovedLate, ReinstalledIsOld,
        StartHas, AnswerIs, system, CallerRefuses
  <1>3. CASE CallerWorks
    BY <1>3
    DEF TruthInv, NothingYet, FilesMatch, HalfIsDown, RemovedLate, ReinstalledIsOld,
        StartHas, AnswerIs, system, CallerWorks
  <1>4. CASE CallerStops
    BY <1>4
    DEF TruthInv, NothingYet, FilesMatch, HalfIsDown, RemovedLate, ReinstalledIsOld,
        StartHas, AnswerIs, Raising, StopsServices, CallerStops
  <1>5. CASE CallerFails
    BY <1>5
    DEF TruthInv, NothingYet, FilesMatch, HalfIsDown, RemovedLate, ReinstalledIsOld,
        StartHas, AnswerIs, Previous, Raising, StopFails, Undo, CallerFails
  <1>6. CASE CallerGivesUp
    BY <1>6
    DEF TruthInv, NothingYet, FilesMatch, HalfIsDown, RemovedLate, ReinstalledIsOld,
        StartHas, AnswerIs, Working, Raising, system, CallerGivesUp
  <1>7. CASE CallerDetaches
    BY <1>7
    DEF TruthInv, NothingYet, FilesMatch, HalfIsDown, RemovedLate, ReinstalledIsOld,
        StartHas, AnswerIs, Working, Raising, system, CallerDetaches
  <1>8. CASE CallerAddsPid
    BY <1>8
    DEF TruthInv, NothingYet, FilesMatch, HalfIsDown, RemovedLate, ReinstalledIsOld,
        StartHas, AnswerIs, system, CallerAddsPid
  <1>9. CASE CallerEnds
    BY <1>9
    DEF TruthInv, NothingYet, FilesMatch, HalfIsDown, RemovedLate, ReinstalledIsOld,
        StartHas, AnswerIs, system, CallerEnds
  <1>10. CASE CallerMissesHelper
    <2>1. /\ helper'.at \in {"resume", "dead"}
          /\ helper'.at = "resume" => kind = "tool" /\ helper'.goal = "lost"
          /\ helper'.got = helper.got /\ helper'.reinstalled = helper.reinstalled
          /\ helper'.phase = helper.phase /\ helper'.goal \in {helper.goal, "lost"}
          /\ UNCHANGED <<kind, install, services>> /\ caller # "gone"
      BY <1>10 DEF TypeOK, Work, Undo, system, CallerMissesHelper
    <2> QED BY <2>1
        DEF TruthInv, NothingYet, FilesMatch, HalfIsDown, RemovedLate, ReinstalledIsOld,
            StartHas, AnswerIs, Working, Raising
  <1>11. CASE HelperJoins
    BY <1>11
    DEF TruthInv, NothingYet, FilesMatch, HalfIsDown, RemovedLate, ReinstalledIsOld,
        StartHas, AnswerIs, Early, Working, Raising, system, Go, HelperJoins
  <1>12. CASE CallerGone
    BY <1>12
    DEF TruthInv, NothingYet, FilesMatch, HalfIsDown, RemovedLate, ReinstalledIsOld,
        StartHas, AnswerIs, Previous, Early, Raising, system, Go, CallerGone
  <1>13. CASE CallerStays
    BY <1>13
    DEF TruthInv, NothingYet, FilesMatch, HalfIsDown, RemovedLate, ReinstalledIsOld,
        StartHas, AnswerIs, Working, Raising, system, Finish, CallerStays
  <1>14. CASE InstallerVerified
    BY <1>14
    DEF TruthInv, NothingYet, FilesMatch, HalfIsDown, RemovedLate, ReinstalledIsOld,
        StartHas, AnswerIs, Early, Working, Raising, system, Go, InstallerVerified
  <1>15. CASE InstallerChanged
    BY <1>15
    DEF TruthInv, NothingYet, FilesMatch, HalfIsDown, RemovedLate, ReinstalledIsOld,
        StartHas, AnswerIs, Early, Working, Raising, system, Finish, InstallerChanged
  <1>16. CASE ListSeats
    BY <1>16
    DEF TruthInv, NothingYet, FilesMatch, HalfIsDown, RemovedLate, ReinstalledIsOld,
        StartHas, AnswerIs, Early, Working, Raising, system, ListSeats
  <1>17. CASE \E h \in Seat : ParkSeat(h)
    BY <1>17
    DEF TruthInv, NothingYet, FilesMatch, HalfIsDown, RemovedLate, ReinstalledIsOld,
        StartHas, AnswerIs, ParkSeat
  <1>18. CASE \E h \in Seat : ParkFails(h)
    BY <1>18
    DEF TruthInv, NothingYet, FilesMatch, HalfIsDown, RemovedLate, ReinstalledIsOld,
        StartHas, AnswerIs, ParkFails
  <1>19. CASE \E h \in Seat : ResumeSeat(h)
    BY <1>19
    DEF TruthInv, NothingYet, FilesMatch, HalfIsDown, RemovedLate, ReinstalledIsOld,
        StartHas, AnswerIs, ResumeSeat
  <1>20. CASE \E h \in Seat : ResumeFails(h)
    BY <1>20
    DEF TruthInv, NothingYet, FilesMatch, HalfIsDown, RemovedLate, ReinstalledIsOld,
        StartHas, AnswerIs, ResumeFails
  <1>21. CASE ParkDone
    BY <1>21
    DEF TruthInv, NothingYet, FilesMatch, HalfIsDown, RemovedLate, ReinstalledIsOld,
        StartHas, AnswerIs, Previous, Early, system, Undo, ParkDone
  <1>22. CASE Stop
    BY <1>22
    DEF TruthInv, NothingYet, FilesMatch, HalfIsDown, RemovedLate, ReinstalledIsOld,
        StartHas, AnswerIs, Previous, Early, Stop
  <1>23. CASE StopRefused
    BY <1>23
    DEF TruthInv, NothingYet, FilesMatch, HalfIsDown, RemovedLate, ReinstalledIsOld,
        StartHas, AnswerIs, Early, Working, Raising, StopFails, StopRefused
  <1>24. CASE EndParkedShells
    BY <1>24
    DEF TruthInv, NothingYet, FilesMatch, HalfIsDown, RemovedLate, ReinstalledIsOld,
        StartHas, AnswerIs, Early, Working, Raising, Go, EndParkedShells
  <1>25. CASE FolderIsFree
    BY <1>25
    DEF TruthInv, NothingYet, FilesMatch, HalfIsDown, RemovedLate, ReinstalledIsOld,
        StartHas, AnswerIs, Early, system, FolderIsFree
  <1>26. CASE FolderIsHeld
    BY <1>26
    DEF TruthInv, NothingYet, FilesMatch, HalfIsDown, RemovedLate, ReinstalledIsOld,
        StartHas, AnswerIs, Early, Working, Raising, system, Back, FolderIsHeld
  <1>27. CASE InstallSucceeds
    BY <1>27
    DEF TypeOK, LockInv, CallerAndWork, TruthInv, NothingYet, FilesMatch, HalfIsDown,
        RemovedLate, ReinstalledIsOld, StartHas, AnswerIs, Early, Committed, InstallSucceeds
  <1>28. CASE InstallNeedsReboot
    BY <1>28
    DEF TypeOK, LockInv, CallerAndWork, TruthInv, NothingYet, FilesMatch, HalfIsDown,
        RemovedLate, ReinstalledIsOld, StartHas, AnswerIs, Early, Back, NeedsReboot,
        InstallNeedsReboot
  <1>29. CASE InstallFails
    BY <1>29
    DEF TypeOK, LockInv, CallerAndWork, TruthInv, NothingYet, FilesMatch, HalfIsDown,
        RemovedLate, ReinstalledIsOld, StartHas, AnswerIs, Early, Back, RolledBack, InstallFails
  <1>30. CASE InstallTimesOut
    BY <1>30
    DEF TypeOK, LockInv, CallerAndWork, DataInv, InstallingIsQuiet, TruthInv, NothingYet,
        FilesMatch, HalfIsDown, RemovedLate, ReinstalledIsOld, StartHas, AnswerIs, Early,
        Back, RolledBack, Committed, NeedsReboot, InstallTimesOut
  <1>31. CASE Starts
    BY <1>31
    DEF TypeOK, Version, LockInv, CallerAndWork, TruthInv, NothingYet, FilesMatch,
        HalfIsDown, RemovedLate, ReinstalledIsOld, StartHas, AnswerIs, Early, Raising,
        Committed, StartsInstalled, Boot, Heard, AfterStart, Back, Starts
  <1>32. CASE StartsUnhealthy
    BY <1>32
    DEF Version, DataInv, StillFresh, Fresh, TruthInv, NothingYet, FilesMatch, HalfIsDown,
        RemovedLate, ReinstalledIsOld, StartHas, AnswerIs, Early, Working, Raising,
        Committed, StartsInstalled, Heard, AfterStart, Back, StartsUnhealthy
  <1>33. CASE StillRuns
    BY <1>33
    DEF TypeOK, Files, Version, DataInv, StillFresh, Fresh, TruthInv, NothingYet,
        FilesMatch, HalfIsDown, RemovedLate, ReinstalledIsOld, StartHas, AnswerIs, Previous,
        Early, Working, system, Heard, AfterStart, Back, StillRuns
  <1>34. CASE BackStops
    BY <1>34
    DEF TruthInv, NothingYet, FilesMatch, HalfIsDown, RemovedLate, ReinstalledIsOld,
        StartHas, AnswerIs, Early, Working, StopsServices, StopFails, Go, BackStops
  <1>35. CASE NoWayBack
    BY <1>35
    DEF TruthInv, NothingYet, FilesMatch, HalfIsDown, RemovedLate, ReinstalledIsOld,
        StartHas, AnswerIs, Early, Working, system, Finish, NoWayBack
  <1>36. CASE Reinstall
    BY <1>36
    DEF TypeOK, LockInv, CallerAndWork, TruthInv, NothingYet, FilesMatch, HalfIsDown,
        RemovedLate, ReinstalledIsOld, StartHas, AnswerIs, Early, Working, Removals,
        Installs, Reinstall
  <1>37. CASE ToolReinstall
    BY <1>37
    DEF TypeOK, Files, LockInv, CallerAndWork, TruthInv, NothingYet, FilesMatch, HalfIsDown,
        RemovedLate, ReinstalledIsOld, StartHas, AnswerIs, Early, ToolReinstall
  <1>38. CASE Restore
    BY <1>38
    DEF DataInv, StillFresh, TruthInv, NothingYet, FilesMatch, HalfIsDown, RemovedLate,
        ReinstalledIsOld, StartHas, AnswerIs, Early, Working, Go, Restore
  <1>39. CASE Repair
    BY <1>39
    DEF TypeOK, Work, LockInv, CallerAndWork, TruthInv, NothingYet, FilesMatch, HalfIsDown,
        RemovedLate, ReinstalledIsOld, StartHas, AnswerIs, Early, Working, Raising,
        StopsServices, StopFails, Repaired, Repair
  <1>40. CASE NoRepair
    BY <1>40
    DEF TruthInv, NothingYet, FilesMatch, HalfIsDown, RemovedLate, ReinstalledIsOld,
        StartHas, AnswerIs, Early, Working, Raising, system, NoRepair
  <1>41. CASE ResumeDone
    BY <1>41
    DEF TruthInv, NothingYet, FilesMatch, HalfIsDown, RemovedLate, ReinstalledIsOld,
        StartHas, AnswerIs, Early, Working, Raising, system, Finish, ResumeDone
  <1>42. CASE HelperRaises
    <2>1. /\ kind = "bundle" /\ UNCHANGED <<kind, caller>> /\ ~helper.raised
          /\ helper.at \in Raising /\ helper' = Recover
      BY <1>42 DEF HelperRaises
    <2>2. helper.at \in Working /\ caller = "gone" /\ helper'.at \in {"start", "backstop"}
      BY <1>42, RecoverAt, AloneInLock DEF TypeOK, Working, Raising, HelperRaises
    <2>3. helper.at \notin {"install", "reinstall", "repair"} => UNCHANGED install
      BY <1>42 DEF HelperRaises, CutShort
    <2>4. helper.at = "install" => install' \in {Committed, NeedsReboot, install} \cup RolledBack
      BY <1>42 DEF HelperRaises, CutShort
    <2>5. helper.at = "reinstall" =>
            install' \in {install, [registered |-> "none", files |-> "none"], Previous}
      BY <1>42 DEF HelperRaises, CutShort, Removals, Installs, Previous
    <2>6. helper.at = "repair" => install' \in {install, Previous}
      BY <1>42 DEF HelperRaises, CutShort, Repaired, Previous
    <2>7. /\ helper.at # "start" => services' \in {services, "down"}
          /\ helper.at = "start" /\ services' # services => install.files \in Version
      BY <1>42, <2>1 DEF HelperRaises, CutShort, StopsServices, StartsInstalled
    <2>8. /\ install'.files = "old" => install'.registered = "old"
          /\ install'.files = "none" => install'.registered = "none"
          /\ install'.registered = "none" =>
               install.registered = "none" \/ helper.at = "reinstall"
      BY <2>3, <2>4, <2>5, <2>6 DEF TruthInv, FilesMatch, Previous, Committed, NeedsReboot, RolledBack
    <2>9. install'.registered = "old" /\ install'.files = "mixed" => services' = "down"
      BY <2>1, <2>2, <2>3, <2>4, <2>5, <2>6, <2>7 DEF TruthInv, HalfIsDown, Previous, Version
    <2>10. CASE helper.phase \in {"parked", "stopped"}
      <3>1. /\ helper'.at = "start" /\ helper'.goal = "recover"
            /\ helper'.phase = helper.phase /\ helper'.got = helper.got
            /\ helper'.reinstalled = helper.reinstalled
        BY <2>1, <2>10 DEF TypeOK, Work, Recover
      <3> QED BY <2>1, <2>2, <2>3, <2>4, <2>5, <2>6, <2>8, <2>9, <2>10, <3>1
          DEF TypeOK, Files, Version, DataInv, StillFresh, Fresh, InstallingIsQuiet,
              TruthInv, NothingYet, FilesMatch, HalfIsDown, RemovedLate, ReinstalledIsOld,
              StartHas, AnswerIs, Previous, Early, Working
    <2>11. CASE helper.phase = "installing"
      <3>1. /\ helper'.at = IF install'.registered = "new" THEN "backstop" ELSE "start"
            /\ helper'.goal = "back" /\ ~helper'.reinstalled
            /\ helper'.phase = "installing" /\ helper'.got = helper.got
        BY <2>1, <2>11 DEF TypeOK, Work, Recover, Back
      <3> QED BY <2>1, <2>2, <2>3, <2>4, <2>5, <2>6, <2>8, <2>9, <2>11, <3>1
          DEF TruthInv, NothingYet, FilesMatch, HalfIsDown, RemovedLate, ReinstalledIsOld,
              StartHas, AnswerIs, Early
    <2>12. CASE helper.phase \in {"none", "installed"}
      <3>1. /\ helper'.at = "backstop" /\ helper'.goal = "back" /\ ~helper'.reinstalled
            /\ helper'.phase = helper.phase /\ helper'.got = helper.got
        BY <2>1, <2>12 DEF Recover, Back
      <3> QED BY <2>1, <2>2, <2>3, <2>4, <2>5, <2>6, <2>8, <2>9, <2>12, <3>1
          DEF TruthInv, NothingYet, FilesMatch, HalfIsDown, RemovedLate, ReinstalledIsOld,
              StartHas, AnswerIs, Early
    <2> QED BY <2>10, <2>11, <2>12 DEF TypeOK, Work
  <1>43. CASE HelperCrashes
    BY <1>43
    DEF TruthInv, NothingYet, FilesMatch, HalfIsDown, RemovedLate, ReinstalledIsOld,
        StartHas, AnswerIs, Early, Working, CutShort, StartsInstalled, Committed,
        NeedsReboot, RolledBack, Removals, Installs, Repaired, Finish, HelperCrashes
  <1>44. CASE HelperKilled
    BY <1>44
    DEF LockInv, CallerAndWork, TruthInv, NothingYet, FilesMatch, HalfIsDown, RemovedLate,
        ReinstalledIsOld, StartHas, AnswerIs, Early, Working, Raising, CutShort,
        StartsInstalled, Committed, NeedsReboot, RolledBack, Removals, Installs, Repaired,
        Go, HelperKilled
  <1>45. CASE UserStarts
    <2>1. helper.at \notin Working /\ UNCHANGED <<kind, caller, helper, install>>
      BY <1>45, LockCovers DEF LockCoversUpdate, UserStarts
    <2> QED BY <2>1
        DEF TruthInv, NothingYet, FilesMatch, HalfIsDown, RemovedLate, ReinstalledIsOld,
            StartHas, AnswerIs, Working
  <1>46. CASE PoolPass
    BY <1>46
    DEF TruthInv, NothingYet, FilesMatch, HalfIsDown, RemovedLate, ReinstalledIsOld,
        StartHas, AnswerIs, PoolPass
  <1>47. CASE \E h \in Seat : MailResumes(h)
    BY <1>47
    DEF TruthInv, NothingYet, FilesMatch, HalfIsDown, RemovedLate, ReinstalledIsOld,
        StartHas, AnswerIs, MailResumes
  <1>48. CASE UNCHANGED vars
    BY <1>48
    DEF TruthInv, NothingYet, FilesMatch, HalfIsDown, RemovedLate, ReinstalledIsOld,
        StartHas, AnswerIs, vars
  <1> QED
    BY <1>1, <1>2, <1>3, <1>4, <1>5, <1>6, <1>7, <1>8, <1>9, <1>10, <1>11, <1>12, <1>13, <1>14,
       <1>15, <1>16, <1>17, <1>18, <1>19, <1>20, <1>21, <1>22, <1>23, <1>24, <1>25, <1>26,
       <1>27, <1>28, <1>29, <1>30, <1>31, <1>32, <1>33, <1>34, <1>35, <1>36, <1>37, <1>38,
       <1>39, <1>40, <1>41, <1>42, <1>43, <1>44, <1>45, <1>46, <1>47, <1>48
    DEF Next, CallerSteps, HelperSteps

\* A seat that was resumed stays awake to the end of the update.
Awake ==
  /\ caller \notin {"work", "gone"} => helper.resumed = {}
  /\ helper.at \in (Working \ {"resume"}) \cup {"join", "wait"} => helper.resumed = {}
  /\ helper.at = "resume" => \A h \in helper.resumed : seat[h].row = "active"

\* A resume whose shell can be launched ends with the row active.
LEMMA ResumedIsAwake ==
  ASSUME "launch" \notin Trouble, NEW s \in Row, NEW t \in Resumed(s)
  PROVE  t.row = "active"
  BY DEF Resumed

\* No step takes a resumed seat from the pool while the helper works.
LEMMA AwakeNext ==
  ASSUME "launch" \notin Trouble, TypeOK, LockInv, Awake, [Next]_vars
  PROVE  Awake'
  <1>1. CASE CallerLocks
    BY <1>1 DEF Awake, CallerLocks
  <1>2. CASE CallerRefuses
    BY <1>2 DEF Awake, CallerRefuses
  <1>3. CASE CallerWorks
    BY <1>3 DEF Awake, CallerWorks
  <1>4. CASE CallerStops
    BY <1>4 DEF Awake, Working, CallerStops
  <1>5. CASE CallerFails
    BY <1>5 DEF Awake, Working, StopFails, Undo, CallerFails
  <1>6. CASE CallerGivesUp
    BY <1>6 DEF Awake, Working, CallerGivesUp
  <1>7. CASE CallerDetaches
    BY <1>7 DEF Awake, CallerDetaches
  <1>8. CASE CallerAddsPid
    BY <1>8 DEF Awake, CallerAddsPid
  <1>9. CASE CallerEnds
    BY <1>9 DEF Awake, CallerEnds
  <1>10. CASE CallerMissesHelper
    BY <1>10 DEF TypeOK, Work, Awake, Undo, CallerMissesHelper
  <1>11. CASE HelperJoins
    BY <1>11 DEF Awake, Go, HelperJoins
  <1>12. CASE CallerGone
    BY <1>12 DEF Awake, Go, CallerGone
  <1>13. CASE CallerStays
    BY <1>13 DEF Awake, Finish, CallerStays
  <1>14. CASE InstallerVerified
    BY <1>14 DEF Awake, Working, Go, InstallerVerified
  <1>15. CASE InstallerChanged
    BY <1>15 DEF Awake, Working, Finish, InstallerChanged
  <1>16. CASE ListSeats
    BY <1>16 DEF Awake, Working, ListSeats
  <1>17. CASE \E h \in Seat : ParkSeat(h)
    BY <1>17 DEF Awake, ParkSeat
  <1>18. CASE \E h \in Seat : ParkFails(h)
    BY <1>18 DEF Awake, ParkFails
  <1>19. CASE \E h \in Seat : ResumeSeat(h)
    <2>1. PICK h \in Seat : ResumeSeat(h)
      BY <1>19
    <2>2. /\ caller = "gone" \/ caller = "work"
          /\ helper.at = "resume" /\ helper'.at = "resume" /\ UNCHANGED caller
          /\ helper'.resumed = helper.resumed \cup {h}
      BY <2>1 DEF TypeOK, LockInv, CallerAndWork, ResumeSeat
    <2>3. \A k \in Seat : seat[k].row = "active" => seat'[k].row = "active"
      BY <2>1, ResumedIsAwake DEF TypeOK, ResumeSeat
    <2>4. seat'[h].row = "active"
      <3>1. CASE h \in helper.resumed
        BY <2>1, <2>2, <2>3, <3>1 DEF Awake
      <3>2. CASE h \notin helper.resumed
        BY <2>1, <3>2, ResumedIsAwake DEF TypeOK, ResumeSeat
      <3> QED BY <3>1, <3>2
    <2> QED BY <2>2, <2>3, <2>4 DEF TypeOK, Work, Awake
  <1>20. CASE \E h \in Seat : ResumeFails(h)
    BY <1>20 DEF TypeOK, Work, Awake, ResumeFails
  <1>21. CASE ParkDone
    BY <1>21 DEF Awake, Working, Undo, ParkDone
  <1>22. CASE Stop
    BY <1>22 DEF Awake, Working, Stop
  <1>23. CASE StopRefused
    BY <1>23 DEF Awake, Working, StopFails, StopRefused
  <1>24. CASE EndParkedShells
    BY <1>24 DEF Awake, Working, Go, EndParkedShells
  <1>25. CASE FolderIsFree
    BY <1>25 DEF Awake, Working, FolderIsFree
  <1>26. CASE FolderIsHeld
    BY <1>26 DEF Awake, Working, Back, FolderIsHeld
  <1>27. CASE InstallSucceeds
    BY <1>27 DEF Awake, Working, InstallSucceeds
  <1>28. CASE InstallNeedsReboot
    BY <1>28 DEF Awake, Working, Back, InstallNeedsReboot
  <1>29. CASE InstallFails
    BY <1>29 DEF Awake, Working, Back, InstallFails
  <1>30. CASE InstallTimesOut
    BY <1>30 DEF Awake, Working, Back, InstallTimesOut
  <1>31. CASE Starts
    BY <1>31 DEF Awake, Working, StartsInstalled, Heard, AfterStart, Back, Starts
  <1>32. CASE StartsUnhealthy
    BY <1>32 DEF Awake, Working, StartsInstalled, Heard, AfterStart, Back, StartsUnhealthy
  <1>33. CASE StillRuns
    BY <1>33 DEF Awake, Working, Heard, AfterStart, Back, StillRuns
  <1>34. CASE BackStops
    BY <1>34 DEF Awake, Working, StopFails, Go, BackStops
  <1>35. CASE NoWayBack
    BY <1>35 DEF Awake, Working, Finish, NoWayBack
  <1>36. CASE Reinstall
    BY <1>36 DEF Awake, Working, Reinstall
  <1>37. CASE ToolReinstall
    BY <1>37 DEF Awake, Working, ToolReinstall
  <1>38. CASE Restore
    BY <1>38 DEF Awake, Working, Go, Restore
  <1>39. CASE Repair
    BY <1>39 DEF Awake, Working, StopFails, Repair
  <1>40. CASE NoRepair
    BY <1>40 DEF Awake, Working, NoRepair
  <1>41. CASE ResumeDone
    BY <1>41 DEF Awake, Working, Finish, ResumeDone
  <1>42. CASE HelperRaises
    BY <1>42 DEF Awake, Working, Raising, Recover, Back, HelperRaises
  <1>43. CASE HelperCrashes
    BY <1>43 DEF Awake, Working, Finish, HelperCrashes
  <1>44. CASE HelperKilled
    BY <1>44 DEF Awake, Working, Go, HelperKilled
  <1>45. CASE UserStarts
    <2>1. helper.at \notin Working /\ UNCHANGED <<caller, helper>>
      BY <1>45, LockCovers DEF LockCoversUpdate, UserStarts
    <2> QED BY <2>1 DEF Awake, Working
  <1>46. CASE PoolPass
    <2>1. UNCHANGED <<caller, helper>>
      BY <1>46 DEF PoolPass
    <2>2. ASSUME NEW h \in Seat, seat[h].row = "active"
          PROVE  seat'[h].row = "active"
      BY <1>46, <2>2, ResumedIsAwake DEF TypeOK, PoolPass
    <2> QED BY <2>1, <2>2 DEF TypeOK, Work, Awake
  <1>47. CASE \E h \in Seat : MailResumes(h)
    BY <1>47 DEF TypeOK, Work, Awake, MailResumes
  <1>48. CASE UNCHANGED vars
    BY <1>48 DEF Awake, vars
  <1> QED
    BY <1>1, <1>2, <1>3, <1>4, <1>5, <1>6, <1>7, <1>8, <1>9, <1>10, <1>11, <1>12, <1>13, <1>14,
       <1>15, <1>16, <1>17, <1>18, <1>19, <1>20, <1>21, <1>22, <1>23, <1>24, <1>25, <1>26,
       <1>27, <1>28, <1>29, <1>30, <1>31, <1>32, <1>33, <1>34, <1>35, <1>36, <1>37, <1>38,
       <1>39, <1>40, <1>41, <1>42, <1>43, <1>44, <1>45, <1>46, <1>47, <1>48
    DEF Next, CallerSteps, HelperSteps

\* An installation of version v that runs.
Runs(v) == services = v /\ install = [registered |-> v, files |-> v]

\* The two clauses of OutcomeIsTrue: what an outcome says of the versions, and
\* what it says of the seats.
TellsVersions ==
  /\ outcome'.state \in {"ok", "incomplete"} => Runs("new")'
  /\ outcome'.state = "rolled_back" => Runs("old")' /\ db' = "old"
TellsSeats ==
  /\ outcome'.state = "ok" => outcome'.missing = {}
  /\ outcome'.state # "failed" => \A h \in helper.parked : Accounted(h)

\* What the helper writes at the end of its work is so.
LEMMA DoneTellsVersions ==
  ASSUME TypeOK, DataInv, TruthInv, ResumeDone
  PROVE  TellsVersions
  <1>1. /\ outcome'.state = OutcomeState /\ helper.at = "resume"
        /\ UNCHANGED <<install, db, services>>
    BY DEF ResumeDone, Finish, system
  <1>2. ASSUME helper.goal = "new"
        PROVE  Runs("new")
    BY <1>1, <1>2 DEF Runs, TruthInv, StartHas, AnswerIs, Committed
  <1>3. ASSUME install.registered = "old", helper.got \in Version,
               install.files = "old" \/ (kind = "bundle" /\ helper.got = "old")
        PROVE  Runs("old") /\ db = "old"
    <2>1. services = helper.got /\ (install.files \in Version => install.files = helper.got)
      BY <1>1, <1>3 DEF TruthInv, AnswerIs, Version
    <2>2. /\ install.files # "none"
          /\ kind = "bundle" /\ install.files = "mixed" => services = "down"
      BY <1>1, <1>3 DEF TruthInv, FilesMatch, HalfIsDown, Working
    <2>3. install.files = "old" /\ services = "old"
      BY <1>3, <2>1, <2>2 DEF TypeOK, Files, Version
    <2>4. db = "old"
      BY <1>1, <2>3 DEF DataInv, OldFindsOld
    <2> QED BY <1>3, <2>3, <2>4 DEF TypeOK, Files, Runs
  <1>4. ASSUME helper.goal # "new", OutcomeState # "failed"
        PROVE  OutcomeState = "rolled_back" /\ Runs("old") /\ db = "old"
    <2>1. CASE helper.goal = "recover"
      <3>1. OutcomeState = "rolled_back" /\ helper.got = "old"
        BY <1>4, <2>1 DEF OutcomeState
      <3>2. install.registered = "old" /\ kind = "bundle"
        BY <1>1, <2>1 DEF TruthInv, StartHas
      <3> QED BY <1>3, <3>1, <3>2 DEF Version
    <2>2. CASE helper.goal # "recover"
      <3>1. OutcomeState = "rolled_back" /\ BackWorked
        BY <1>4, <2>2 DEF OutcomeState
      <3>2. helper.got \in Version
        BY <3>1 DEF TypeOK, Work, BackWorked, Version
      <3>3. kind = "tool" => install.files = "old" /\ install.registered = "old"
        BY <1>1, <3>1 DEF BackWorked, TruthInv, ReinstalledIsOld, FilesMatch
      <3>4. kind # "tool" => install.registered = "old" /\ helper.got = "old" /\ kind = "bundle"
        BY <3>1 DEF TypeOK, BackWorked
      <3> QED BY <1>3, <3>1, <3>2, <3>3, <3>4
    <2> QED BY <2>1, <2>2
  <1>5. helper.goal = "new" => OutcomeState \in {"ok", "incomplete"}
    BY DEF OutcomeState
  <1> QED BY <1>1, <1>2, <1>4, <1>5 DEF TellsVersions, Runs

LEMMA DoneTellsSeats ==
  ASSUME TypeOK, Awake, ResumeDone
  PROVE  TellsSeats
  <1>1. /\ outcome' = [state |-> OutcomeState, missing |-> IF NamesMissing THEN Missing ELSE {}]
        /\ seat' = seat /\ helper.at = "resume"
    BY DEF ResumeDone, Finish, system
  <1>2. \A h \in helper.parked : Accounted(h)
    BY <1>1 DEF TypeOK, Work, Missing, Awake, Accounted
  <1>3. OutcomeState = "ok" => Missing = {}
    BY DEF OutcomeState
  <1>4. outcome'.state = OutcomeState /\ (Missing = {} => outcome'.missing = {})
    BY <1>1
  <1> QED BY <1>2, <1>3, <1>4 DEF TellsSeats

\* Nobody else writes anything but "failed".
LEMMA OthersFail ==
  ASSUME TypeOK, [Next]_vars, ~ResumeDone, outcome' # outcome
  PROVE  outcome'.state = "failed"
  <1>1. ASSUME CallerSteps
        PROVE  FALSE
    BY <1>1
    DEF CallerSteps, CallerLocks, CallerRefuses, CallerWorks, CallerStops, CallerFails,
        CallerGivesUp, CallerDetaches, CallerAddsPid, CallerEnds, CallerMissesHelper
  <1>2. ASSUME \E h \in Seat : ParkSeat(h) \/ ParkFails(h) \/ ResumeSeat(h) \/ ResumeFails(h)
        PROVE  FALSE
    BY <1>2 DEF ParkSeat, ParkFails, ResumeSeat, ResumeFails
  <1>3. ASSUME \/ HelperJoins \/ CallerGone \/ InstallerVerified \/ ListSeats
               \/ ParkDone \/ Stop \/ StopRefused
               \/ EndParkedShells \/ FolderIsFree \/ FolderIsHeld
        PROVE  FALSE
    BY <1>3
    DEF HelperJoins, CallerGone, InstallerVerified, ListSeats, ParkDone, Stop, StopRefused,
        EndParkedShells, FolderIsFree, FolderIsHeld
  <1>4. ASSUME \/ InstallSucceeds \/ InstallNeedsReboot \/ InstallFails \/ InstallTimesOut
               \/ Starts \/ StartsUnhealthy \/ StillRuns
        PROVE  FALSE
    BY <1>4
    DEF InstallSucceeds, InstallNeedsReboot, InstallFails, InstallTimesOut, Starts,
        StartsUnhealthy, StillRuns
  <1>5. ASSUME BackStops \/ Reinstall \/ ToolReinstall \/ Restore \/ Repair \/ NoRepair
        PROVE  FALSE
    BY <1>5 DEF BackStops, Reinstall, ToolReinstall, Restore, Repair, NoRepair
  <1>6. ASSUME \/ HelperRaises \/ HelperKilled \/ UserStarts \/ PoolPass
               \/ \E h \in Seat : MailResumes(h)
        PROVE  FALSE
    BY <1>6 DEF HelperRaises, HelperKilled, UserStarts, PoolPass, MailResumes
  <1>7. outcome = outcome' \/ CallerStays \/ InstallerChanged \/ NoWayBack \/ HelperCrashes
    BY <1>1, <1>2, <1>3, <1>4, <1>5, <1>6 DEF Next, HelperSteps, vars
  <1>8. outcome' = [state |-> "failed", missing |-> {}]
    BY <1>7 DEF CallerStays, InstallerChanged, NoWayBack, HelperCrashes, Finish
  <1> QED BY <1>8

LEMMA TruthInit == Init => LockInv /\ DataInv /\ TruthInv
  BY LockInit
  DEF Init, DataInv, StillFresh, Fresh, InstallingIsQuiet, OldFindsOld, OutcomeIsLast,
      OldRunsOnOldData, TruthInv, NothingYet, Previous, FilesMatch, HalfIsDown, RemovedLate,
      ReinstalledIsOld, StartHas, AnswerIs, Working, Raising

\* Whatever fails, raises or is killed, an outcome is true of the versions when it
\* is written: "ok" and "incomplete" say that the new version is installed and
\* runs, "rolled_back" that the old one is and runs on the old data
\* (update_helper.py 337-383, 777-942).
THEOREM VersionsAreTold == Spec => [][outcome' # outcome => TellsVersions]_vars
  <1>1. TypeOK /\ LockInv /\ DataInv /\ TruthInv /\ [Next]_vars =>
          LockInv' /\ DataInv' /\ TruthInv'
    BY LockNext, DataNext, TruthNext
  <1>2. TypeOK /\ DataInv /\ TruthInv /\ [Next]_vars => (outcome' # outcome => TellsVersions)
    BY DoneTellsVersions, OthersFail DEF TellsVersions
  <1>3. TypeOK /\ DataInv /\ TruthInv /\ [Next]_vars => [outcome' # outcome => TellsVersions]_vars
    BY <1>2
  <1> QED BY TruthInit, <1>1, <1>3, TypeCorrect, PTL DEF Spec

\* Where the pool can launch what it resumes, an outcome is true of the seats
\* too: after "ok" each seat the update parked is awake, otherwise it is awake or
\* named as missing, and the rollback of a tool environment, which names none, does
\* not list it as resumed (update_helper.py 378-383, 579-596).
THEOREM OutcomesAreTrue ==
  ASSUME "launch" \notin Trouble
  PROVE  Spec => OutcomeIsTrue
  <1> DEFINE Told == outcome' # outcome => TellsVersions /\ TellsSeats
  <1>1. Init => Awake
    BY DEF Init, Awake, Working
  <1>2. TypeOK /\ LockInv /\ DataInv /\ TruthInv /\ Awake /\ [Next]_vars =>
          LockInv' /\ DataInv' /\ TruthInv' /\ Awake'
    BY LockNext, DataNext, TruthNext, AwakeNext
  <1>3. TypeOK /\ DataInv /\ TruthInv /\ Awake /\ [Next]_vars => [Told]_vars
    BY DoneTellsVersions, DoneTellsSeats, OthersFail DEF TellsVersions, TellsSeats
  <1>4. TypeOK /\ [Told]_vars =>
           [outcome' # outcome =>
             LET runs(v) == services' = v /\ install' = [registered |-> v, files |-> v]
             IN  /\ outcome'.state = "ok" => runs("new") /\ outcome'.missing = {}
                 /\ outcome'.state = "incomplete" => runs("new")
                 /\ outcome'.state = "rolled_back" => runs("old") /\ db' = "old"
                 /\ outcome'.state # "failed" => \A h \in helper.parked : Accounted(h)]_vars
    BY DEF TellsVersions, TellsSeats, Runs
  <1> HIDE DEF Told
  <1> QED BY TruthInit, <1>1, <1>2, <1>3, <1>4, TypeCorrect, PTL DEF Spec, OutcomeIsTrue
=============================================================================
