------------------------------- MODULE Tickets -------------------------------
(***************************************************************************)
(* One epic of the board with its stories and tasks: v8/src/edp8/board.py, *)
(* the Standard workflow of workflow.py, and requirements.py.  A request   *)
(* moves one ticket; the board then moves others from the facts it finds   *)
(* (releases a successor, starts or reviews the epic, finishes a ticket    *)
(* whose lines all passed).                                                *)
(*                                                                         *)
(* Every request runs in a worker thread of its own and holds no lock: the *)
(* store's lock covers one read or one write of a row.  So a request here  *)
(* is a stack of what it has still to do.  A step is one look at the       *)
(* tables or one write; a row that is put is put whole, as it was read,    *)
(* with the one change, whatever other requests have put since.  The few   *)
(* requests that lock (link_create, gate_answer, requirements) do so here. *)
(*                                                                         *)
(* Roles are left out: a step is taken by somebody who may take it.        *)
(***************************************************************************)
EXTENDS Naturals, Sequences

CONSTANTS
  Epic, Story, Task,  \* the tickets of one tree
  Worlds,             \* where a run starts and what is asked in it: see Asks
  Home,               \* the story of each task
  Review, Knowledge,  \* stories by work_type (the others deliver)
  Quick,              \* stories the owner opened as quick tasks
  Criterion, On,      \* the acceptance lines, and the ticket of each
  Overridden,         \* lines whose checker the owner chose (not qa)
  Thread              \* the worker threads that serve requests

Below == Story \cup Task
Ticket == {Epic} \cup Below

ASSUME TreeAssumption ==
  /\ Epic \notin Below /\ Story \cap Task = {}
  /\ Home \in [Task -> Story] /\ On \in [Criterion -> Ticket]
  /\ Review \subseteq Story /\ Knowledge \subseteq Story \ Review
  /\ Quick \subseteq Story \ Review /\ Overridden \subseteq Criterion

VARIABLES
  board,   \* the tables: see Boards
  calls,   \* what the request of each thread has still to do: see Frames
  world,   \* the requests that are still made: see Asks
  news,    \* history: what turned against each request while it was at work
  astray   \* history: what nobody looked at again in each ticket: see Slips

vars == <<board, calls, world, news, astray>>

-----------------------------------------------------------------------------
(***************************************************************************)
(* Statuses and tables                                                     *)
(***************************************************************************)
Transitions ==
  [drafted     |-> {"designed", "dropped"},
   designed    |-> {"signed_off", "drafted", "dropped"},
   signed_off  |-> {"ready", "drafted", "dropped"},
   ready       |-> {"in_progress", "blocked", "dropped"},
   in_progress |-> {"in_review", "blocked", "partial", "dropped"},
   in_review   |-> {"done", "in_progress", "partial"},
   blocked     |-> {"ready", "in_progress", "dropped"},
   done        |-> {},
   partial     |-> {"in_progress"},
   dropped     |-> {}]

Status == DOMAIN Transitions
Terminal == {"done", "partial", "dropped"}
Started == {"in_progress", "in_review", "blocked"}

\* The order of _EPIC_PHASE_ORDER; ready, blocked and the terminal statuses
\* are outside it.
Phase == [drafted |-> 1, designed |-> 2, signed_off |-> 3, in_progress |-> 4,
          in_review |-> 5]
Before(s, to) == s \in DOMAIN Phase /\ Phase[s] < Phase[to]

Boards ==
  [status: [Ticket -> Status \cup {"none"}],  \* none: not created
   design: SUBSET Ticket,                     \* those with a design_ref
   lines: SUBSET Criterion,                   \* the lines written so far
   evidence: SUBSET Criterion,                \* those with an evidence_ref
   verdict: [Criterion -> {"pending", "pass", "fail"}],
   blocks: SUBSET (Below \X Below),
   gate: {"none", "open", "answered", "retired"},  \* design_signoff on Epic
   open: BOOLEAN]                             \* the epic has an open requirement

Row(b, t) == [ticket |-> t, status |-> b.status[t], design |-> t \in b.design]
Rows == [ticket: Ticket, status: Status, design: BOOLEAN]
LineRow(b, c) == [line |-> c, evidence |-> c \in b.evidence, verdict |-> b.verdict[c]]
LineRows == [line: Criterion, evidence: BOOLEAN, verdict: {"pending", "pass", "fail"}]

\* A request: what is asked, of which ticket or line, and how.
Asks ==
  ({"create", "edit", "design", "message"} \X Ticket)
    \cup ({"move"} \X Ticket \X Status)
    \cup ({"line"} \X Criterion)
    \cup ({"evidence"} \X Criterion \X BOOLEAN)
    \cup ({"verdict"} \X Criterion \X {"pending", "pass", "fail"})
    \cup ({"link"} \X Below \X Below)
    \cup ({"gate"} \X {"open", "answer"})
    \cup ({"requirement"} \X {"mark", "link"})

\* The epic is there, the lines not written yet are not ruled, and no story or
\* task is in review with all its lines passed.
Possible(b) ==
  /\ b.status[Epic] # "none"
  /\ \A c \in Criterion \ b.lines : b.verdict[c] = "pending"
  /\ \A t \in Below : b.status[t] = "in_review" =>
       \E c \in b.lines : On[c] = t /\ b.verdict[c] # "pass"

\* Bound: a run starts with some board and makes `left` requests of `asks`, in
\* any order, any of them again and again.
ASSUME WorldsAssumption ==
  /\ Worlds \subseteq [board: Boards, asks: SUBSET Asks, left: Nat]
  /\ \A w \in Worlds : Possible(w.board)

Init ==
  /\ \E w \in Worlds : board = w.board /\ world = [asks |-> w.asks, left |-> w.left]
  /\ calls = [th \in Thread |-> <<>>]
  /\ news = [th \in Thread |-> {}]
  /\ astray = [t \in Ticket |-> {}]

-----------------------------------------------------------------------------
(***************************************************************************)
(* What the board reads                                                    *)
(***************************************************************************)
\* store.put of a ticket: the whole row.
PutRow(b, row) ==
  [b EXCEPT !.status[row.ticket] = row.status,
            !.design = IF row.design THEN @ \cup {row.ticket} ELSE @ \ {row.ticket}]

Exists(b, t) == b.status[t] # "none"
Stories(b) == {s \in Story : Exists(b, s)}
LinesAt == [t \in Ticket |-> {c \in Criterion : On[c] = t}]
LinesOf(b, t) == b.lines \cap LinesAt[t]
HasEvidence(b, t) == LinesOf(b, t) # {} /\ LinesOf(b, t) \subseteq b.evidence
AllPassed(b, t) ==
  LinesOf(b, t) # {} /\ \A c \in LinesOf(b, t) : b.verdict[c] = "pass"
HasCheckerLine(b) == LinesOf(b, Epic) \ Overridden # {}

\* _released: the ticket of this row no longer holds back its successors.
ReleasedRow(b, row) ==
  \/ row.status \in Terminal
  \/ row.ticket \in Story /\ row.status = "in_review" /\ HasEvidence(b, row.ticket)

Released(b, t) == ReleasedRow(b, [ticket |-> t, status |-> b.status[t]])

Blockers(b, t) ==
  {f \in Ticket : <<f, t>> \in b.blocks}
    \cup (IF t \in Review THEN Stories(b) \ Review ELSE {})

Unblocked(b, t) == \A f \in Blockers(b, t) : Released(b, f)

\* Mutant: _release_successors without the review story's implicit wait.
SuccessorsLinked(b, t) == {s \in Ticket : <<t, s>> \in b.blocks}

Successors(b, t) ==
  {s \in Ticket : <<t, s>> \in b.blocks}
    \cup (IF t \in Story THEN (Review \cap Stories(b)) \ {t} ELSE {})

\* Mutant: the look before a release forgets the design gate.
ClearDespiteGate(b, t) == Unblocked(b, t)

\* Nothing keeps the signed-off ticket t from being ready.
Clear(b, t) == Unblocked(b, t) /\ b.gate # "open"

HeldBack(b, t) == {Row(b, s) : s \in {x \in Successors(b, t) : b.status[x] = "signed_off"}}

\* Mutant: stories that were never created are read as kids of the epic.
KidRowsUnborn(b) == {Row(b, s) : s \in Story}

KidRows(b) == {Row(b, s) : s \in Stories(b)}
AllReleased(b) == Stories(b) # {} /\ \A s \in Stories(b) : Released(b, s)

-----------------------------------------------------------------------------
(***************************************************************************)
(* What a request has still to do                                          *)
(***************************************************************************)
Do(step, x) == [do |-> step, of |-> x]

Change(row, s) == [row |-> [row EXCEPT !.status = s], was |-> row]
Changes == [row: Rows, was: Rows]

Frames ==
  [do: {"Update", "Put", "PutBack"}, of: Changes]
    \cup [do: {"Follow"}, of: [row: Rows, was: Rows, kids: SUBSET Rows]]
    \cup [do: {"WalkBack"}, of: [row: Rows, was: Rows, from: Ticket]]
    \cup [do: {"Guard"}, of: [row: Rows, to: Status]]
    \cup [do: {"Release", "Parent", "Advance", "Requirements", "Carry"}, of: Rows]
    \cup [do: {"Ready", "Each", "AllIn"}, of: SUBSET Rows]
    \cup [do: {"PutLine"}, of: LineRows] \cup [do: {"AddLine"}, of: Criterion]
    \cup [do: {"Reread", "Reopen", "Recarry", "Retire", "Kids", "ToReview",
               "AskGate", "OpenGate", "Held", "Commit", "Unlock"}, of: Ticket]
    \cup [do: {"Link", "Reconcile"}, of: Below \X Below]

Those(step, rows) == IF rows = {} THEN <<>> ELSE <<Do(step, rows)>>

\* _after_status.  A release of the epic's own successors is left out: no link
\* leads from it.
After(row) ==
  IF row.ticket = Epic
  THEN IF row.status \in Terminal THEN <<Do("Retire", Epic)>>
       ELSE IF row.status = "in_progress" THEN <<Do("Kids", Epic)>>
       ELSE <<>>
  ELSE (IF row.status \in Terminal \cup {"in_review"} THEN <<Do("Release", row)>> ELSE <<>>)
         \o Those("Ready", {r \in {row} : r.status = "signed_off"})
         \o <<Do("Parent", row)>>

Puts(row, s) == <<Do("Put", Change(row, s))>>
Moved(row, s) == Puts(row, s) \o After([row EXCEPT !.status = s])

\* _auto_advance of a row in hand: nothing unless it is in review.
Finish(row) == IF row.status = "in_review" THEN <<Do("Advance", row)>> ELSE <<>>

\* Mutant: _advance_epic_phase without the look at where the epic is.
AdvanceAgain(row, to) ==
  Moved(row, to) \o (IF to = "in_review" THEN Finish([row EXCEPT !.status = to]) ELSE <<>>)

\* _advance_epic_phase: only ever forward, by the row in hand.
AdvanceEpic(row, to) ==
  IF Before(row.status, to)
  THEN Moved(row, to) \o (IF to = "in_review" THEN Finish([row EXCEPT !.status = to]) ELSE <<>>)
  ELSE <<>>

-----------------------------------------------------------------------------
(***************************************************************************)
(* Steps of a request                                                      *)
(***************************************************************************)
Holding(o, locks) == \E i \in 1 .. Len(calls[o]) : calls[o][i].do \in locks

\* A transaction holds the store's lock: nobody else reads or writes.
StoreFree(th) == \A o \in Thread \ {th} : ~Holding(o, {"Commit"})
LockFree(th) == \A o \in Thread \ {th} : ~Holding(o, {"Commit", "Unlock"})

Asked(th, ask) == calls[th] = <<>> /\ StoreFree(th) /\ ask \in world.asks /\ world.left > 0
Doing(th, step) == calls[th] # <<>> /\ Head(calls[th]).do = step /\ StoreFree(th)
Arg(th) == Head(calls[th]).of

\* What in the step from b to d may turn against a request that looked at b.
Adverse(b, d) ==
  {x \in {"open", "gate", "blocked"} :
     \/ x = "open" /\ d.open /\ ~b.open
     \/ x = "gate" /\ d.gate = "open" /\ b.gate # "open"
     \/ x = "blocked" /\ \E t \in Ticket : ~Unblocked(d, t) /\ Unblocked(b, t)}

Step(th, b, todo) ==
  /\ board' = b
  /\ calls' = [calls EXCEPT ![th] = todo]
  /\ news' = [o \in Thread |-> IF (IF o = th THEN todo ELSE calls[o]) = <<>> THEN {}
                               ELSE IF o = th THEN news[o]
                               ELSE news[o] \cup Adverse(board, b)]

\* What a write leaves that no request looks at again (history):
\*   stale     a put was made over another request's, or for kids that changed
\*   edited    an edit did
\*   line      a line was there without its evidence at the hand-off or after it
\*   link      a link walked the ticket back although its blocker was released
\*   reopened  a requirement reopened the epic
Slips == {"stale", "edited", "line", "link", "reopened"}

Slip(t, x) == astray' = [astray EXCEPT ![t] = @ \cup x]

\* A request's first step, which may be all of it.
Serve(th, b, todo) == Step(th, b, todo) /\ world' = [world EXCEPT !.left = @ - 1]
Begin(th, todo) == Serve(th, board, todo) /\ UNCHANGED astray

Look(th, todo) ==
  Step(th, board, todo \o Tail(calls[th])) /\ UNCHANGED <<world, astray>>

Write(th, b) == Step(th, b, Tail(calls[th])) /\ UNCHANGED world

\* The row was put by another request since this one read it.
Overtaken(th) == Row(board, Arg(th).row.ticket) # Arg(th).was

PutsRow(th) == Write(th, PutRow(board, Arg(th).row))

\* The put of a ticket's row, by the request that moves it or by the board.
\* Who is handed off or ends is looked at afresh.
Written(th, stale) ==
  /\ PutsRow(th)
  /\ astray' = [astray EXCEPT ![Arg(th).row.ticket] =
                  (IF Arg(th).row.status \in Terminal \cup {"in_review"} THEN {} ELSE @)
                    \cup (IF stale THEN {"stale"} ELSE {})
                    \cup (IF Arg(th).row.status = "in_review"
                             /\ ~HasEvidence(board, Arg(th).row.ticket)
                          THEN {"line"} ELSE {})]

Put(th) == (Doing(th, "Put") \/ Doing(th, "Update")) /\ Written(th, Overtaken(th))

\* The put of an epic that follows the kids it was read with.
Follow(th) ==
  Doing(th, "Follow") /\ Written(th, Overtaken(th) \/ Arg(th).kids # KidRows(board))

\* The put of a row whose status the request leaves as it read it.
PutBack(th) ==
  /\ Doing(th, "PutBack")
  /\ PutsRow(th)
  /\ Slip(Arg(th).row.ticket, IF Overtaken(th) THEN {"edited"} ELSE {})

\* The put of a successor that _reconcile_blocks walks back to signed_off.
WalkBack(th) ==
  /\ Doing(th, "WalkBack")
  /\ PutsRow(th)
  /\ Slip(Arg(th).row.ticket,
          IF Overtaken(th) \/ Released(board, Arg(th).from) THEN {"link"} ELSE {})

\* _close_open_gates, of the epic that went terminal.
Retire(th) ==
  /\ Doing(th, "Retire")
  /\ Write(th, [board EXCEPT !.gate = IF @ = "open" THEN "retired" ELSE @])
  /\ UNCHANGED astray

\* _release_successors: reads the successors that may have to be promoted ...
Release(th) ==
  /\ Doing(th, "Release")
  /\ Look(th, IF ReleasedRow(board, Arg(th))
              THEN Those("Ready", HeldBack(board, Arg(th).ticket)) ELSE <<>>)

\* ... and looks, for each, at all that it waits on.
Ready(th) ==
  /\ Doing(th, "Ready")
  /\ \E row \in Arg(th) :
       Look(th, (IF Clear(board, row.ticket) THEN Puts(row, "ready") ELSE <<>>)
                  \o Those("Ready", Arg(th) \ {row}))

\* The branches of _after_status by which a story's epic p follows its kids.
EpicFollows(p, kids, row) ==
  LET active == \E k \in kids : k.status \in Started
      follow == <<Do("Follow", [row |-> [p EXCEPT !.status = "in_progress"],
                                was |-> p, kids |-> kids])>>
  IN  IF active /\ p.status \in {"signed_off", "ready"} THEN follow
      ELSE IF p.status = "in_review" /\ row.status \in {"in_progress", "blocked"} THEN follow
      ELSE IF active /\ ~(row.ticket \in Knowledge /\ p.status \in {"drafted", "designed"})
           THEN AdvanceEpic(p, "in_progress")
      ELSE <<>>

\* Mutant: "every story released" as an elif of the branches above it (board.py:1252).
EveryKidElse(p, kids, row) ==
  IF p.status \in {"done", "partial"} \/ EpicFollows(p, kids, row) # <<>> THEN <<>>
  ELSE Those("AllIn", kids)

\* The `if` after them, on the kids that were read before.
EveryKid(p, kids, row) ==
  IF p.status \in {"done", "partial"} THEN <<>> ELSE Those("AllIn", kids)

\* The parent of a story or a task follows it, from the parent's row and the
\* kids that are read here.  A story's own epic is not told of its tasks.
Parent(th) ==
  /\ Doing(th, "Parent")
  /\ LET row == Arg(th)
         p == Row(board, IF row.ticket \in Task THEN Home[row.ticket] ELSE Epic)
         started == \E k \in Task : Home[k] = p.ticket /\ board.status[k] \in Started
     IN  Look(th, IF row.ticket \notin Task
                  THEN EpicFollows(p, KidRows(board), row) \o EveryKid(p, KidRows(board), row)
                  ELSE IF started /\ p.status \in {"signed_off", "ready"}
                       THEN Puts(p, "in_progress")
                  ELSE <<>>)

\* An epic in progress reads its stories.
Kids(th) == Doing(th, "Kids") /\ Look(th, Those("AllIn", KidRows(board)))

AllIn(th) ==
  /\ Doing(th, "AllIn")
  /\ Look(th, IF \A k \in Arg(th) : ReleasedRow(board, k) THEN <<Do("ToReview", Epic)>> ELSE <<>>)

ToReview(th) == Doing(th, "ToReview") /\ Look(th, AdvanceEpic(Row(board, Epic), "in_review"))

\* Mutant: _auto_advance of the epic without the look at its open requirements.
SettledAnyway(b) == TRUE

Settled(b) == ~b.open

\* _auto_advance: reads the lines; for the epic then the requirements.
Advance(th) ==
  /\ Doing(th, "Advance")
  /\ LET row == Arg(th)
     IN  Look(th, IF ~AllPassed(board, row.ticket) THEN <<>>
                  ELSE IF row.ticket # Epic THEN Moved(row, "done")
                  ELSE IF HasCheckerLine(board) THEN <<Do("Requirements", row)>>
                  ELSE <<>>)

Requirements(th) ==
  /\ Doing(th, "Requirements")
  /\ Look(th, IF Settled(board) THEN Moved(Arg(th), "done") ELSE <<>>)

\* _auto_advance(self.ticket(id)): the row is read again.
Reread(th) == Doing(th, "Reread") /\ Look(th, Finish(Row(board, Arg(th))))

\* auto_carry: a drafted epic with its design and a line is designed.
Carry(th) ==
  /\ Doing(th, "Carry")
  /\ LET row == Arg(th)
     IN  Look(th, IF row.status = "drafted" /\ row.design /\ LinesOf(board, Epic) # {}
                  THEN AdvanceEpic(row, "designed") ELSE <<>>)

Recarry(th) == Doing(th, "Recarry") /\ Look(th, <<Do("Carry", Row(board, Epic))>>)

-----------------------------------------------------------------------------
(***************************************************************************)
(* Requests                                                                *)
(***************************************************************************)
\* Under the board's lock, which also derives the caps.
TicketCreate(th, t) ==
  /\ Asked(th, <<"create", t>>) /\ LockFree(th)
  /\ t # Epic /\ ~Exists(board, t)
  /\ t \in Task => Exists(board, Home[t])
  /\ Serve(th, [board EXCEPT !.status[t] = IF t \in Quick THEN "ready" ELSE "drafted"], <<>>)
  /\ UNCHANGED astray

\* ticket_update(status=...): reads the row ...
TicketUpdate(th, t, to) ==
  /\ Asked(th, <<"move", t, to>>) /\ Exists(board, t)
  /\ to \in Transitions[board.status[t]]
  /\ Begin(th, <<Do("Guard", [row |-> Row(board, t), to |-> to])>>)

\* What _arrive_guards asks of a move of this row into status `to`.
MayArrive(b, row, to) ==
  LET t == row.ticket
  IN  CASE to = "designed"  -> (row.design \/ t \in Task \cup Quick) /\ LinesOf(b, t) # {}
        [] to = "ready"     -> Unblocked(b, t)
        [] to = "in_review" -> HasEvidence(b, t)
        [] to = "done"      -> AllPassed(b, t) /\ (t = Epic => HasCheckerLine(b) /\ Settled(b))
        [] to = "partial"   -> t = Epic => Settled(b)
        [] OTHER            -> TRUE

\* Mutant: ticket_update without the _auto_advance after a hand-off.
HandedOffOnly(row, to) == <<>>

HandedOff(row, to) ==
  IF to = "in_review" /\ row.ticket # Epic THEN <<Do("Reread", row.ticket)>> ELSE <<>>

\* ... then asks its guards, and puts the row or refuses.
Guard(th) ==
  /\ Doing(th, "Guard")
  /\ LET row == Arg(th).row
         to == Arg(th).to
     IN  Look(th, IF MayArrive(board, row, to)
                  THEN <<Do("Update", Change(row, to))>>
                         \o After([row EXCEPT !.status = to]) \o HandedOff(row, to)
                  ELSE <<>>)

\* ticket_update(design_ref=...).  Bound: only of a ticket read as drafted.
SetDesign(th, t) ==
  /\ Asked(th, <<"design", t>>) /\ board.status[t] = "drafted"
  /\ LET row == Row(board, t)
         designed == [row EXCEPT !.design = TRUE]
     IN  Begin(th, <<Do("PutBack", [row |-> designed, was |-> row])>>
                     \o (IF t = Epic THEN <<Do("Carry", designed)>> ELSE <<>>))

\* ticket_update(title=...) and the like.
Edit(th, t) ==
  /\ Asked(th, <<"edit", t>>) /\ Exists(board, t)
  /\ Begin(th, <<Do("PutBack", Change(Row(board, t), board.status[t]))>>)

\* criterion_create: looks at the ticket, then adds the line under the lock.
CriterionCreate(th, c) ==
  /\ Asked(th, <<"line", c>>) /\ c \notin board.lines /\ Exists(board, On[c])
  /\ board.status[On[c]] \notin Terminal \cup {"in_review"}
  /\ Begin(th, <<Do("AddLine", c)>> \o (IF On[c] = Epic THEN <<Do("Recarry", Epic)>> ELSE <<>>))

AddLine(th) ==
  /\ Doing(th, "AddLine") /\ LockFree(th)
  /\ LET t == On[Arg(th)]
     IN  /\ Write(th, [board EXCEPT !.lines = @ \cup {Arg(th)}])
         /\ Slip(t, IF board.status[t] \in Terminal \cup {"in_review"} THEN {"line"} ELSE {})

\* criterion_update reads the line and later puts all of it.  byOwner: a line
\* of a quick task that the owner touches and that stands failed sends the
\* task back.  Then the ticket is looked at again.
UpdateLine(th, row, byOwner) ==
  LET t == On[row.line]
  IN  Begin(th, <<Do("PutLine", row)>>
                  \o (IF byOwner /\ t \in Quick /\ row.verdict = "fail"
                      THEN <<Do("Reopen", t)>> ELSE <<>>)
                  \o <<Do("Reread", t)>>)

\* criterion_update(evidence_ref=...), at any status of the ticket.
CriterionEvidence(th, c, byOwner) ==
  /\ Asked(th, <<"evidence", c, byOwner>>) /\ c \in board.lines
  /\ UpdateLine(th, [LineRow(board, c) EXCEPT !.evidence = TRUE], byOwner)

\* criterion_update(verdict=...), at any status of the ticket.
\* The lines of a quick task are the owner's to rule.
CriterionVerdict(th, c, v) ==
  /\ Asked(th, <<"verdict", c, v>>) /\ c \in board.lines
  /\ v # "pending" => c \in board.evidence
  /\ UpdateLine(th, [LineRow(board, c) EXCEPT !.verdict = v], On[c] \in Quick)

PutLine(th) ==
  /\ Doing(th, "PutLine")
  /\ LET row == Arg(th)
     IN  /\ Write(th, [board EXCEPT !.verdict[row.line] = row.verdict,
                         !.evidence = IF row.evidence THEN @ \cup {row.line}
                                      ELSE @ \ {row.line}])
         /\ Slip(On[row.line],
                 IF row.line \in board.evidence /\ ~row.evidence THEN {"line"} ELSE {})

Reopen(th) ==
  /\ Doing(th, "Reopen")
  /\ LET row == Row(board, Arg(th))
     IN  Look(th, IF row.status = "in_review" THEN Moved(row, "in_progress") ELSE <<>>)

\* message_send: a new message looks again at a ticket held in review.
MessageSend(th, t) ==
  /\ Asked(th, <<"message", t>>)
  /\ t # Epic /\ board.status[t] \in {"ready", "in_progress", "in_review"}
  /\ Begin(th, <<Do("Reread", t)>>)

\* link_create(blocks): looks for the link, then waits for the board's lock.
LinkCreate(th, f, t) ==
  /\ Asked(th, <<"link", f, t>>) /\ <<f, t>> \notin board.blocks
  /\ Exists(board, f) /\ Exists(board, t)
  /\ Begin(th, <<Do("Link", <<f, t>>)>>)

Link(th) ==
  /\ Doing(th, "Link") /\ LockFree(th)
  /\ Step(th, [board EXCEPT !.blocks = @ \cup {Arg(th)}],
          <<Do("Reconcile", Arg(th)), Do("Unlock", Epic)>> \o Tail(calls[th]))
  /\ UNCHANGED <<world, astray>>

\* _reconcile_blocks, with the lock.
Reconcile(th) ==
  /\ Doing(th, "Reconcile")
  /\ LET f == Arg(th)[1]
         t == Arg(th)[2]
     IN  Look(th, IF Released(board, f) THEN Those("Ready", HeldBack(board, f))
                  ELSE IF board.status[t] = "ready"
                       THEN <<Do("WalkBack", [row |-> [Row(board, t) EXCEPT !.status = "signed_off"],
                                              was |-> Row(board, t), from |-> f])>>
                  ELSE <<>>)

Unlock(th) == (Doing(th, "Unlock") \/ Doing(th, "Commit")) /\ Look(th, <<>>)

\* _design_signoff_lint: no cycle of blocks, the review story holds nobody back.
LintClean(b) ==
  /\ {X \in SUBSET Ticket : \A t \in X : \E f \in X : <<f, t>> \in b.blocks} = {{}}
  /\ \A f \in Review, t \in Story \ Review : <<f, t>> \notin b.blocks

\* The preconditions of design_signoff, to open it and to answer it.
Answerable(b) ==
  /\ Epic \in b.design /\ LinesOf(b, Epic) # {}
  /\ b.status[Epic] \in {"designed", "signed_off", "in_progress", "in_review"}
  /\ LintClean(b)

GateOpen(th) ==
  /\ Asked(th, <<"gate", "open">>)
  /\ Begin(th, <<Do("Carry", Row(board, Epic)), Do("AskGate", Epic)>>)

AskGate(th) ==
  /\ Doing(th, "AskGate")
  /\ Look(th, IF Answerable(board) THEN <<Do("OpenGate", Epic)>> ELSE <<>>)

OpenGate(th) ==
  /\ Doing(th, "OpenGate")
  /\ Write(th, [board EXCEPT !.gate = "open"])
  /\ UNCHANGED astray

\* The answer signs the epic off and looks again at what the gate held, all in
\* one transaction.
GateAnswer(th) ==
  /\ Asked(th, <<"gate", "answer">>) /\ LockFree(th)
  /\ board.gate = "open" /\ Answerable(board)
  /\ Serve(th, [board EXCEPT !.gate = "answered"],
          AdvanceEpic(Row(board, Epic), "signed_off") \o <<Do("Held", Epic), Do("Commit", Epic)>>)
  /\ UNCHANGED astray

Held(th) ==
  /\ Doing(th, "Held")
  /\ LET held == {t \in Below : board.status[t] = "signed_off"}
     IN  Look(th, Those("Each", {Row(board, t) : t \in held}))

Each(th) ==
  /\ Doing(th, "Each")
  /\ \E row \in Arg(th) : Look(th, After(row) \o Those("Each", Arg(th) \ {row}))

\* requirements.mark, in one transaction: a new requirement reopens a finished
\* epic, and looks at nothing else.
RequirementMark(th) ==
  /\ Asked(th, <<"requirement", "mark">>) /\ LockFree(th)
  /\ ~board.open
  /\ LET ended == board.status[Epic] \in {"done", "partial"}
     IN  /\ Serve(th, [board EXCEPT !.open = TRUE,
                        !.status[Epic] = IF ended THEN "in_progress" ELSE @], <<>>)
         /\ Slip(Epic, IF ended THEN {"reopened"} ELSE {})

RequirementLink(th) ==
  /\ Asked(th, <<"requirement", "link">>) /\ LockFree(th)
  /\ board.open
  /\ Serve(th, [board EXCEPT !.open = FALSE], <<>>)
  /\ UNCHANGED astray

Request(th) ==
  \/ \E t \in Ticket :
       \/ TicketCreate(th, t) \/ SetDesign(th, t) \/ Edit(th, t) \/ MessageSend(th, t)
       \/ \E to \in Status : TicketUpdate(th, t, to)
  \/ \E c \in Criterion :
       \/ CriterionCreate(th, c)
       \/ \E byOwner \in BOOLEAN : CriterionEvidence(th, c, byOwner)
       \/ \E v \in {"pending", "pass", "fail"} : CriterionVerdict(th, c, v)
  \/ \E f, t \in Below : LinkCreate(th, f, t)
  \/ GateOpen(th) \/ GateAnswer(th)
  \/ RequirementMark(th) \/ RequirementLink(th)

GoOn(th) ==
  \/ Guard(th) \/ Put(th) \/ Follow(th) \/ PutBack(th) \/ WalkBack(th) \/ Retire(th)
  \/ Release(th) \/ Ready(th) \/ Parent(th)
  \/ Kids(th) \/ AllIn(th) \/ ToReview(th)
  \/ Advance(th) \/ Requirements(th) \/ Reread(th) \/ Carry(th) \/ Recarry(th)
  \/ AddLine(th) \/ PutLine(th) \/ Reopen(th)
  \/ Link(th) \/ Reconcile(th) \/ Unlock(th)
  \/ AskGate(th) \/ OpenGate(th) \/ Held(th) \/ Each(th)

\* Nobody asks anything more.
Rest == world.left = 0 /\ (\A th \in Thread : calls[th] = <<>>) /\ UNCHANGED vars

Next == (\E th \in Thread : Request(th) \/ GoOn(th)) \/ Rest

Spec == Init /\ [][Next]_vars

-----------------------------------------------------------------------------
(***************************************************************************)
(* Properties                                                              *)
(***************************************************************************)
\* The tables have the shape the schemas give them, and every request holds
\* rows that were in them.
TypeOK ==
  /\ board \in Boards
  /\ calls \in [Thread -> Seq(Frames)]
  /\ world \in [asks: SUBSET Asks, left: Nat]
  /\ news \in [Thread -> SUBSET {"open", "gate", "blocked"}]
  /\ astray \in [Ticket -> SUBSET Slips]

\* Somebody has still to look whether ticket t is finished, or finishes it.
Finishes(f, t) ==
  \/ f.do = "Reread" /\ f.of = t
  \/ f.do = "Advance" /\ f.of.ticket = t
  \/ f.do = "Put" /\ f.of.row.ticket = t /\ f.of.row.status = "done"

WillFinish(th, t) == \E i \in 1 .. Len(calls[th]) : Finishes(calls[th][i], t)

\* No story or task rests in review once all its lines passed, whichever came
\* first, the hand-off or the last verdict, and whatever other requests are at
\* work: one of them has yet to look.  Only an edit that puts the status back
\* over a later one leaves a ticket so.
NoStrandedReview ==
  \A t \in Below :
    board.status[t] = "in_review" /\ AllPassed(board, t) /\ "edited" \notin astray[t]
      => \E th \in Thread : WillFinish(th, t)

Quiet == \A th \in Thread : calls[th] = <<>>

\* When the board has answered everybody, no signed-off ticket waits that
\* nothing holds back: whichever fact came last (its sign-off, a blocker's
\* release, the gate's answer), somebody made it ready.  Nobody looks again
\* after an edit that put a status back, a line that came after the hand-off,
\* a link that raced its blocker's release, or a gate that its epic retired.
NothingLeftWaiting ==
  Quiet /\ board.gate # "retired" =>
    \A t \in Below :
      board.status[t] = "signed_off" /\ Clear(board, t) =>
        \/ {"edited", "link"} \cap astray[t] # {}
        \/ \E f \in Blockers(board, t) : {"edited", "line"} \cap astray[f] # {}

\* When the board has answered everybody and every story is released, the epic
\* is in review or past it (or a person set it aside as blocked or ready).
\* Excepted is an epic last written over another request's write or reopened
\* by a requirement, and a story that an edit or a late line released.
LastReleaseReviews ==
  Quiet /\ AllReleased(board) =>
    \/ board.status[Epic] \in Terminal \cup {"in_review", "blocked", "ready"}
    \/ {"stale", "edited", "reopened"} \cap astray[Epic] # {}
    \/ \E s \in Story : {"edited", "line"} \cap astray[s] # {}

Acts(th) == calls'[th] # calls[th]
Writes(th, t) ==
  /\ Acts(th) /\ calls[th] # <<>>
  /\ Head(calls[th]).do \in {"Put", "Update", "Follow", "PutBack", "WalkBack"}
  /\ Arg(th).row.ticket = t

\* A request that makes a ticket ready did so because all it waits on was
\* released and, unless a person asked, no design_signoff gate was open:
\* only what turned while the request was at work can make that untrue.
ReadyIsEarned ==
  [][\A th \in Thread, t \in Below :
       /\ Writes(th, t) /\ Head(calls[th]).do # "PutBack"
       /\ board.status[t] # "ready" /\ board'.status[t] = "ready"
       => /\ Unblocked(board, t) \/ "blocked" \in news[th]
          /\ board.gate # "open" \/ Head(calls[th]).do = "Update" \/ "gate" \in news[th]]_vars

Unsettled(b) == b.open /\ b.status[Epic] \in {"done", "partial"}

\* No verdict, cascade or person ends an epic over an open requirement, and
\* marking one on a finished epic reopens it.  The exceptions are a request
\* that was at work when the requirement was marked, and one that puts back a
\* row another request has changed.
EndedIsSettled ==
  [][~Unsettled(board) /\ Unsettled(board') =>
       \E th \in Thread : Writes(th, Epic) /\ ("open" \in news[th] \/ Overtaken(th))]_vars

\* Done and dropped are final for every request that finds a ticket so, and
\* for every step of its cascade: who moves it on read it before it ended.
\* Only a new requirement reopens a done epic.
FinalIsFinal ==
  [][\A t \in Ticket :
       board.status[t] \in {"done", "dropped"} /\ board'.status[t] # board.status[t] =>
         \/ t = Epic /\ board.status[t] = "done" /\ board'.open /\ ~board.open
         \/ \E th \in Thread : Writes(th, t) /\ Arg(th).was.status # board.status[t]]_vars
==============================================================================
