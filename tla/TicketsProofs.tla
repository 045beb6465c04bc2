----------------------------- MODULE TicketsProofs -----------------------------
(***************************************************************************)
(* Proofs about Tickets, for every tree of tickets and lines, every start  *)
(* and every set of requests, however many threads serve them and in       *)
(* whatever order their looks and writes fall.  What a request has still   *)
(* to do is a stack whose first frame alone may be a write (First), over   *)
(* frames that only look (Later).  Grounded says what a write rests on:    *)
(* the request looked at it, and only news can have made it untrue since.  *)
(***************************************************************************)
EXTENDS Tickets, TLAPS

Final == {"done", "dropped"}

Signed == {row \in Rows : row.status = "signed_off"}
Reviewed == {row \in Rows : row.status = "in_review"}

\* The frames under another one: they look, and retire the gate.
Later ==
  [do: {"Release", "Parent"}, of: Rows]
    \cup [do: {"Carry"}, of: {row \in Rows : row.ticket = Epic}]
    \cup [do: {"Advance", "Requirements"}, of: Reviewed]
    \cup [do: {"Ready", "Each"}, of: SUBSET Signed]
    \cup [do: {"AllIn"}, of: SUBSET Rows]
    \cup [do: {"Reread", "Reopen", "Recarry", "Retire", "Kids", "ToReview", "AskGate",
               "Held", "Commit", "Unlock"}, of: Ticket]

\* The changes by which a request moves a ticket on: never one it read as ended.
Moves == {c \in Changes : c.was.status \notin Final}

\* The frames that stand first: the looks, and the writes.
First ==
  Later
    \cup [do: {"Update"}, of: Moves]
    \cup [do: {"Put"}, of: {c \in Moves : c.row.ticket \in Below => c.row.status # "in_review"}]
    \cup [do: {"PutBack"}, of: {c \in Changes : /\ c.row.ticket = c.was.ticket
                                                 /\ c.row.status = c.was.status}]
    \cup [do: {"Follow"}, of: {c \in [row: Rows, was: Rows, kids: SUBSET Rows] :
                                 /\ c.row.ticket = Epic /\ c.row.status = "in_progress"
                                 /\ c.was.status \notin Final}]
    \cup [do: {"WalkBack"}, of: {c \in [row: Rows, was: Rows, from: Ticket] :
                                   c.row.status = "signed_off" /\ c.was.status \notin Final}]
    \cup [do: {"Guard"}, of: {m \in [row: Rows, to: Status] : m.to \in Transitions[m.row.status]}]
    \cup [do: {"PutLine"}, of: LineRows] \cup [do: {"AddLine"}, of: Criterion]
    \cup [do: {"OpenGate"}, of: Ticket] \cup [do: {"Link", "Reconcile"}, of: Below \X Below]

Has(s, f) == \E i \in 1 .. Len(s) : s[i] = f

\* Whoever puts a line, or hands a ticket off, looks at the ticket afterwards.
Promises(f, rest) ==
  /\ f.do = "PutLine" => Has(rest, Do("Reread", On[f.of.line]))
  /\ f.do = "Update" /\ f.of.row.status = "in_review" /\ f.of.row.ticket \in Below =>
       Has(rest, Do("Reread", f.of.row.ticket))

Stacks ==
  {s \in Seq(First) : s # <<>> => Tail(s) \in Seq(Later) /\ Promises(Head(s), Tail(s))}

\* What the write f rests on, on board b, when x has turned since it looked.
Grounded(f, b, x) ==
  /\ f.do \in {"Update", "Put"} /\ f.of.row.ticket = Epic /\ f.of.row.status \in {"done", "partial"} =>
       ~b.open \/ "open" \in x
  /\ f.do \in {"Update", "Put"} /\ f.of.row.ticket \in Below /\ f.of.row.status = "ready" =>
       /\ Unblocked(b, f.of.row.ticket) \/ "blocked" \in x
       /\ b.gate # "open" \/ f.do = "Update" \/ "gate" \in x
  /\ f.do = "PutLine" => f.of.line \in b.lines

\* A stack as a look at board b leaves it.
Fresh(b) == {s \in Stacks : s # <<>> => Grounded(Head(s), b, {})}

\* The tables, and every request, are as they can be.
Well ==
  /\ board \in Boards
  /\ board.status[Epic] # "none"
  /\ \A c \in Criterion \ board.lines : board.verdict[c] = "pending"
  /\ calls \in [Thread -> Stacks]
  /\ world \in [asks: SUBSET Asks, left: Nat]
  /\ news \in [Thread -> SUBSET {"open", "gate", "blocked"}]
  /\ astray \in [Ticket -> SUBSET Slips]
  /\ \A th \in Thread : calls[th] # <<>> => Grounded(Head(calls[th]), board, news[th])

-----------------------------------------------------------------------------
LEMMA EpicIsTicket ==
  /\ Epic \in Ticket /\ Epic \notin Below /\ Below \subseteq Ticket
  /\ Story \subseteq Below /\ Task \subseteq Below
  BY TreeAssumption DEF Ticket, Below

LEMMA StatusIs ==
  /\ Status = {"drafted", "designed", "signed_off", "ready", "in_progress",
               "in_review", "blocked", "done", "partial", "dropped"}
  /\ \A s \in Status : Transitions[s] \subseteq Status
  /\ \A s \in Final : Transitions[s] = {}
  BY DEF Status, Transitions, Final

LEMMA LaterIsFirst == Later \subseteq First
  BY DEF First

LEMMA LaterOnlyLooks ==
  ASSUME NEW f \in Later
  PROVE  f.do \notin {"Update", "Put", "PutBack", "Follow", "WalkBack", "Guard", "PutLine",
                      "AddLine", "OpenGate", "Link", "Reconcile"}
  BY DEF Later

LEMMA LaterGrounded ==
  ASSUME NEW f \in Later, NEW b, NEW x, NEW rest
  PROVE  Grounded(f, b, x) /\ Promises(f, rest)
  BY LaterOnlyLooks DEF Grounded, Promises

LEMMA SeqIs ==
  ASSUME NEW S, NEW s \in Seq(S), s # <<>>
  PROVE  /\ Tail(s) \in Seq(S) /\ Head(s) \in S /\ Head(s) = s[1]
         /\ Len(Tail(s)) = Len(s) - 1 /\ Len(s) \in Nat \ {0}
         /\ \A i \in 1 .. Len(Tail(s)) : Tail(s)[i] = s[i + 1]
  OBVIOUS

LEMMA LenIs ==
  ASSUME NEW S, NEW s \in Seq(S)
  PROVE  Len(s) \in Nat
  OBVIOUS

LEMMA ConcatIs ==
  ASSUME NEW S, NEW s \in Seq(S), NEW r \in Seq(S)
  PROVE  /\ s \o r \in Seq(S) /\ Len(s \o r) = Len(s) + Len(r)
         /\ \A i \in 1 .. Len(s) : (s \o r)[i] = s[i]
         /\ \A i \in 1 .. Len(r) : (s \o r)[Len(s) + i] = r[i]
         /\ s = <<>> => s \o r = r
         /\ s # <<>> => s \o r # <<>> /\ Head(s \o r) = Head(s) /\ Tail(s \o r) = Tail(s) \o r
  OBVIOUS

LEMMA SeqMore ==
  ASSUME NEW S, NEW T, S \subseteq T, NEW s \in Seq(S)
  PROVE  s \in Seq(T)
  OBVIOUS

LEMMA ConcatHas ==
  ASSUME NEW S, NEW s \in Seq(S), NEW r \in Seq(S), NEW f
  PROVE  /\ Has(s, f) => Has(s \o r, f)
         /\ Has(r, f) => Has(s \o r, f)
  <1>1. /\ \A i \in 1 .. Len(s) : i \in 1 .. Len(s \o r) /\ (s \o r)[i] = s[i]
        /\ \A i \in 1 .. Len(r) : Len(s) + i \in 1 .. Len(s \o r) /\ (s \o r)[Len(s) + i] = r[i]
    BY ConcatIs
  <1> QED BY <1>1 DEF Has

LEMMA OneIs ==
  ASSUME NEW S, NEW f \in S
  PROVE  /\ <<f>> \in Seq(S) /\ <<f>> # <<>> /\ Head(<<f>>) = f /\ Tail(<<f>>) = <<>>
         /\ Len(<<f>>) = 1 /\ <<f>>[1] = f
  OBVIOUS

\* What only looks is a stack, and fresh on any board.
LEMMA LaterFresh ==
  ASSUME NEW b, NEW r \in Seq(Later)
  PROVE  r \in Fresh(b) /\ r \in Stacks
  <1>1. r \in Seq(First)
    BY LaterIsFirst, SeqMore
  <1>2. CASE r = <<>>
    BY <1>1, <1>2 DEF Fresh, Stacks
  <1>3. CASE r # <<>>
    <2>1. Tail(r) \in Seq(Later) /\ Head(r) \in Later
      BY <1>3, SeqIs
    <2> QED BY <1>1, <2>1, LaterGrounded DEF Fresh, Stacks
  <1> QED BY <1>2, <1>3

LEMMA FrameFresh ==
  ASSUME NEW b, NEW f \in First, NEW r \in Seq(Later), Promises(f, r), Grounded(f, b, {})
  PROVE  /\ <<f>> \o r \in Fresh(b)
         /\ <<f>> \o r # <<>> /\ Head(<<f>> \o r) = f /\ Tail(<<f>> \o r) = r
  <1>1. r \in Seq(First) /\ <<f>> \in Seq(First)
    BY LaterIsFirst, SeqMore, OneIs
  <1>2. /\ <<f>> \o r \in Seq(First) /\ <<f>> \o r # <<>>
        /\ Head(<<f>> \o r) = f /\ Tail(<<f>> \o r) = <<>> \o r
    BY <1>1, ConcatIs, OneIs
  <1>3. <<>> \o r = r
    BY <1>1
  <1> QED BY <1>2, <1>3 DEF Fresh, Stacks

LEMMA FreshConcat ==
  ASSUME NEW b, NEW s \in Fresh(b), NEW r \in Seq(Later)
  PROVE  s \o r \in Fresh(b)
  <1>1. r \in Seq(First) /\ s \in Seq(First)
    BY LaterIsFirst, SeqMore DEF Fresh, Stacks
  <1>2. CASE s = <<>>
    BY <1>1, <1>2, ConcatIs, LaterFresh
  <1>3. CASE s # <<>>
    <2>1. Tail(s) \in Seq(Later) /\ Promises(Head(s), Tail(s)) /\ Grounded(Head(s), b, {})
      BY <1>3 DEF Fresh, Stacks
    <2>2. /\ s \o r \in Seq(First) /\ s \o r # <<>>
          /\ Head(s \o r) = Head(s) /\ Tail(s \o r) = Tail(s) \o r
      BY <1>1, <1>3, ConcatIs
    <2>3. Tail(s) \o r \in Seq(Later)
      BY <2>1, ConcatIs
    <2>4. Promises(Head(s), Tail(s) \o r)
      BY <2>1, ConcatHas DEF Promises
    <2> QED BY <2>1, <2>2, <2>3, <2>4 DEF Fresh, Stacks
  <1> QED BY <1>2, <1>3

LEMMA FreshIsStack == ASSUME NEW b, NEW s \in Fresh(b) PROVE s \in Stacks
  BY DEF Fresh

LEMMA StackTail ==
  ASSUME NEW s \in Stacks, s # <<>>
  PROVE  Head(s) \in First /\ Tail(s) \in Seq(Later) /\ Promises(Head(s), Tail(s))
  BY SeqIs DEF Stacks

-----------------------------------------------------------------------------
\* The frames that the operators of the cascade leave.
LEMMA RowTyped ==
  ASSUME NEW b \in Boards, NEW t \in Ticket
  PROVE  /\ Row(b, t).ticket = t /\ Row(b, t).status = b.status[t] /\ Row(b, t).design \in BOOLEAN
         /\ b.status[t] \in Status \cup {"none"}
         /\ b.status[t] # "none" => Row(b, t) \in Rows
  BY DEF Row, Rows, Boards

LEMMA WithStatus ==
  ASSUME NEW row \in Rows, NEW s \in Status
  PROVE  /\ [row EXCEPT !.status = s] \in Rows
         /\ [row EXCEPT !.status = s].ticket = row.ticket
         /\ [row EXCEPT !.status = s].status = s
         /\ Change(row, s) \in Changes
         /\ Change(row, s).was = row /\ Change(row, s).row = [row EXCEPT !.status = s]
  BY DEF Rows, Change, Changes

LEMMA RowIs == ASSUME NEW row \in Rows
               PROVE row.ticket \in Ticket /\ row.status \in Status /\ row.design \in BOOLEAN
  BY DEF Rows

LEMMA ThoseLater ==
  ASSUME NEW R
  PROVE  /\ R \subseteq Signed => Those("Ready", R) \in Seq(Later) /\ Those("Each", R) \in Seq(Later)
         /\ R \subseteq Rows => Those("AllIn", R) \in Seq(Later)
  <1>1. <<>> \in Seq(Later)
    OBVIOUS
  <1>2. R \subseteq Signed => Do("Ready", R) \in Later /\ Do("Each", R) \in Later
    BY DEF Do, Later
  <1>3. R \subseteq Rows => Do("AllIn", R) \in Later
    BY DEF Do, Later
  <1> QED BY <1>1, <1>2, <1>3, OneIs DEF Those

LEMMA LooksLater ==
  /\ \A row \in Rows : Do("Release", row) \in Later /\ Do("Parent", row) \in Later
                         /\ (row.ticket = Epic => Do("Carry", row) \in Later)
  /\ \A row \in Reviewed : Do("Advance", row) \in Later /\ Do("Requirements", row) \in Later
  /\ \A t \in Ticket : /\ Do("Reread", t) \in Later /\ Do("Reopen", t) \in Later
                       /\ Do("Recarry", t) \in Later /\ Do("Retire", t) \in Later
                       /\ Do("Kids", t) \in Later /\ Do("ToReview", t) \in Later
                       /\ Do("AskGate", t) \in Later /\ Do("Held", t) \in Later
                       /\ Do("Commit", t) \in Later /\ Do("Unlock", t) \in Later
  BY DEF Do, Later

LEMMA AfterLater == ASSUME NEW row \in Rows PROVE After(row) \in Seq(Later)
  <1>1. <<>> \in Seq(Later)
    OBVIOUS
  <1>2. /\ <<Do("Retire", Epic)>> \in Seq(Later) /\ <<Do("Kids", Epic)>> \in Seq(Later)
        /\ <<Do("Release", row)>> \in Seq(Later) /\ <<Do("Parent", row)>> \in Seq(Later)
    BY LooksLater, OneIs, EpicIsTicket
  <1>3. {r \in {row} : r.status = "signed_off"} \subseteq Signed
    BY DEF Signed
  <1>4. Those("Ready", {r \in {row} : r.status = "signed_off"}) \in Seq(Later)
    BY <1>3, ThoseLater
  <1> HIDE DEF Those
  <1>5. (IF row.status \in Terminal \cup {"in_review"} THEN <<Do("Release", row)>> ELSE <<>>)
          \in Seq(Later)
    BY <1>1, <1>2
  <1>6. \A x, y, z \in Seq(Later) : x \o y \o z \in Seq(Later)
    BY ConcatIs
  <1> QED BY <1>1, <1>2, <1>4, <1>5, <1>6 DEF After

LEMMA FinishLater ==
  ASSUME NEW row, row.status = "in_review" => row \in Rows
  PROVE  /\ Finish(row) \in Seq(Later)
         /\ row.status = "in_review" => Finish(row) = <<Do("Advance", row)>>
  <1>1. CASE row.status = "in_review"
    BY <1>1, LooksLater, OneIs DEF Finish, Reviewed
  <1>2. CASE row.status # "in_review"
    BY <1>2 DEF Finish
  <1> QED BY <1>1, <1>2

\* A put of the board's own, made from a row in hand that has not ended.
LEMMA PutsFresh ==
  ASSUME NEW b, NEW row \in Rows, NEW s \in Status, NEW r \in Seq(Later),
         row.status \notin Final,
         row.ticket \in Below => s # "in_review",
         row.ticket = Epic => s \notin {"done", "partial"} \/ ~b.open,
         row.ticket \in Below /\ s = "ready" => Clear(b, row.ticket)
  PROVE  /\ Puts(row, s) \o r \in Fresh(b)
         /\ Puts(row, s) \o r # <<>> /\ Head(Puts(row, s) \o r) = Do("Put", Change(row, s))
         /\ Len(Puts(row, s) \o r) > 0 /\ (Puts(row, s) \o r)[1] = Do("Put", Change(row, s))
  <1> DEFINE f == Do("Put", Change(row, s))
  <1>1. /\ Change(row, s) \in Changes /\ Change(row, s).was = row
        /\ Change(row, s).row.ticket = row.ticket /\ Change(row, s).row.status = s
    BY DEF Change, Changes, Rows
  <1>2. /\ f.do = "Put" /\ f.of = Change(row, s)
    BY DEF Do
  <1>3. f \in First
    <2>1. Change(row, s) \in {c \in Moves : c.row.ticket \in Below => c.row.status # "in_review"}
      BY <1>1 DEF Moves
    <2> QED BY <2>1 DEF Do, First
  <1>4. Grounded(f, b, {}) /\ Promises(f, r)
    BY <1>1, <1>2 DEF Grounded, Promises, Clear
  <1> HIDE DEF f
  <1>5. <<f>> \o r \in Fresh(b) /\ <<f>> \o r # <<>> /\ Head(<<f>> \o r) = f
    BY <1>3, <1>4, FrameFresh
  <1>6. Len(<<f>> \o r) > 0 /\ (<<f>> \o r)[1] = f
    <2>1. <<f>> \o r \in Seq(First)
      BY <1>5 DEF Fresh, Stacks
    <2> QED BY <2>1, <1>5, SeqIs
  <1> QED BY <1>5, <1>6 DEF Puts, f

LEMMA MovedFresh ==
  ASSUME NEW b, NEW row \in Rows, NEW s \in Status,
         row.status \notin Final,
         row.ticket \in Below => s \notin {"in_review", "ready"},
         row.ticket = Epic => s \notin {"done", "partial"} \/ ~b.open
  PROVE  /\ Moved(row, s) \in Fresh(b)
         /\ Len(Moved(row, s)) > 0 /\ Moved(row, s)[1] = Do("Put", Change(row, s))
  <1>1. After([row EXCEPT !.status = s]) \in Seq(Later)
    BY WithStatus, AfterLater
  <1> QED BY <1>1, PutsFresh DEF Moved

LEMMA BeforeIsLive ==
  ASSUME NEW s, NEW to, Before(s, to)
  PROVE  s \in Status /\ s # "none" /\ s \notin Final
  BY StatusIs DEF Before, Phase, Final

LEMMA AdvanceEpicFresh ==
  ASSUME NEW b, NEW row, NEW to \in {"designed", "signed_off", "in_progress", "in_review"},
         row.ticket = Epic, row.status # "none" => row \in Rows
  PROVE  AdvanceEpic(row, to) \in Fresh(b)
  <1>1. CASE Before(row.status, to)
    <2>1. row \in Rows /\ row.status \notin Final /\ to \in Status
      BY <1>1, BeforeIsLive, StatusIs
    <2>2. Moved(row, to) \in Fresh(b)
      BY <2>1, MovedFresh, EpicIsTicket
    <2>3. [row EXCEPT !.status = to] \in Rows
      BY <2>1, WithStatus
    <2>4. Finish([row EXCEPT !.status = to]) \in Seq(Later) /\ <<>> \in Seq(Later)
      BY <2>3, FinishLater
    <2> QED BY <1>1, <2>2, <2>4, FreshConcat DEF AdvanceEpic
  <1>2. CASE ~Before(row.status, to)
    <2>1. <<>> \in Seq(Later)
      OBVIOUS
    <2> QED BY <1>2, <2>1, LaterFresh DEF AdvanceEpic
  <1> QED BY <1>1, <1>2

LEMMA KidsTyped ==
  ASSUME NEW b \in Boards
  PROVE  KidRows(b) \subseteq Rows /\ \A t \in Ticket : HeldBack(b, t) \subseteq Signed
  <1>1. \A s \in Stories(b) : Row(b, s) \in Rows
    BY RowTyped, EpicIsTicket DEF Stories, Exists
  <1>2. \A t, s \in Ticket : b.status[s] = "signed_off" => Row(b, s) \in Signed
    BY RowTyped DEF Signed
  <1>3. \A t \in Ticket : Successors(b, t) \subseteq Ticket
    BY EpicIsTicket DEF Successors, Stories
  <1> QED BY <1>1, <1>2, <1>3 DEF KidRows, HeldBack

LEMMA EpicFollowsFresh ==
  ASSUME NEW b, NEW p, NEW kids \in SUBSET Rows, NEW row \in Rows,
         p.ticket = Epic, p.status # "none" => p \in Rows
  PROVE  EpicFollows(p, kids, row) \in Fresh(b)
  <1> DEFINE of == [row |-> [p EXCEPT !.status = "in_progress"], was |-> p, kids |-> kids]
  <1>1. AdvanceEpic(p, "in_progress") \in Fresh(b)
    BY AdvanceEpicFresh
  <1>2. <<>> \in Seq(Later)
    OBVIOUS
  <1>3. <<>> \in Fresh(b)
    BY <1>2, LaterFresh
  <1>4. p.status \in {"signed_off", "ready", "in_review"} => <<Do("Follow", of)>> \in Fresh(b)
    <2> SUFFICES ASSUME p.status \in {"signed_off", "ready", "in_review"}
                 PROVE  <<Do("Follow", of)>> \in Fresh(b)
      OBVIOUS
    <2>1. p \in Rows /\ p.status \notin Final /\ "in_progress" \in Status
      BY StatusIs DEF Final
    <2>2. /\ of.row \in Rows /\ of.row.ticket = Epic /\ of.row.status = "in_progress"
          /\ of \in [row: Rows, was: Rows, kids: SUBSET Rows] /\ of.was = p
      BY <2>1, EpicIsTicket DEF Rows
    <2> HIDE DEF of
    <2>3. Do("Follow", of) \in First
      BY <2>1, <2>2 DEF Do, First
    <2>4. Grounded(Do("Follow", of), b, {}) /\ Promises(Do("Follow", of), <<>>)
      BY DEF Do, Grounded, Promises
    <2>5. <<Do("Follow", of)>> \o <<>> \in Fresh(b)
      BY <2>3, <2>4, <1>2, FrameFresh
    <2>6. <<Do("Follow", of)>> \o <<>> = <<Do("Follow", of)>>
      OBVIOUS
    <2> QED BY <2>5, <2>6
  <1> QED BY <1>1, <1>3, <1>4 DEF EpicFollows

-----------------------------------------------------------------------------
\* The looks: what each leaves to do, and who will still finish whom.
LEMMA ArgIs ==
  ASSUME NEW f \in First
  PROVE  /\ f.do \in {"Release", "Parent", "Carry"} => f.of \in Rows
         /\ f.do = "Carry" => f.of.ticket = Epic
         /\ f.do \in {"Advance", "Requirements"} => f.of \in Reviewed
         /\ f.do \in {"Ready", "Each"} => f.of \in SUBSET Signed
         /\ f.do = "AllIn" => f.of \in SUBSET Rows
         /\ f.do \in {"Reread", "Reopen", "Recarry", "Retire", "Kids", "ToReview", "AskGate",
                      "Held", "Commit", "Unlock", "OpenGate"} => f.of \in Ticket
         /\ f.do \in {"Update", "Put"} => f.of \in Moves
         /\ f.do = "Put" /\ f.of.row.ticket \in Below => f.of.row.status # "in_review"
         /\ f.do = "PutBack" => /\ f.of \in Changes /\ f.of.row.ticket = f.of.was.ticket
                                /\ f.of.row.status = f.of.was.status
         /\ f.do = "Follow" => /\ f.of \in [row: Rows, was: Rows, kids: SUBSET Rows]
                               /\ f.of.row.ticket = Epic /\ f.of.row.status = "in_progress"
                               /\ f.of.was.status \notin Final
         /\ f.do = "WalkBack" => /\ f.of \in [row: Rows, was: Rows, from: Ticket]
                                 /\ f.of.row.status = "signed_off"
                                 /\ f.of.was.status \notin Final
         /\ f.do = "Guard" => /\ f.of \in [row: Rows, to: Status]
                              /\ f.of.to \in Transitions[f.of.row.status]
         /\ f.do = "PutLine" => f.of \in LineRows
         /\ f.do = "AddLine" => f.of \in Criterion
         /\ f.do \in {"Link", "Reconcile"} => f.of \in Below \X Below
  BY DEF First, Later

Keeps(th, todo) ==
  \A t \in Below :
    board.status[t] = "in_review" /\ AllPassed(board, t) /\ Finishes(Head(calls[th]), t) =>
      \E i \in 1 .. Len(todo) : Finishes(todo[i], t)

Looks(th) == \E todo \in Fresh(board) : Look(th, todo) /\ Keeps(th, todo)

LEMMA HeadIs ==
  ASSUME Well, NEW th \in Thread, calls[th] # <<>>
  PROVE  /\ Head(calls[th]) \in First /\ Tail(calls[th]) \in Seq(Later)
         /\ Promises(Head(calls[th]), Tail(calls[th]))
         /\ Grounded(Head(calls[th]), board, news[th])
         /\ calls[th] \in Seq(First)
  BY StackTail DEF Well, Stacks

LEMMA NothingToFinish ==
  ASSUME NEW th \in Thread, NEW todo,
         Head(calls[th]).do \notin {"Reread", "Advance", "Put"}
  PROVE  Keeps(th, todo)
  BY DEF Keeps, Finishes

LEMMA NothingToDo == <<>> \in Fresh(board)
  <1>1. <<>> \in Seq(Later)
    OBVIOUS
  <1> QED BY <1>1, LaterFresh

LEMMA GuardLooks ==
  ASSUME Well, NEW th \in Thread, Guard(th) PROVE Looks(th)
  <1> DEFINE row == Arg(th).row
             to == Arg(th).to
             rest == After([row EXCEPT !.status = to]) \o HandedOff(row, to)
             f == Do("Update", Change(row, to))
  <1>1. row \in Rows /\ to \in Status /\ to \in Transitions[row.status] /\ row.ticket \in Ticket
    BY HeadIs, ArgIs, RowIs DEF Guard, Doing, Arg
  <1> HIDE DEF row, to
  <1>2. row.status \notin Final
    BY <1>1, StatusIs
  <1>3. After([row EXCEPT !.status = to]) \in Seq(Later)
    BY <1>1, WithStatus, AfterLater
  <1>4. HandedOff(row, to) \in Seq(Later)
    <2>1. <<Do("Reread", row.ticket)>> \in Seq(Later) /\ <<>> \in Seq(Later)
      BY <1>1, LooksLater, OneIs
    <2> QED BY <2>1 DEF HandedOff
  <1>5. rest \in Seq(Later)
    BY <1>3, <1>4, ConcatIs
  <1>6. /\ f.do = "Update" /\ f.of = Change(row, to) /\ Change(row, to) \in Changes
        /\ f.of.was = row /\ f.of.row.ticket = row.ticket /\ f.of.row.status = to
    BY <1>1 DEF Do, Change, Changes, Rows
  <1>7. f \in First
    <2>1. Change(row, to) \in Moves
      BY <1>2, <1>6 DEF Moves
    <2> QED BY <2>1 DEF Do, First
  <1>8. Promises(f, rest)
    <2>1. to = "in_review" /\ row.ticket \in Below => Has(rest, Do("Reread", row.ticket))
      <3> SUFFICES ASSUME to = "in_review", row.ticket \in Below
                   PROVE  Has(rest, Do("Reread", row.ticket))
        OBVIOUS
      <3>1. HandedOff(row, to) = <<Do("Reread", row.ticket)>>
        BY EpicIsTicket DEF HandedOff
      <3>2. Has(<<Do("Reread", row.ticket)>>, Do("Reread", row.ticket))
        BY DEF Has
      <3> QED BY <3>1, <3>2, <1>3, <1>4, ConcatHas
    <2> QED BY <2>1, <1>6 DEF Promises
  <1>9. MayArrive(board, row, to) => Grounded(f, board, {})
    <2>1. to \in {"done", "partial"} /\ row.ticket = Epic /\ MayArrive(board, row, to) => ~board.open
      BY DEF MayArrive, Settled
    <2>2. to = "ready" /\ MayArrive(board, row, to) => Unblocked(board, row.ticket)
      BY DEF MayArrive
    <2> QED BY <2>1, <2>2, <1>6 DEF Grounded
  <1> HIDE DEF f, rest
  <1>10. MayArrive(board, row, to) => <<f>> \o rest \in Fresh(board)
    BY <1>5, <1>7, <1>8, <1>9, FrameFresh
  <1>11. Look(th, IF MayArrive(board, row, to) THEN <<f>> \o rest ELSE <<>>)
    <2>1. Look(th, IF MayArrive(board, row, to)
                   THEN <<f>> \o After([row EXCEPT !.status = to]) \o HandedOff(row, to) ELSE <<>>)
      BY DEF Guard, f, row, to
    <2>2. <<f>> \o After([row EXCEPT !.status = to]) \o HandedOff(row, to) = <<f>> \o rest
      <3>1. \A x, y, z \in Seq(First) : (x \o y) \o z = x \o (y \o z)
        OBVIOUS
      <3>2. After([row EXCEPT !.status = to]) \in Seq(First) /\ HandedOff(row, to) \in Seq(First)
        BY <1>3, <1>4, LaterIsFirst, SeqMore
      <3> QED BY <3>1, <3>2, <1>7, OneIs DEF rest
    <2> QED BY <2>1, <2>2
  <1>12. Head(calls[th]).do = "Guard"
    BY DEF Guard, Doing
  <1> QED BY <1>10, <1>11, <1>12, NothingToDo, NothingToFinish DEF Looks

LEMMA ReleaseLooks ==
  ASSUME Well, NEW th \in Thread, Release(th) PROVE Looks(th)
  <1>1. Arg(th) \in Rows /\ Arg(th).ticket \in Ticket
    BY HeadIs, ArgIs, RowIs DEF Release, Doing, Arg
  <1>2. Those("Ready", HeldBack(board, Arg(th).ticket)) \in Seq(Later)
    BY <1>1, KidsTyped, ThoseLater DEF Well
  <1> QED BY <1>2, LaterFresh, NothingToDo, NothingToFinish DEF Release, Doing, Looks

LEMMA ReadyLooks ==
  ASSUME Well, NEW th \in Thread, Ready(th) PROVE Looks(th)
  <1>1. Arg(th) \in SUBSET Signed
    BY HeadIs, ArgIs DEF Ready, Doing, Arg
  <1>2. PICK row \in Arg(th) :
          Look(th, (IF Clear(board, row.ticket) THEN Puts(row, "ready") ELSE <<>>)
                     \o Those("Ready", Arg(th) \ {row}))
    BY DEF Ready
  <1>3. row \in Rows /\ row.status = "signed_off" /\ "ready" \in Status /\ row.status \notin Final
    BY <1>1, StatusIs DEF Signed, Final
  <1>4. Those("Ready", Arg(th) \ {row}) \in Seq(Later)
    BY <1>1, ThoseLater
  <1>5. Clear(board, row.ticket) => Puts(row, "ready") \o Those("Ready", Arg(th) \ {row}) \in Fresh(board)
    BY <1>3, <1>4, PutsFresh
  <1>6. <<>> \o Those("Ready", Arg(th) \ {row}) \in Fresh(board)
    BY <1>4, NothingToDo, FreshConcat
  <1> QED BY <1>2, <1>5, <1>6, NothingToFinish DEF Ready, Doing, Looks

LEMMA ParentLooks ==
  ASSUME Well, NEW th \in Thread, Parent(th) PROVE Looks(th)
  <1> DEFINE row == Arg(th)
             p == Row(board, IF row.ticket \in Task THEN Home[row.ticket] ELSE Epic)
             kids == KidRows(board)
             started == \E k \in Task : Home[k] = p.ticket /\ board.status[k] \in Started
             up == EpicFollows(p, kids, row) \o EveryKid(p, kids, row)
             along == IF started /\ p.status \in {"signed_off", "ready"}
                      THEN Puts(p, "in_progress") ELSE <<>>
  <1>1. row \in Rows /\ row.ticket \in Ticket /\ Head(calls[th]).do = "Parent"
    BY HeadIs, ArgIs, RowIs DEF Parent, Doing, Arg
  <1>2. board \in Boards /\ kids \in SUBSET Rows
    BY KidsTyped DEF Well
  <1>3. row.ticket \notin Task => up \in Fresh(board)
    <2> SUFFICES ASSUME row.ticket \notin Task PROVE up \in Fresh(board)
      OBVIOUS
    <2>1. p.ticket = Epic /\ (p.status # "none" => p \in Rows)
      BY <1>2, RowTyped, EpicIsTicket
    <2> HIDE DEF row, p, kids
    <2>2. EpicFollows(p, kids, row) \in Fresh(board)
      BY <1>1, <1>2, <2>1, EpicFollowsFresh
    <2>3. EveryKid(p, kids, row) \in Seq(Later)
      <3>1. <<>> \in Seq(Later)
        OBVIOUS
      <3> QED BY <3>1, <1>2, ThoseLater DEF EveryKid
    <2> QED BY <2>2, <2>3, FreshConcat
  <1>4. row.ticket \in Task => along \in Fresh(board)
    <2> SUFFICES ASSUME row.ticket \in Task, p.status \in {"signed_off", "ready"}
                 PROVE  Puts(p, "in_progress") \in Fresh(board)
      BY NothingToDo
    <2>1. Home[row.ticket] \in Below
      BY TreeAssumption, EpicIsTicket
    <2>2. p.ticket = Home[row.ticket] /\ p \in Rows
      BY <1>2, <2>1, RowTyped, EpicIsTicket
    <2> HIDE DEF p, row
    <2>3. Puts(p, "in_progress") \o <<>> \in Fresh(board)
      <3>1. /\ "in_progress" \in Status /\ p.status \notin Final
            /\ "in_progress" \notin {"in_review", "done", "partial", "ready"}
        BY StatusIs DEF Final
      <3>2. <<>> \in Seq(Later)
        OBVIOUS
      <3> QED BY <2>2, <3>1, <3>2, PutsFresh
    <2>4. Puts(p, "in_progress") \o <<>> = Puts(p, "in_progress")
      BY DEF Puts
    <2> QED BY <2>3, <2>4
  <1>5. Look(th, IF row.ticket \notin Task THEN up ELSE along)
    BY DEF Parent
  <1> HIDE DEF row, up, along
  <1> QED BY <1>1, <1>3, <1>4, <1>5, NothingToFinish DEF Looks

LEMMA KidsLooks ==
  ASSUME Well, NEW th \in Thread, Kids(th) PROVE Looks(th)
  <1>1. Those("AllIn", KidRows(board)) \in Seq(Later)
    BY KidsTyped, ThoseLater DEF Well
  <1> QED BY <1>1, LaterFresh, NothingToFinish DEF Kids, Doing, Looks

LEMMA AllInLooks ==
  ASSUME Well, NEW th \in Thread, AllIn(th) PROVE Looks(th)
  <1>1. <<Do("ToReview", Epic)>> \in Seq(Later)
    BY LooksLater, EpicIsTicket, OneIs
  <1> QED BY <1>1, LaterFresh, NothingToDo, NothingToFinish DEF AllIn, Doing, Looks

LEMMA ToReviewLooks ==
  ASSUME Well, NEW th \in Thread, ToReview(th) PROVE Looks(th)
  <1>1. AdvanceEpic(Row(board, Epic), "in_review") \in Fresh(board)
    BY RowTyped, EpicIsTicket, AdvanceEpicFresh DEF Well
  <1> QED BY <1>1, NothingToFinish DEF ToReview, Doing, Looks

LEMMA AdvanceLooks ==
  ASSUME Well, NEW th \in Thread, Advance(th) PROVE Looks(th)
  <1> DEFINE row == Arg(th)
             asks == IF HasCheckerLine(board) THEN <<Do("Requirements", row)>> ELSE <<>>
             todo == IF ~AllPassed(board, row.ticket) THEN <<>>
                     ELSE IF row.ticket # Epic THEN Moved(row, "done") ELSE asks
  <1>1. /\ row \in Reviewed /\ row \in Rows /\ row.status = "in_review" /\ row.ticket \in Ticket
        /\ Head(calls[th]).do = "Advance" /\ Head(calls[th]).of = row
    BY HeadIs, ArgIs, RowIs DEF Advance, Doing, Arg, Reviewed
  <1>2. Look(th, todo)
    BY DEF Advance
  <1> HIDE DEF row
  <1>3. asks \in Fresh(board)
    <2>1. <<Do("Requirements", row)>> \in Seq(Later)
      BY <1>1, LooksLater, OneIs
    <2> QED BY <2>1, LaterFresh, NothingToDo
  <1>4. row.ticket # Epic =>
          /\ Moved(row, "done") \in Fresh(board) /\ Len(Moved(row, "done")) > 0
          /\ Moved(row, "done")[1] = Do("Put", Change(row, "done"))
    BY <1>1, MovedFresh, StatusIs DEF Final
  <1>5. todo \in Fresh(board)
    BY <1>3, <1>4, NothingToDo
  <1>6. Keeps(th, todo)
    <2> SUFFICES ASSUME NEW t \in Below, AllPassed(board, t), Finishes(Head(calls[th]), t)
                 PROVE  \E i \in 1 .. Len(todo) : Finishes(todo[i], t)
      BY DEF Keeps
    <2>1. row.ticket = t /\ row.ticket # Epic /\ todo = Moved(row, "done")
      BY <1>1, EpicIsTicket DEF Finishes
    <2>2. Finishes(Do("Put", Change(row, "done")), t)
      <3>1. /\ Change(row, "done").row.ticket = row.ticket
            /\ Change(row, "done").row.status = "done"
        BY <1>1 DEF Change, Rows
      <3> QED BY <2>1, <3>1 DEF Finishes, Do
    <2>3. todo \in Seq(First)
      BY <1>5 DEF Fresh, Stacks
    <2>4. 1 \in 1 .. Len(todo)
      BY <2>1, <2>3, <1>4
    <2> QED BY <2>1, <2>2, <2>4, <1>4
  <1> QED BY <1>2, <1>5, <1>6 DEF Looks

LEMMA RequirementsLooks ==
  ASSUME Well, NEW th \in Thread, Requirements(th) PROVE Looks(th)
  <1>1. Arg(th) \in Rows /\ Arg(th).status \notin Final /\ "done" \in Status
    BY HeadIs, ArgIs, StatusIs DEF Requirements, Doing, Arg, Reviewed, Final
  <1>2. Settled(board) => Moved(Arg(th), "done") \in Fresh(board)
    BY <1>1, MovedFresh DEF Settled
  <1> QED BY <1>2, NothingToDo, NothingToFinish DEF Requirements, Doing, Looks

LEMMA RereadLooks ==
  ASSUME Well, NEW th \in Thread, Reread(th) PROVE Looks(th)
  <1> DEFINE row == Row(board, Arg(th))
  <1>1. Head(calls[th]).do = "Reread" /\ Head(calls[th]).of = Arg(th) /\ Arg(th) \in Ticket
    BY HeadIs, ArgIs DEF Reread, Doing, Arg
  <1>2. /\ row.ticket = Arg(th) /\ row.status = board.status[Arg(th)]
        /\ row.status = "in_review" => row \in Rows
    BY <1>1, RowTyped DEF Well
  <1>3. Look(th, Finish(row))
    BY DEF Reread
  <1> HIDE DEF row
  <1>4. /\ Finish(row) \in Seq(Later)
        /\ row.status = "in_review" => Finish(row) = <<Do("Advance", row)>>
    BY <1>2, FinishLater
  <1>5. Keeps(th, Finish(row))
    <2> SUFFICES ASSUME NEW t \in Below, board.status[t] = "in_review", Finishes(Head(calls[th]), t)
                 PROVE  \E i \in 1 .. Len(Finish(row)) : Finishes(Finish(row)[i], t)
      BY DEF Keeps
    <2>1. t = Arg(th) /\ Finish(row) = <<Do("Advance", row)>>
      BY <1>1, <1>2, <1>4 DEF Finishes
    <2>2. Finishes(Do("Advance", row), t)
      BY <2>1, <1>2 DEF Finishes, Do
    <2> QED BY <2>1, <2>2
  <1> QED BY <1>3, <1>4, <1>5, LaterFresh DEF Looks

LEMMA CarryLooks ==
  ASSUME Well, NEW th \in Thread, Carry(th) PROVE Looks(th)
  <1>1. Arg(th) \in Rows /\ Arg(th).ticket = Epic
    BY HeadIs, ArgIs DEF Carry, Doing, Arg
  <1>2. AdvanceEpic(Arg(th), "designed") \in Fresh(board)
    BY <1>1, AdvanceEpicFresh
  <1> QED BY <1>2, NothingToDo, NothingToFinish DEF Carry, Doing, Looks

LEMMA RecarryLooks ==
  ASSUME Well, NEW th \in Thread, Recarry(th) PROVE Looks(th)
  <1>1. Row(board, Epic) \in Rows /\ Row(board, Epic).ticket = Epic
    BY RowTyped, EpicIsTicket DEF Well
  <1>2. <<Do("Carry", Row(board, Epic))>> \in Seq(Later)
    BY <1>1, LooksLater, OneIs
  <1> QED BY <1>2, LaterFresh, NothingToFinish DEF Recarry, Doing, Looks

LEMMA ReopenLooks ==
  ASSUME Well, NEW th \in Thread, Reopen(th) PROVE Looks(th)
  <1> DEFINE row == Row(board, Arg(th))
  <1>1. Arg(th) \in Ticket
    BY HeadIs, ArgIs DEF Reopen, Doing, Arg
  <1>2. row.status = "in_review" => row \in Rows
    BY <1>1, RowTyped DEF Well
  <1>3. Look(th, IF row.status = "in_review" THEN Moved(row, "in_progress") ELSE <<>>)
    BY DEF Reopen
  <1> HIDE DEF row
  <1>4. row.status = "in_review" => Moved(row, "in_progress") \in Fresh(board)
    BY <1>2, MovedFresh, StatusIs DEF Final
  <1> QED BY <1>3, <1>4, NothingToDo, NothingToFinish DEF Reopen, Doing, Looks

LEMMA ReconcileLooks ==
  ASSUME Well, NEW th \in Thread, Reconcile(th) PROVE Looks(th)
  <1> DEFINE f == Arg(th)[1]
             t == Arg(th)[2]
             of == [row |-> [Row(board, t) EXCEPT !.status = "signed_off"],
                    was |-> Row(board, t), from |-> f]
  <1>1. f \in Ticket /\ t \in Ticket
    BY HeadIs, ArgIs, EpicIsTicket DEF Reconcile, Doing, Arg
  <1>2. Look(th, IF Released(board, f) THEN Those("Ready", HeldBack(board, f))
                 ELSE IF board.status[t] = "ready" THEN <<Do("WalkBack", of)>> ELSE <<>>)
    BY DEF Reconcile
  <1> HIDE DEF f, t
  <1>3. Those("Ready", HeldBack(board, f)) \in Fresh(board)
    BY <1>1, KidsTyped, ThoseLater, LaterFresh DEF Well
  <1>4. board.status[t] = "ready" => <<Do("WalkBack", of)>> \in Fresh(board)
    <2> SUFFICES ASSUME board.status[t] = "ready" PROVE <<Do("WalkBack", of)>> \in Fresh(board)
      OBVIOUS
    <2>1. Row(board, t) \in Rows /\ Row(board, t).status \notin Final /\ "signed_off" \in Status
      BY <1>1, RowTyped, StatusIs DEF Well, Final
    <2>2. [Row(board, t) EXCEPT !.status = "signed_off"] \in Rows
          /\ [Row(board, t) EXCEPT !.status = "signed_off"].status = "signed_off"
      BY <2>1, WithStatus
    <2>3. of \in [row: Rows, was: Rows, from: Ticket] /\ of.row.status = "signed_off"
            /\ of.was.status \notin Final
      BY <1>1, <2>1, <2>2
    <2> HIDE DEF of
    <2>4. Do("WalkBack", of) \in First
      BY <2>3 DEF Do, First
    <2>5. Grounded(Do("WalkBack", of), board, {}) /\ Promises(Do("WalkBack", of), <<>>)
      BY DEF Do, Grounded, Promises
    <2>6. <<>> \in Seq(Later)
      OBVIOUS
    <2>7. <<Do("WalkBack", of)>> \o <<>> = <<Do("WalkBack", of)>>
      OBVIOUS
    <2> QED BY <2>4, <2>5, <2>6, <2>7, FrameFresh
  <1> HIDE DEF of
  <1> QED BY <1>2, <1>3, <1>4, NothingToDo, NothingToFinish DEF Reconcile, Doing, Looks

LEMMA UnlockLooks ==
  ASSUME Well, NEW th \in Thread, Unlock(th) PROVE Looks(th)
  BY NothingToDo, NothingToFinish DEF Unlock, Doing, Looks

LEMMA AskGateLooks ==
  ASSUME Well, NEW th \in Thread, AskGate(th) PROVE Looks(th)
  <1> DEFINE f == Do("OpenGate", Epic)
  <1>1. f \in First
    BY EpicIsTicket DEF Do, First
  <1>2. Grounded(f, board, {}) /\ Promises(f, <<>>)
    BY DEF Do, Grounded, Promises
  <1>3. <<>> \in Seq(Later)
    OBVIOUS
  <1>4. <<f>> \o <<>> = <<f>>
    OBVIOUS
  <1>5. Look(th, IF Answerable(board) THEN <<f>> ELSE <<>>)
    BY DEF AskGate
  <1> HIDE DEF f
  <1>6. <<f>> \in Fresh(board)
    BY <1>1, <1>2, <1>3, <1>4, FrameFresh
  <1> QED BY <1>5, <1>6, NothingToDo, NothingToFinish DEF AskGate, Doing, Looks

LEMMA HeldLooks ==
  ASSUME Well, NEW th \in Thread, Held(th) PROVE Looks(th)
  <1> DEFINE held == {t \in Below : board.status[t] = "signed_off"}
  <1>1. {Row(board, t) : t \in held} \subseteq Signed
    BY RowTyped, EpicIsTicket DEF Well, Signed
  <1>2. Those("Each", {Row(board, t) : t \in held}) \in Seq(Later)
    BY <1>1, ThoseLater
  <1>3. Look(th, Those("Each", {Row(board, t) : t \in held}))
    BY DEF Held
  <1> QED BY <1>2, <1>3, LaterFresh, NothingToFinish DEF Held, Doing, Looks

LEMMA EachLooks ==
  ASSUME Well, NEW th \in Thread, Each(th) PROVE Looks(th)
  <1>1. Arg(th) \in SUBSET Signed
    BY HeadIs, ArgIs DEF Each, Doing, Arg
  <1>2. PICK row \in Arg(th) : Look(th, After(row) \o Those("Each", Arg(th) \ {row}))
    BY DEF Each
  <1>3. After(row) \in Seq(Later) /\ Those("Each", Arg(th) \ {row}) \in Seq(Later)
    BY <1>1, AfterLater, ThoseLater DEF Signed
  <1>4. After(row) \o Those("Each", Arg(th) \ {row}) \in Seq(Later)
    BY <1>3, ConcatIs
  <1> QED BY <1>2, <1>4, LaterFresh, NothingToFinish DEF Each, Doing, Looks

\* The steps of a request under way that only look.
LookSteps(th) ==
  \/ Guard(th) \/ Release(th) \/ Ready(th) \/ Parent(th) \/ Kids(th) \/ AllIn(th) \/ ToReview(th)
  \/ Advance(th) \/ Requirements(th) \/ Reread(th) \/ Carry(th) \/ Recarry(th) \/ Reopen(th)
  \/ Reconcile(th) \/ Unlock(th) \/ AskGate(th) \/ Held(th) \/ Each(th)

LEMMA EveryLook == ASSUME Well, NEW th \in Thread, LookSteps(th) PROVE Looks(th)
  BY GuardLooks, ReleaseLooks, ReadyLooks, ParentLooks, KidsLooks, AllInLooks, ToReviewLooks,
     AdvanceLooks, RequirementsLooks, RereadLooks, CarryLooks, RecarryLooks, ReopenLooks,
     ReconcileLooks, UnlockLooks, AskGateLooks, HeldLooks, EachLooks DEF LookSteps

-----------------------------------------------------------------------------
\* The requests that only look at first.
Begins(th) == \E todo \in Fresh(board) : Begin(th, todo)

LEMMA TicketUpdateBegins ==
  ASSUME Well, NEW th \in Thread, NEW t \in Ticket, NEW to \in Status, TicketUpdate(th, t, to)
  PROVE  Begins(th)
  <1> DEFINE f == Do("Guard", [row |-> Row(board, t), to |-> to])
  <1>1. Row(board, t) \in Rows /\ to \in Transitions[Row(board, t).status]
    BY RowTyped DEF Well, TicketUpdate, Exists
  <1>2. f \in First /\ f.do = "Guard"
    BY <1>1 DEF Do, First
  <1>3. Begin(th, <<f>>)
    BY DEF TicketUpdate
  <1> HIDE DEF f
  <1>4. Grounded(f, board, {}) /\ Promises(f, <<>>) /\ <<f>> \o <<>> = <<f>> /\ <<>> \in Seq(Later)
    BY <1>2 DEF Grounded, Promises
  <1> QED BY <1>2, <1>3, <1>4, FrameFresh DEF Begins

LEMMA PutBackFresh ==
  ASSUME Well, NEW t \in Ticket, NEW row \in Rows, NEW r \in Seq(Later),
         board.status[t] # "none", row.ticket = t, row.status = board.status[t]
  PROVE  <<Do("PutBack", [row |-> row, was |-> Row(board, t)])>> \o r \in Fresh(board)
  <1> DEFINE of == [row |-> row, was |-> Row(board, t)]
             f == Do("PutBack", of)
  <1>1. Row(board, t) \in Rows /\ Row(board, t).ticket = t /\ Row(board, t).status = board.status[t]
    BY RowTyped DEF Well
  <1>2. of \in {c \in Changes : c.row.ticket = c.was.ticket /\ c.row.status = c.was.status}
    BY <1>1 DEF Changes
  <1> HIDE DEF of
  <1>3. f \in First /\ f.do = "PutBack"
    BY <1>2 DEF Do, First
  <1>4. Grounded(f, board, {}) /\ Promises(f, r)
    BY <1>3 DEF Grounded, Promises
  <1> HIDE DEF f
  <1>5. <<f>> \o r \in Fresh(board)
    BY <1>3, <1>4, FrameFresh
  <1> QED BY <1>5 DEF f, of

LEMMA SetDesignBegins ==
  ASSUME Well, NEW th \in Thread, NEW t \in Ticket, SetDesign(th, t)
  PROVE  Begins(th)
  <1> DEFINE row == Row(board, t)
             designed == [row EXCEPT !.design = TRUE]
             rest == IF t = Epic THEN <<Do("Carry", designed)>> ELSE <<>>
  <1>1. row \in Rows /\ row.ticket = t /\ row.status = board.status[t] /\ board.status[t] # "none"
    BY RowTyped DEF Well, SetDesign
  <1>2. designed \in Rows /\ designed.ticket = t /\ designed.status = board.status[t]
    BY <1>1 DEF Rows
  <1>3. Begin(th, <<Do("PutBack", [row |-> designed, was |-> row])>> \o rest)
    BY DEF SetDesign
  <1> HIDE DEF designed
  <1>4. rest \in Seq(Later)
    <2>1. t = Epic => <<Do("Carry", designed)>> \in Seq(Later)
      BY <1>2, LooksLater, OneIs
    <2>2. <<>> \in Seq(Later)
      OBVIOUS
    <2> QED BY <2>1, <2>2
  <1> HIDE DEF rest
  <1> QED BY <1>1, <1>2, <1>3, <1>4, PutBackFresh DEF Begins

LEMMA EditBegins ==
  ASSUME Well, NEW th \in Thread, NEW t \in Ticket, Edit(th, t)
  PROVE  Begins(th)
  <1>1. /\ Row(board, t) \in Rows /\ Row(board, t).ticket = t
        /\ Row(board, t).status = board.status[t] /\ board.status[t] # "none"
        /\ board.status[t] \in Status
    BY RowTyped DEF Well, Edit, Exists
  <1> DEFINE row == [Row(board, t) EXCEPT !.status = board.status[t]]
  <1>2. row \in Rows /\ row.ticket = t /\ row.status = board.status[t]
    BY <1>1, WithStatus
  <1>3. Begin(th, <<Do("PutBack", [row |-> row, was |-> Row(board, t)])>>)
    BY DEF Edit, Change
  <1> HIDE DEF row
  <1>4. <<>> \in Seq(Later)
    OBVIOUS
  <1>5. <<Do("PutBack", [row |-> row, was |-> Row(board, t)])>> \o <<>> \in Fresh(board)
    BY <1>1, <1>2, <1>4, PutBackFresh
  <1>6. <<Do("PutBack", [row |-> row, was |-> Row(board, t)])>> \o <<>>
          = <<Do("PutBack", [row |-> row, was |-> Row(board, t)])>>
    OBVIOUS
  <1> QED BY <1>3, <1>5, <1>6 DEF Begins

LEMMA CriterionCreateBegins ==
  ASSUME Well, NEW th \in Thread, NEW c \in Criterion, CriterionCreate(th, c)
  PROVE  Begins(th)
  <1> DEFINE f == Do("AddLine", c)
             rest == IF On[c] = Epic THEN <<Do("Recarry", Epic)>> ELSE <<>>
  <1>1. f \in First /\ f.do = "AddLine"
    BY DEF Do, First
  <1>2. rest \in Seq(Later)
    <2>1. <<Do("Recarry", Epic)>> \in Seq(Later) /\ <<>> \in Seq(Later)
      BY LooksLater, EpicIsTicket, OneIs
    <2> QED BY <2>1
  <1>3. Begin(th, <<f>> \o rest)
    BY DEF CriterionCreate
  <1> HIDE DEF f, rest
  <1>4. Grounded(f, board, {}) /\ Promises(f, rest)
    BY <1>1 DEF Grounded, Promises
  <1> QED BY <1>1, <1>2, <1>3, <1>4, FrameFresh DEF Begins

LEMMA UpdateLineBegins ==
  ASSUME Well, NEW th \in Thread, NEW row \in LineRows, row.line \in board.lines,
         NEW byOwner, UpdateLine(th, row, byOwner)
  PROVE  Begins(th)
  <1> DEFINE t == On[row.line]
             f == Do("PutLine", row)
             back == IF byOwner /\ t \in Quick /\ row.verdict = "fail"
                     THEN <<Do("Reopen", t)>> ELSE <<>>
             again == <<Do("Reread", t)>>
  <1>1. row.line \in Criterion /\ t \in Ticket
    BY TreeAssumption DEF LineRows
  <1> HIDE DEF t
  <1>2. f \in First /\ f.do = "PutLine" /\ f.of = row
    BY DEF Do, First
  <1>3. back \in Seq(Later) /\ again \in Seq(Later)
    <2>1. <<Do("Reopen", t)>> \in Seq(Later) /\ <<Do("Reread", t)>> \in Seq(Later) /\ <<>> \in Seq(Later)
      BY <1>1, LooksLater, OneIs
    <2> QED BY <2>1
  <1>4. Has(again, Do("Reread", t))
    BY DEF Has
  <1>5. Begin(th, <<f>> \o back \o again)
    BY DEF UpdateLine, t
  <1> HIDE DEF f, back, again
  <1>6. back \o again \in Seq(Later) /\ Has(back \o again, Do("Reread", t))
    BY <1>3, <1>4, ConcatIs, ConcatHas
  <1>7. Grounded(f, board, {}) /\ Promises(f, back \o again)
    BY <1>2, <1>6 DEF Grounded, Promises, t
  <1>8. <<f>> \o (back \o again) \in Fresh(board)
    BY <1>2, <1>6, <1>7, FrameFresh
  <1>9. (<<f>> \o back) \o again = <<f>> \o (back \o again)
    <2>1. \A x, y, z \in Seq(First) : (x \o y) \o z = x \o (y \o z)
      OBVIOUS
    <2>2. <<f>> \in Seq(First) /\ back \in Seq(First) /\ again \in Seq(First)
      BY <1>2, <1>3, OneIs, LaterIsFirst, SeqMore
    <2> QED BY <2>1, <2>2
  <1> QED BY <1>5, <1>8, <1>9 DEF Begins

LEMMA LineRowTyped ==
  ASSUME NEW b \in Boards, NEW c \in Criterion
  PROVE  LineRow(b, c) \in LineRows /\ LineRow(b, c).line = c
  BY DEF LineRow, LineRows, Boards

LEMMA CriterionEvidenceBegins ==
  ASSUME Well, NEW th \in Thread, NEW c \in Criterion, NEW byOwner \in BOOLEAN,
         CriterionEvidence(th, c, byOwner)
  PROVE  Begins(th)
  <1>1. LineRow(board, c) \in LineRows /\ LineRow(board, c).line = c
    BY LineRowTyped DEF Well
  <1>2. [LineRow(board, c) EXCEPT !.evidence = TRUE] \in LineRows
          /\ [LineRow(board, c) EXCEPT !.evidence = TRUE].line = c
    BY <1>1 DEF LineRows
  <1> QED BY <1>2, UpdateLineBegins DEF CriterionEvidence

LEMMA CriterionVerdictBegins ==
  ASSUME Well, NEW th \in Thread, NEW c \in Criterion, NEW v \in {"pending", "pass", "fail"},
         CriterionVerdict(th, c, v)
  PROVE  Begins(th)
  <1>1. LineRow(board, c) \in LineRows /\ LineRow(board, c).line = c
    BY LineRowTyped DEF Well
  <1>2. [LineRow(board, c) EXCEPT !.verdict = v] \in LineRows
          /\ [LineRow(board, c) EXCEPT !.verdict = v].line = c
    BY <1>1 DEF LineRows
  <1> QED BY <1>2, UpdateLineBegins DEF CriterionVerdict

LEMMA MessageSendBegins ==
  ASSUME Well, NEW th \in Thread, NEW t \in Ticket, MessageSend(th, t)
  PROVE  Begins(th)
  <1>1. <<Do("Reread", t)>> \in Seq(Later)
    BY LooksLater, OneIs
  <1> QED BY <1>1, LaterFresh DEF MessageSend, Begins

LEMMA LinkCreateBegins ==
  ASSUME Well, NEW th \in Thread, NEW x \in Below, NEW t \in Below, LinkCreate(th, x, t)
  PROVE  Begins(th)
  <1> DEFINE f == Do("Link", <<x, t>>)
  <1>1. f \in First /\ f.do = "Link"
    BY DEF Do, First
  <1>2. Begin(th, <<f>>)
    BY DEF LinkCreate
  <1> HIDE DEF f
  <1>3. Grounded(f, board, {}) /\ Promises(f, <<>>) /\ <<f>> \o <<>> = <<f>> /\ <<>> \in Seq(Later)
    BY <1>1 DEF Grounded, Promises
  <1> QED BY <1>1, <1>2, <1>3, FrameFresh DEF Begins

LEMMA GateOpenBegins ==
  ASSUME Well, NEW th \in Thread, GateOpen(th)
  PROVE  Begins(th)
  <1>1. Row(board, Epic) \in Rows /\ Row(board, Epic).ticket = Epic
    BY RowTyped, EpicIsTicket DEF Well
  <1>2. Do("Carry", Row(board, Epic)) \in Later /\ Do("AskGate", Epic) \in Later
    BY <1>1, LooksLater, EpicIsTicket
  <1>3. <<Do("Carry", Row(board, Epic)), Do("AskGate", Epic)>> \in Seq(Later)
    BY <1>2
  <1> QED BY <1>3, LaterFresh DEF GateOpen, Begins

BeginSteps(th) ==
  \/ \E t \in Ticket : SetDesign(th, t) \/ Edit(th, t) \/ MessageSend(th, t)
  \/ \E t \in Ticket, to \in Status : TicketUpdate(th, t, to)
  \/ \E c \in Criterion : CriterionCreate(th, c)
  \/ \E c \in Criterion, byOwner \in BOOLEAN : CriterionEvidence(th, c, byOwner)
  \/ \E c \in Criterion, v \in {"pending", "pass", "fail"} : CriterionVerdict(th, c, v)
  \/ \E f, t \in Below : LinkCreate(th, f, t)
  \/ GateOpen(th)

LEMMA EveryBegin ==
  ASSUME Well, NEW th \in Thread, BeginSteps(th)
  PROVE  Begins(th) /\ calls[th] = <<>> /\ world.left > 0
  <1>1. Begins(th)
    BY SetDesignBegins, EditBegins, MessageSendBegins, TicketUpdateBegins, CriterionCreateBegins,
       CriterionEvidenceBegins, CriterionVerdictBegins, LinkCreateBegins, GateOpenBegins
    DEF BeginSteps
  <1>2. calls[th] = <<>> /\ world.left > 0
    BY DEF BeginSteps, SetDesign, Edit, MessageSend, TicketUpdate, CriterionCreate,
       CriterionEvidence, CriterionVerdict, LinkCreate, GateOpen, Asked
  <1> QED BY <1>1, <1>2

\* The requests that change the tables at once, those that write a row, and
\* the other writes.
ServeSteps(th) ==
  \/ \E t \in Ticket : TicketCreate(th, t)
  \/ GateAnswer(th) \/ RequirementMark(th) \/ RequirementLink(th)
RowSteps(th) == Put(th) \/ Follow(th) \/ PutBack(th) \/ WalkBack(th)
WriteSteps(th) == Retire(th) \/ AddLine(th) \/ PutLine(th) \/ OpenGate(th) \/ Link(th)

LEMMA NextIs ==
  ASSUME Next
  PROVE  \/ UNCHANGED vars
         \/ \E th \in Thread : \/ LookSteps(th) \/ BeginSteps(th) \/ ServeSteps(th)
                               \/ RowSteps(th) \/ WriteSteps(th)
  <1>1. CASE Rest
    BY <1>1 DEF Rest
  <1>2. ASSUME NEW th \in Thread, Request(th) PROVE BeginSteps(th) \/ ServeSteps(th)
    BY <1>2 DEF Request, BeginSteps, ServeSteps
  <1>3. ASSUME NEW th \in Thread, GoOn(th)
        PROVE  LookSteps(th) \/ RowSteps(th) \/ WriteSteps(th)
    BY <1>3 DEF GoOn, LookSteps, RowSteps, WriteSteps
  <1> QED BY <1>1, <1>2, <1>3 DEF Next

-----------------------------------------------------------------------------
\* A step keeps the tables and the requests as they can be.
LEMMA GroundedStays ==
  ASSUME NEW f \in First, NEW b, NEW d, NEW x, b.lines \subseteq d.lines,
         b.open \in BOOLEAN, d.open \in BOOLEAN, Grounded(f, b, x)
  PROVE  Grounded(f, d, x \cup Adverse(b, d))
  <1>1. /\ "open" \in Adverse(b, d) <=> d.open /\ ~b.open
        /\ "gate" \in Adverse(b, d) <=> d.gate = "open" /\ b.gate # "open"
        /\ "blocked" \in Adverse(b, d) <=> \E t \in Ticket : ~Unblocked(d, t) /\ Unblocked(b, t)
    BY DEF Adverse
  <1>2. f.do \in {"Update", "Put"} => f.of.row.ticket \in Ticket
    BY ArgIs DEF Moves, Changes, Rows
  <1> QED BY <1>1, <1>2 DEF Grounded

LEMMA GroundedMore ==
  ASSUME NEW f, NEW b, NEW x, Grounded(f, b, {})
  PROVE  Grounded(f, b, x)
  BY DEF Grounded

LEMMA StepKeeps ==
  ASSUME Well, NEW th \in Thread, NEW b \in Boards, NEW todo \in Fresh(b), Step(th, b, todo),
         board.lines \subseteq b.lines
  PROVE  /\ board' = b /\ calls' \in [Thread -> Stacks] /\ calls'[th] = todo
         /\ \A o \in Thread \ {th} : calls'[o] = calls[o]
         /\ news' \in [Thread -> SUBSET {"open", "gate", "blocked"}]
         /\ \A o \in Thread : calls'[o] # <<>> => Grounded(Head(calls'[o]), board', news'[o])
  <1>1. /\ board' = b /\ calls' \in [Thread -> Stacks] /\ calls'[th] = todo
        /\ \A o \in Thread \ {th} : calls'[o] = calls[o]
    BY FreshIsStack DEF Step, Well
  <1>2. news' \in [Thread -> SUBSET {"open", "gate", "blocked"}]
    BY DEF Step, Well, Adverse
  <1>3. \A o \in Thread \ {th} : calls[o] # <<>> => news'[o] = news[o] \cup Adverse(board, b)
    BY DEF Step
  <1>4. ASSUME NEW o \in Thread, calls'[o] # <<>>
        PROVE  Grounded(Head(calls'[o]), board', news'[o])
    <2>1. CASE o = th
      <3>1. Grounded(Head(todo), b, {})
        BY <1>1, <1>4, <2>1 DEF Fresh
      <3> QED BY <1>1, <2>1, <3>1, GroundedMore
    <2>2. CASE o # th
      <3>1. calls[o] # <<>> /\ calls'[o] = calls[o] /\ Head(calls[o]) \in First
              /\ Grounded(Head(calls[o]), board, news[o])
        BY <1>1, <1>4, <2>2, HeadIs
      <3>2. board.open \in BOOLEAN /\ b.open \in BOOLEAN
        BY DEF Well, Boards
      <3>3. news'[o] = news[o] \cup Adverse(board, b)
        BY <1>3, <2>2, <3>1
      <3>4. Grounded(Head(calls[o]), b, news[o] \cup Adverse(board, b))
        BY <3>1, <3>2, GroundedStays
      <3> QED BY <1>1, <3>1, <3>3, <3>4
    <2> QED BY <2>1, <2>2
  <1> QED BY <1>1, <1>2, <1>4

\* What is left of a stack when its first frame is done.
LEMMA RestFresh ==
  ASSUME Well, NEW th \in Thread, calls[th] # <<>>, NEW b, NEW todo \in Fresh(b)
  PROVE  todo \o Tail(calls[th]) \in Fresh(b) /\ Tail(calls[th]) \in Fresh(b)
  BY HeadIs, FreshConcat, LaterFresh

LEMMA LooksAtWork ==
  ASSUME NEW th \in Thread, LookSteps(th) \/ RowSteps(th) \/ WriteSteps(th)
  PROVE  calls[th] # <<>>
  <1>1. CASE LookSteps(th)
    BY <1>1 DEF LookSteps, Guard, Release, Ready, Parent, Kids, AllIn, ToReview, Advance,
       Requirements, Reread, Carry, Recarry, Reopen, Reconcile, Unlock, AskGate, Held, Each, Doing
  <1>2. CASE RowSteps(th)
    BY <1>2 DEF RowSteps, Put, Follow, PutBack, WalkBack, Doing
  <1>3. CASE WriteSteps(th)
    BY <1>3 DEF WriteSteps, Retire, AddLine, PutLine, OpenGate, Link, Doing
  <1> QED BY <1>1, <1>2, <1>3

LEMMA LookWell == ASSUME Well, NEW th \in Thread, LookSteps(th) PROVE Well'
  <1>1. PICK todo \in Fresh(board) : Look(th, todo)
    BY EveryLook DEF Looks
  <1>2. todo \o Tail(calls[th]) \in Fresh(board)
    BY LooksAtWork, RestFresh
  <1>3. Step(th, board, todo \o Tail(calls[th])) /\ UNCHANGED <<world, astray>>
    BY <1>1 DEF Look
  <1>4. board \in Boards
    BY DEF Well
  <1> QED BY <1>2, <1>3, <1>4, StepKeeps DEF Well

LEMMA LeftTyped ==
  ASSUME Well, world.left > 0, world' = [world EXCEPT !.left = @ - 1]
  PROVE  world' \in [asks: SUBSET Asks, left: Nat]
  BY DEF Well

LEMMA BeginWell == ASSUME Well, NEW th \in Thread, BeginSteps(th) PROVE Well'
  <1>1. PICK todo \in Fresh(board) : Begin(th, todo)
    BY EveryBegin DEF Begins
  <1>2. Step(th, board, todo) /\ world' = [world EXCEPT !.left = @ - 1] /\ UNCHANGED astray
    BY <1>1 DEF Begin, Serve
  <1>3. world' \in [asks: SUBSET Asks, left: Nat]
    BY <1>2, EveryBegin, LeftTyped
  <1>4. board \in Boards
    BY DEF Well
  <1> QED BY <1>2, <1>3, <1>4, StepKeeps DEF Well

LEMMA SlipTyped ==
  ASSUME Well, NEW t \in Ticket, NEW x \in SUBSET Slips, Slip(t, x)
  PROVE  astray' \in [Ticket -> SUBSET Slips]
  BY DEF Well, Slip

LEMMA TicketCreateWell ==
  ASSUME Well, NEW th \in Thread, NEW t \in Ticket, TicketCreate(th, t) PROVE Well'
  <1> DEFINE b == [board EXCEPT !.status[t] = IF t \in Quick THEN "ready" ELSE "drafted"]
  <1>1. Step(th, b, <<>>) /\ world' = [world EXCEPT !.left = @ - 1] /\ UNCHANGED astray
    BY DEF TicketCreate, Serve
  <1>2. /\ b \in Boards /\ b.status[Epic] = board.status[Epic] /\ b.lines = board.lines
        /\ b.verdict = board.verdict
    <2>1. board \in Boards /\ t # Epic /\ Epic \in Ticket
      BY EpicIsTicket DEF Well, TicketCreate
    <2>2. PICK s \in Status : b = [board EXCEPT !.status[t] = s]
      BY StatusIs
    <2> HIDE DEF b
    <2>3. board.status \in [Ticket -> Status \cup {"none"}]
      BY <2>1 DEF Boards
    <2>4. [board.status EXCEPT ![t] = s] \in [Ticket -> Status \cup {"none"}]
            /\ [board.status EXCEPT ![t] = s][Epic] = board.status[Epic]
      BY <2>1, <2>3
    <2>5. b = [board EXCEPT !.status = [board.status EXCEPT ![t] = s]]
      BY <2>1, <2>2 DEF Boards
    <2> QED BY <2>1, <2>4, <2>5 DEF Boards
  <1>3. <<>> \in Fresh(b)
    <2>1. <<>> \in Seq(Later)
      OBVIOUS
    <2> QED BY <2>1, LaterFresh
  <1>4. world' \in [asks: SUBSET Asks, left: Nat]
    BY <1>1, LeftTyped DEF TicketCreate, Asked
  <1> HIDE DEF b
  <1> QED BY <1>1, <1>2, <1>3, <1>4, StepKeeps DEF Well

LEMMA GateAnswerWell == ASSUME Well, NEW th \in Thread, GateAnswer(th) PROVE Well'
  <1> DEFINE b == [board EXCEPT !.gate = "answered"]
             todo == AdvanceEpic(Row(board, Epic), "signed_off") \o <<Do("Held", Epic), Do("Commit", Epic)>>
  <1>1. Step(th, b, todo) /\ world' = [world EXCEPT !.left = @ - 1] /\ UNCHANGED astray
    BY DEF GateAnswer, Serve
  <1>2. /\ b \in Boards /\ b.status = board.status /\ b.lines = board.lines
        /\ b.verdict = board.verdict
    BY DEF Well, Boards
  <1>3. todo \in Fresh(b)
    <2>1. AdvanceEpic(Row(board, Epic), "signed_off") \in Fresh(b)
      BY RowTyped, EpicIsTicket, AdvanceEpicFresh DEF Well
    <2>2. Do("Held", Epic) \in Later /\ Do("Commit", Epic) \in Later
      BY LooksLater, EpicIsTicket
    <2>3. <<Do("Held", Epic), Do("Commit", Epic)>> \in Seq(Later)
      BY <2>2
    <2> QED BY <2>1, <2>3, FreshConcat
  <1>4. world' \in [asks: SUBSET Asks, left: Nat]
    BY <1>1, LeftTyped DEF GateAnswer, Asked
  <1> HIDE DEF b, todo
  <1> QED BY <1>1, <1>2, <1>3, <1>4, StepKeeps DEF Well

LEMMA RequirementMarkWell == ASSUME Well, NEW th \in Thread, RequirementMark(th) PROVE Well'
  <1> DEFINE ended == board.status[Epic] \in {"done", "partial"}
             b == [board EXCEPT !.open = TRUE,
                     !.status[Epic] = IF ended THEN "in_progress" ELSE @]
  <1>1. Step(th, b, <<>>) /\ world' = [world EXCEPT !.left = @ - 1]
    BY DEF RequirementMark, Serve
  <1>2. /\ b \in Boards /\ b.status[Epic] # "none" /\ b.lines = board.lines
        /\ b.verdict = board.verdict
    <2>1. board \in Boards /\ Epic \in Ticket /\ board.status[Epic] # "none"
      BY EpicIsTicket DEF Well
    <2>2. PICK s \in Status : b = [board EXCEPT !.open = TRUE, !.status[Epic] = s]
      <3>1. board.status[Epic] \in Status
        BY <2>1 DEF Boards
      <3>2. (IF ended THEN "in_progress" ELSE board.status[Epic]) \in Status
        BY <3>1, StatusIs
      <3> QED BY <3>2
    <2> HIDE DEF b
    <2>3. /\ [board.status EXCEPT ![Epic] = s] \in [Ticket -> Status \cup {"none"}]
          /\ [board.status EXCEPT ![Epic] = s][Epic] = s
      BY <2>1 DEF Boards
    <2>4. b = [board EXCEPT !.open = TRUE, !.status = [board.status EXCEPT ![Epic] = s]]
      BY <2>1, <2>2 DEF Boards
    <2>5. s # "none"
      BY StatusIs
    <2> QED BY <2>1, <2>3, <2>4, <2>5 DEF Boards
  <1>3. <<>> \in Fresh(b)
    <2>1. <<>> \in Seq(Later)
      OBVIOUS
    <2> QED BY <2>1, LaterFresh
  <1>4. world' \in [asks: SUBSET Asks, left: Nat]
    BY <1>1, LeftTyped DEF RequirementMark, Asked
  <1>5. astray' \in [Ticket -> SUBSET Slips]
    <2>1. Slip(Epic, IF ended THEN {"reopened"} ELSE {})
      BY DEF RequirementMark
    <2>2. (IF ended THEN {"reopened"} ELSE {}) \in SUBSET Slips
      BY DEF Slips
    <2> QED BY <2>1, <2>2, SlipTyped, EpicIsTicket
  <1> HIDE DEF b
  <1> QED BY <1>1, <1>2, <1>3, <1>4, <1>5, StepKeeps DEF Well

LEMMA RequirementLinkWell == ASSUME Well, NEW th \in Thread, RequirementLink(th) PROVE Well'
  <1> DEFINE b == [board EXCEPT !.open = FALSE]
  <1>1. Step(th, b, <<>>) /\ world' = [world EXCEPT !.left = @ - 1] /\ UNCHANGED astray
    BY DEF RequirementLink, Serve
  <1>2. /\ b \in Boards /\ b.status = board.status /\ b.lines = board.lines
        /\ b.verdict = board.verdict
    BY DEF Well, Boards
  <1>3. <<>> \in Fresh(b)
    <2>1. <<>> \in Seq(Later)
      OBVIOUS
    <2> QED BY <2>1, LaterFresh
  <1>4. world' \in [asks: SUBSET Asks, left: Nat]
    BY <1>1, LeftTyped DEF RequirementLink, Asked
  <1> HIDE DEF b
  <1> QED BY <1>1, <1>2, <1>3, <1>4, StepKeeps DEF Well

\* store.put of a ticket's row.
LEMMA PutRowIs ==
  ASSUME NEW b \in Boards, NEW row \in Rows
  PROVE  /\ PutRow(b, row) \in Boards
         /\ PutRow(b, row).status = [b.status EXCEPT ![row.ticket] = row.status]
         /\ PutRow(b, row).status[row.ticket] = row.status
         /\ \A t \in Ticket \ {row.ticket} : PutRow(b, row).status[t] = b.status[t]
         /\ PutRow(b, row).lines = b.lines /\ PutRow(b, row).verdict = b.verdict
         /\ PutRow(b, row).gate = b.gate /\ PutRow(b, row).open = b.open
         /\ PutRow(b, row).evidence = b.evidence /\ PutRow(b, row).blocks = b.blocks
  BY DEF PutRow, Boards, Rows

\* What the row writes have in common.
LEMMA RowWrites ==
  ASSUME Well, NEW th \in Thread, RowSteps(th)
  PROVE  /\ PutsRow(th) /\ Arg(th).row \in Rows /\ calls[th] # <<>>
         /\ Step(th, PutRow(board, Arg(th).row), Tail(calls[th])) /\ UNCHANGED world
         /\ Head(calls[th]).do \in {"Update", "Put", "Follow", "PutBack", "WalkBack"}
         /\ \/ /\ Head(calls[th]).do \in {"Update", "Put", "Follow"}
               /\ \E stale \in BOOLEAN : Written(th, stale)
            \/ /\ Head(calls[th]).do = "PutBack"
               /\ Slip(Arg(th).row.ticket, IF Overtaken(th) THEN {"edited"} ELSE {})
            \/ /\ Head(calls[th]).do = "WalkBack"
               /\ \E x \in {{}, {"link"}} : Slip(Arg(th).row.ticket, x)
  <1>1. Head(calls[th]) \in First /\ calls[th] # <<>>
    BY LooksAtWork, HeadIs
  <1>2. Head(calls[th]).do \in {"Update", "Put", "Follow", "PutBack", "WalkBack"} /\ PutsRow(th)
    BY DEF RowSteps, Put, Follow, PutBack, WalkBack, Doing, Written
  <1>3. Arg(th).row \in Rows
    BY <1>1, <1>2, ArgIs DEF Arg, Moves, Changes
  <1>4. \/ /\ Head(calls[th]).do \in {"Update", "Put", "Follow"}
           /\ \E stale \in BOOLEAN : Written(th, stale)
        \/ /\ Head(calls[th]).do = "PutBack"
           /\ Slip(Arg(th).row.ticket, IF Overtaken(th) THEN {"edited"} ELSE {})
        \/ /\ Head(calls[th]).do = "WalkBack"
           /\ \E x \in {{}, {"link"}} : Slip(Arg(th).row.ticket, x)
    <2>1. Overtaken(th) \in BOOLEAN /\ (Overtaken(th) \/ Arg(th).kids # KidRows(board)) \in BOOLEAN
      BY DEF Overtaken
    <2>2. CASE Put(th)
      BY <2>1, <2>2 DEF Put, Doing
    <2>3. CASE Follow(th)
      BY <2>1, <2>3 DEF Follow, Doing
    <2>4. CASE PutBack(th)
      BY <2>4 DEF PutBack, Doing
    <2>5. CASE WalkBack(th)
      BY <2>5 DEF WalkBack, Doing
    <2> QED BY <2>2, <2>3, <2>4, <2>5 DEF RowSteps
  <1> QED BY <1>1, <1>2, <1>3, <1>4 DEF PutsRow, Write

LEMMA WrittenAstray ==
  ASSUME Well, NEW th \in Thread, NEW stale \in BOOLEAN, Written(th, stale), Arg(th).row \in Rows
  PROVE  /\ astray' \in [Ticket -> SUBSET Slips]
         /\ \A t \in Ticket : t # Arg(th).row.ticket => astray'[t] = astray[t]
         /\ Arg(th).row.status \notin Terminal \cup {"in_review"} =>
              astray[Arg(th).row.ticket] \subseteq astray'[Arg(th).row.ticket]
  BY RowIs DEF Written, Well, Slips

LEMMA RowWell == ASSUME Well, NEW th \in Thread, RowSteps(th) PROVE Well'
  <1> DEFINE row == Arg(th).row
             b == PutRow(board, row)
  <1>1. /\ row \in Rows /\ calls[th] # <<>> /\ Step(th, b, Tail(calls[th])) /\ UNCHANGED world
    BY RowWrites
  <1>2. /\ b \in Boards /\ b.lines = board.lines /\ b.verdict = board.verdict
        /\ b.status[Epic] # "none"
    <2>1. board \in Boards /\ board.status[Epic] # "none"
      BY DEF Well
    <2>2. /\ b \in Boards /\ b.lines = board.lines /\ b.verdict = board.verdict
          /\ b.status[row.ticket] = row.status
          /\ \A t \in Ticket \ {row.ticket} : b.status[t] = board.status[t]
      BY <1>1, <2>1, PutRowIs
    <2>3. row.status # "none"
      BY <1>1, RowIs, StatusIs
    <2> HIDE DEF b, row
    <2> QED BY <2>1, <2>2, <2>3, EpicIsTicket
  <1>3. Tail(calls[th]) \in Fresh(b)
    BY <1>1, HeadIs, LaterFresh
  <1>4. astray' \in [Ticket -> SUBSET Slips]
    <2>1. CASE \E stale \in BOOLEAN : Written(th, stale)
      BY <2>1, <1>1, WrittenAstray
    <2>2. CASE \E x \in SUBSET Slips : Slip(row.ticket, x)
      BY <2>2, <1>1, RowIs, SlipTyped
    <2>3. {} \in SUBSET Slips /\ {"edited"} \in SUBSET Slips /\ {"link"} \in SUBSET Slips
      BY DEF Slips
    <2> QED BY <2>1, <2>2, <2>3, RowWrites
  <1> HIDE DEF b
  <1> QED BY <1>1, <1>2, <1>3, <1>4, StepKeeps DEF Well

LEMMA GateWriteWell ==
  ASSUME Well, NEW th \in Thread, Retire(th) \/ OpenGate(th) PROVE Well'
  <1>1. PICK g \in {"none", "open", "answered", "retired"} :
          Write(th, [board EXCEPT !.gate = g]) /\ UNCHANGED astray
    <2>1. (IF board.gate = "open" THEN "retired" ELSE board.gate)
            \in {"none", "open", "answered", "retired"}
      BY DEF Well, Boards
    <2>2. Retire(th) => Write(th, [board EXCEPT !.gate = IF board.gate = "open" THEN "retired" ELSE board.gate])
                          /\ UNCHANGED astray
      BY DEF Retire
    <2> QED BY <2>1, <2>2 DEF OpenGate
  <1> DEFINE b == [board EXCEPT !.gate = g]
  <1>2. b \in Boards /\ b.status = board.status /\ b.lines = board.lines /\ b.verdict = board.verdict
    BY DEF Well, Boards
  <1>3. Tail(calls[th]) \in Fresh(b)
    BY LooksAtWork, HeadIs, LaterFresh DEF WriteSteps
  <1>4. Step(th, b, Tail(calls[th])) /\ UNCHANGED <<world, astray>>
    BY <1>1 DEF Write
  <1> HIDE DEF b
  <1> QED BY <1>2, <1>3, <1>4, StepKeeps DEF Well

LEMMA AddLineWell == ASSUME Well, NEW th \in Thread, AddLine(th) PROVE Well'
  <1> DEFINE c == Arg(th)
             b == [board EXCEPT !.lines = @ \cup {c}]
  <1>1. c \in Criterion /\ calls[th] # <<>>
    BY LooksAtWork, HeadIs, ArgIs DEF WriteSteps, AddLine, Doing, Arg
  <1>2. /\ b \in Boards /\ b.status = board.status /\ b.lines = board.lines \cup {c}
        /\ b.verdict = board.verdict
    BY <1>1 DEF Well, Boards
  <1>3. Tail(calls[th]) \in Fresh(b)
    BY <1>1, HeadIs, LaterFresh
  <1>4. Step(th, b, Tail(calls[th])) /\ UNCHANGED world
    BY DEF AddLine, Write
  <1>5. astray' \in [Ticket -> SUBSET Slips]
    <2>1. On[c] \in Ticket
      BY <1>1, TreeAssumption
    <2>2. PICK x \in {{}, {"line"}} : Slip(On[c], x)
      BY DEF AddLine
    <2>3. x \in SUBSET Slips
      BY DEF Slips
    <2> QED BY <2>1, <2>2, <2>3, SlipTyped
  <1> HIDE DEF b, c
  <1> QED BY <1>2, <1>3, <1>4, <1>5, StepKeeps DEF Well

LEMMA PutLineWell == ASSUME Well, NEW th \in Thread, PutLine(th) PROVE Well'
  <1> DEFINE row == Arg(th)
             b == [board EXCEPT !.verdict[row.line] = row.verdict,
                     !.evidence = IF row.evidence THEN @ \cup {row.line} ELSE @ \ {row.line}]
  <1>1. row \in LineRows /\ calls[th] # <<>> /\ row.line \in board.lines
    BY LooksAtWork, HeadIs, ArgIs DEF WriteSteps, PutLine, Doing, Arg, Grounded
  <1>2. row.line \in Criterion /\ row.verdict \in {"pending", "pass", "fail"}
    BY <1>1 DEF LineRows
  <1>3. Step(th, b, Tail(calls[th])) /\ UNCHANGED world
    BY DEF PutLine, Write
  <1> HIDE DEF row
  <1>4. /\ b \in Boards /\ b.status = board.status /\ b.lines = board.lines
        /\ \A c \in Criterion : c # row.line => b.verdict[c] = board.verdict[c]
    BY <1>2 DEF Well, Boards
  <1>5. Tail(calls[th]) \in Fresh(b)
    BY <1>1, HeadIs, LaterFresh
  <1>6. astray' \in [Ticket -> SUBSET Slips]
    <2>1. On[row.line] \in Ticket
      BY <1>2, TreeAssumption
    <2>2. PICK x \in {{}, {"line"}} : Slip(On[row.line], x)
      BY DEF PutLine, row
    <2>3. x \in SUBSET Slips
      BY DEF Slips
    <2> QED BY <2>1, <2>2, <2>3, SlipTyped
  <1> HIDE DEF b
  <1> QED BY <1>1, <1>3, <1>4, <1>5, <1>6, StepKeeps DEF Well

LEMMA LinkWell == ASSUME Well, NEW th \in Thread, Link(th) PROVE Well'
  <1> DEFINE l == Arg(th)
             b == [board EXCEPT !.blocks = @ \cup {l}]
             f == Do("Reconcile", l)
             rest == <<Do("Unlock", Epic)>> \o Tail(calls[th])
  <1>1. l \in Below \X Below /\ calls[th] # <<>> /\ Tail(calls[th]) \in Seq(Later)
    BY LooksAtWork, HeadIs, ArgIs DEF WriteSteps, Link, Doing, Arg
  <1>2. Step(th, b, <<f, Do("Unlock", Epic)>> \o Tail(calls[th])) /\ UNCHANGED <<world, astray>>
    BY DEF Link
  <1> HIDE DEF l
  <1>3. /\ b \in Boards /\ b.status = board.status /\ b.lines = board.lines
        /\ b.verdict = board.verdict
    BY <1>1 DEF Well, Boards
  <1>4. f \in First /\ f.do = "Reconcile"
    BY <1>1 DEF Do, First
  <1> HIDE DEF f, b
  <1>5. Do("Unlock", Epic) \in Later /\ <<Do("Unlock", Epic)>> \in Seq(Later)
    BY LooksLater, EpicIsTicket, OneIs
  <1>6. rest \in Seq(Later)
    BY <1>1, <1>5, ConcatIs
  <1>7. Grounded(f, b, {}) /\ Promises(f, rest)
    BY <1>4 DEF Grounded, Promises
  <1>8. <<f>> \o rest \in Fresh(b)
    BY <1>4, <1>6, <1>7, FrameFresh
  <1>9. <<f, Do("Unlock", Epic)>> \o Tail(calls[th]) = <<f>> \o rest
    <2>1. \A x, y, z \in Seq(First) : (x \o y) \o z = x \o (y \o z)
      OBVIOUS
    <2>2. /\ <<f>> \in Seq(First) /\ <<Do("Unlock", Epic)>> \in Seq(First)
          /\ Tail(calls[th]) \in Seq(First)
      BY <1>1, <1>4, <1>5, OneIs, LaterIsFirst, SeqMore
    <2>3. <<f, Do("Unlock", Epic)>> = <<f>> \o <<Do("Unlock", Epic)>>
      OBVIOUS
    <2> QED BY <2>1, <2>2, <2>3
  <1> HIDE DEF rest
  <1>10. Step(th, b, <<f>> \o rest)
    BY <1>2, <1>9
  <1> QED BY <1>2, <1>3, <1>8, <1>10, StepKeeps DEF Well

LEMMA WellInit == Init => Well
  <1> SUFFICES ASSUME Init PROVE Well
    OBVIOUS
  <1>1. PICK w \in Worlds : board = w.board /\ world = [asks |-> w.asks, left |-> w.left]
    BY DEF Init
  <1>2. w \in [board: Boards, asks: SUBSET Asks, left: Nat] /\ Possible(w.board)
    BY WorldsAssumption
  <1>3. <<>> \in Stacks
    <2>1. <<>> \in Seq(Later)
      OBVIOUS
    <2> QED BY <2>1, LaterFresh
  <1> QED BY <1>1, <1>2, <1>3 DEF Init, Well, Possible

LEMMA WellNext == Well /\ [Next]_vars => Well'
  <1> SUFFICES ASSUME Well, [Next]_vars PROVE Well'
    OBVIOUS
  <1>1. CASE UNCHANGED vars
    BY <1>1 DEF vars, Well
  <1>2. CASE \E th \in Thread : LookSteps(th) \/ BeginSteps(th)
    BY <1>2, LookWell, BeginWell
  <1>3. CASE \E th \in Thread : ServeSteps(th)
    BY <1>3, TicketCreateWell, GateAnswerWell, RequirementMarkWell, RequirementLinkWell
    DEF ServeSteps
  <1>4. CASE \E th \in Thread : RowSteps(th)
    BY <1>4, RowWell
  <1>5. CASE \E th \in Thread : WriteSteps(th)
    BY <1>5, GateWriteWell, AddLineWell, PutLineWell, LinkWell DEF WriteSteps
  <1> QED BY <1>1, <1>2, <1>3, <1>4, <1>5, NextIs

LEMMA FirstIsFrame == First \subseteq Frames
  BY DEF First, Later, Frames, Moves, Signed, Reviewed

LEMMA WellTyped == Well => TypeOK
  <1> SUFFICES ASSUME Well PROVE TypeOK
    OBVIOUS
  <1>1. \A s \in Stacks : s \in Seq(Frames)
    BY FirstIsFrame, SeqMore DEF Stacks
  <1> QED BY <1>1 DEF Well, TypeOK

LEMMA AlwaysWell == Spec => []Well
  BY WellInit, WellNext, PTL DEF Spec

\* The tables keep the shape of the schemas, and what a request has still to
\* do holds rows that the tables had, whatever requests overlap.
THEOREM TypeCorrect == Spec => []TypeOK
  BY AlwaysWell, WellTyped, PTL

-----------------------------------------------------------------------------
\* What a step may do to the tables.
LEMMA StatusSame ==
  ASSUME Well, NEW th \in Thread,
         \/ LookSteps(th) \/ BeginSteps(th) \/ WriteSteps(th) \/ GateAnswer(th) \/ RequirementLink(th)
  PROVE  board'.status = board.status
  <1>1. CASE LookSteps(th)
    BY <1>1, EveryLook DEF Looks, Look, Step
  <1>2. CASE BeginSteps(th)
    BY <1>2, EveryBegin DEF Begins, Begin, Serve, Step
  <1>3. CASE WriteSteps(th)
    BY <1>3 DEF WriteSteps, Retire, AddLine, PutLine, OpenGate, Link, Write, Step, Well, Boards
  <1>4. CASE GateAnswer(th) \/ RequirementLink(th)
    BY <1>4 DEF GateAnswer, RequirementLink, Serve, Step, Well, Boards
  <1> QED BY <1>1, <1>2, <1>3, <1>4

LEMMA OnlyMine ==
  ASSUME Well, NEW th \in Thread,
         LookSteps(th) \/ BeginSteps(th) \/ ServeSteps(th) \/ RowSteps(th) \/ WriteSteps(th)
  PROVE  \A o \in Thread \ {th} : calls'[o] = calls[o]
  <1>1. CASE LookSteps(th)
    BY <1>1, EveryLook DEF Looks, Look, Step, Well
  <1>2. CASE BeginSteps(th)
    BY <1>2, EveryBegin DEF Begins, Begin, Serve, Step, Well
  <1>3. CASE ServeSteps(th)
    BY <1>3 DEF ServeSteps, TicketCreate, GateAnswer, RequirementMark, RequirementLink, Serve,
       Step, Well
  <1>4. CASE RowSteps(th)
    BY <1>4, RowWrites DEF Step, Well
  <1>5. CASE WriteSteps(th)
    BY <1>5 DEF WriteSteps, Retire, AddLine, PutLine, OpenGate, Link, Write, Step, Well
  <1> QED BY <1>1, <1>2, <1>3, <1>4, <1>5

\* The put of a row, as a step: whose it is, and the table after it.
LEMMA RowIsPut ==
  ASSUME Well, NEW th \in Thread, RowSteps(th)
  PROVE  /\ Arg(th).row \in Rows /\ board' = PutRow(board, Arg(th).row)
         /\ board'.status[Arg(th).row.ticket] = Arg(th).row.status
         /\ \A t \in Ticket \ {Arg(th).row.ticket} : board'.status[t] = board.status[t]
         /\ board'.open = board.open
         /\ Writes(th, Arg(th).row.ticket)
  <1>1. /\ Arg(th).row \in Rows /\ calls[th] # <<>>
        /\ Step(th, PutRow(board, Arg(th).row), Tail(calls[th]))
        /\ Head(calls[th]).do \in {"Update", "Put", "Follow", "PutBack", "WalkBack"}
    BY RowWrites
  <1>2. board' = PutRow(board, Arg(th).row) /\ calls'[th] = Tail(calls[th])
    BY <1>1 DEF Step, Well
  <1>3. calls'[th] # calls[th]
    <2>1. calls[th] \in Seq(First)
      BY <1>1, HeadIs
    <2>2. Len(Tail(calls[th])) = Len(calls[th]) - 1 /\ Len(calls[th]) \in Nat
      BY <1>1, <2>1, SeqIs
    <2>3. Len(Tail(calls[th])) # Len(calls[th])
      BY <2>2
    <2>4. Tail(calls[th]) # calls[th]
      BY <2>3, Zenon
    <2> QED BY <1>2, <2>4
  <1>4. board \in Boards
    BY DEF Well
  <1> QED BY <1>1, <1>2, <1>3, <1>4, PutRowIs DEF Writes, Acts

\* What a put rests on, as its frame says.
LEMMA PutIs ==
  ASSUME Well, NEW th \in Thread, RowSteps(th)
  PROVE  /\ Head(calls[th]).do = "PutBack" =>
              /\ Arg(th).row.ticket = Arg(th).was.ticket
              /\ Arg(th).row.status = Arg(th).was.status
         /\ Head(calls[th]).do # "PutBack" => Arg(th).was.status \notin Final
         /\ Head(calls[th]).do \notin {"PutBack", "Update", "Put"} =>
              Arg(th).row.status \in {"in_progress", "signed_off"}
         /\ Head(calls[th]).do \in {"Update", "Put"} => Grounded(Head(calls[th]), board, news[th])
  BY RowWrites, HeadIs, ArgIs DEF Arg, Moves

-----------------------------------------------------------------------------
FinalStep ==
  \A t \in Ticket :
    board.status[t] \in {"done", "dropped"} /\ board'.status[t] # board.status[t] =>
      \/ t = Epic /\ board.status[t] = "done" /\ board'.open /\ ~board.open
      \/ \E th \in Thread : Writes(th, t) /\ Arg(th).was.status # board.status[t]

LEMMA FinalNext == Well /\ [Next]_vars => FinalStep
  <1> SUFFICES ASSUME Well, [Next]_vars, NEW t \in Ticket,
                      board.status[t] \in {"done", "dropped"}, board'.status[t] # board.status[t]
               PROVE  \/ t = Epic /\ board.status[t] = "done" /\ board'.open /\ ~board.open
                      \/ \E th \in Thread : Writes(th, t) /\ Arg(th).was.status # board.status[t]
    BY DEF FinalStep
  <1>1. PICK th \in Thread :
          LookSteps(th) \/ BeginSteps(th) \/ ServeSteps(th) \/ RowSteps(th) \/ WriteSteps(th)
    BY NextIs DEF vars
  <1>2. CASE LookSteps(th) \/ BeginSteps(th) \/ WriteSteps(th) \/ GateAnswer(th) \/ RequirementLink(th)
    BY <1>2, StatusSame
  <1>3. ASSUME NEW x \in Ticket, TicketCreate(th, x) PROVE FALSE
    BY <1>3 DEF TicketCreate, Exists, Serve, Step, Well, Boards
  <1>4. CASE RequirementMark(th)
    <2> DEFINE ended == board.status[Epic] \in {"done", "partial"}
    <2>1. /\ board' = [board EXCEPT !.open = TRUE,
                         !.status[Epic] = IF ended THEN "in_progress" ELSE @]
          /\ ~board.open
      BY <1>4 DEF RequirementMark, Serve, Step
    <2>2. /\ board'.open /\ (t # Epic => board'.status[t] = board.status[t])
          /\ ~ended => board'.status[t] = board.status[t]
      BY <2>1 DEF Well, Boards
    <2> QED BY <2>1, <2>2
  <1>5. CASE RowSteps(th)
    <2>1. t = Arg(th).row.ticket /\ board'.status[t] = Arg(th).row.status /\ Writes(th, t)
      BY <1>5, RowIsPut
    <2>2. Arg(th).was.status # board.status[t]
      BY <1>5, <2>1, PutIs DEF Final
    <2> QED BY <2>1, <2>2
  <1> QED BY <1>1, <1>2, <1>3, <1>4, <1>5 DEF ServeSteps

\* Whatever requests overlap, who finds a ticket done or dropped leaves it so,
\* in every step of every cascade: only a row read before it ended, and put
\* back after, moves it on, or a new requirement that reopens a done epic.
THEOREM FinalStays == Spec => FinalIsFinal
  <1>1. Well /\ [Next]_vars => [FinalStep]_vars
    BY FinalNext
  <1>2. [][FinalStep]_vars => FinalIsFinal
    BY PTL DEF FinalIsFinal, FinalStep
  <1> QED BY <1>1, <1>2, AlwaysWell, PTL DEF Spec

-----------------------------------------------------------------------------
SettledStep ==
  ~Unsettled(board) /\ Unsettled(board') =>
    \E th \in Thread : Writes(th, Epic) /\ ("open" \in news[th] \/ Overtaken(th))

LEMMA SettledNext == Well /\ [Next]_vars => SettledStep
  <1> SUFFICES ASSUME Well, [Next]_vars, ~Unsettled(board), Unsettled(board')
               PROVE  \E th \in Thread : Writes(th, Epic) /\ ("open" \in news[th] \/ Overtaken(th))
    BY DEF SettledStep
  <1>1. PICK th \in Thread :
          LookSteps(th) \/ BeginSteps(th) \/ ServeSteps(th) \/ RowSteps(th) \/ WriteSteps(th)
    BY NextIs DEF vars, Unsettled
  <1>2. CASE LookSteps(th) \/ BeginSteps(th) \/ WriteSteps(th) \/ GateAnswer(th)
    <2>1. board'.status = board.status
      BY <1>2, StatusSame
    <2>2. board'.open = board.open
      <3>1. CASE LookSteps(th)
        BY <3>1, EveryLook DEF Looks, Look, Step
      <3>2. CASE BeginSteps(th)
        BY <3>2, EveryBegin DEF Begins, Begin, Serve, Step
      <3>3. CASE WriteSteps(th)
        BY <3>3 DEF WriteSteps, Retire, AddLine, PutLine, OpenGate, Link, Write, Step, Well, Boards
      <3>4. CASE GateAnswer(th)
        BY <3>4 DEF GateAnswer, Serve, Step, Well, Boards
      <3> QED BY <1>2, <3>1, <3>2, <3>3, <3>4
    <2> QED BY <2>1, <2>2 DEF Unsettled
  <1>3. CASE RequirementLink(th)
    <2>1. ~board'.open
      BY <1>3 DEF RequirementLink, Serve, Step, Well, Boards
    <2> QED BY <2>1 DEF Unsettled
  <1>4. ASSUME NEW x \in Ticket, TicketCreate(th, x) PROVE FALSE
    <2>1. board'.status[Epic] = board.status[Epic] /\ board'.open = board.open
      BY <1>4, EpicIsTicket DEF TicketCreate, Serve, Step, Well, Boards
    <2> QED BY <2>1 DEF Unsettled
  <1>5. CASE RequirementMark(th)
    <2>1. board' = [board EXCEPT !.open = TRUE,
                      !.status[Epic] = IF board.status[Epic] \in {"done", "partial"}
                                       THEN "in_progress" ELSE @]
      BY <1>5 DEF RequirementMark, Serve, Step
    <2>2. board'.status[Epic] \notin {"done", "partial"}
      BY <2>1, EpicIsTicket DEF Well, Boards
    <2> QED BY <2>2 DEF Unsettled
  <1>6. CASE RowSteps(th)
    <2> DEFINE row == Arg(th).row
    <2>1. /\ board'.open = board.open /\ board.open
          /\ board'.status[Epic] \in {"done", "partial"}
          /\ board.status[Epic] \notin {"done", "partial"}
      BY <1>6, RowIsPut DEF Unsettled
    <2>2. row.ticket = Epic /\ row.status \in {"done", "partial"} /\ Writes(th, Epic)
      BY <1>6, <2>1, RowIsPut, EpicIsTicket
    <2>3. CASE Head(calls[th]).do = "PutBack"
      <3>1. Arg(th).was.status # board.status[Epic]
        BY <1>6, <2>1, <2>2, <2>3, PutIs
      <3>2. Row(board, row.ticket).status = board.status[Epic]
        BY <2>2 DEF Row
      <3> QED BY <2>2, <3>1, <3>2 DEF Overtaken
    <2>4. CASE Head(calls[th]).do \in {"Update", "Put"}
      <3>1. Grounded(Head(calls[th]), board, news[th])
        BY <1>6, <2>4, PutIs
      <3>2. "open" \in news[th]
        BY <2>1, <2>2, <2>4, <3>1 DEF Grounded, Arg
      <3> QED BY <2>2, <3>2
    <2> QED BY <1>6, <2>2, <2>3, <2>4, PutIs
  <1> QED BY <1>1, <1>2, <1>3, <1>4, <1>5, <1>6 DEF ServeSteps

\* However requests overlap, an epic ends over an open requirement only by a
\* request at work when the requirement was marked, or by a row put back over
\* another's write; and marking a requirement never leaves its epic ended.
THEOREM EndedEpicIsSettled == Spec => EndedIsSettled
  <1>1. Well /\ [Next]_vars => [SettledStep]_vars
    BY SettledNext
  <1>2. [][SettledStep]_vars => EndedIsSettled
    BY PTL DEF EndedIsSettled, SettledStep
  <1> QED BY <1>1, <1>2, AlwaysWell, PTL DEF Spec

-----------------------------------------------------------------------------
ReadyStep ==
  \A th \in Thread, t \in Below :
    /\ Writes(th, t) /\ Head(calls[th]).do # "PutBack"
    /\ board.status[t] # "ready" /\ board'.status[t] = "ready"
    => /\ Unblocked(board, t) \/ "blocked" \in news[th]
       /\ board.gate # "open" \/ Head(calls[th]).do = "Update" \/ "gate" \in news[th]

LEMMA ReadyNext == Well /\ [Next]_vars => ReadyStep
  <1> SUFFICES ASSUME Well, [Next]_vars, NEW o \in Thread, NEW t \in Below,
                      Writes(o, t), Head(calls[o]).do # "PutBack",
                      board.status[t] # "ready", board'.status[t] = "ready"
               PROVE  /\ Unblocked(board, t) \/ "blocked" \in news[o]
                      /\ board.gate # "open" \/ Head(calls[o]).do = "Update" \/ "gate" \in news[o]
    BY DEF ReadyStep
  <1>1. PICK th \in Thread :
          LookSteps(th) \/ BeginSteps(th) \/ ServeSteps(th) \/ RowSteps(th) \/ WriteSteps(th)
    BY NextIs DEF vars
  <1>2. o = th /\ calls[th] # <<>>
    BY <1>1, OnlyMine DEF Writes, Acts
  <1>3. RowSteps(th)
    <2>1. ~ServeSteps(th)
      BY <1>2 DEF ServeSteps, TicketCreate, GateAnswer, RequirementMark, RequirementLink, Asked
    <2> QED BY <1>1, <2>1, StatusSame
  <1>4. Arg(th).row.ticket = t /\ Arg(th).row.status = "ready"
    BY <1>2, <1>3, RowIsPut DEF Writes
  <1>5. Head(calls[th]).do \in {"Update", "Put"} /\ Grounded(Head(calls[th]), board, news[th])
    BY <1>2, <1>3, <1>4, PutIs
  <1> QED BY <1>2, <1>4, <1>5 DEF Grounded, Arg

\* However requests overlap, none makes a ticket ready early: all it waits on
\* is released and no design gate holds it, or that turned between the look and
\* the put of that one request.
THEOREM ReadyWaitsItsTurn == Spec => ReadyIsEarned
  <1>1. Well /\ [Next]_vars => [ReadyStep]_vars
    BY ReadyNext
  <1>2. [][ReadyStep]_vars => ReadyIsEarned
    BY PTL DEF ReadyIsEarned, ReadyStep
  <1> QED BY <1>1, <1>2, AlwaysWell, PTL DEF Spec

-----------------------------------------------------------------------------
\* Who will finish a ticket still will, unless that frame is the one done now.
LEMMA WillStill ==
  ASSUME Well, NEW th \in Thread, NEW t \in Below, NEW o \in Thread, WillFinish(o, t),
         \A p \in Thread \ {th} : calls'[p] = calls[p],
         \/ calls[th] = <<>>
         \/ /\ ~Finishes(Head(calls[th]), t)
            /\ \E todo \in Seq(First) : calls'[th] = todo \o Tail(calls[th])
  PROVE  \E p \in Thread : WillFinish(p, t)'
  <1>1. PICK i \in 1 .. Len(calls[o]) : Finishes(calls[o][i], t)
    BY DEF WillFinish
  <1>2. CASE o # th
    <2>1. calls'[o] = calls[o]
      BY <1>2
    <2> QED BY <1>1, <2>1 DEF WillFinish
  <1>3. CASE o = th
    <2>1. calls[th] \in Seq(First) /\ calls[th] # <<>> /\ Tail(calls[th]) \in Seq(First)
      <3>1. calls[th] # <<>>
        BY <1>1, <1>3
      <3> QED BY <3>1, HeadIs, LaterIsFirst, SeqMore
    <2>2. PICK todo \in Seq(First) : calls'[th] = todo \o Tail(calls[th])
      BY <2>1
    <2>3. /\ Head(calls[th]) = calls[th][1] /\ Len(Tail(calls[th])) = Len(calls[th]) - 1
          /\ Len(calls[th]) \in Nat \ {0}
          /\ \A j \in 1 .. Len(Tail(calls[th])) : Tail(calls[th])[j] = calls[th][j + 1]
      BY <2>1, SeqIs
    <2>4. i # 1 /\ i \in Nat \ {0}
      BY <1>1, <1>3, <2>1, <2>3
    <2>5. i - 1 \in 1 .. Len(Tail(calls[th])) /\ i - 1 + 1 = i
      BY <1>1, <1>3, <2>3, <2>4
    <2>6. Finishes(Tail(calls[th])[i - 1], t)
      BY <1>1, <1>3, <2>3, <2>5
    <2>7. /\ Len(todo) + (i - 1) \in 1 .. Len(calls'[th])
          /\ calls'[th][Len(todo) + (i - 1)] = Tail(calls[th])[i - 1]
      <3>1. /\ Len(calls'[th]) = Len(todo) + Len(Tail(calls[th]))
            /\ calls'[th][Len(todo) + (i - 1)] = Tail(calls[th])[i - 1]
        BY <2>1, <2>2, <2>5, ConcatIs
      <3>2. Len(todo) \in Nat /\ Len(Tail(calls[th])) \in Nat
        <4>1. todo \in Seq(First) /\ Tail(calls[th]) \in Seq(First)
          BY <2>1, <2>2
        <4> QED BY <4>1, LenIs
      <3>3. Len(todo) + (i - 1) \in 1 .. Len(todo) + Len(Tail(calls[th]))
        <4>1. \A a \in Nat, b \in Nat : \A k \in 1 .. b : a + k \in 1 .. a + b
          OBVIOUS
        <4> QED BY <2>5, <3>2, <4>1
      <3>4. Len(todo) + (i - 1) \in 1 .. Len(calls'[th])
        BY <3>1, <3>3
      <3> QED BY <3>1, <3>4
    <2> QED BY <2>6, <2>7 DEF WillFinish
  <1> QED BY <1>2, <1>3

\* The condition under which somebody has to come.
Waiting(b, a, t) == b.status[t] = "in_review" /\ AllPassed(b, t) /\ "edited" \notin a[t]

LEMMA WaitingIs ==
  NoStrandedReview <=>
    \A t \in Below : Waiting(board, astray, t) => \E th \in Thread : WillFinish(th, t)
  BY DEF NoStrandedReview, Waiting

\* A step after which nobody waits who did not, and that does not do the frame
\* which finishes one who does.
LEMMA NobodyNewWaits ==
  ASSUME Well, NoStrandedReview, NEW th \in Thread,
         LookSteps(th) \/ BeginSteps(th) \/ ServeSteps(th) \/ RowSteps(th) \/ WriteSteps(th),
         NEW t \in Below, Waiting(board, astray, t),
         \/ calls[th] = <<>>
         \/ /\ ~Finishes(Head(calls[th]), t)
            /\ \E todo \in Seq(First) : calls'[th] = todo \o Tail(calls[th])
  PROVE  \E p \in Thread : WillFinish(p, t)'
  <1>1. PICK o \in Thread : WillFinish(o, t)
    BY WaitingIs
  <1>2. \A p \in Thread \ {th} : calls'[p] = calls[p]
    BY OnlyMine
  <1> QED BY <1>1, <1>2, WillStill

LEMMA PoppedIs ==
  ASSUME Well, NEW th \in Thread, calls[th] # <<>>, calls'[th] = Tail(calls[th])
  PROVE  \E todo \in Seq(First) : calls'[th] = todo \o Tail(calls[th])
  <1>1. <<>> \in Seq(First)
    OBVIOUS
  <1>2. Tail(calls[th]) \in Seq(Later)
    BY HeadIs
  <1>3. <<>> \o Tail(calls[th]) = Tail(calls[th])
    BY <1>2
  <1> QED BY <1>1, <1>3

LEMMA RereadFinishes ==
  ASSUME NEW th \in Thread, NEW t \in Below, Has(calls'[th], Do("Reread", t))
  PROVE  WillFinish(th, t)'
  BY DEF Has, WillFinish, Finishes, Do

LEMMA LookStrands ==
  ASSUME Well, NoStrandedReview, NEW th \in Thread, LookSteps(th), NEW t \in Below,
         Waiting(board, astray, t)'
  PROVE  \E p \in Thread : WillFinish(p, t)'
  <1>1. PICK todo \in Fresh(board) : Look(th, todo) /\ Keeps(th, todo)
    BY EveryLook DEF Looks
  <1>2. /\ board' = board /\ astray' = astray /\ calls'[th] = todo \o Tail(calls[th])
        /\ todo \in Seq(First) /\ calls[th] # <<>>
    BY <1>1, LooksAtWork DEF Look, Step, Well, Fresh, Stacks
  <1>3. Waiting(board, astray, t)
    BY <1>2 DEF Waiting, AllPassed, LinesOf
  <1>4. CASE Finishes(Head(calls[th]), t)
    <2>1. PICK i \in 1 .. Len(todo) : Finishes(todo[i], t)
      BY <1>1, <1>3, <1>4 DEF Keeps, Waiting
    <2>2. Tail(calls[th]) \in Seq(First)
      BY <1>2, HeadIs, LaterIsFirst, SeqMore
    <2>3. i \in 1 .. Len(calls'[th]) /\ calls'[th][i] = todo[i]
      <3>1. Len(calls'[th]) = Len(todo) + Len(Tail(calls[th])) /\ calls'[th][i] = todo[i]
        BY <1>2, <2>1, <2>2, ConcatIs
      <3>2. Len(todo) \in Nat /\ Len(Tail(calls[th])) \in Nat
        BY <1>2, <2>2
      <3> QED BY <3>1, <3>2
    <2> QED BY <2>1, <2>3 DEF WillFinish
  <1>5. CASE ~Finishes(Head(calls[th]), t)
    BY <1>2, <1>3, <1>5, NobodyNewWaits
  <1> QED BY <1>4, <1>5

LEMMA BeginStrands ==
  ASSUME Well, NoStrandedReview, NEW th \in Thread, BeginSteps(th), NEW t \in Below,
         Waiting(board, astray, t)'
  PROVE  \E p \in Thread : WillFinish(p, t)'
  <1>1. board' = board /\ astray' = astray /\ calls[th] = <<>>
    BY EveryBegin DEF Begins, Begin, Serve, Step
  <1>2. Waiting(board, astray, t)
    BY <1>1 DEF Waiting, AllPassed, LinesOf
  <1> QED BY <1>1, <1>2, NobodyNewWaits

LEMMA ServeStrands ==
  ASSUME Well, NoStrandedReview, NEW th \in Thread, ServeSteps(th), NEW t \in Below,
         Waiting(board, astray, t)'
  PROVE  \E p \in Thread : WillFinish(p, t)'
  <1>1. calls[th] = <<>>
    BY DEF ServeSteps, TicketCreate, GateAnswer, RequirementMark, RequirementLink, Asked
  <1>2. t \in Ticket /\ t # Epic
    BY EpicIsTicket
  <1>3. board'.status[t] = "in_review" => board.status[t] = "in_review"
    <2>1. CASE GateAnswer(th) \/ RequirementLink(th)
      BY <2>1, StatusSame
    <2>2. ASSUME NEW x \in Ticket, TicketCreate(th, x), board'.status[t] = "in_review"
          PROVE  board.status[t] = "in_review"
      <3>1. board' = [board EXCEPT !.status[x] = IF x \in Quick THEN "ready" ELSE "drafted"]
        BY <2>2 DEF TicketCreate, Serve, Step
      <3>2. board \in Boards
        BY DEF Well
      <3>3. board.status \in [Ticket -> Status \cup {"none"}]
              /\ board'.status = [board.status EXCEPT ![x] = IF x \in Quick THEN "ready" ELSE "drafted"]
        BY <3>1, <3>2 DEF Boards
      <3> QED BY <1>2, <2>2, <3>3
    <2>3. CASE RequirementMark(th)
      <3>1. board' = [board EXCEPT !.open = TRUE,
                        !.status[Epic] = IF board.status[Epic] \in {"done", "partial"}
                                         THEN "in_progress" ELSE @]
        BY <2>3 DEF RequirementMark, Serve, Step
      <3> QED BY <1>2, <3>1 DEF Well, Boards
    <2> QED BY <2>1, <2>2, <2>3 DEF ServeSteps
  <1>4. board'.lines = board.lines /\ board'.verdict = board.verdict /\ astray'[t] = astray[t]
    BY <1>2 DEF ServeSteps, TicketCreate, GateAnswer, RequirementMark, RequirementLink, Serve, Step,
       Slip, Well, Boards
  <1>5. Waiting(board, astray, t)
    BY <1>3, <1>4 DEF Waiting, AllPassed, LinesOf
  <1> QED BY <1>1, <1>5, NobodyNewWaits

LEMMA RowStrands ==
  ASSUME Well, NoStrandedReview, NEW th \in Thread, RowSteps(th), NEW t \in Below,
         Waiting(board, astray, t)'
  PROVE  \E p \in Thread : WillFinish(p, t)'
  <1> DEFINE row == Arg(th).row
  <1>1. /\ calls[th] # <<>> /\ row \in Rows /\ calls'[th] = Tail(calls[th])
        /\ Head(calls[th]).do \in {"Update", "Put", "Follow", "PutBack", "WalkBack"}
    BY RowWrites DEF Step, Well
  <1>2. /\ board'.status[row.ticket] = row.status
        /\ \A u \in Ticket \ {row.ticket} : board'.status[u] = board.status[u]
        /\ board' = PutRow(board, row)
    BY RowIsPut
  <1>3. board'.lines = board.lines /\ board'.verdict = board.verdict
    BY <1>1, <1>2, PutRowIs DEF Well
  <1>4. AllPassed(board, t)
    BY <1>3 DEF Waiting, AllPassed, LinesOf
  <1>5. t \in Ticket /\ t # Epic
    BY EpicIsTicket
  <1>6. \E todo \in Seq(First) : calls'[th] = todo \o Tail(calls[th])
    BY <1>1, PoppedIs
  <1>7. CASE t = row.ticket
    <2>1. row.status = "in_review"
      BY <1>2, <1>7 DEF Waiting
    <2>2. CASE Head(calls[th]).do = "PutBack"
      <3>1. Slip(t, IF Overtaken(th) THEN {"edited"} ELSE {})
        BY <1>7, <2>2, RowWrites
      <3>2. ~Overtaken(th) /\ astray[t] \subseteq astray'[t]
        BY <3>1, <1>5 DEF Slip, Waiting, Well
      <3>3. board.status[t] = "in_review"
        <4>1. Arg(th).was.status = "in_review"
          BY <2>1, <2>2, PutIs
        <4>2. Row(board, t).status = "in_review"
          BY <1>7, <3>2, <4>1 DEF Overtaken
        <4> QED BY <4>2 DEF Row
      <3>4. Waiting(board, astray, t)
        BY <1>4, <3>2, <3>3 DEF Waiting
      <3>5. ~Finishes(Head(calls[th]), t)
        BY <2>2 DEF Finishes
      <3> QED BY <1>6, <3>4, <3>5, NobodyNewWaits
    <2>3. CASE Head(calls[th]).do = "Update"
      <3>1. Has(Tail(calls[th]), Do("Reread", t))
        BY <1>1, <1>7, <2>1, <2>3, HeadIs DEF Promises, Arg
      <3> QED BY <1>1, <3>1, RereadFinishes
    <2>4. CASE Head(calls[th]).do \notin {"PutBack", "Update"}
      <3>1. Head(calls[th]).do = "Put" => row.status # "in_review"
        BY <1>1, <1>7, HeadIs, ArgIs DEF Arg
      <3> QED BY <1>1, <2>1, <2>4, <3>1, PutIs
    <2> QED BY <2>2, <2>3, <2>4
  <1>8. CASE t # row.ticket
    <2>1. board.status[t] = "in_review"
      BY <1>2, <1>5, <1>8 DEF Waiting
    <2>2. astray'[t] = astray[t]
      <3>1. CASE \E stale \in BOOLEAN : Written(th, stale)
        BY <3>1, <1>1, <1>5, <1>8, WrittenAstray
      <3>2. CASE \E x : Slip(row.ticket, x)
        BY <3>2, <1>5, <1>8 DEF Slip, Well
      <3> QED BY <3>1, <3>2, RowWrites
    <2>3. Waiting(board, astray, t)
      BY <1>4, <2>1, <2>2 DEF Waiting
    <2>4. ~Finishes(Head(calls[th]), t)
      BY <1>1, <1>8 DEF Finishes, Arg
    <2> QED BY <1>6, <2>3, <2>4, NobodyNewWaits
  <1> QED BY <1>7, <1>8

LEMMA WriteStrands ==
  ASSUME Well, NoStrandedReview, NEW th \in Thread, WriteSteps(th), NEW t \in Below,
         Waiting(board, astray, t)'
  PROVE  \E p \in Thread : WillFinish(p, t)'
  <1>1. t \in Ticket /\ calls[th] # <<>> /\ Head(calls[th]) \in First /\ Tail(calls[th]) \in Seq(Later)
          /\ board'.status = board.status
    BY EpicIsTicket, LooksAtWork, HeadIs, StatusSame
  <1>2. ~Finishes(Head(calls[th]), t)
    BY DEF WriteSteps, Retire, AddLine, PutLine, OpenGate, Link, Doing, Finishes
  <1>3. \E todo \in Seq(First) : calls'[th] = todo \o Tail(calls[th])
    <2>1. CASE Link(th)
      <3>1. calls'[th] = <<Do("Reconcile", Arg(th)), Do("Unlock", Epic)>> \o Tail(calls[th])
        BY <2>1 DEF Link, Step, Well
      <3>2. Arg(th) \in Below \X Below
        BY <1>1, <2>1, ArgIs DEF Link, Doing, Arg
      <3>3. Do("Reconcile", Arg(th)) \in First /\ Do("Unlock", Epic) \in First
        BY <3>2, LooksLater, LaterIsFirst, EpicIsTicket DEF Do, First
      <3>4. <<Do("Reconcile", Arg(th)), Do("Unlock", Epic)>> \in Seq(First)
        BY <3>3
      <3> QED BY <3>1, <3>4
    <2>2. CASE ~Link(th)
      <3>1. calls'[th] = Tail(calls[th])
        BY <2>2 DEF WriteSteps, Retire, AddLine, PutLine, OpenGate, Write, Step, Well
      <3> QED BY <1>1, <3>1, PoppedIs
    <2> QED BY <2>1, <2>2
  <1>4. CASE Waiting(board, astray, t)
    BY <1>2, <1>3, <1>4, NobodyNewWaits
  <1>5. CASE PutLine(th) /\ t = On[Arg(th).line]
    <2>1. calls'[th] = Tail(calls[th]) /\ Head(calls[th]).do = "PutLine"
      BY <1>5 DEF PutLine, Doing, Write, Step, Well
    <2>2. Has(Tail(calls[th]), Do("Reread", t))
      BY <1>1, <1>5, <2>1, HeadIs DEF Promises, Arg
    <2> QED BY <2>1, <2>2, RereadFinishes
  <1>6. ASSUME ~(PutLine(th) /\ t = On[Arg(th).line]) PROVE Waiting(board, astray, t)
    <2>1. astray[t] \subseteq astray'[t]
      BY <1>1 DEF WriteSteps, Retire, AddLine, PutLine, OpenGate, Link, Slip, Well
    <2>2. AllPassed(board, t)
      <3>1. CASE Retire(th) \/ OpenGate(th) \/ Link(th)
        <4>1. board'.lines = board.lines /\ board'.verdict = board.verdict
          BY <3>1 DEF Retire, OpenGate, Link, Write, Step, Well, Boards
        <4> QED BY <4>1 DEF Waiting, AllPassed, LinesOf
      <3>2. CASE AddLine(th)
        <4> DEFINE c == Arg(th)
        <4>1. /\ c \in Criterion /\ board'.lines = board.lines \cup {c}
              /\ board'.verdict = board.verdict
          BY <1>1, <3>2, ArgIs DEF AddLine, Doing, Arg, Write, Step, Well, Boards
        <4>2. c \in board.lines \/ On[c] # t
          <5>1. c \notin board.lines => board.verdict[c] = "pending"
            BY <4>1 DEF Well
          <5>2. On[c] = t => c \in LinesOf(board', t)
            BY <1>1, <4>1 DEF LinesOf, LinesAt
          <5>3. c \in LinesOf(board', t) => board.verdict[c] = "pass"
            BY <4>1 DEF Waiting, AllPassed
          <5> QED BY <5>1, <5>2, <5>3
        <4>3. LinesOf(board', t) = LinesOf(board, t)
          BY <1>1, <4>1, <4>2 DEF LinesOf, LinesAt
        <4> QED BY <4>1, <4>3 DEF Waiting, AllPassed, LinesOf
      <3>3. CASE PutLine(th)
        <4> DEFINE row == Arg(th)
        <4>1. row \in LineRows
          BY <1>1, <3>3, ArgIs DEF PutLine, Doing, Arg
        <4>2. /\ board'.lines = board.lines
              /\ \A c \in Criterion \ {row.line} : board'.verdict[c] = board.verdict[c]
          BY <3>3, <4>1 DEF PutLine, Write, Step, Well, Boards, LineRows
        <4>3. \A c \in LinesOf(board, t) : c \in Criterion /\ c # row.line
          BY <1>1, <1>6, <3>3 DEF LinesOf, LinesAt
        <4> QED BY <4>2, <4>3 DEF Waiting, AllPassed, LinesOf
      <3> QED BY <3>1, <3>2, <3>3 DEF WriteSteps
    <2> QED BY <1>1, <2>1, <2>2 DEF Waiting
  <1> QED BY <1>4, <1>5, <1>6

LEMMA StrandsNext == Well /\ NoStrandedReview /\ [Next]_vars => NoStrandedReview'
  <1> SUFFICES ASSUME Well, NoStrandedReview, [Next]_vars PROVE NoStrandedReview'
    OBVIOUS
  <1>1. CASE UNCHANGED vars
    BY <1>1 DEF vars, NoStrandedReview, AllPassed, LinesOf, WillFinish
  <1>2. CASE ~UNCHANGED vars
    <2> SUFFICES ASSUME NEW t \in Below, Waiting(board, astray, t)'
                 PROVE  \E p \in Thread : WillFinish(p, t)'
      BY DEF NoStrandedReview, Waiting
    <2>1. PICK th \in Thread :
            LookSteps(th) \/ BeginSteps(th) \/ ServeSteps(th) \/ RowSteps(th) \/ WriteSteps(th)
      BY <1>2, NextIs
    <2> QED BY <2>1, LookStrands, BeginStrands, ServeStrands, RowStrands, WriteStrands
  <1> QED BY <1>1, <1>2

LEMMA StrandsInit == Init => NoStrandedReview
  <1> SUFFICES ASSUME Init, NEW t \in Below, board.status[t] = "in_review", AllPassed(board, t)
               PROVE  FALSE
    BY DEF NoStrandedReview
  <1>1. Possible(board) /\ board.lines \in SUBSET Criterion
    BY WorldsAssumption DEF Init, Boards
  <1>2. PICK c \in board.lines : On[c] = t /\ board.verdict[c] # "pass"
    BY <1>1 DEF Possible
  <1> QED BY <1>1, <1>2, EpicIsTicket DEF AllPassed, LinesOf, LinesAt

\* Whichever comes first, the hand-off or the last verdict, and however the
\* requests overlap, somebody looks at the ticket after both: no story or task
\* rests in review with all its lines passed, but where an edit put it back.
THEOREM NoReviewIsStranded == Spec => []NoStrandedReview
  <1>1. Well /\ NoStrandedReview /\ [Next]_vars => NoStrandedReview'
    BY StrandsNext
  <1> QED BY <1>1, StrandsInit, AlwaysWell, PTL DEF Spec
=============================================================================
