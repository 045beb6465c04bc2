------------------------------ MODULE MCTickets ------------------------------
\* Instances of Tickets for TLC.
EXTENDS Tickets, TLC

CONSTANTS e, s, r, k, q, w, ce, cs, cz, cr, ck, cq, cw, a, b

\* e the epic; s delivers, r reviews, k prepares, q is a quick task of the
\* owner below the epic, w is a task of s.  Each has one line, s a second, cz.
TaskHome == [x \in {w} |-> s]
LineOf == (ce :> e) @@ (cs :> s) @@ (cz :> s) @@ (cr :> r) @@ (ck :> k) @@ (cq :> q) @@ (cw :> w)

Threads == Permutations({a, b})

\* A board on which the tickets stand so, designed where they have to be, with
\* these lines, of which some have evidence and some passed.
At(status, lines, evidence, passed) ==
  [status |-> status @@ [x \in Ticket |-> "none"],
   design |-> {x \in DOMAIN status : x \in {e, s, r, k} /\ status[x] # "drafted"},
   lines |-> lines, evidence |-> evidence,
   verdict |-> [c \in Criterion |-> IF c \in passed THEN "pass" ELSE "pending"],
   blocks |-> {}, gate |-> "none", open |-> FALSE]

World(start, asks, left) == [board |-> start, asks |-> asks, left |-> left]
MovesOf(x, S) == {<<"move", x, to>> : to \in S}
Verdicts(c) == {<<"verdict", c, v>> : v \in {"pass", "fail"}}

\* An epic is designed, signed off and started.
Drafting ==
  World(At(e :> "drafted", {}, {}, {}),
        {<<"design", e>>, <<"line", ce>>, <<"create", s>>, <<"create", q>>, <<"edit", e>>,
         <<"gate", "open">>}
          \cup MovesOf(e, {"designed", "signed_off"}) \cup MovesOf(q, {"in_progress", "dropped"}), 5)

\* Stories are signed off while the gate opens and is answered, or retired
\* with its epic.
Gating ==
  World(At((e :> "designed") @@ (s :> "designed") @@ (k :> "designed") @@ (w :> "designed"),
           {ce, cs, ck, cw}, {}, {}),
        {<<"gate", "open">>, <<"gate", "answer">>, <<"link", k, s>>, <<"edit", s>>}
          \cup MovesOf(s, {"signed_off", "dropped"}) \cup MovesOf(k, {"signed_off", "dropped"})
          \cup MovesOf(w, {"signed_off", "ready"}) \cup MovesOf(e, {"dropped"}), 4)

\* A story is handed off and judged while the review story waits for it.
Reviewing ==
  World(At((e :> "in_progress") @@ (s :> "in_progress") @@ (r :> "signed_off"),
           {ce, cs, cr}, {cs}, {}),
        {<<"edit", s>>, <<"edit", r>>, <<"create", k>>, <<"message", s>>,
         <<"evidence", cs, FALSE>>}
          \cup Verdicts(cs) \cup MovesOf(s, {"in_review", "in_progress"})
          \cup MovesOf(r, {"dropped", "in_progress"}), 4)

\* A line comes late, or loses its evidence, or an edit puts a hand-off back.
Late ==
  World(At((e :> "in_progress") @@ (s :> "in_progress") @@ (r :> "designed"),
           {ce, cs, cr}, {cs}, {}),
        {<<"line", cz>>, <<"evidence", cz, FALSE>>, <<"verdict", cz, "pending">>, <<"edit", s>>}
          \cup MovesOf(s, {"in_review", "in_progress"})
          \cup MovesOf(r, {"signed_off", "dropped"}), 4)

\* A link is created while its blocker is released.
Linking ==
  World(At((e :> "in_progress") @@ (s :> "in_progress") @@ (k :> "ready"), {ce, cs, ck}, {cs}, {}),
        {<<"link", s, k>>, <<"edit", k>>, <<"line", cs>>}
          \cup MovesOf(s, {"in_review", "in_progress", "partial", "dropped"})
          \cup MovesOf(k, {"in_progress", "dropped", "ready"}), 4)

\* Two stories start and end below a lagging epic.
Following ==
  World(At((e :> "signed_off") @@ (s :> "ready") @@ (k :> "in_progress"), {ce, cs, ck}, {cs, ck}, {}),
        {<<"create", q>>}
          \cup MovesOf(s, {"in_progress", "in_review", "dropped"})
          \cup MovesOf(k, {"in_progress", "in_review", "blocked"})
          \cup MovesOf(e, {"blocked", "in_progress", "ready"}), 4)

\* An epic ends while a requirement is marked.
Ending ==
  World(At((e :> "in_review") @@ (s :> "done"), {ce, cs}, {ce, cs}, {cs}),
        {<<"requirement", "mark">>, <<"requirement", "link">>, <<"edit", e>>, <<"gate", "open">>,
         <<"gate", "answer">>}
          \cup Verdicts(ce) \cup MovesOf(e, {"done", "partial", "in_progress"}), 5)

\* The owner judges a quick task.
Judging ==
  World(At((e :> "in_progress") @@ (q :> "in_progress"), {ce, cq}, {cq}, {}),
        {<<"evidence", cq, TRUE>>, <<"message", q>>, <<"edit", q>>}
          \cup Verdicts(cq) \cup MovesOf(q, {"in_review", "in_progress", "dropped"}), 5)

WalkWorlds == {Drafting, Gating, Reviewing, Late, Linking, Following, Ending, Judging}
==============================================================================
