---------------------------- MODULE SeatPerHandle ----------------------------
(***************************************************************************)
(* What the pool's registry promises its callers: a handle is worked on by *)
(* one seat at a time.  A session id is minted fresh, takes the seat of its *)
(* handle when nobody else sits there, leaves it, and may return to it; a   *)
(* session whose launch failed is gone.                                    *)
(***************************************************************************)
CONSTANTS Handle, Generation

Sid == Handle \X Generation

VARIABLE phase

Seated == {s \in Sid : phase[s] = "seated"}

TypeOK == phase \in [Sid -> {"fresh", "seated", "left", "gone"}]

Init == phase = [s \in Sid |-> "fresh"]

\* Nobody but the members of L sits on the handle of s.
Free(s, L) == \A q \in Seated : q[1] = s[1] => q \in L

\* Session s takes its handle's seat; those of L leave theirs.
Sit(s, L) ==
  /\ Free(s, L)
  /\ phase' = [q \in Sid |-> IF q = s THEN "seated"
                             ELSE IF q \in L THEN "left" ELSE phase[q]]

Take(s, L) == phase[s] = "fresh" /\ Sit(s, L)

Return(s) == phase[s] = "left" /\ Sit(s, {})

Leave(L) == phase' = [q \in Sid |-> IF q \in L THEN "left" ELSE phase[q]]

Withdraw(s) == phase[s] = "seated" /\ phase' = [phase EXCEPT ![s] = "gone"]

Next ==
  \/ \E s \in Sid : Return(s) \/ Withdraw(s)
  \/ \E L \in SUBSET Seated : Leave(L) \/ \E s \in Sid : Take(s, L)

Spec == Init /\ [][Next]_phase

\* No handle has two seats, whatever leaves and returns.
OneSeatPerHandle ==
  \A s, q \in Seated : s[1] = q[1] => s = q

=============================================================================
