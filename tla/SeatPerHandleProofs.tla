------------------------- MODULE SeatPerHandleProofs -------------------------
(* The abstract registry seats one session per handle, however many sessions *)
(* and handles there are.                                                    *)
EXTENDS SeatPerHandle, TLAPS

SeatInv == TypeOK /\ OneSeatPerHandle

LEMMA SeatInit == Init => SeatInv
  BY DEF Init, SeatInv, TypeOK, OneSeatPerHandle, Seated

\* Sessions that take or keep a seat next to nobody keep the seats apart.
LEMMA SitKeeps ==
  ASSUME SeatInv, NEW s \in Sid, NEW L, Sit(s, L)
  PROVE  SeatInv'
  <1>1. phase' = [q \in Sid |-> IF q = s THEN "seated"
                                ELSE IF q \in L THEN "left" ELSE phase[q]]
    BY DEF Sit
  <1>2. \A q \in Seated' \ {s} : q \in Seated /\ q[1] # s[1]
    BY <1>1 DEF Sit, Free, Seated
  <1>3. OneSeatPerHandle'
    BY <1>2 DEF SeatInv, OneSeatPerHandle
  <1> QED BY <1>1, <1>3 DEF SeatInv, TypeOK

LEMMA SeatNext == SeatInv /\ [Next]_phase => SeatInv'
  <1> SUFFICES ASSUME SeatInv, [Next]_phase PROVE SeatInv'
    OBVIOUS
  <1>1. ASSUME NEW s \in Sid, Return(s) PROVE SeatInv'
    BY <1>1, SitKeeps DEF Return
  <1>2. ASSUME NEW s \in Sid, NEW L, Take(s, L) PROVE SeatInv'
    BY <1>2, SitKeeps DEF Take
  <1>3. ASSUME NEW s \in Sid, Withdraw(s) PROVE SeatInv'
    BY <1>3 DEF Withdraw, SeatInv, TypeOK, OneSeatPerHandle, Seated
  <1>4. ASSUME NEW L \in SUBSET Seated, Leave(L) PROVE SeatInv'
    BY <1>4 DEF Leave, SeatInv, TypeOK, OneSeatPerHandle, Seated
  <1>5. CASE UNCHANGED phase
    BY <1>5 DEF SeatInv, TypeOK, OneSeatPerHandle, Seated
  <1> QED BY <1>1, <1>2, <1>3, <1>4, <1>5 DEF Next

\* However sessions take, leave, return to and give up seats, a handle never
\* has two: what a registry that implements this specification promises.
THEOREM SeatsAreApart == Spec => []OneSeatPerHandle
  <1>1. SeatInv => OneSeatPerHandle
    BY DEF SeatInv
  <1> QED BY <1>1, SeatInit, SeatNext, PTL DEF Spec

=============================================================================
