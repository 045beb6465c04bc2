------------------------------- MODULE Mailbox -------------------------------
(***************************************************************************)
(* What the broker promises a reader: the mail posted to its mailbox        *)
(* arrives in the order it was posted, once each, and no mail is passed     *)
(* over but one whose address has moved to another mailbox meanwhile.       *)
(***************************************************************************)
EXTENDS Naturals, Sequences

CONSTANTS Mail, Reader

VARIABLES
  posted, \* posted[r]: the mail in the mailbox r reads
  before, \* before[r]: the pairs <<k, m>> of it with k posted before m
  moved,  \* mail whose address names another mailbox by now
  got     \* got[r]: what r received, in that order

Init ==
  /\ posted = [r \in Reader |-> {}]
  /\ before = [r \in Reader |-> {}]
  /\ moved = {}
  /\ got = [r \in Reader |-> <<>>]

\* Mail m arrives in the mailbox of the readers R, after all that is there.
Post(m, R) ==
  /\ \A r \in R : m \notin posted[r]
  /\ posted' = [r \in Reader |-> posted[r] \cup (IF r \in R THEN {m} ELSE {})]
  /\ before' = [r \in Reader |->
                  before[r] \cup (IF r \in R THEN posted[r] \X {m} ELSE {})]
  /\ UNCHANGED <<moved, got>>

\* Addresses move away: nobody is owed the mail sent to them any more.
Move ==
  /\ moved \subseteq moved' /\ moved' \subseteq Mail
  /\ UNCHANGED <<posted, before, got>>

\* Mail r has received or passed over: its last mail, and what was before it.
IsBehind(r, m) ==
  /\ got[r] # <<>>
  /\ \/ m = got[r][Len(got[r])]
     \/ <<m, got[r][Len(got[r])]>> \in before[r]

\* r receives mail m; all that was posted before it is behind, or has moved.
Receive(r, m) ==
  /\ m \in posted[r]
  /\ ~IsBehind(r, m)
  /\ \A k \in posted[r] :
       <<k, m>> \in before[r] => IsBehind(r, k) \/ k \in moved
  /\ got' = [got EXCEPT ![r] = Append(@, m)]
  /\ UNCHANGED <<posted, before, moved>>

Next ==
  \/ Move
  \/ \E r \in Reader : \E m \in posted[r] : Receive(r, m)
  \/ \E m \in Mail : \E R \in SUBSET Reader : Post(m, R)

Spec == Init /\ [][Next]_<<posted, before, moved, got>>

=============================================================================
