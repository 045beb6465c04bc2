---------------------------- MODULE MCBrokerInbox ----------------------------
(* BrokerInbox for TLC: the addresses of test_store.py, and a parent's child. *)
EXTENDS BrokerInbox, TLC

CONSTANTS
  colon, under, dash, \* plan:a1, plan_a1, plan-a1
  child,              \* parent/my-coder
  f1, f2, f3,
  s1

\* A colon handle shares the file of the underscored name.
SharedFile ==
  [a \in Address |->
     IF a \in {colon, under} THEN f1 ELSE IF a = dash THEN f2 ELSE f3]

\* The child's session changes.
ChildMoves == child :> <<under, dash>>

OneReader == s1 :> under
=============================================================================
