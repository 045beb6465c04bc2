-------------------------------- MODULE MCFeed --------------------------------
(* Feed with small bounds: few events, a queue that overflows, a broken stream *)
(* and a restart of the listener.                                              *)
EXTENDS Feed

\* One event of each kind.
OneOfEach == <<{"plain"}, {"message"}, {"own"}>>
===============================================================================
