----------------------------- MODULE MCEventFeed ----------------------------
(* Two connections that lock the run and one that does not: an event of each  *)
(* kind may overtake one of each kind.                                        *)
EXTENDS EventFeed, TLC
=============================================================================
