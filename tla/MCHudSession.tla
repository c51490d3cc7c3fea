---------------------------- MODULE MCHudSession ----------------------------
(***************************************************************************)
(* Small instances of HudSession.                                          *)
(***************************************************************************)
EXTENDS HudSession

\* The action stopped on a stale plan and left a record open.
Stopped == {"stale_stopped"}

\* The action was committed.
Done == {"committed"}
=============================================================================
