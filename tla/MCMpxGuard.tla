----------------------------- MODULE MCMpxGuard -----------------------------
(* Small instances of MpxGuard. *)
EXTENDS MpxGuard
=============================================================================
