----------------------------- MODULE MCPlayback -----------------------------
(* Playback needs no definitions for TLC beyond the bounds of its .cfg. *)
EXTENDS Playback
=============================================================================
