----------------------------- MODULE MCHotplug ------------------------------
(* Hotplug needs no definitions for TLC beyond the bound of its .cfg. *)
EXTENDS Hotplug
=============================================================================
