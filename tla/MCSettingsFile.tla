--------------------------- MODULE MCSettingsFile ---------------------------
(* Values of SettingsFile's constants for TLC. *)
EXTENDS SettingsFile

\* One file whose first part is past the range and whose second is in it.
OneForeign == {<<Limit + 1, 0>>}
=============================================================================
