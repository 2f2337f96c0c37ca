--------------------------- MODULE MCConfigStore ---------------------------
(* Three settings, one of them the default. *)
EXTENDS ConfigStore

CONSTANTS factory, v1, v2
AllValues == {factory, v1, v2}
=============================================================================
