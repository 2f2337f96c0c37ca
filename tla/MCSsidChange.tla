---------------------------- MODULE MCSsidChange ----------------------------
(* Three names, one of them the default. *)
EXTENDS SsidChange

CONSTANTS factory, ann, bob
AllNames == {factory, ann, bob}
=============================================================================
