----------------------------- MODULE MCStorage -----------------------------
(***************************************************************************)
(* The two places a session is kept in, each with the writes that fail and *)
(* the resets of its own: the envelopes in NVS, two blobs to a slot as the *)
(* fewest that can be torn, generations up to 3 so that the last one is    *)
(* UINT32_MAX's; and the records and archives on the card, an empty        *)
(* session and two played ones that differ, so that a retry can meet an    *)
(* archive of other standings than it was given.  They share no state      *)
(* (Persistence composes the card with what NVS promises): a behaviour is  *)
(* one of either.                                                          *)
(***************************************************************************)
EXTENDS ActiveNvs, HistoryStore

CONSTANTS none, first, second

VARIABLE part

MCStandings == {none, first, second}

StorageInit ==
    /\ part \in {"nvs", "card"}
    /\ NvsInit /\ Init

StorageNext ==
    /\ UNCHANGED part
    /\ \/ part = "nvs" /\ NvsNext /\ UNCHANGED vars
       \/ part = "card" /\ Next /\ UNCHANGED nvsVars

StorageSpec == StorageInit /\ [][StorageNext]_<<part, nvsVars, vars>>
=============================================================================
