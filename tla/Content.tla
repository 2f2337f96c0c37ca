------------------------------- MODULE Content ------------------------------
(***************************************************************************)
(* The question bank of the game that is played (vendor/engine/ha_games.h, *)
(* contentBegin .. contentAbort; hotspot-arcade-cardputer/ha_content.h,    *)
(* haContentLoadGame): a bank is staged pack by pack, any step of which    *)
(* may find no memory, and takes the place of the live one in one step.    *)
(* All of a load runs under the engine's mutex.                            *)
(***************************************************************************)
EXTENDS Naturals, FiniteSets

CONSTANTS Game,         \* generated games, among them:
          Lobby,        \*   HA_GAME_NONE
          SheetGame,    \*   Frankendraw, which draws on sheets allocated beside its bank
          Language,     \* generated languages
          NoLanguage,
          Fallback,     \* the language whose packs stand in for a language's
          Baked         \* the number of packs baked in for a game in a language

ASSUME ContentAssumption ==
    /\ IsFiniteSet(Game) /\ IsFiniteSet(Language)
    /\ {Lobby, SheetGame} \subseteq Game /\ Lobby # SheetGame
    /\ NoLanguage \notin Language
    /\ Fallback \in [Language -> Language \cup {NoLanguage}]
    /\ Baked \in [Game -> [Language -> Nat]]

VARIABLES
    live,       \* _contentLive
    stage,      \* _contentStaged
    play,       \* _active, _lang, whether a round is under way, whether someone has points
    sheets,     \* _fdSheets is allocated
    loader,     \* haContentLoadGame: where it is, for whom, and what it loads
    before      \* history: live, play and sheets when the load began, <<>> while there is none

contentVars == <<live, stage, play, sheets, loader, before>>

NoBank == [game |-> Lobby, lang |-> NoLanguage, source |-> NoLanguage, packs |-> 0]
Empty(game, lang) == [game |-> game, lang |-> lang, source |-> NoLanguage, packs |-> 0]
Idle   == [at |-> "idle", caller |-> "none", game |-> Lobby, lang |-> NoLanguage]

HasPacks(game) == \E lang \in Language : Baked[game][lang] > 0

\* haContentSourceLanguage: along the fallbacks, no more of them than there are languages.
Source(game, lang) ==
    LET from[n \in 0 .. Cardinality(Language)] ==
            IF n = 0 THEN lang
            ELSE IF from[n - 1] = NoLanguage \/ Baked[game][from[n - 1]] > 0 THEN from[n - 1]
            ELSE Fallback[from[n - 1]]
        last == from[Cardinality(Language)]
    IN IF last # NoLanguage /\ Baked[game][last] > 0 THEN last ELSE NoLanguage

\* The bank a load of this game is to end with; a game without packs has an empty one.
Whole(game, lang) ==
    LET source == Source(game, lang)
    IN [game |-> game, lang |-> lang, source |-> source,
        packs |-> IF source = NoLanguage THEN 0 ELSE Baked[game][source]]

\* A game that has packs has them in a language of the chain.
Supplied(game, lang) == HasPacks(game) => Source(game, lang) # NoLanguage

\* haContentLoadGame is called: the game and the language come from the host.
Calls(caller, game, lang) ==
    loader' = [at |-> "begin", caller |-> caller, game |-> game, lang |-> lang]

\* Engine::reset, when a session is restored: no bank is left.
EngineReset ==
    /\ live' = NoBank /\ stage' = NoBank
    /\ play' = [game |-> Lobby, lang |-> NoLanguage, round |-> FALSE, points |-> FALSE]
    /\ sheets' = FALSE

-----------------------------------------------------------------------------
(* haContentLoadGame *)

At(place)   == loader.at = place
Goes(place) == loader' = [loader EXCEPT !.at = place]

\* contentBegin: what was staged is dropped first; the bank may not be allocated.
Begins ==
    /\ At("begin")
    /\ before' = <<live, play, sheets>>
    /\ \/ stage' = Empty(loader.game, loader.lang) /\ Goes("packs")
       \/ stage' = NoBank /\ Goes("failed")
    /\ UNCHANGED <<live, play, sheets>>

\* No language of the chain has packs of this game.
Unsupplied ==
    /\ At("packs") /\ ~Supplied(loader.game, loader.lang)
    /\ stage' = NoBank /\ Goes("failed")
    /\ UNCHANGED <<live, play, sheets, before>>

\* Fault: a pack that failed is left out.
LoadsPack_Lenient ==
    /\ At("packs") /\ stage.packs < Whole(loader.game, loader.lang).packs
    /\ \/ stage' = [stage EXCEPT !.source = Source(loader.game, loader.lang), !.packs = @ + 1]
          /\ UNCHANGED loader
       \/ Goes("commit") /\ UNCHANGED stage
    /\ UNCHANGED <<live, play, sheets, before>>

\* haContentLoadPack, contentPack and contentItem: one bad item or string fails the load.
LoadsPack ==
    /\ At("packs") /\ stage.packs < Whole(loader.game, loader.lang).packs
    /\ \/ stage' = [stage EXCEPT !.source = Source(loader.game, loader.lang), !.packs = @ + 1]
          /\ UNCHANGED loader
       \/ stage' = NoBank /\ Goes("failed")
    /\ UNCHANGED <<live, play, sheets, before>>

PacksLoaded ==
    /\ At("packs") /\ Supplied(loader.game, loader.lang)
    /\ stage.packs = Whole(loader.game, loader.lang).packs
    /\ Goes("commit")
    /\ UNCHANGED <<live, stage, play, sheets, before>>

\* contentCommit finds too little memory, or too few items: contentAbort.
CommitFails ==
    /\ At("commit")
    /\ stage' = NoBank /\ Goes("failed")
    /\ UNCHANGED <<live, play, sheets, before>>

\* Fault: the points are reset whether or not the game is another one.
Commits_PointsLost ==
    /\ At("commit")
    /\ live' = stage /\ stage' = NoBank
    /\ play' = [game |-> stage.game, lang |-> stage.lang, round |-> FALSE, points |-> FALSE]
    /\ sheets' = (stage.game = SheetGame)
    /\ Goes("done")
    /\ UNCHANGED before

\* contentCommit: nothing fails any more once the sheets are there.  What its syncClocks and
\* expireDetached do to seats is Seats' Entered: no roster is modelled beside the bank, and
\* the points are those of the players who stay.
Commits ==
    /\ At("commit")
    /\ live' = stage /\ stage' = NoBank
    /\ play' = [game |-> stage.game, lang |-> stage.lang, round |-> FALSE,
                points |-> play.points /\ play.game = stage.game]
    /\ sheets' = (stage.game = SheetGame)
    /\ Goes("done")
    /\ UNCHANGED before

Loads == Begins \/ Unsupplied \/ LoadsPack \/ PacksLoaded \/ CommitFails \/ Commits

-----------------------------------------------------------------------------
(* Properties. *)

\* ha_games.h, "transactional, active-game-only content": the phones' game, language and
\* sheets are those of the live bank, and the bank is complete and of one source.
BankWhole ==
    /\ live # NoBank => /\ live = Whole(live.game, live.lang)
                        /\ play.game = live.game /\ play.lang = live.lang
    /\ sheets <=> play.game = SheetGame
    /\ loader.at \in {"idle", "begin", "done", "failed"} => stage = NoBank

\* ... "Nothing in the live game, locale, roster, scores changes until commit succeeds":
\* a load that failed has changed nothing; one that is done keeps the points of a game
\* that goes on.
FailureChangesNothing ==
    /\ At("failed") => <<live, play, sheets>> = before
    /\ At("done") /\ before[2].game = play.game => play.points = before[2].points
=============================================================================
