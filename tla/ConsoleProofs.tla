---------------------------- MODULE ConsoleProofs ----------------------------
(***************************************************************************)
(* Proofs about Content and Console, for any games, languages and packs.   *)
(*                                                                         *)
(* Three arguments.  What is staged is, up to the pack it has come to, the *)
(* bank the load is to end with, and until the commit nothing else changes *)
(* (ContentInv).  Every way to another view sets the cursor or keeps the   *)
(* rows it points into (ScreenInv).  The questions on play are those of    *)
(* the host's game in the language last loaded, and a language not loaded  *)
(* yet is only ever chosen where no other load can start before it is      *)
(* loaded (HostInv); this takes that at most two keys reach a pass.        *)
(***************************************************************************)
EXTENDS Console, FiniteSetTheorems, TLAPS

LoaderAt == {"idle", "begin", "packs", "commit", "done", "failed"}
Callers  == {"none", "select", "restore", "lobby", "language"}
Views    == {"DASH", "BOARD", "GAMES", "SETTINGS", "SSID", "CONSOLE", "DIAGNOSTICS", "HISTORY",
             "HISTORY_DETAIL", "HISTORY_RESTORE", "RESET_CONFIRM", "RESET_DISCARD_CONFIRM"}

-----------------------------------------------------------------------------
(* The bank.                                                               *)

ContentType ==
    /\ play \in [game : Game, lang : Language \cup {NoLanguage}, round : BOOLEAN, points : BOOLEAN]
    /\ loader \in [at : LoaderAt, caller : Callers, game : Game, lang : Language \cup {NoLanguage}]
    /\ At("idle") => loader = Idle

\* How far a load has come, and what it has left as it was.
Staging ==
    /\ At("packs") \/ At("commit") =>
         /\ stage = [game |-> loader.game, lang |-> loader.lang, source |-> stage.source,
                     packs |-> stage.packs]
         /\ stage.packs \in Nat
         /\ stage.source = IF stage.packs = 0 THEN NoLanguage ELSE Source(loader.game, loader.lang)
    /\ At("commit") => stage = Whole(loader.game, loader.lang)
    /\ At("packs") \/ At("commit") \/ At("failed") => before = <<live, play, sheets>>
    /\ At("done") => /\ live = Whole(loader.game, loader.lang)
                     /\ before[2].game = play.game => play.points = before[2].points

ContentInv == ContentType /\ BankWhole /\ Staging

LEMMA WholeFields ==
  ASSUME NEW game, NEW tongue
  PROVE  /\ Whole(game, tongue).game = game /\ Whole(game, tongue).lang = tongue
         /\ Whole(game, tongue).source = Source(game, tongue)
         /\ Whole(game, tongue) = [game |-> game, lang |-> tongue,
                                   source |-> Whole(game, tongue).source,
                                   packs |-> Whole(game, tongue).packs]
  BY DEF Whole

\* haContentSourceLanguage names a language only when it has packs of the game.
LEMMA SourceHasPacks ==
  ASSUME NEW game, NEW tongue
  PROVE  Source(game, tongue) = NoLanguage \/ Baked[game][Source(game, tongue)] > 0
  BY DEF Source

\* A bank with all the packs of the chosen source has them from that source.
LEMMA LoadedIsWhole ==
  ASSUME Staging, At("packs"), stage.packs = Whole(loader.game, loader.lang).packs
  PROVE  stage = Whole(loader.game, loader.lang)
  <1> DEFINE source == Source(loader.game, loader.lang)
  <1>1. stage.packs = IF source = NoLanguage THEN 0 ELSE Baked[loader.game][source]
    BY DEF Whole
  <1>2. source = NoLanguage \/ Baked[loader.game][source] > 0
    BY SourceHasPacks
  <1>3. Whole(loader.game, loader.lang).source = source
    BY WholeFields
  <1> HIDE DEF source
  <1>4. stage.source = IF stage.packs = 0 THEN NoLanguage ELSE source
    BY DEF Staging, source
  <1>5. stage.source = source
    BY <1>1, <1>2, <1>4
  <1> QED  BY <1>3, <1>5, WholeFields DEF Staging

LEMMA IdleType == Idle \in [at : LoaderAt, caller : Callers, game : Game,
                            lang : Language \cup {NoLanguage}] /\ Idle.at = "idle"
  BY ContentAssumption DEF Idle, LoaderAt, Callers

LEMMA ContentInit == Init => ContentInv
  <1> SUFFICES ASSUME Init PROVE ContentInv
    OBVIOUS
  <1>1. hostGame \in Game /\ lang \in Language /\ loader = Idle /\ stage = NoBank
        /\ live = Whole(hostGame, lang) /\ (sheets <=> hostGame = SheetGame)
        /\ play = [game |-> hostGame, lang |-> lang, round |-> FALSE, points |-> FALSE]
    BY DEF Init
  <1>2. ContentType
    BY <1>1, IdleType DEF ContentType
  <1>3. BankWhole
    BY <1>1, WholeFields DEF BankWhole
  <1>4. Staging
    BY <1>1, IdleType DEF Staging, At
  <1> QED  BY <1>2, <1>3, <1>4 DEF ContentInv

\* A load is asked for; what is live stays, or all of it is gone.
LEMMA CallsOk ==
  ASSUME ContentInv, At("idle") \/ At("failed"),
         NEW caller \in Callers, NEW game \in Game, NEW tongue \in Language,
         Calls(caller, game, tongue),
         UNCHANGED <<live, stage, play, sheets>> \/ EngineReset
  PROVE  ContentInv'
  <1> USE DEF ContentInv
  <1>1. loader' = [at |-> "begin", caller |-> caller, game |-> game, lang |-> tongue]
    BY DEF Calls
  <1>2. Staging'
    BY <1>1 DEF Staging, At
  <1>3. CASE UNCHANGED <<live, stage, play, sheets>>
    <2>1. ContentType'
      BY <1>1, <1>3 DEF ContentType, LoaderAt, At
    <2>2. BankWhole'
      BY <1>1, <1>3 DEF BankWhole, At
    <2> QED  BY <1>2, <2>1, <2>2
  <1>4. CASE EngineReset
    <2>1. play' = [game |-> Lobby, lang |-> NoLanguage, round |-> FALSE, points |-> FALSE]
          /\ ~sheets' /\ live' = NoBank /\ stage' = NoBank
      BY <1>4 DEF EngineReset
    <2>2. ContentType'
      BY <1>1, <2>1, ContentAssumption DEF ContentType, LoaderAt, At
    <2>3. BankWhole'
      BY <2>1, ContentAssumption DEF BankWhole
    <2> QED  BY <1>2, <2>2, <2>3
  <1> QED  BY <1>3, <1>4

LEMMA ToIdleOk == ContentInv /\ (At("done") \/ At("failed")) /\ ToIdle => ContentInv'
  BY IdleType DEF ContentInv, ContentType, BankWhole, Staging, ToIdle, At

\* Rounds and points are the phones' and the host's between loads.
LEMMA PlaysOk ==
  ASSUME ContentInv, At("idle"), NEW round \in BOOLEAN, NEW points \in BOOLEAN,
         play' = [play EXCEPT !.round = round, !.points = points],
         UNCHANGED <<live, stage, sheets, loader, before>>
  PROVE  ContentInv'
  <1> USE DEF ContentInv
  <1>1. play' = [game |-> play.game, lang |-> play.lang, round |-> round, points |-> points]
    BY DEF ContentType
  <1>2. ContentType'
    BY <1>1 DEF ContentType, At
  <1>3. BankWhole'
    BY <1>1 DEF BankWhole, At
  <1>4. Staging'
    BY DEF Staging, At
  <1> QED  BY <1>2, <1>3, <1>4

\* The steps of haContentLoadGame; what a load stages or drops is never live before its end.
LEMMA GoesType ==
  ASSUME ContentType, NEW place \in LoaderAt \ {"idle"}, Goes(place)
  PROVE  /\ loader' = [at |-> place, caller |-> loader.caller, game |-> loader.game,
                       lang |-> loader.lang]
         /\ loader' \in [at : LoaderAt, caller : Callers, game : Game,
                         lang : Language \cup {NoLanguage}]
         /\ \A p \in LoaderAt : At(p)' <=> p = place
  <1>1. loader' = [at |-> place, caller |-> loader.caller, game |-> loader.game,
                   lang |-> loader.lang]
    BY DEF Goes, ContentType
  <1> QED  BY <1>1 DEF ContentType, At

LEMMA LoadsOk == ContentInv /\ Loads => ContentInv'
  <1> SUFFICES ASSUME ContentInv, Loads PROVE ContentInv'
    OBVIOUS
  <1> USE DEF ContentInv
  <1>1. CASE stage' = NoBank /\ Goes("failed") /\ UNCHANGED <<live, play, sheets>>
             /\ before' = <<live, play, sheets>>
    <2>1. /\ loader' \in [at : LoaderAt, caller : Callers, game : Game,
                          lang : Language \cup {NoLanguage}]
          /\ \A p \in LoaderAt : At(p)' <=> p = "failed"
      BY <1>1, GoesType DEF LoaderAt
    <2>2. ContentType' /\ BankWhole'
      BY <1>1, <2>1 DEF ContentType, BankWhole, LoaderAt
    <2>3. Staging'
      BY <1>1, <2>1 DEF Staging, LoaderAt
    <2> QED  BY <2>2, <2>3
  <1>2. CASE Begins
    <2>1. CASE stage' = NoBank /\ Goes("failed")
      BY <1>1, <1>2, <2>1 DEF Begins
    <2>2. CASE stage' = Empty(loader.game, loader.lang) /\ Goes("packs")
      <3>1. /\ loader' = [at |-> "packs", caller |-> loader.caller, game |-> loader.game,
                          lang |-> loader.lang]
            /\ loader' \in [at : LoaderAt, caller : Callers, game : Game,
                            lang : Language \cup {NoLanguage}]
            /\ \A p \in LoaderAt : At(p)' <=> p = "packs"
        BY <2>2, GoesType DEF LoaderAt
      <3>2. UNCHANGED <<live, play, sheets>> /\ before' = <<live, play, sheets>>
        BY <1>2 DEF Begins
      <3>3. ContentType' /\ BankWhole'
        BY <3>1, <3>2 DEF ContentType, BankWhole, LoaderAt, At
      <3>4. Staging'
        BY <2>2, <3>1, <3>2 DEF Staging, LoaderAt, Empty
      <3> QED  BY <3>3, <3>4
    <2> QED  BY <1>2, <2>1, <2>2 DEF Begins
  <1>3. CASE Unsupplied \/ CommitFails
    BY <1>1, <1>3 DEF Unsupplied, CommitFails, Staging
  <1>4. CASE LoadsPack
    <2>1. CASE stage' = NoBank /\ Goes("failed")
      BY <1>1, <1>4, <2>1 DEF LoadsPack, Staging
    <2>2. CASE /\ stage' = [stage EXCEPT !.source = Source(loader.game, loader.lang),
                                         !.packs = @ + 1]
               /\ UNCHANGED loader
      <3>1. UNCHANGED <<loader, live, play, sheets, before>> /\ At("packs")
        BY <1>4, <2>2 DEF LoadsPack
      <3>2. stage = [game |-> loader.game, lang |-> loader.lang, source |-> stage.source,
                     packs |-> stage.packs] /\ stage.packs \in Nat
        BY <3>1 DEF Staging
      <3>3. stage' = [game |-> loader.game, lang |-> loader.lang,
                      source |-> Source(loader.game, loader.lang), packs |-> stage.packs + 1]
        <4>1. PICK source, packs : stage = [game |-> loader.game, lang |-> loader.lang,
                                            source |-> source, packs |-> packs]
          BY <3>2
        <4> QED  BY <2>2, <4>1
      <3>4. ContentType' /\ BankWhole'
        BY <3>1 DEF ContentType, BankWhole, At
      <3>5. Staging'
        BY <3>1, <3>2, <3>3 DEF Staging, At
      <3> QED  BY <3>4, <3>5
    <2> QED  BY <1>4, <2>1, <2>2 DEF LoadsPack
  <1>5. CASE PacksLoaded
    <2>1. /\ loader' = [at |-> "commit", caller |-> loader.caller, game |-> loader.game,
                        lang |-> loader.lang]
          /\ loader' \in [at : LoaderAt, caller : Callers, game : Game,
                          lang : Language \cup {NoLanguage}]
          /\ \A p \in LoaderAt : At(p)' <=> p = "commit"
      BY <1>5, GoesType DEF LoaderAt, PacksLoaded
    <2>2. UNCHANGED <<live, stage, play, sheets, before>> /\ At("packs")
      BY <1>5 DEF PacksLoaded
    <2>3. stage = Whole(loader.game, loader.lang)
      BY <1>5, LoadedIsWhole DEF PacksLoaded
    <2>4. ContentType' /\ BankWhole'
      BY <2>1, <2>2 DEF ContentType, BankWhole, LoaderAt, At
    <2>5. Staging'
      BY <2>1, <2>2, <2>3 DEF Staging, LoaderAt
    <2> QED  BY <2>4, <2>5
  <1>6. CASE Commits
    <2>1. /\ loader' = [at |-> "done", caller |-> loader.caller, game |-> loader.game,
                        lang |-> loader.lang]
          /\ loader' \in [at : LoaderAt, caller : Callers, game : Game,
                          lang : Language \cup {NoLanguage}]
          /\ \A p \in LoaderAt : At(p)' <=> p = "done"
      BY <1>6, GoesType DEF LoaderAt, Commits
    <2>2. stage = Whole(loader.game, loader.lang) /\ before[2] = play
      BY <1>6 DEF Commits, Staging
    <2>3. stage.game = loader.game /\ stage.lang = loader.lang
      BY <2>2, WholeFields
    <2> DEFINE points == play.points /\ play.game = stage.game
    <2>4. /\ play' = [game |-> stage.game, lang |-> stage.lang, round |-> FALSE, points |-> points]
          /\ live' = stage /\ stage' = NoBank /\ (sheets' <=> stage.game = SheetGame)
          /\ before' = before
      BY <1>6 DEF Commits
    <2>5. points \in BOOLEAN /\ (play.game = stage.game => points = play.points)
      BY DEF ContentType
    <2> HIDE DEF points
    <2>6. ContentType'
      BY <2>1, <2>3, <2>4, <2>5 DEF ContentType, LoaderAt
    <2>7. BankWhole'
      BY <2>1, <2>2, <2>3, <2>4 DEF BankWhole
    <2>8. Staging'
      BY <2>1, <2>2, <2>4, <2>5 DEF Staging, LoaderAt
    <2> QED  BY <2>6, <2>7, <2>8
  <1> QED  BY <1>2, <1>3, <1>4, <1>5, <1>6 DEF Loads

-----------------------------------------------------------------------------
(* The cursor and the rows it points into.                                 *)

ScreenType ==
    /\ ui \in [view : Views, cursor : Nat, settingsReturn : Views, resetReturn : Views]
    /\ hist \in [start : Nat, count : Nat, of : Nat] /\ total \in Nat

ScreenInv == ScreenType /\ CursorInRange

LEMMA RowsOfGames == GameRows \in Nat /\ GameRows > 0
  BY FS_CardinalityType, FS_EmptySet, ContentAssumption DEF GameRows

LEMMA ScreenInit == Init => ScreenInv
  <1> SUFFICES ASSUME Init PROVE ScreenInv
    OBVIOUS
  <1>1. ui = [view |-> "DASH", cursor |-> 0, settingsReturn |-> "SETTINGS", resetReturn |-> "DASH"]
        /\ hist = [start |-> 0, count |-> 0, of |-> 0] /\ total \in Nat
    BY ConsoleAssumption DEF Init, Page
  <1> QED  BY <1>1 DEF ScreenInv, ScreenType, CursorInRange, View, HistoryViews, Views

LEMMA PageType ==
  ASSUME ScreenType, NEW start \in Nat, NEW o \in PageOutcomes(start)
  PROVE  o.page \in [start : Nat, count : Nat, of : Nat] /\ o.total \in Nat
  <1>1. CASE \/ o = [page |-> hist, total |-> total]
             \/ o = [page |-> Page(start, 0, 0), total |-> total]
             \/ o = [page |-> Page(start, 0, 0), total |-> 0]
    BY <1>1 DEF ScreenType, Page
  <1>2. ASSUME NEW n \in 0 .. total, NEW from \in {start, 0}, from <= n,
               o = [page |-> Page(from, Fewer(PageRows, n - from), n), total |-> n]
        PROVE  o.page \in [start : Nat, count : Nat, of : Nat] /\ o.total \in Nat
    <2>1. n \in Nat /\ Fewer(PageRows, n - from) \in Nat /\ from \in Nat
      BY <1>2, ConsoleAssumption DEF ScreenType, Fewer
    <2> QED  BY <1>2, <2>1 DEF Page
  <1> DEFINE first(n) == IF start < n THEN start ELSE 0
  <1>3. CASE \E n \in 0 .. total :
               o = [page |-> Page(first(n), Fewer(PageRows, n - first(n)), n), total |-> n]
    <2>1. PICK n \in 0 .. total :
               o = [page |-> Page(first(n), Fewer(PageRows, n - first(n)), n), total |-> n]
      BY <1>3
    <2>2. first(n) \in {start, 0} /\ first(n) <= n
      BY DEF ScreenType
    <2> HIDE DEF first
    <2> QED  BY <1>2, <2>1, <2>2
  <1> QED  BY <1>1, <1>3 DEF PageOutcomes

\* Another view: where it looks at the cursor, the cursor is at its first row or the game's.
LEMMA OpensOk ==
  ASSUME ScreenInv, NEW view \in Views, Opens(view)
  PROVE  ScreenInv'
  <1> USE DEF ScreenInv
  <1>1. PICK row \in IF view = "GAMES" THEN 0 .. GameRows - 1 ELSE {0} :
          ui' = [ui EXCEPT !.view = view, !.cursor = row]
    BY DEF Opens
  <1>2. row \in Nat /\ (view = "GAMES" => row < GameRows) /\ (view # "GAMES" => row = 0)
    BY RowsOfGames
  <1>3. ui' = [view |-> view, cursor |-> row, settingsReturn |-> ui.settingsReturn,
               resetReturn |-> ui.resetReturn]
    BY <1>1 DEF ScreenType
  <1>4. hist' \in [start : Nat, count : Nat, of : Nat] /\ total' \in Nat
    <2>1. CASE view = "HISTORY"
      BY <2>1, PageType DEF Opens, Reads
    <2>2. CASE view # "HISTORY"
      BY <2>2 DEF Opens, ScreenType
    <2> QED  BY <2>1, <2>2
  <1> QED
    BY <1>2, <1>3, <1>4 DEF ScreenType, CursorInRange, View, SettingsRows, HistoryViews, Views

\* A view that does not look at the cursor, or the one of the same row.
LEMMA TurnsAwayOk ==
  ASSUME ScreenInv, NEW view \in Views, NEW back \in Views, NEW reset \in Views,
         ui' = [view |-> view, cursor |-> ui.cursor, settingsReturn |-> back,
                resetReturn |-> reset],
         hist' = hist, total' \in Nat,
         \/ view \notin {"GAMES", "SETTINGS"} \cup HistoryViews
         \/ view \in HistoryViews /\ View \in HistoryViews
         \/ view = View
         \/ view = "HISTORY_DETAIL" /\ ui.cursor < hist.count
  PROVE  ScreenInv'
  <1> USE DEF ScreenInv
  <1>1. ScreenType'
    BY DEF ScreenType
  <1>2. CursorInRange'
    BY DEF ScreenType, CursorInRange, View, HistoryViews
  <1> QED  BY <1>1, <1>2

LEMMA ShowsOk ==
  ASSUME ScreenInv, NEW view \in Views, Shows(view), hist' = hist, total' \in Nat,
         \/ view \notin {"GAMES", "SETTINGS"} \cup HistoryViews
         \/ view \in HistoryViews /\ View \in HistoryViews
  PROVE  ScreenInv'
  <1>1. ui' = [view |-> view, cursor |-> ui.cursor, settingsReturn |-> ui.settingsReturn,
               resetReturn |-> ui.resetReturn]
        /\ ui.settingsReturn \in Views /\ ui.resetReturn \in Views
    BY DEF Shows, ScreenInv, ScreenType
  <1> QED  BY <1>1, TurnsAwayOk

LEMMA ScreenKept ==
  ASSUME ScreenInv, ui' = ui, hist' = hist, total' \in Nat
  PROVE  ScreenInv'
  BY DEF ScreenInv, ScreenType, CursorInRange, View, HistoryViews

LEMMA MovesOk ==
  ASSUME ScreenInv, NEW row \in Nat, Moves(row),
         View = "GAMES" => row < GameRows, View = "SETTINGS" => row < SettingsRows,
         View \in HistoryViews => row < hist.count
  PROVE  ScreenInv'
  <1> USE DEF ScreenInv
  <1>1. ui' = [view |-> View, cursor |-> row, settingsReturn |-> ui.settingsReturn,
               resetReturn |-> ui.resetReturn] /\ UNCHANGED <<hist, total>>
    BY DEF Moves, ScreenType, View
  <1>2. ScreenType'
    BY <1>1 DEF ScreenType, View
  <1> QED  BY <1>1, <1>2 DEF CursorInRange, View

LEMMA TurnsOk ==
  ASSUME ScreenInv, View = "HISTORY", NEW start \in Nat, NEW toLast \in BOOLEAN,
         Turns(start, toLast)
  PROVE  ScreenInv'
  <1> USE DEF ScreenInv
  <1>1. PICK o \in PageOutcomes(start) :
          /\ Reads(o)
          /\ ui' = [ui EXCEPT !.cursor = IF o.page = hist \/ o.page.count = 0 THEN @
                                         ELSE IF toLast THEN o.page.count - 1 ELSE 0]
    BY DEF Turns
  <1>2. hist' = o.page /\ hist' \in [start : Nat, count : Nat, of : Nat] /\ total' \in Nat
    BY <1>1, PageType DEF Reads
  <1> DEFINE row == IF hist' = hist \/ hist'.count = 0 THEN ui.cursor
                    ELSE IF toLast THEN hist'.count - 1 ELSE 0
  <1>3. ui' = [view |-> "HISTORY", cursor |-> row, settingsReturn |-> ui.settingsReturn,
               resetReturn |-> ui.resetReturn]
    BY <1>1, <1>2 DEF ScreenType, View
  <1>4. row \in Nat /\ (hist'.count > 0 => row < hist'.count)
    <2>1. hist'.count \in Nat /\ ui.cursor \in Nat
      BY <1>2 DEF ScreenType
    <2>2. hist.count > 0 => ui.cursor < hist.count
      BY DEF CursorInRange, HistoryViews
    <2> QED  BY <2>1, <2>2
  <1> HIDE DEF row
  <1>5. ScreenType'
    BY <1>2, <1>3, <1>4 DEF ScreenType, Views
  <1>6. CursorInRange'
    BY <1>3, <1>4 DEF CursorInRange, View
  <1> QED  BY <1>5, <1>6

LEMMA BackOk == ScreenInv /\ Back => ScreenInv'
  <1> SUFFICES ASSUME ScreenInv, Back PROVE ScreenInv'
    OBVIOUS
  <1>1. ui.settingsReturn \in Views /\ ui.resetReturn \in Views /\ total \in Nat
    BY DEF ScreenInv, ScreenType
  <1>2. CASE View = "HISTORY_DETAIL"
    <2>1. Shows("HISTORY") /\ UNCHANGED <<hist, total>>
      BY <1>2 DEF Back
    <2> QED  BY <1>1, <1>2, <2>1, ShowsOk DEF Views, HistoryViews
  <1>3. CASE View = "HISTORY_RESTORE"
    <2>1. Shows("HISTORY_DETAIL") /\ UNCHANGED <<hist, total>>
      BY <1>3 DEF Back
    <2> QED  BY <1>1, <1>3, <2>1, ShowsOk DEF Views, HistoryViews
  <1>4. CASE View \notin {"HISTORY_DETAIL", "HISTORY_RESTORE"}
    <2>1. Opens(ui.settingsReturn) \/ Opens(ui.resetReturn) \/ Opens("DASH")
      BY <1>4 DEF Back
    <2> QED  BY <1>1, <2>1, OpensOk DEF Views
  <1> QED  BY <1>2, <1>3, <1>4

\* One lemma per group of keys; the others leave the screen alone.
LEMMA ViewKeysOk == ScreenInv /\ (PressBack \/ PressView \/ PressApply) => ScreenInv'
  <1> SUFFICES ASSUME ScreenInv, PressBack \/ PressView \/ PressApply PROVE ScreenInv'
    OBVIOUS
  <1>1. total \in Nat /\ ui.settingsReturn \in Views
    BY DEF ScreenInv, ScreenType
  <1>2. CASE Stays
    BY <1>1, <1>2, ScreenKept DEF Stays
  <1>3. CASE Back
    BY <1>3, BackOk
  <1>4. CASE PressBack
    BY <1>2, <1>3, <1>4 DEF PressBack
  <1>5. CASE PressView
    <2>1. CASE \E k \in DOMAIN Letters : Given(k) /\ Opens(Letters[k])
      <3>1. \A k \in DOMAIN Letters : Letters[k] \in Views
        BY DEF Letters, Views
      <3> QED  BY <2>1, <3>1, OpensOk
    <2>2. CASE View = "GAMES" /\ ui' = [ui EXCEPT !.cursor = 0] /\ UNCHANGED <<hist, total>>
      BY <2>2, RowsOfGames, MovesOk DEF Moves, HistoryViews
    <2>3. CASE Opens("SETTINGS")
      BY <2>3, OpensOk DEF Views
    <2> QED  BY <1>5, <2>1, <2>2, <2>3 DEF PressView
  <1>6. CASE PressApply
    BY <1>1, <1>6, OpensOk DEF PressApply
  <1> QED  BY <1>4, <1>5, <1>6

LEMMA SideKeysOk == ScreenInv /\ (PressSide \/ PressReset \/ PressRow) => ScreenInv'
  <1> SUFFICES ASSUME ScreenInv, PressSide \/ PressReset \/ PressRow PROVE ScreenInv'
    OBVIOUS
  <1>1. ui = [view |-> View, cursor |-> ui.cursor, settingsReturn |-> ui.settingsReturn,
              resetReturn |-> ui.resetReturn]
        /\ ui.settingsReturn \in Views /\ ui.resetReturn \in Views /\ View \in Views /\ total \in Nat
    BY DEF ScreenInv, ScreenType, View
  <1>2. \A view \in {"CONSOLE", "DIAGNOSTICS", "SSID", "RESET_CONFIRM"} :
           view \in Views /\ view \notin {"GAMES", "SETTINGS"} \cup HistoryViews
    BY DEF Views, HistoryViews
  <1>3. CASE PressSide
    <2>1. PICK k \in DOMAIN Sides :
             ui' = [ui EXCEPT !.view = Sides[k],
                              !.settingsReturn = IF View = "SETTINGS" THEN "SETTINGS" ELSE "DASH"]
      BY <1>3 DEF PressSide
    <2>2. Sides[k] \in {"CONSOLE", "DIAGNOSTICS", "SSID", "RESET_CONFIRM"}
      BY DEF Sides
    <2>3. PICK back \in {"SETTINGS", "DASH"} :
            ui' = [ui EXCEPT !.view = Sides[k], !.settingsReturn = back]
      BY <2>1
    <2>4. ui' = [view |-> Sides[k], cursor |-> ui.cursor, settingsReturn |-> back,
                 resetReturn |-> ui.resetReturn]
      BY <2>3 DEF ScreenInv, ScreenType
    <2>5. back \in Views /\ hist' = hist /\ total' \in Nat
      BY <1>1, <1>3 DEF Views, PressSide
    <2> HIDE DEF Sides
    <2> QED  BY <1>1, <1>2, <2>2, <2>4, <2>5, TurnsAwayOk
  <1>4. CASE PressReset
    <2>1. PICK back \in {"BOARD", "DASH"} :
            ui' = [ui EXCEPT !.view = "RESET_CONFIRM", !.resetReturn = back]
      BY <1>4 DEF PressReset
    <2>2. ui' = [view |-> "RESET_CONFIRM", cursor |-> ui.cursor,
                 settingsReturn |-> ui.settingsReturn, resetReturn |-> back]
      BY <2>1 DEF ScreenInv, ScreenType
    <2>3. back \in Views /\ hist' = hist /\ total' \in Nat
      BY <1>1, <1>4 DEF Views, PressReset
    <2> QED  BY <1>1, <1>2, <2>2, <2>3, TurnsAwayOk
  <1>5. CASE PressRow
    <2>1. PICK target \in {"SSID", "CONSOLE", "DIAGNOSTICS", "SETTINGS"} :
             ui' = IF target = "SETTINGS" THEN ui
                   ELSE [ui EXCEPT !.view = target, !.settingsReturn = "SETTINGS"]
      <3>1. ASSUME NEW target, ui' = IF target = "SETTINGS" THEN ui
                              ELSE [ui EXCEPT !.view = target, !.settingsReturn = "SETTINGS"],
                   target \in {"SSID", "CONSOLE", "DIAGNOSTICS", "SETTINGS"}
            PROVE  \E t \in {"SSID", "CONSOLE", "DIAGNOSTICS", "SETTINGS"} :
                      ui' = IF t = "SETTINGS" THEN ui
                            ELSE [ui EXCEPT !.view = t, !.settingsReturn = "SETTINGS"]
        BY <3>1
      <3> DEFINE row == CASE ui.cursor = 0 -> "SSID" [] ui.cursor = 4 -> "CONSOLE"
                          [] ui.cursor = 5 -> "DIAGNOSTICS" [] OTHER -> "SETTINGS"
      <3>2. row \in {"SSID", "CONSOLE", "DIAGNOSTICS", "SETTINGS"}
        OBVIOUS
      <3>3. ui' = IF row = "SETTINGS" THEN ui
                  ELSE [ui EXCEPT !.view = row, !.settingsReturn = "SETTINGS"]
        BY <1>5 DEF PressRow
      <3> HIDE DEF row
      <3> QED  BY <3>1, <3>2, <3>3
    <2>2. hist' = hist /\ total' \in Nat
      BY <1>1, <1>5 DEF PressRow
    <2>3. CASE target = "SETTINGS"
      BY <2>1, <2>2, <2>3, ScreenKept
    <2>4. CASE target # "SETTINGS"
      <3>1. ui' = [view |-> target, cursor |-> ui.cursor, settingsReturn |-> "SETTINGS",
                   resetReturn |-> ui.resetReturn]
        BY <2>1, <2>4 DEF ScreenInv, ScreenType
      <3>2. target \in Views /\ target \notin {"GAMES", "SETTINGS"} \cup HistoryViews
            /\ "SETTINGS" \in Views
        BY <1>2, <2>1, <2>4 DEF Views
      <3> QED  BY <1>1, <2>2, <3>1, <3>2, TurnsAwayOk
    <2> QED  BY <2>3, <2>4
  <1> QED  BY <1>3, <1>4, <1>5

LEMMA ScrollKeysOk == ScreenInv /\ (PressUp \/ PressDown \/ PressPage) => ScreenInv'
  <1> SUFFICES ASSUME ScreenInv, PressUp \/ PressDown \/ PressPage PROVE ScreenInv'
    OBVIOUS
  <1>1. /\ ui.cursor \in Nat /\ total \in Nat /\ hist.start \in Nat /\ hist.count \in Nat
        /\ View = "GAMES" => ui.cursor < GameRows
        /\ View = "SETTINGS" => ui.cursor < SettingsRows
        /\ View \in HistoryViews /\ hist.count > 0 => ui.cursor < hist.count
    BY DEF ScreenInv, ScreenType, CursorInRange
  <1>2. NewerStart \in Nat /\ OlderStart \in Nat /\ PageJump \in Nat
    BY <1>1, ConsoleAssumption DEF NewerStart, OlderStart
  <1>3. View = "HISTORY" => View \in HistoryViews
    BY DEF HistoryViews
  <1>4. CASE Stays
    BY <1>1, <1>4, ScreenKept DEF Stays
  <1>5. CASE View = "HISTORY" /\ (\/ Turns(NewerStart, TRUE) \/ Turns(NewerStart, FALSE)
                                  \/ Turns(OlderStart, FALSE))
    BY <1>2, <1>5, TurnsOk
  <1>6. CASE PressUp
    <2>1. CASE ui.cursor > 0 /\ Moves(ui.cursor - 1)
      <3> DEFINE row == ui.cursor - 1
      <3>1. row \in Nat /\ (View = "GAMES" => row < GameRows)
            /\ (View = "SETTINGS" => row < SettingsRows)
        BY <1>1, <2>1, RowsOfGames DEF SettingsRows
      <3>2. View \in HistoryViews => View = "HISTORY"
        BY <1>6 DEF PressUp, HistoryViews
      <3>3. CASE View = "HISTORY" /\ hist.count = 0
        <4>1. ui' = [view |-> View, cursor |-> row, settingsReturn |-> ui.settingsReturn,
                     resetReturn |-> ui.resetReturn] /\ UNCHANGED <<hist, total>>
          BY <2>1 DEF Moves, ScreenInv, ScreenType, View
        <4> QED
          BY <1>1, <3>1, <3>3, <4>1 DEF ScreenInv, ScreenType, CursorInRange, View
      <3>4. CASE ~(View = "HISTORY" /\ hist.count = 0)
        <4>1. View \in HistoryViews => row < hist.count
          BY <1>1, <3>2, <3>4
        <4> QED  BY <2>1, <3>1, <4>1, MovesOk
      <3> QED  BY <3>3, <3>4
    <2> QED  BY <1>4, <1>5, <1>6, <2>1 DEF PressUp
  <1>7. CASE PressDown
    <2>1. CASE View = "GAMES" /\ Moves(Fewer(ui.cursor + 1, GameRows - 1))
      <3>1. Fewer(ui.cursor + 1, GameRows - 1) \in 0 .. GameRows - 1
        BY <1>1, <2>1, RowsOfGames DEF Fewer
      <3> QED  BY <2>1, <3>1, RowsOfGames, MovesOk DEF HistoryViews
    <2>2. CASE View = "SETTINGS" /\ Moves(Fewer(ui.cursor + 1, SettingsRows - 1))
      <3>1. Fewer(ui.cursor + 1, SettingsRows - 1) \in 0 .. SettingsRows - 1
        BY <1>1, <2>2 DEF Fewer, SettingsRows
      <3> QED  BY <2>2, <3>1, MovesOk DEF HistoryViews, SettingsRows
    <2>3. CASE View = "HISTORY" /\ ui.cursor + 1 < hist.count /\ Moves(ui.cursor + 1)
      BY <1>1, <2>3, MovesOk
    <2> QED  BY <1>4, <1>5, <1>7, <2>1, <2>2, <2>3 DEF PressDown
  <1>8. CASE PressPage
    <2>1. CASE View = "GAMES" /\ Moves(IF ui.cursor > PageJump THEN ui.cursor - PageJump ELSE 0)
      <3> DEFINE row == IF ui.cursor > PageJump THEN ui.cursor - PageJump ELSE 0
      <3>1. row \in Nat /\ row < GameRows
        BY <1>1, <1>2, <2>1, RowsOfGames
      <3> HIDE DEF row
      <3>2. Moves(row)
        BY <2>1 DEF row
      <3> QED  BY <2>1, <3>1, <3>2, MovesOk DEF HistoryViews
    <2>2. CASE View = "GAMES" /\ Moves(Fewer(ui.cursor + PageJump, GameRows - 1))
      <3>1. Fewer(ui.cursor + PageJump, GameRows - 1) \in 0 .. GameRows - 1
        BY <1>1, <1>2, <2>2, RowsOfGames DEF Fewer
      <3> QED  BY <2>2, <3>1, RowsOfGames, MovesOk DEF HistoryViews
    <2> QED  BY <1>5, <1>8, <2>1, <2>2 DEF PressPage
  <1> QED  BY <1>6, <1>7, <1>8

LEMMA ArchivesType == ScreenType /\ (Archives \/ UNCHANGED total) => total' \in Nat
  BY DEF ScreenType, Archives

LEMMA SessionKeysOk ==
  ScreenInv /\ (\/ PressDetail \/ PressRestore \/ RestoreFails \/ Restores
                \/ NewSession \/ DiscardSession) => ScreenInv'
  <1> SUFFICES ASSUME ScreenInv, \/ PressDetail \/ PressRestore \/ RestoreFails \/ Restores
                                 \/ NewSession \/ DiscardSession
               PROVE  ScreenInv'
    OBVIOUS
  <1>1. total \in Nat /\ total' \in Nat /\ hist' = hist
    BY ArchivesType DEF ScreenInv, ScreenType, PressDetail, PressRestore, RestoreFails, Restores,
                        NewSession, DiscardSession
  <1>2. CASE ui' = ui
    BY <1>1, <1>2, ScreenKept
  <1>3. CASE Shows("HISTORY_DETAIL") /\ View = "HISTORY"
    BY <1>1, <1>3, ShowsOk DEF Views, HistoryViews
  <1>4. CASE Shows("HISTORY_RESTORE") /\ View = "HISTORY_DETAIL"
    BY <1>1, <1>4, ShowsOk DEF Views, HistoryViews
  <1>5. CASE Shows("RESET_DISCARD_CONFIRM")
    BY <1>1, <1>5, ShowsOk DEF Views, HistoryViews
  <1>6. CASE ui' = [ui EXCEPT !.view = "BOARD", !.cursor = 0]
    <2>1. ui' = [view |-> "BOARD", cursor |-> 0, settingsReturn |-> ui.settingsReturn,
                 resetReturn |-> ui.resetReturn]
      BY <1>6 DEF ScreenInv, ScreenType
    <2> QED
      BY <1>1, <2>1 DEF ScreenInv, ScreenType, CursorInRange, View, HistoryViews, Views
  <1> QED
    BY <1>2, <1>3, <1>4, <1>5, <1>6 DEF PressDetail, PressRestore, RestoreFails, Restores,
                                        NewSession, DiscardSession

LEMMA ScreenStep == ScreenInv /\ [Next]_vars => ScreenInv'
  <1> SUFFICES ASSUME ScreenInv, [Next]_vars PROVE ScreenInv'
    OBVIOUS
  <1>1. CASE UNCHANGED <<ui, hist, total>>
    BY <1>1, ScreenKept DEF ScreenInv, ScreenType
  <1>2. CASE Press
    BY <1>1, <1>2, ViewKeysOk, SideKeysOk, ScrollKeysOk, SessionKeysOk
    DEF Press, PressLanguage, PressSelect, PressEnd, PressNothing, Stays
  <1>3. CASE Returns
    BY <1>1, <1>3, OpensOk
    DEF Returns, SelectReturns, RestoreReturns, LobbyReturns, LanguageReturns, Views
  <1>4. CASE KeysEnd \/ LanguageStep \/ Plays \/ UNCHANGED vars \/ UNCHANGED consoleVars
    BY <1>1, <1>4 DEF KeysEnd, LanguageStep, Plays, vars, consoleVars
  <1> QED  BY <1>2, <1>3, <1>4 DEF Next

-----------------------------------------------------------------------------
(* The loop and what it loads.                                             *)

HostType ==
    /\ lang \in Language /\ loaded \in Language /\ dirty \in BOOLEAN /\ hostGame \in Game
    /\ pass \in [at : {"keys", "language", "reload"}, given : SUBSET Key]
    /\ IsFiniteSet(pass.given)

\* The loop comes to the language when no load is under way, and loads in a language it has.
Resting ==
    /\ pass.at = "language" => At("idle")
    /\ ~At("idle") => loader.lang \in Language

BaseInv == ContentInv /\ ScreenInv /\ HostType /\ Resting

\* Every key is one, comes between loads, and only three of their handlers touch what is played
\* or the language.
LEMMA PressKinds ==
  ASSUME Press
  PROVE  /\ \E k \in Key : Given(k)
         /\ At("idle")
         /\ \/ PressSelect \/ Restores \/ PressLanguage
            \/ UNCHANGED <<loader, live, lang, loaded, dirty, hostGame>>
  <1> USE DEF Press
  <1>1. \E k \in Key : Given(k)
    <2>1. \A k \in DOMAIN Letters \cup DOMAIN Sides : k \in Key
      BY DEF Letters, Sides, Key, Chars
    <2>2. {"esc", "up", "down", "left", "right", "s", "r", "y", "e", "del", "enter"} \subseteq Key
      BY DEF Key, Chars
    <2>3. CASE PressBack \/ PressView \/ PressSide \/ PressReset \/ PressUp \/ PressDown \/ PressPage
      BY <2>1, <2>2, <2>3
      DEF PressBack, PressView, PressSide, PressReset, PressUp, PressDown, PressPage
    <2>4. CASE \/ PressLanguage \/ PressRow \/ PressApply \/ PressSelect \/ PressDetail
               \/ PressRestore \/ RestoreFails \/ Restores \/ NewSession \/ DiscardSession
               \/ PressEnd \/ PressNothing
      BY <2>2, <2>4
      DEF PressLanguage, PressRow, PressApply, PressSelect, PressDetail, PressRestore,
          RestoreFails, Restores, NewSession, DiscardSession, PressEnd, PressNothing
    <2> QED  BY <2>3, <2>4
  <1>2. At("idle")
    BY <1>1 DEF Given
  <1>3. \/ PressSelect \/ Restores \/ PressLanguage
        \/ UNCHANGED <<loader, live, lang, loaded, dirty, hostGame>>
    BY DEF PressBack, PressView, PressSide, PressReset, PressUp, PressDown, PressPage, PressRow,
           PressApply, PressDetail, PressRestore, RestoreFails, NewSession, DiscardSession,
           PressEnd, PressNothing, OnlyViews, NoLoad, SameTongue, contentVars
  <1> QED  BY <1>1, <1>2, <1>3

\* What a step of the console does to the bank.
LEMMA ContentStep == BaseInv /\ [Next]_vars => ContentInv'
  <1> SUFFICES ASSUME BaseInv, [Next]_vars PROVE ContentInv'
    OBVIOUS
  <1> USE DEF BaseInv
  <1>1. CASE UNCHANGED contentVars
    BY <1>1 DEF contentVars, ContentInv, ContentType, BankWhole, Staging, At
  <1>2. {"select", "restore", "lobby", "language"} \subseteq Callers /\ Lobby \in Game
        /\ lang \in Language
    BY ContentAssumption DEF Callers, HostType
  <1>3. CASE Loads
    BY <1>3, LoadsOk
  <1>4. CASE Press
    <2>1. CASE PressSelect
      <3>1. PICK game \in Game : Calls("select", game, lang)
        BY <2>1 DEF PressSelect
      <3>2. UNCHANGED <<live, stage, play, sheets>> /\ At("idle")
        BY <2>1 DEF PressSelect, Given
      <3> QED  BY <1>2, <3>1, <3>2, CallsOk
    <2>2. CASE Restores
      <3>1. hostGame' \in Game /\ Calls("restore", hostGame', lang) /\ EngineReset /\ At("idle")
        BY <2>2 DEF Restores, Given
      <3> QED  BY <1>2, <3>1, CallsOk
    <2>3. CASE NewSession \/ DiscardSession \/ PressEnd
      <3>1. At("idle") /\ UNCHANGED <<live, stage, sheets, loader, before>>
        BY <1>4, <2>3, PressKinds DEF NewSession, DiscardSession, PressEnd
      <3>2. play.round \in BOOLEAN /\ play.points \in BOOLEAN
        BY DEF ContentInv, ContentType
      <3>3. CASE play' = play
        <4>1. UNCHANGED contentVars
          BY <3>1, <3>3 DEF contentVars
        <4> QED  BY <1>1, <4>1
      <3>4. CASE play' = [play EXCEPT !.points = FALSE]
        <4>1. play' = [play EXCEPT !.round = play.round, !.points = FALSE]
          BY <3>4 DEF ContentInv, ContentType
        <4> QED  BY <3>1, <3>2, <4>1, PlaysOk
      <3>5. CASE \E points \in {FALSE, play.points} :
                    play' = [play EXCEPT !.round = FALSE, !.points = points]
        BY <3>1, <3>2, <3>5, PlaysOk
      <3> QED  BY <2>3, <3>3, <3>4, <3>5 DEF NewSession, DiscardSession, PressEnd
    <2>4. CASE ~(PressSelect \/ Restores \/ NewSession \/ DiscardSession \/ PressEnd)
      BY <1>1, <1>4, <2>4
      DEF Press, PressBack, PressView, PressSide, PressReset, PressUp, PressDown, PressPage,
          PressLanguage, PressRow, PressApply, PressDetail, PressRestore, RestoreFails,
          PressNothing, OnlyViews, NoLoad
    <2> QED  BY <2>1, <2>2, <2>3, <2>4
  <1>5. CASE Returns
    <2>1. CASE ToIdle /\ (At("done") \/ At("failed"))
      BY <2>1, ToIdleOk
    <2>2. CASE At("failed") /\ Calls("lobby", Lobby, lang) /\ UNCHANGED <<live, stage, play, sheets>>
      BY <1>2, <2>2, CallsOk
    <2> QED
      BY <1>5, <2>1, <2>2 DEF Returns, SelectReturns, RestoreReturns, LobbyReturns, LanguageReturns
  <1>6. CASE LanguageStep
    <2>1. CASE dirty
      <3>1. /\ Calls("language", hostGame, lang) /\ UNCHANGED <<live, stage, play, sheets>>
            /\ At("idle")
        BY <1>6, <2>1 DEF LanguageStep, Resting
      <3> QED  BY <1>2, <3>1, CallsOk DEF HostType
    <2>2. CASE ~dirty
      <3>1. UNCHANGED contentVars
        BY <1>6, <2>2 DEF LanguageStep, contentVars
      <3> QED  BY <1>1, <3>1
    <2> QED  BY <2>1, <2>2
  <1>7. CASE Plays
    BY <1>7, PlaysOk DEF Plays
  <1>8. CASE KeysEnd \/ UNCHANGED vars
    BY <1>1, <1>8 DEF KeysEnd, vars
  <1> QED  BY <1>3, <1>4, <1>5, <1>6, <1>7, <1>8 DEF Next

LEMMA GivenType ==
  ASSUME HostType, NEW k \in Key, Given(k)
  PROVE  /\ pass' \in [at : {"keys", "language", "reload"}, given : SUBSET Key]
         /\ pass.at = "keys" /\ pass'.at = "keys" /\ pass'.given = pass.given \cup {k}
         /\ IsFiniteSet(pass'.given)
         /\ Cardinality(pass.given) \in Nat /\ Cardinality(pass.given) < MaxChord
         /\ Cardinality(pass'.given) = Cardinality(pass.given) + 1
  <1>1. /\ pass' = [at |-> "keys", given |-> pass.given \cup {k}]
        /\ pass.at = "keys" /\ k \notin pass.given
    BY DEF Given, HostType
  <1> QED
    BY <1>1, FS_AddElement, FS_CardinalityType DEF Given, HostType

LEMMA CallsLoader ==
  ASSUME NEW caller, NEW game, NEW tongue, Calls(caller, game, tongue)
  PROVE  /\ loader'.at = "begin" /\ loader'.caller = caller
         /\ loader'.game = game /\ loader'.lang = tongue
  BY DEF Calls

LEMMA LoadsLoader ==
  ASSUME ContentType, Loads
  PROVE  /\ loader'.caller = loader.caller /\ loader'.game = loader.game
         /\ loader'.lang = loader.lang
         /\ ~At("idle") /\ loader'.at # "idle"
         /\ (Commits \/ (live' = live /\ loader'.at # "done"))
  <1>1. CASE LoadsPack /\ UNCHANGED loader
    BY <1>1 DEF LoadsPack, At
  <1>2. CASE \E place \in {"packs", "failed", "commit", "done"} : Goes(place)
    BY <1>2, GoesType
    DEF Loads, Begins, Unsupplied, LoadsPack, PacksLoaded, CommitFails, Commits, At, LoaderAt
  <1>3. (LoadsPack /\ UNCHANGED loader) \/ \E place \in {"packs", "failed", "commit", "done"} : Goes(place)
    BY DEF Loads, Begins, Unsupplied, LoadsPack, PacksLoaded, CommitFails, Commits
  <1> QED  BY <1>1, <1>2, <1>3

LEMMA HostTypeStep == BaseInv /\ [Next]_vars => HostType' /\ Resting'
  <1> SUFFICES ASSUME BaseInv, [Next]_vars PROVE HostType' /\ Resting'
    OBVIOUS
  <1> USE DEF BaseInv
  <1>1. Lobby \in Game /\ loader.game \in Game /\ ContentType /\ HostType /\ Resting
    BY ContentAssumption DEF ContentInv, ContentType
  <1>2. CASE UNCHANGED <<loader, lang, loaded, dirty, hostGame, pass>>
    BY <1>1, <1>2 DEF HostType, Resting, At
  <1>3. CASE Press
    <2>1. PICK k \in Key : Given(k)
      BY <1>3, PressKinds
    <2>2. /\ pass' \in [at : {"keys", "language", "reload"}, given : SUBSET Key]
          /\ IsFiniteSet(pass'.given) /\ pass'.at = "keys"
      BY <1>1, <2>1, GivenType
    <2>3. /\ lang' \in Language /\ loaded' \in Language /\ dirty' \in BOOLEAN
          /\ hostGame' \in Game
      <3>1. CASE PressLanguage
        BY <1>1, <3>1 DEF PressLanguage, HostType
      <3>2. CASE PressSelect \/ Restores
        BY <1>1, <3>2 DEF PressSelect, Restores, SameTongue, HostType
      <3> QED  BY <1>1, <1>3, <3>1, <3>2, PressKinds DEF HostType
    <2>4. loader' = loader \/ loader'.lang = lang
      BY <1>3, PressKinds, CallsLoader
      DEF PressLanguage, NoLoad, contentVars, PressSelect, Restores
    <2> QED  BY <1>1, <1>3, <2>2, <2>3, <2>4, PressKinds DEF HostType, Resting, At
  <1>4. CASE Loads /\ UNCHANGED consoleVars
    BY <1>1, <1>4, LoadsLoader DEF HostType, Resting, At, consoleVars
  <1>5. CASE Returns
    <2>1. CASE ToIdle
      <3>1. At("idle")'
        BY <2>1, IdleType DEF ToIdle, At
      <3>2. lang' \in Language /\ loaded' \in Language /\ dirty' = dirty /\ hostGame' \in Game
        <4>1. loader.lang \in Language
          BY <1>1, <1>5 DEF Returns, SelectReturns, RestoreReturns, LobbyReturns, LanguageReturns,
                            Resting, At
        <4> QED
          BY <1>1, <1>5, <4>1 DEF Returns, SelectReturns, RestoreReturns, LobbyReturns,
                                  LanguageReturns, SameTongue, HostType
      <3>3. pass' = pass \/ pass' = [at |-> "keys", given |-> {}]
        BY <1>5 DEF Returns, SelectReturns, RestoreReturns, LobbyReturns, LanguageReturns
      <3>4. pass' \in [at : {"keys", "language", "reload"}, given : SUBSET Key]
            /\ IsFiniteSet(pass'.given)
        BY <1>1, <3>3, FS_EmptySet DEF HostType
      <3> QED  BY <1>1, <3>1, <3>2, <3>4 DEF HostType, Resting
    <2>2. CASE RestoreReturns /\ ~ToIdle
      <3>1. /\ At("failed") /\ hostGame' = Lobby /\ Calls("lobby", Lobby, lang)
            /\ UNCHANGED <<lang, loaded, dirty, pass>>
        BY <2>2 DEF RestoreReturns, SameTongue
      <3>2. loader'.lang = lang /\ pass.at # "language"
        BY <1>1, <3>1, CallsLoader DEF Resting, At
      <3> QED  BY <1>1, <3>1, <3>2 DEF HostType, Resting
    <2> QED
      BY <1>5, <2>1, <2>2 DEF Returns, SelectReturns, RestoreReturns, LobbyReturns, LanguageReturns
  <1>6. CASE KeysEnd
    <2>1. pass' = [at |-> "language", given |-> pass.given]
      BY <1>1, <1>6 DEF KeysEnd, HostType
    <2>2. At("idle") /\ UNCHANGED <<loader, lang, loaded, dirty, hostGame>>
      BY <1>6 DEF KeysEnd, contentVars
    <2> QED  BY <1>1, <2>1, <2>2 DEF HostType, Resting, At
  <1>7. CASE LanguageStep
    <2>1. UNCHANGED <<lang, loaded, hostGame>> /\ dirty' = FALSE
      BY <1>7 DEF LanguageStep
    <2>2. CASE dirty
      <3>1. pass' = [at |-> "reload", given |-> pass.given] /\ Calls("language", hostGame, lang)
        BY <1>1, <1>7, <2>2 DEF LanguageStep, HostType
      <3> QED  BY <1>1, <2>1, <3>1, CallsLoader DEF HostType, Resting
    <2>3. CASE ~dirty
      <3>1. pass' = [at |-> "keys", given |-> {}] /\ loader' = loader
        BY <1>7, <2>3 DEF LanguageStep
      <3> QED  BY <1>1, <2>1, <3>1, FS_EmptySet DEF HostType, Resting, At
    <2> QED  BY <2>2, <2>3
  <1>8. CASE Plays \/ UNCHANGED vars
    BY <1>2, <1>8 DEF Plays, vars, contentVars, consoleVars
  <1> QED  BY <1>3, <1>4, <1>5, <1>6, <1>7, <1>8 DEF Next

LEMMA BaseInit == Init => BaseInv
  <1> SUFFICES ASSUME Init PROVE BaseInv
    OBVIOUS
  <1>1. pass = [at |-> "keys", given |-> {}] /\ loader = Idle
    BY DEF Init
  <1>2. HostType
    <2>1. lang \in Language /\ loaded \in Language /\ dirty \in BOOLEAN /\ hostGame \in Game
      BY DEF Init
    <2> QED  BY <1>1, <2>1, FS_EmptySet DEF HostType
  <1>3. Resting
    BY <1>1, IdleType DEF Resting, At
  <1> QED  BY <1>2, <1>3, ContentInit, ScreenInit DEF BaseInv

LEMMA BaseStep == BaseInv /\ [Next]_vars => BaseInv'
  <1>1. BaseInv => ScreenInv
    BY DEF BaseInv
  <1> QED  BY <1>1, ContentStep, ScreenStep, HostTypeStep DEF BaseInv

\* What a load has staged, where it has come to, and where the cursor may be.
THEOREM ConsoleInvariant == Spec => []BaseInv
  BY BaseInit, BaseStep, PTL DEF Spec

\* The phones' game, language and sheets are those of the bank that is live, which is
\* complete and of one source; nothing is left staged behind a load that has ended.
THEOREM BankIsWhole == Spec => []BankWhole
  <1>1. BaseInv => BankWhole
    BY DEF BaseInv, ContentInv
  <1> QED  BY <1>1, ConsoleInvariant, PTL

\* A load that failed, wherever in haContentLoadGame, has changed nothing the players see;
\* one that succeeded for the game that was on keeps its points.
THEOREM FailedLoadIsNone == Spec => []FailureChangesNothing
  <1>1. BaseInv => FailureChangesNothing
    BY DEF BaseInv, ContentInv, Staging, FailureChangesNothing
  <1> QED  BY <1>1, ConsoleInvariant, PTL

\* The cursor all views share stays inside the rows of the view that indexes with it.
THEOREM CursorStays == Spec => []CursorInRange
  <1>1. BaseInv => CursorInRange
    BY DEF BaseInv, ScreenInv
  <1> QED  BY <1>1, ConsoleInvariant, PTL

-----------------------------------------------------------------------------
(* The bank and the host's choices.                                        *)

\* The live bank is that of the host's game in the language last loaded.
Agrees == IF live # NoBank THEN live.game = hostGame /\ live.lang = loaded ELSE hostGame = Lobby

\* A language that was chosen and not loaded yet has been chosen by the last key that may come
\* in this pass, or the settings are still on show: no other load can come before its own.
Choosing ==
    /\ pass.at = "reload" <=> loader.caller = "language"
    /\ ~At("idle") => loader.lang = lang /\ loader.caller # "none" /\ ~dirty
    /\ ~At("idle") /\ pass.at = "keys" => pass.given # {}
    /\ ~dirty /\ pass.at # "reload" => lang = loaded
    /\ dirty /\ pass.at = "keys" => \/ pass.given # {} /\ View = "SETTINGS"
                                    \/ Cardinality(pass.given) >= 2

\* What is live while a load is under way, by whom it was asked for.
Calling ==
    /\ loader.caller \in {"none", "select", "language"} /\ ~At("done") => Agrees
    /\ loader.caller \in {"language", "restore", "lobby"} => loader.game = hostGame
    /\ loader.caller \in {"restore", "lobby"} /\ ~At("done") => live = NoBank
    /\ loader.caller = "lobby" => loader.game = Lobby

HostInv == BaseInv /\ Choosing /\ Calling

LEMMA WholeIsABank ==
  ASSUME NEW game, NEW tongue \in Language
  PROVE  Whole(game, tongue) # NoBank
  BY WholeFields, ContentAssumption DEF NoBank

\* A key that starts a load is pressed while the language last chosen is the one loaded.
LEMMA LoadKeySettled ==
  ASSUME HostInv, MaxChord <= 2, NEW k \in Key, Given(k), View # "SETTINGS"
  PROVE  ~dirty /\ lang = loaded /\ pass'.given # {} /\ pass'.at = "keys" /\ pass.at = "keys"
  <1>1. /\ pass.at = "keys" /\ pass'.at = "keys" /\ pass'.given = pass.given \cup {k}
        /\ Cardinality(pass.given) \in Nat /\ Cardinality(pass.given) < MaxChord
    BY GivenType DEF HostInv, BaseInv
  <1>2. ~(Cardinality(pass.given) >= 2)
    BY <1>1, ConsoleAssumption
  <1>3. ~dirty
    BY <1>1, <1>2 DEF HostInv, Choosing
  <1> QED  BY <1>1, <1>3 DEF HostInv, Choosing

LEMMA HostInit == Init => HostInv
  <1> SUFFICES ASSUME Init PROVE HostInv
    OBVIOUS
  <1>1. /\ pass = [at |-> "keys", given |-> {}] /\ loader = Idle /\ ~dirty /\ loaded = lang
        /\ live = Whole(hostGame, lang) /\ lang \in Language
    BY DEF Init
  <1>2. loader.at = "idle" /\ loader.caller = "none"
    BY <1>1 DEF Idle
  <1>3. Choosing
    BY <1>1, <1>2 DEF Choosing, At
  <1>4. Calling
    BY <1>1, <1>2, WholeIsABank, WholeFields DEF Calling, Agrees
  <1> QED  BY <1>3, <1>4, BaseInit DEF HostInv

LEMMA HostPress == HostInv /\ MaxChord <= 2 /\ Press => Choosing' /\ Calling'
  <1> SUFFICES ASSUME HostInv, MaxChord <= 2, Press PROVE Choosing' /\ Calling'
    OBVIOUS
  <1> USE DEF HostInv
  <1>1. PICK k \in Key : Given(k)
    BY PressKinds
  <1>2. /\ pass.at = "keys" /\ pass'.at = "keys" /\ pass'.given = pass.given \cup {k}
        /\ Cardinality(pass.given) \in Nat
        /\ Cardinality(pass'.given) = Cardinality(pass.given) + 1 /\ pass'.given # {}
    BY <1>1, GivenType DEF BaseInv
  <1>3. At("idle") /\ loader.at = "idle" /\ loader.caller = "none"
    BY PressKinds, IdleType DEF At, BaseInv, ContentInv, ContentType, Idle
  <1>4. dirty => Cardinality(pass'.given) >= 2
    <2>1. ASSUME pass.given # {} PROVE Cardinality(pass.given) >= 1
      BY <1>2, <2>1, FS_EmptySet DEF BaseInv, HostType
    <2> QED  BY <1>2, <2>1 DEF Choosing
  <1>5. CASE UNCHANGED <<loader, live, lang, loaded, dirty, hostGame>>
    <2>1. Choosing'
      BY <1>2, <1>3, <1>4, <1>5 DEF Choosing, At
    <2>2. Calling'
      BY <1>5 DEF Calling, Agrees, At
    <2> QED  BY <2>1, <2>2
  <1>6. CASE PressLanguage
    <2>1. /\ View = "SETTINGS" /\ ui' = ui /\ UNCHANGED <<loader, live, loaded, hostGame>>
          /\ (dirty' \/ UNCHANGED <<lang, dirty>>)
      BY <1>6 DEF PressLanguage, NoLoad, contentVars, Stays
    <2>2. View' = "SETTINGS"
      BY <2>1 DEF View
    <2>3. Choosing'
      BY <1>2, <1>3, <2>1, <2>2 DEF Choosing, At
    <2>4. Calling'
      BY <2>1 DEF Calling, Agrees, At
    <2> QED  BY <2>3, <2>4
  <1>7. CASE PressSelect
    <2>1. View # "SETTINGS" /\ UNCHANGED <<live, lang, loaded, dirty, hostGame>>
      BY <1>7 DEF PressSelect, SameTongue
    <2>2. PICK game \in Game : Calls("select", game, lang)
      BY <1>7 DEF PressSelect
    <2>3. /\ loader'.at = "begin" /\ loader'.caller = "select" /\ loader'.game = game
          /\ loader'.lang = lang
      BY <2>2, CallsLoader
    <2>4. ~dirty /\ lang = loaded
      BY <1>1, <2>1, LoadKeySettled
    <2>5. Choosing'
      BY <1>2, <2>1, <2>3, <2>4 DEF Choosing, At
    <2>6. Calling'
      BY <1>3, <2>1, <2>3 DEF Calling, Agrees, At
    <2> QED  BY <2>5, <2>6
  <1>8. CASE Restores
    <2>1. View # "SETTINGS" /\ UNCHANGED <<lang, loaded, dirty>> /\ live' = NoBank
          /\ Calls("restore", hostGame', lang)
      BY <1>8 DEF Restores, SameTongue, EngineReset
    <2>2. /\ loader'.at = "begin" /\ loader'.caller = "restore" /\ loader'.game = hostGame'
          /\ loader'.lang = lang
      BY <2>1, CallsLoader
    <2>3. ~dirty /\ lang = loaded
      BY <1>1, <2>1, LoadKeySettled
    <2>4. Choosing'
      BY <1>2, <2>1, <2>2, <2>3 DEF Choosing, At
    <2>5. Calling'
      BY <2>1, <2>2 DEF Calling, At
    <2> QED  BY <2>4, <2>5
  <1> QED  BY <1>5, <1>6, <1>7, <1>8, PressKinds

\* A load that is done has put its own bank on play.
LEMMA DoneIsLive ==
  ASSUME BaseInv, At("done")
  PROVE  live # NoBank /\ live.game = loader.game /\ live.lang = loader.lang
  <1>1. live = Whole(loader.game, loader.lang)
    BY DEF BaseInv, ContentInv, Staging
  <1>2. loader.lang \in Language
    BY DEF BaseInv, Resting, At
  <1> QED  BY <1>1, <1>2, WholeFields, WholeIsABank

LEMMA HostReturns == HostInv /\ Returns => Choosing' /\ Calling'
  <1> SUFFICES ASSUME HostInv, Returns PROVE Choosing' /\ Calling'
    OBVIOUS
  <1> USE DEF HostInv
  <1>1. ToIdle => /\ loader'.at = "idle" /\ loader'.caller = "none" /\ live' = live
    BY DEF ToIdle, Idle
  <1>2. (At("done") \/ At("failed")) /\ ~At("idle") /\ ~dirty /\ loader.lang = lang
    BY DEF Returns, SelectReturns, RestoreReturns, LobbyReturns, LanguageReturns, At, Choosing
  <1>3. At("failed") => ~At("done")
    BY DEF At
  <1>4. loader.caller # "language" => lang = loaded /\ pass.at # "reload"
    BY <1>2 DEF Choosing
  <1>5. CASE SelectReturns
    <2>1. /\ loader.caller = "select" /\ ToIdle /\ UNCHANGED <<lang, loaded, dirty, pass>>
          /\ hostGame' = IF At("done") THEN loader.game ELSE hostGame
      BY <1>5 DEF SelectReturns, SameTongue
    <2>2. Choosing'
      BY <1>1, <1>2, <1>4, <2>1 DEF Choosing, At
    <2>3. Agrees'
      <3>1. CASE At("done")
        BY <1>1, <1>2, <1>4, <2>1, <3>1, DoneIsLive DEF Agrees
      <3>2. CASE ~At("done")
        BY <1>1, <2>1, <3>2 DEF Calling, Agrees
      <3> QED  BY <3>1, <3>2
    <2> QED  BY <1>1, <2>1, <2>2, <2>3 DEF Calling
  <1>6. CASE RestoreReturns
    <2>1. loader.caller = "restore" /\ UNCHANGED <<lang, loaded, dirty, pass>>
      BY <1>6 DEF RestoreReturns, SameTongue
    <2>2. CASE At("done") /\ ToIdle /\ UNCHANGED hostGame
      <3>1. Choosing'
        BY <1>1, <1>2, <1>4, <2>1, <2>2 DEF Choosing, At
      <3>2. Agrees'
        BY <1>1, <1>2, <1>4, <2>1, <2>2, DoneIsLive DEF Calling, Agrees
      <3> QED  BY <1>1, <2>2, <3>1, <3>2 DEF Calling
    <2>3. CASE At("failed") /\ hostGame' = Lobby /\ Calls("lobby", Lobby, lang) /\ UNCHANGED live
      <3>1. /\ loader'.at = "begin" /\ loader'.caller = "lobby" /\ loader'.game = Lobby
            /\ loader'.lang = lang
        BY <2>3, CallsLoader
      <3>2. Choosing'
        BY <1>2, <1>4, <2>1, <3>1 DEF Choosing, At
      <3>3. Calling'
        BY <1>3, <2>1, <2>3, <3>1 DEF Calling, At
      <3> QED  BY <3>2, <3>3
    <2> QED  BY <1>6, <2>2, <2>3 DEF RestoreReturns
  <1>7. CASE LobbyReturns
    <2>1. /\ loader.caller = "lobby" /\ ToIdle
          /\ UNCHANGED <<hostGame, lang, loaded, dirty, pass>>
      BY <1>7 DEF LobbyReturns, SameTongue
    <2>2. Choosing'
      BY <1>1, <1>2, <1>4, <2>1 DEF Choosing, At
    <2>3. Agrees'
      <3>1. CASE At("done")
        BY <1>1, <1>2, <1>4, <2>1, <3>1, DoneIsLive DEF Agrees, Calling
      <3>2. CASE ~At("done")
        BY <1>1, <2>1, <3>2 DEF Calling, Agrees
      <3> QED  BY <3>1, <3>2
    <2> QED  BY <1>1, <2>1, <2>2, <2>3 DEF Calling
  <1>8. CASE LanguageReturns
    <2>1. /\ loader.caller = "language" /\ ToIdle /\ UNCHANGED <<hostGame, dirty>>
          /\ loaded' = IF At("done") THEN loader.lang ELSE loaded
          /\ lang' = IF At("done") THEN lang ELSE loaded
          /\ pass' = [at |-> "keys", given |-> {}]
      BY <1>8 DEF LanguageReturns
    <2>2. lang' = loaded' /\ pass'.at = "keys" /\ ~dirty'
      BY <1>2, <2>1
    <2>3. Choosing'
      BY <1>1, <2>1, <2>2 DEF Choosing, At
    <2>4. Agrees'
      <3>1. CASE At("done")
        BY <1>1, <2>1, <3>1, DoneIsLive DEF Agrees, Calling
      <3>2. CASE ~At("done")
        BY <1>1, <2>1, <3>2 DEF Calling, Agrees
      <3> QED  BY <3>1, <3>2
    <2> QED  BY <1>1, <2>1, <2>3, <2>4 DEF Calling
  <1> QED  BY <1>5, <1>6, <1>7, <1>8 DEF Returns

LEMMA HostRest == HostInv /\ (\/ Loads /\ UNCHANGED consoleVars
                              \/ KeysEnd \/ LanguageStep \/ Plays \/ UNCHANGED vars)
                  => Choosing' /\ Calling'
  <1> SUFFICES ASSUME HostInv, \/ Loads /\ UNCHANGED consoleVars
                               \/ KeysEnd \/ LanguageStep \/ Plays \/ UNCHANGED vars
               PROVE  Choosing' /\ Calling'
    OBVIOUS
  <1> USE DEF HostInv
  <1>1. CASE Plays \/ UNCHANGED vars
    <2>1. UNCHANGED <<loader, live, ui, lang, loaded, dirty, hostGame, pass>>
      BY <1>1 DEF Plays, vars, contentVars, consoleVars
    <2>2. Choosing'
      BY <2>1 DEF Choosing, At, View
    <2>3. Calling'
      BY <2>1 DEF Calling, Agrees, At
    <2> QED  BY <2>2, <2>3
  <1>2. CASE Loads /\ UNCHANGED consoleVars
    <2>1. UNCHANGED <<ui, lang, loaded, dirty, hostGame, pass>>
      BY <1>2 DEF consoleVars
    <2>2. /\ loader'.caller = loader.caller /\ loader'.game = loader.game
          /\ loader'.lang = loader.lang /\ ~At("idle") /\ loader'.at # "idle"
          /\ (Commits \/ (live' = live /\ loader'.at # "done"))
      BY <1>2, LoadsLoader DEF BaseInv, ContentInv
    <2>3. Commits => loader'.at = "done" /\ ~At("done")
      BY DEF Commits, Goes, At, BaseInv, ContentInv, ContentType
    <2>4. ~At("done")
      BY <1>2 DEF Loads, Begins, Unsupplied, LoadsPack, PacksLoaded, CommitFails, Commits, At
    <2>5. Choosing'
      BY <2>1, <2>2 DEF Choosing, At, View
    <2>6. Calling'
      BY <2>1, <2>2, <2>3, <2>4 DEF Calling, Agrees, At
    <2> QED  BY <2>5, <2>6
  <1>3. CASE KeysEnd
    <2>1. pass'.at = "language" /\ UNCHANGED <<loader, live, lang, loaded, dirty, hostGame>>
          /\ pass.at = "keys" /\ At("idle")
      BY <1>3 DEF KeysEnd, contentVars, BaseInv, HostType
    <2> QED  BY <2>1 DEF Choosing, Calling, Agrees, At
  <1>4. CASE LanguageStep
    <2>1. /\ pass.at = "language" /\ loader.at = "idle" /\ loader.caller = "none" /\ ~dirty'
          /\ UNCHANGED <<live, lang, loaded, hostGame>>
      BY <1>4, IdleType DEF LanguageStep, BaseInv, Resting, ContentInv, ContentType, At, Idle
    <2>2. CASE dirty
      <3>1. pass'.at = "reload" /\ Calls("language", hostGame, lang)
        BY <1>4, <2>2 DEF LanguageStep, BaseInv, HostType
      <3>2. /\ loader'.at = "begin" /\ loader'.caller = "language" /\ loader'.game = hostGame
            /\ loader'.lang = lang
        BY <3>1, CallsLoader
      <3> QED  BY <2>1, <3>1, <3>2 DEF Choosing, Calling, Agrees, At
    <2>3. CASE ~dirty
      <3>1. pass'.at = "keys" /\ loader' = loader
        BY <1>4, <2>3 DEF LanguageStep
      <3> QED  BY <2>1, <2>3, <3>1 DEF Choosing, Calling, Agrees, At
    <2> QED  BY <2>2, <2>3
  <1> QED  BY <1>1, <1>2, <1>3, <1>4

LEMMA HostStep == MaxChord <= 2 /\ HostInv /\ [Next]_vars => HostInv'
  BY BaseStep, HostPress, HostReturns, HostRest DEF HostInv, Next

\* Between two passes of the loop the questions on play are those of the host's game in the
\* host's language, whatever loads failed. With three keys in a pass it is not so.
THEOREM QuestionsFollowTheHost ==
  ASSUME MaxChord <= 2
  PROVE  Spec => []ContentAgrees
  <1>1. HostInv => ContentAgrees
    <2> SUFFICES ASSUME HostInv, pass = [at |-> "keys", given |-> {}] PROVE ContentAgrees
      BY DEF ContentAgrees
    <2>1. pass.at = "keys" /\ pass.given = {}
      OBVIOUS
    <2>2. ~dirty
      BY <2>1, FS_EmptySet DEF HostInv, Choosing
    <2>3. At("idle") /\ lang = loaded
      BY <2>1, <2>2 DEF HostInv, Choosing
    <2>4. loader.caller = "none"
      BY <2>3, IdleType DEF HostInv, BaseInv, ContentInv, ContentType, Idle
    <2>5. Agrees
      BY <2>3, <2>4 DEF HostInv, Calling, At
    <2> QED  BY <2>3, <2>5 DEF ContentAgrees, Agrees
  <1>2. HostInv /\ [Next]_vars => HostInv'
    BY HostStep
  <1> QED  BY <1>1, <1>2, HostInit, PTL DEF Spec
=============================================================================
