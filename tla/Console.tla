------------------------------ MODULE Console -------------------------------
(***************************************************************************)
(* The screens and keys of the host (hotspot-arcade-cardputer/ha_ui.h,     *)
(* haUiOpen .. haUiPumpKeys) and what they set in motion in the loop task  *)
(* (hotspot-arcade-cardputer.ino): another game or language and with it a  *)
(* load of its questions, the archive of a session, its restoration.       *)
(* The keys that only write, scroll or switch a peripheral are Other.      *)
(***************************************************************************)
EXTENDS Content

CONSTANTS PageJump,     \* 6, the rows a page key moves in the picker
          PageRows,     \* HA_HIST_PAGE_MAX
          MaxArchived,  \* bound: archived sessions
          MaxChord      \* bound: keys that reach a pass together

ASSUME ConsoleAssumption ==
    PageJump \in Nat \ {0} /\ PageRows \in Nat \ {0} /\ MaxArchived \in Nat /\ MaxChord \in Nat

VARIABLES
    ui,         \* haUiView, haUiCursor, haUiSettingsReturn, haUiResetReturn
    hist,       \* haHist: indexStart, count, and the total the page was read under
    total,      \* haHist.total
    lang, loaded, dirty,    \* haLang, haLoadedLang, haLangDirty
    hostGame,   \* haHost.activeGame
    pass,       \* the loop: where it is, and the keys it has delivered
    yHeld,      \* history: a Y that was delivered is still held down
    fate        \* history: what became of the session that was to end

consoleVars == <<ui, hist, total, lang, loaded, dirty, hostGame, pass, yHeld, fate>>
vars        == <<contentVars, consoleVars>>

SettingsRows == 6       \* HA_SET_COUNT: SSID, Audio, Language, AP, Event log, Diagnostics
LanguageRow  == 2
GameRows     == Cardinality(Game)

Chars == {"esc", "up", "down", "left", "right", "g", "l", "h", "c", "d", "n", "s", "r", "y", "e",
          "other"}
Key   == Chars \cup {"del", "enter"}

Page(start, count, of) == [start |-> start, count |-> count, of |-> of]
HasNewer == hist.start > 0
HasOlder == hist.start + hist.count < hist.of

\* setup: a boot whose questions do not load is not a boot.
Init ==
    /\ hostGame \in Game /\ lang \in Language /\ loaded = lang /\ dirty = FALSE
    /\ Supplied(hostGame, lang)
    /\ live = Whole(hostGame, lang) /\ stage = NoBank
    /\ play = [game |-> hostGame, lang |-> lang, round |-> FALSE, points |-> FALSE]
    /\ sheets = (hostGame = SheetGame)
    /\ loader = Idle /\ before = <<>>
    /\ ui = [view |-> "DASH", cursor |-> 0, settingsReturn |-> "SETTINGS", resetReturn |-> "DASH"]
    /\ total \in {0, MaxArchived} /\ hist = Page(0, 0, 0)
    /\ pass = [at |-> "keys", given |-> {}] /\ yHeld = FALSE /\ fate = "none"

-----------------------------------------------------------------------------
(* Views. *)

View == ui.view
Shows(view) == ui' = [ui EXCEPT !.view = view]

Fewer(a, b) == IF a < b THEN a ELSE b

\* haHistCatalogLoadPage: a record that cannot be read has the index rebuilt, which may
\* drop it, and the page read once more.
PageOutcomes(start) ==
    {[page |-> hist, total |-> total],
     [page |-> Page(start, 0, 0), total |-> total],
     [page |-> Page(start, 0, 0), total |-> 0]}
    \cup {LET from == IF start < n THEN start ELSE 0
          IN [page |-> Page(from, Fewer(PageRows, n - from), n), total |-> n] : n \in 0 .. total}

Reads(outcome) == hist' = outcome.page /\ total' = outcome.total

\* Fault: the cursor stays where the last view left it.
Opens_CursorKept(view) ==
    /\ ui' = [ui EXCEPT !.view = view]
    /\ IF view = "HISTORY" THEN \E o \in PageOutcomes(0) : Reads(o) ELSE UNCHANGED <<hist, total>>

\* haUiOpen: the picker starts at the game of the last snapshot, which may be an old one.
Opens(view) ==
    /\ \E row \in IF view = "GAMES" THEN 0 .. GameRows - 1 ELSE {0} :
           ui' = [ui EXCEPT !.view = view, !.cursor = row]
    /\ IF view = "HISTORY" THEN \E o \in PageOutcomes(0) : Reads(o) ELSE UNCHANGED <<hist, total>>

\* haUiBack
Back ==
    CASE View \in {"SSID", "CONSOLE", "DIAGNOSTICS"} -> Opens(ui.settingsReturn)
      [] View = "HISTORY_DETAIL" -> Shows("HISTORY") /\ UNCHANGED <<hist, total>>
      [] View = "HISTORY_RESTORE" -> Shows("HISTORY_DETAIL") /\ UNCHANGED <<hist, total>>
      [] View \in {"RESET_CONFIRM", "RESET_DISCARD_CONFIRM"} -> Opens(ui.resetReturn)
      [] OTHER -> Opens("DASH")

\* The views that take characters for themselves.
ResetViews   == {"RESET_CONFIRM", "RESET_DISCARD_CONFIRM"}
Modal        == {"SSID", "HISTORY_RESTORE"} \cup ResetViews
HistoryViews == {"HISTORY", "HISTORY_DETAIL", "HISTORY_RESTORE"}

-----------------------------------------------------------------------------
(* One key; each is the whole of haUiChar, haUiDel or haUiEnter for it. *)

\* haUiPumpKeys: the characters in the order the library has them, then del, then enter.
Given(k) ==
    /\ pass.at = "keys" /\ At("idle")
    /\ k \notin pass.given /\ "enter" \notin pass.given
    /\ Cardinality(pass.given) < MaxChord
    /\ k # "enter" => "del" \notin pass.given
    /\ pass' = [pass EXCEPT !.given = @ \cup {k}]
    /\ UNCHANGED yHeld

NoLoad    == UNCHANGED contentVars
Stays     == UNCHANGED <<ui, hist, total>>
SameTongue == UNCHANGED <<lang, loaded, dirty>>
OnlyViews == NoLoad /\ SameTongue /\ UNCHANGED <<hostGame, fate>>

\* haUiBack by escape or delete; delete is a text key in the editor.
PressBack ==
    /\ \/ Given("esc") /\ Back
       \/ Given("del") /\ (IF View = "SSID" THEN Stays ELSE Back)
    /\ OnlyViews

Letters == [g |-> "GAMES", l |-> "BOARD", h |-> "HISTORY"]

\* G, L, H, S: a view from its start; S is the sort order in the picker.
PressView ==
    /\ View \notin Modal
    /\ \/ \E k \in DOMAIN Letters : Given(k) /\ Opens(Letters[k])
       \/ Given("s") /\ IF View = "GAMES"
                        THEN ui' = [ui EXCEPT !.cursor = 0] /\ UNCHANGED <<hist, total>>
                        ELSE Opens("SETTINGS")
    /\ OnlyViews

Sides == [c |-> "CONSOLE", d |-> "DIAGNOSTICS", n |-> "SSID"]

\* C, D, N: a view that goes back to the settings or the dashboard.
PressSide ==
    /\ View \notin Modal
    /\ \E k \in DOMAIN Sides :
           /\ Given(k)
           /\ ui' = [ui EXCEPT !.view = Sides[k],
                               !.settingsReturn = IF View = "SETTINGS" THEN "SETTINGS" ELSE "DASH"]
    /\ UNCHANGED <<hist, total>> /\ OnlyViews

\* R
PressReset ==
    /\ View \notin Modal /\ Given("r")
    /\ ui' = [ui EXCEPT !.view = "RESET_CONFIRM",
                        !.resetReturn = IF View = "BOARD" THEN "BOARD" ELSE "DASH"]
    /\ fate' = "none"
    /\ UNCHANGED <<hist, total, hostGame>> /\ NoLoad /\ SameTongue

Moves(row) == ui' = [ui EXCEPT !.cursor = row] /\ UNCHANGED <<hist, total>>

\* A page of the history, and the cursor when there is one.
Turns(start, toLast) ==
    \E o \in PageOutcomes(start) :
        /\ Reads(o)
        /\ ui' = [ui EXCEPT !.cursor =
                     IF o.page = hist \/ o.page.count = 0 THEN @
                     ELSE IF toLast THEN o.page.count - 1 ELSE 0]

NewerStart == IF hist.start > PageRows THEN hist.start - PageRows ELSE 0
OlderStart == hist.start + hist.count

PressUp ==
    /\ Given("up") /\ View \in {"GAMES", "SETTINGS", "HISTORY"}
    /\ IF ui.cursor > 0 THEN Moves(ui.cursor - 1)
       ELSE IF View = "HISTORY" /\ hist.count > 0 /\ HasNewer THEN Turns(NewerStart, TRUE) ELSE Stays
    /\ OnlyViews

PressDown ==
    /\ Given("down")
    /\ \/ View = "GAMES" /\ Moves(Fewer(ui.cursor + 1, GameRows - 1))
       \/ View = "SETTINGS" /\ Moves(Fewer(ui.cursor + 1, SettingsRows - 1))
       \/ /\ View = "HISTORY"
          /\ IF ui.cursor + 1 < hist.count THEN Moves(ui.cursor + 1)
             ELSE IF hist.count > 0 /\ HasOlder THEN Turns(OlderStart, FALSE) ELSE Stays
    /\ OnlyViews

\* Left and right, where they move.
PressPage ==
    /\ \/ Given("left") /\ \/ View = "GAMES" /\ Moves(IF ui.cursor > PageJump THEN ui.cursor - PageJump ELSE 0)
                           \/ View = "HISTORY" /\ hist.count > 0 /\ HasNewer /\ Turns(NewerStart, FALSE)
       \/ Given("right") /\ \/ View = "GAMES" /\ Moves(Fewer(ui.cursor + PageJump, GameRows - 1))
                            \/ View = "HISTORY" /\ hist.count > 0 /\ HasOlder /\ Turns(OlderStart, FALSE)
    /\ OnlyViews

\* haUiSettingAdjust, and Enter, on the language: kept when the settings could be saved.
PressLanguage ==
    /\ \E k \in {"left", "right", "enter"} : Given(k)
    /\ View = "SETTINGS" /\ ui.cursor = LanguageRow
    /\ \/ lang' \in Language \ {lang} /\ dirty' = TRUE
       \/ UNCHANGED <<lang, dirty>>
    /\ NoLoad /\ Stays /\ UNCHANGED <<loaded, hostGame, fate>>

\* Enter on the other rows: the SSID, the log and the diagnostics are views.
PressRow ==
    /\ Given("enter") /\ View = "SETTINGS" /\ ui.cursor # LanguageRow
    /\ LET target == CASE ui.cursor = 0 -> "SSID" [] ui.cursor = 4 -> "CONSOLE"
                       [] ui.cursor = 5 -> "DIAGNOSTICS" [] OTHER -> "SETTINGS"
       IN ui' = IF target = "SETTINGS" THEN ui
                ELSE [ui EXCEPT !.view = target, !.settingsReturn = "SETTINGS"]
    /\ UNCHANGED <<hist, total>> /\ OnlyViews

\* haHostApplySsid is SsidChange; it is here for its view.
PressApply ==
    /\ Given("enter") /\ View = "SSID" /\ Opens(ui.settingsReturn)
    /\ OnlyViews

\* haHostSelectGame: the row is a game in one order or the other.
PressSelect ==
    /\ Given("enter") /\ View = "GAMES"
    /\ \E game \in Game : Calls("select", game, lang)
    /\ UNCHANGED <<live, stage, play, sheets, before>>
    /\ Stays /\ SameTongue /\ UNCHANGED <<hostGame, fate>>

\* haHistLoadSession may fail.
PressDetail ==
    /\ Given("enter") /\ View = "HISTORY" /\ ui.cursor < hist.count
    /\ (Shows("HISTORY_DETAIL") \/ UNCHANGED ui)
    /\ UNCHANGED <<hist, total>> /\ OnlyViews

PressRestore ==
    /\ Given("y") /\ View = "HISTORY_DETAIL"
    /\ (Shows("HISTORY_RESTORE") \/ UNCHANGED ui)
    /\ UNCHANGED <<hist, total>> /\ OnlyViews

Archives == total' = IF total < MaxArchived THEN total + 1 ELSE total

\* haHistRequestRestore fails, before or after it archived the session that is played ...
RestoreFails ==
    /\ Given("y") /\ View = "HISTORY_RESTORE"
    /\ (Archives \/ UNCHANGED total)
    /\ UNCHANGED <<ui, hist>> /\ OnlyViews

\* ... or it succeeds: haPersistenceRestoreHistory, up to the load of the restored game.
Restores ==
    /\ Given("y") /\ View = "HISTORY_RESTORE"
    /\ (Archives \/ UNCHANGED total)
    /\ EngineReset
    /\ hostGame' \in Game
    /\ Calls("restore", hostGame', lang)
    /\ UNCHANGED <<before, ui, hist, fate>> /\ SameTongue

\* haHostResetScores(FALSE): the session is archived, or the host is asked again.
NewSession ==
    /\ Given("y") /\ View = "RESET_CONFIRM"
    /\ \/ /\ fate' = "archived" /\ (Archives \/ UNCHANGED total)
          /\ ui' = [ui EXCEPT !.view = "BOARD", !.cursor = 0]
          /\ play' = [play EXCEPT !.points = FALSE]
       \/ /\ fate' = "refused" /\ (Archives \/ UNCHANGED total)
          /\ Shows("RESET_DISCARD_CONFIRM")
          /\ UNCHANGED play
    /\ UNCHANGED <<live, stage, sheets, loader, before, hist, hostGame>> /\ SameTongue

\* haHostResetScores(TRUE): what cannot be archived is discarded, or the new record cannot
\* be written, after the archive or without one.
DiscardSession ==
    /\ Given("y") /\ View = "RESET_DISCARD_CONFIRM"
    /\ \/ /\ \/ fate' = "archived" /\ (Archives \/ UNCHANGED total)
             \/ fate' = "discarded" /\ UNCHANGED total
          /\ ui' = [ui EXCEPT !.view = "BOARD", !.cursor = 0]
          /\ play' = [play EXCEPT !.points = FALSE]
       \/ (Archives \/ UNCHANGED total) /\ UNCHANGED <<ui, play, fate>>
    /\ UNCHANGED <<live, stage, sheets, loader, before, hist, hostGame>> /\ SameTongue

\* E: engine.roundEnd, which in some games clears the points.
PressEnd ==
    /\ Given("e") /\ View \notin Modal
    /\ \E points \in {FALSE, play.points} :
           play' = [play EXCEPT !.round = FALSE, !.points = points]
    /\ Stays /\ SameTongue
    /\ UNCHANGED <<live, stage, sheets, loader, before, hostGame, fate>>

\* Whether the key means nothing here.
Ignored(k) ==
    \/ View = "SSID" /\ k \in Chars \ {"esc"}
    \/ View \in Modal \ {"SSID"} /\ k \notin {"esc", "y", "del"}
    \/ View \notin Modal /\
       \/ k = "other"
       \/ k = "y" /\ View # "HISTORY_DETAIL"
       \/ k \in {"up", "down", "left", "right"} /\ View \notin {"GAMES", "SETTINGS", "HISTORY"}
       \/ k \in {"left", "right"} /\ View = "SETTINGS" /\ ui.cursor # LanguageRow
       \/ k \in {"left", "right"} /\ View = "HISTORY"
          /\ (hist.count = 0 \/ ~(IF k = "left" THEN HasNewer ELSE HasOlder))
       \/ k = "enter" /\ View \notin {"GAMES", "SETTINGS", "HISTORY"}
       \/ k = "enter" /\ View = "HISTORY" /\ ui.cursor >= hist.count

PressNothing == \E k \in Key : Given(k) /\ Ignored(k) /\ Stays /\ OnlyViews

Press ==
    \/ PressBack \/ PressView \/ PressSide \/ PressReset
    \/ PressUp \/ PressDown \/ PressPage
    \/ PressLanguage \/ PressRow \/ PressApply \/ PressSelect
    \/ PressDetail \/ PressRestore \/ RestoreFails \/ Restores
    \/ NewSession \/ DiscardSession \/ PressEnd \/ PressNothing

-----------------------------------------------------------------------------
(* The loop goes on when haContentLoadGame returns. *)

ToIdle == loader' = Idle /\ before' = <<>> /\ UNCHANGED <<live, stage, play, sheets>>

\* haHostSelectGame; Enter leaves the picker either way.
SelectReturns ==
    /\ loader.caller = "select" /\ (At("done") \/ At("failed"))
    /\ hostGame' = IF At("done") THEN loader.game ELSE hostGame
    /\ ToIdle /\ Opens("DASH")
    /\ SameTongue /\ UNCHANGED <<pass, yHeld, fate>>

\* A restored game that does not load becomes the lobby.
RestoreReturns ==
    /\ loader.caller = "restore"
    /\ \/ At("done") /\ ToIdle /\ Opens("BOARD") /\ UNCHANGED hostGame
       \/ /\ At("failed") /\ hostGame' = Lobby /\ Calls("lobby", Lobby, lang)
          /\ UNCHANGED <<live, stage, play, sheets, before, ui, hist, total>>
    /\ SameTongue /\ UNCHANGED <<pass, yHeld, fate>>

\* ... whatever becomes of the lobby.
LobbyReturns ==
    /\ loader.caller = "lobby" /\ (At("done") \/ At("failed"))
    /\ ToIdle /\ Opens("BOARD")
    /\ SameTongue /\ UNCHANGED <<hostGame, pass, yHeld, fate>>

\* Fault: the settings keep the language that could not be loaded.
LanguageReturns_Kept ==
    /\ loader.caller = "language" /\ (At("done") \/ At("failed"))
    /\ loaded' = IF At("done") THEN loader.lang ELSE loaded
    /\ pass' = [at |-> "keys", given |-> {}]
    /\ ToIdle /\ UNCHANGED <<lang, ui, hist, total, dirty, hostGame, yHeld, fate>>

LanguageReturns ==
    /\ loader.caller = "language" /\ (At("done") \/ At("failed"))
    /\ loaded' = IF At("done") THEN loader.lang ELSE loaded
    /\ lang' = IF At("done") THEN lang ELSE loaded
    /\ pass' = [at |-> "keys", given |-> {}]
    /\ ToIdle /\ UNCHANGED <<ui, hist, total, dirty, hostGame, yHeld, fate>>

Returns == SelectReturns \/ RestoreReturns \/ LobbyReturns \/ LanguageReturns

-----------------------------------------------------------------------------
(* The rest of a pass. *)

\* What was held is released, or not; a Y that was given is not given anew until it was.
KeysEnd ==
    /\ pass.at = "keys" /\ At("idle")
    /\ pass' = [pass EXCEPT !.at = "language"]
    /\ yHeld' \in IF pass.given = {} THEN {yHeld, FALSE} ELSE {"y" \in pass.given}
    /\ UNCHANGED <<contentVars, ui, hist, total, lang, loaded, dirty, hostGame, fate>>

\* A language was chosen: the questions of the game that is played are loaded in it.
LanguageStep ==
    /\ pass.at = "language"
    /\ IF dirty
       THEN /\ Calls("language", hostGame, lang)
            /\ pass' = [pass EXCEPT !.at = "reload"]
       ELSE pass' = [at |-> "keys", given |-> {}] /\ UNCHANGED loader
    /\ dirty' = FALSE
    /\ UNCHANGED <<live, stage, play, sheets, before, ui, hist, total, lang, loaded, hostGame,
                   yHeld, fate>>

\* The phones play; like a load, under the mutex.
Plays ==
    /\ At("idle") /\ play.game # Lobby
    /\ \E round, points \in BOOLEAN : play' = [play EXCEPT !.round = round, !.points = points]
    /\ UNCHANGED <<live, stage, sheets, loader, before, consoleVars>>

Next ==
    \/ Press \/ Returns
    \/ Loads /\ UNCHANGED consoleVars
    \/ KeysEnd \/ LanguageStep \/ Plays

Spec == Init /\ [][Next]_vars

-----------------------------------------------------------------------------
(* Properties. *)

\* loop: "keep persisted settings aligned with the content still live": between two passes
\* the bank that is played is the host's game in the host's language; only a restored
\* session whose game and whose lobby both failed to load has none, and is in the lobby.
ContentAgrees ==
    pass = [at |-> "keys", given |-> {}] =>
        IF At("idle") /\ live # NoBank THEN live.game = hostGame /\ live.lang = lang
        ELSE hostGame = Lobby

\* haUiEnter: haGamesOrder is indexed with the cursor all views share, without a look at
\* its range; so is the page of the history, when it has rows.
CursorInRange ==
    /\ View = "GAMES" => ui.cursor < GameRows
    /\ View = "SETTINGS" => ui.cursor < SettingsRows
    /\ View \in HistoryViews /\ hist.count > 0
          => ui.cursor < hist.count

\* README.md, "a second explicit discard confirmation is required": the Y that discards is
\* pressed for it.
DiscardPressedAgain ==
    [][ fate' = "discarded" /\ fate # "discarded" => ~yHeld ]_vars
=============================================================================
