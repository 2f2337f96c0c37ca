------------------------------ MODULE MCConsole -----------------------------
(* The host's screens and question banks: three games, two languages, one with a *)
(* fallback; a game that is supplied by it and one that is not to be had in the other. *)
EXTENDS Console, TLC

CONSTANTS none, quiz, sketch, en, pt, noLanguage

MCGame     == {none, quiz, sketch}
MCLanguage == {en, pt}
MCFallback == (en :> noLanguage) @@ (pt :> en)
MCBaked    == (none :> (en :> 0 @@ pt :> 0)) @@ (quiz :> (en :> 2 @@ pt :> 0))
              @@ (sketch :> (en :> 0 @@ pt :> 1))

\* What the views on show look at: a cursor, the views to go back to and the fate of the
\* session are all set again before a view that does reads them.
OnShow ==
    <<contentVars, hist, total, lang, loaded, dirty, hostGame, pass,
      [view |-> View,
       cursor |-> IF View \in {"GAMES", "SETTINGS"} \/ View \in HistoryViews THEN ui.cursor ELSE 0,
       return |-> IF View \in {"SSID", "CONSOLE", "DIAGNOSTICS"} THEN ui.settingsReturn
                  ELSE IF View \in ResetViews THEN ui.resetReturn ELSE "DASH",
       fate |-> IF View \in ResetViews THEN fate ELSE "none"]>>
=============================================================================
