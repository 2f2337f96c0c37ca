--------------------------- MODULE MCApLifecycle ---------------------------
(* Two phones with two sockets between them; the access point is stopped and *)
(* started again and again.                                                  *)
EXTENDS ApLifecycle, TLC

CONSTANTS ann, bob

MCSocket == {1, 2}
Phones   == Permutations({ann, bob})

\* The view: clock readings are used for nothing but their differences, the engine's own
\* only while it runs, and the start of a wait and its length only in one, so two states in
\* which everything that counts is equally long ago behave alike.
Ages ==
    [raw  |-> IF engine.paused THEN 0 ELSE Since(clock, engine.src),
     loop |-> Since(clock, loop.now),
     call |-> IF callback = Idle THEN 0 ELSE Since(clock, callback.raw),
     wait |-> IF state = "ReconnectWait" THEN <<Since(clock, started), waited>> ELSE <<0, 0>>,
     seat |-> [p \in Pid |->
                  IF engine.seat[p].detached THEN Since(engine.now, engine.seat[p].at) ELSE 0]]
AgesOnly ==
    <<Ages, [p \in Pid |-> [engine.seat[p] EXCEPT !.at = 0]],
      engine.paused, engine.expected, engine.live, engine.row, table, link,
      callback.kind, callback.ws, portal, accepting, state, required,
      loop.at, loop.tries>>

\* Always true. A function in a state is evaluated when TLC first needs its value; the
\* view does not need all of them, and what is queued on disk must be a value.
AllEvaluated == vars = vars
=============================================================================
