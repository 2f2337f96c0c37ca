----------------------------- MODULE MCPresence -----------------------------
(* Two phones whose tabs compete for one or two seats. *)
EXTENDS Presence, TLC

CONSTANTS ann, bob

MCSocket == {1, 2}
Phones   == Permutations({ann, bob})

\* The view: clock readings are used for nothing but their differences, so two states
\* in which everything is equally long ago behave alike.
Ages ==
    [raw   |-> Since(clock, engine.src),
     loop  |-> Since(clock, loop.now),
     call  |-> IF callback = Idle THEN 0 ELSE Since(clock, callback.raw),
     queue |-> [i \in DOMAIN queue |-> Since(clock, queue[i].raw)],
     seat  |-> [p \in Pid |->
                   IF engine.seat[p].detached THEN Since(engine.now, engine.seat[p].at) ELSE 0]]
AgesOnly ==
    <<Ages, [p \in Pid |-> [engine.seat[p] EXCEPT !.at = 0]],
      engine.paused, engine.expected, engine.live, engine.row, table, link,
      callback.kind, callback.ws, loop.at, [i \in DOMAIN queue |-> queue[i].ws]>>

\* Always true. A function in a state is evaluated when TLC first needs its value; the
\* view does not need all of them, and what is queued on disk must be a value.
AllEvaluated == vars = vars
=============================================================================
