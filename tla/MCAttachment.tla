---------------------------- MODULE MCAttachment ----------------------------
(* Small instances of Attachment for TLC. *)
EXTENDS Attachment

CONSTANTS c1, c2

\* The cache keeps up and nothing goes wrong but requests.
Prompt == [calls |-> {c1}, prompt |-> TRUE, unsure |-> FALSE,
           evicting |-> FALSE, leaving |-> FALSE, lag |-> 3, faults |-> 2]

\* The cache is as far behind as it likes, and calls are given up.
Lagging == [Prompt EXCEPT !.prompt = FALSE, !.unsure = TRUE, !.lag = 6]

\* The cluster takes away pods, nodes and the volume.
Draining == [Prompt EXCEPT !.evicting = TRUE, !.leaving = TRUE, !.faults = 1]

\* It takes away pods behind a lagging cache.
Evicting == [Lagging EXCEPT !.evicting = TRUE, !.lag = 2, !.faults = 1]

\* It takes away everything behind a lagging cache.
Churning == [Evicting EXCEPT !.leaving = TRUE, !.lag = 1, !.faults = 0]

\* Two calls at a time.
Overlapping == [Lagging EXCEPT !.calls = {c1, c2}, !.lag = 1, !.faults = 0]

SafetySettings == {Prompt, Lagging, Draining, Evicting, Overlapping}
LiveSettings == {Evicting, Churning}
=============================================================================
