---------------------------- MODULE MCNodePublish ----------------------------
(* Small instances of NodePublish for TLC. *)
EXTENDS NodePublish

CONSTANTS c1, c2

\* One call at a time, while mergerfs comes and goes.
Restarting == [calls |-> {c1}, stops |-> TRUE, unions |-> 2, faults |-> 2]

\* One call at a time, and mergerfs stays.
Steady == [Restarting EXCEPT !.stops = FALSE]

\* mergerfs stays, but may be late.
Unmerged == [Restarting EXCEPT !.stops = FALSE, !.unions = 1, !.faults = 0]

\* Two calls at a time.
Overlapping == [Restarting EXCEPT !.calls = {c1, c2}, !.unions = 1, !.faults = 0]

UnmergedOnly == {Unmerged}
AllSettings == {Restarting, Steady, Overlapping}
=============================================================================
