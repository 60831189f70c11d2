------------------------------ MODULE MCRleHybrid ------------------------------
(* Instances of RleHybrid for TLC: groups of three values.                 *)
EXTENDS RleHybrid

\* Runs of other writers: empty ones, packed runs of two groups with padding
\* at the end, and runs that break off.
SomeRuns ==
    {[kind |-> "rle", n |-> 0, data |-> <<>>], RleRun(0, 1), RleRun(1, 4), PackedRun(<<>>),
     PackedRun(<< <<0, 1, 1>> >>), PackedRun(<< <<1, 0, 1>>, <<1, 1, 0>> >>)}
Endings ==
    {<<>>, << [kind |-> "cut", n |-> 0, data |-> <<>>] >>,
     << [kind |-> "rle", n |-> 2, data |-> <<>>] >>,
     << [kind |-> "packed", n |-> 1, data |-> <<>>] >>,
     << [kind |-> "packed", n |-> 2, data |-> << <<0, 1, 0>> >>] >>}
OtherStreams ==
    {s \o e : s \in UNION {[1 .. n -> SomeRuns] : n \in 0 .. 3}, e \in Endings}
===============================================================================
