---- MODULE MCBlockTimes ----
(* Channels of one to MaxBlocks blocks with the durations Durations.        *)
EXTENDS BlockTimes

CONSTANTS
    MaxBlocks,  \* of a channel; of a channel whose parameter may be unset, one less
    Durations,
    Interps     \* interpolationLengths: a block shorter than it has no jumpPosition

(* 420 is divided by 1 .. 7: no value is rounded. *)
Values == <<0, 420, 1260, 840>>

Start(durs, i) == FoldLeft(+, 0, SubSeq(durs, 1, i - 1))

MCInputs ==
    {[i \in DOMAIN durs |->
        [rtime |-> Start(durs, i), dur |-> durs[i], set |-> sets[i],
         v |-> IF sets[i] THEN Values[i] ELSE Default,
         jump |-> interps[i] <= durs[i], interp |-> IF interps[i] <= durs[i] THEN interps[i] ELSE 0]] :
     <<durs, interps, sets>> \in
        UNION {[1 .. n -> Durations] \X [1 .. n -> Interps] \X (IF n < MaxBlocks THEN [1 .. n -> BOOLEAN] ELSE {[i \in 1 .. n |-> TRUE]}) : n \in 1 .. MaxBlocks}}
====
