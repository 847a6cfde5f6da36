----------------------------- MODULE BlockTimes -----------------------------
(***************************************************************************)
(* The timing of the audioBlockFormats of one Objects channel: the         *)
(* process remove_jump_position (jump_position_removal.cpp) followed by    *)
(* resample_blocks (block_resampling.cpp), as conform_block_timing.json    *)
(* and conform_to_emission.json connect them.                              *)
(*                                                                         *)
(* Times are integers: all times of a channel are in one unit (adm::Time   *)
(* in nanoseconds, or fractional with one denominator), so that the sums   *)
(* and differences of adm_time_extras.hpp are exact.  A block has one      *)
(* parameter, which is at "v" at the end of the block and moves there in a *)
(* straight line; "set" is FALSE when the parameter is left at its         *)
(* default, which a position never is but a gain may be.  Values change in *)
(* whole steps (ExactAssumption), so that lerp() is exact.                 *)
(***************************************************************************)
EXTENDS Integers, SequencesExt

CONSTANTS
    Inputs,     \* the sequences of blocks to convert
    Interval,   \* min_duration of the BlockResampler
    Default,    \* the value of a parameter that is not set
    NaN         \* what lerp() by 0/0 gives

Block == [rtime : Int, dur : Nat, jump : BOOLEAN, interp : Nat, set : BOOLEAN, v : Int]

ASSUME BlockTimesAssumption ==
    /\ Interval \in Nat \ {0}
    /\ Default \in Int
    /\ NaN \notin Int
    /\ Inputs \subseteq Seq(Block) \ {<<>>}
    /\ \A bs \in Inputs : \A i \in DOMAIN bs :
          /\ bs[i].interp <= bs[i].dur
          /\ i > 1 => bs[i].rtime = bs[i - 1].rtime + bs[i - 1].dur

(* How long a block moves.                                                 *)
MovesFor(b) == IF b.jump THEN b.interp ELSE b.dur

(* Each value is reached in whole steps, and one that is not set is the     *)
(* default.                                                                *)
ASSUME ExactAssumption ==
    \A bs \in Inputs : \A i \in DOMAIN bs :
        /\ ~bs[i].set => bs[i].v = Default
        /\ i > 1 /\ MovesFor(bs[i]) > 0 => (bs[i].v - bs[i - 1].v) % MovesFor(bs[i]) = 0

VARIABLES
    original,   \* the blocks of the input document
    blocks,     \* the blocks of the channel
    remaining,  \* BlockStack: the blocks not in a group yet, last on top
    resampled,  \* the blocks made of groups, last block of the channel first
    stage       \* which process runs: "jump", "resample", "groups", "done", "threw"

vars == <<original, blocks, remaining, resampled, stage>>

End(b) == b.rtime + b.dur
Zero(b) == b.dur = 0
Lerp(p, n, k, d) == IF d = 0 THEN NaN ELSE p + ((n - p) * k) \div d
TotalDuration(bs) ==
    LET total[i \in 0 .. Len(bs)] == IF i = 0 THEN 0 ELSE total[i - 1] + bs[i].dur
    IN total[Len(bs)]

(***************************************************************************)
(* What the blocks mean: the values the renderer gives the parameter at    *)
(* time t.  There are two at a time where the value jumps.                 *)
(***************************************************************************)
Timing == INSTANCE RenderTiming

Timed(bs) == [i \in DOMAIN bs |-> [bs[i] EXCEPT !.rtime = {@}, !.dur = {@}]]
Accepted(bs) == Timing!ObjectTimingOK(Timing!NoObject, Timed(bs))
Points(bs) == Timing!ObjectPoints(Timing!NoObject, Timed(bs))

Times(bs) == bs[1].rtime .. End(Last(bs))

----------------------------------------------------------------------------
(* remove_jump_position *)

ShouldBeSplit(b) == b.jump /\ b.interp # b.dur

DropJump(b) == <<b>>  \* a fault: the hold is lost

SplitJump(b) ==
    IF ShouldBeSplit(b)
    THEN <<[b EXCEPT !.dur = b.interp],
           [b EXCEPT !.rtime = b.rtime + b.interp, !.dur = b.dur - b.interp]>>
    ELSE <<b>>

WithoutJump(bs) == [i \in DOMAIN bs |-> [bs[i] EXCEPT !.jump = FALSE, !.interp = 0]]

RemoveJumpPosition ==
    /\ stage = "jump"
    /\ blocks' = WithoutJump(IF Len(blocks) > 1 THEN FlattenSeq([i \in DOMAIN blocks |-> SplitJump(blocks[i])])
                                                ELSE blocks)
    /\ stage' = "resample"
    /\ UNCHANGED <<original, remaining, resampled>>

----------------------------------------------------------------------------
(* split(): cut block b at time t; prior, a sequence of at most one block,  *)
(* is the block b moves from.  The first part ends between the two, and     *)
(* has the parameter only if one of them has.  A block and the one before   *)
(* it are taken to have positions of one kind: split() throws if one is     *)
(* polar and the other Cartesian.                                           *)

Outside(b, t) == t < b.rtime \/ t > End(b)

FirstKeepsDuration(prior, b, t) == b  \* a fault: what was cut off stays

SplitFirst(prior, b, t) ==
    LET cut == [b EXCEPT !.dur = t - b.rtime]
    IN CASE prior = <<>> -> cut
         [] prior # <<>> /\ (b.set \/ prior[1].set) ->
              [cut EXCEPT !.set = TRUE, !.v = Lerp(prior[1].v, b.v, t - b.rtime, b.dur)]
         [] OTHER -> cut

SecondKeepsDuration(b, t) == [b EXCEPT !.rtime = t]  \* a fault: it ends too late

SplitSecond(b, t) == [b EXCEPT !.rtime = t, !.dur = End(b) - t]

----------------------------------------------------------------------------
(* Groups: a group is a sequence of blocks, the latest first.               *)

Remaining(group) == LET left == Interval - TotalDuration(group) IN IF left < 0 THEN 0 ELSE left
CanFit(group, b) == TotalDuration(group) + b.dur <= Interval

(* getLastParameters(): from the earliest to the latest block, each         *)
(* parameter that is set replaces the one before it.                        *)
LastParameter(group) ==
    LET i == SelectInSeq(group, LAMBDA b : b.set)
    IN IF i = 0 THEN [set |-> FALSE, v |-> Default] ELSE [set |-> TRUE, v |-> group[i].v]

GroupToBlock(group) ==
    [rtime |-> Last(group).rtime, dur |-> TotalDuration(group), jump |-> FALSE, interp |-> 0,
     set |-> LastParameter(group).set, v |-> LastParameter(group).v]

LeadingZero == IF Len(blocks) > 1 /\ Zero(blocks[1]) THEN <<blocks[1]>> ELSE <<>>

(* group_policy() *)
IsLarge(b) == b.dur > Interval

SplitGreedyPolicy(top, total) ==
    IsLarge(top) /\ total - top.dur > 0 /\ total - top.dur < Interval
ConsumeOnePolicy(top, total) == IsLarge(top) /\ ~SplitGreedyPolicy(top, total)
SplitThriftyPolicy(top, total) == ~IsLarge(top) /\ total >= 2 * Interval
ConsumeAllPolicy(top, total) == ~IsLarge(top) /\ ~SplitThriftyPolicy(top, total)

(* What a split block moves from: the block below it, or the leading zero.  *)
NoLeadingZero(stack) == IF stack # <<>> THEN <<Last(stack)>> ELSE <<>>  \* a fault
Prior(stack) == IF stack # <<>> THEN <<Last(stack)>> ELSE LeadingZero

(* A step of the while loop: one group becomes one block.                   *)
Group(group, left) ==
    /\ resampled' = Append(resampled, GroupToBlock(group))
    /\ remaining' = left
    /\ UNCHANGED <<original, blocks, stage>>

(* Cut b at t: the second part joins the group, the first goes back. *)
GroupWithPart(group, b, t, left) ==
    IF Outside(b, t)
    THEN /\ stage' = "threw"
         /\ UNCHANGED <<original, blocks, remaining, resampled>>
    ELSE Group(Append(group, SplitSecond(b, t)), Append(left, SplitFirst(Prior(left), b, t)))

ConsumeOne ==
    /\ stage = "groups" /\ remaining # <<>>
    /\ ConsumeOnePolicy(Last(remaining), TotalDuration(remaining))
    /\ Group(<<Last(remaining)>>, Front(remaining))

(* greedy_add(): what is left is completed to Interval with the start of b. *)
GreedyCut(b, left) == b.rtime + (Interval - TotalDuration(left))

SplitGreedy ==
    /\ stage = "groups" /\ remaining # <<>>
    /\ SplitGreedyPolicy(Last(remaining), TotalDuration(remaining))
    /\ LET b == Last(remaining)
           left == Front(remaining)
       IN GroupWithPart(<<>>, b, GreedyCut(b, left), left)

(* thrifty_add(): the group is completed to Interval with the end of the    *)
(* first block that does not fit.                                           *)
ThriftyCut(group) == Last(group).rtime - Remaining(group)

(* The number of blocks that fit into a group, taken from the top. *)
Fitting == CHOOSE n \in 0 .. Len(remaining) :
              LET taken(k) == Reverse(SubSeq(remaining, Len(remaining) - k + 1, Len(remaining)))
              IN /\ TotalDuration(taken(n)) <= Interval
                 /\ n < Len(remaining) => ~CanFit(taken(n), remaining[Len(remaining) - n])

SplitThrifty ==
    /\ stage = "groups" /\ remaining # <<>>
    /\ SplitThriftyPolicy(Last(remaining), TotalDuration(remaining))
    /\ LET n == Fitting
           group == Reverse(SubSeq(remaining, Len(remaining) - n + 1, Len(remaining)))
           left == SubSeq(remaining, 1, Len(remaining) - n)
       IN IF left = <<>> THEN Group(group, <<>>)
                         ELSE GroupWithPart(group, Last(left), ThriftyCut(group), Front(left))

ConsumeAll ==
    /\ stage = "groups" /\ remaining # <<>>
    /\ ConsumeAllPolicy(Last(remaining), TotalDuration(remaining))
    /\ Group(Reverse(remaining), <<>>)

----------------------------------------------------------------------------
(* resample_to_minimum_preserving_zero: one block stays as it is, and a     *)
(* leading block of zero length goes round the groups.                      *)

StartResampling ==
    /\ stage = "resample"
    /\ IF Len(blocks) <= 1
       THEN stage' = "done" /\ UNCHANGED remaining
       ELSE /\ remaining' = IF LeadingZero = <<>> THEN blocks ELSE Tail(blocks)
            /\ stage' = "groups"
    /\ UNCHANGED <<original, blocks, resampled>>

FinishResampling ==
    /\ stage = "groups" /\ remaining = <<>>
    /\ blocks' = Reverse(resampled \o LeadingZero)
    /\ stage' = "done"
    /\ UNCHANGED <<original, remaining, resampled>>

(* The process has returned, or thrown: nothing more happens. *)
Returned == stage \in {"done", "threw"} /\ UNCHANGED vars

Init ==
    /\ original \in Inputs
    /\ blocks = original
    /\ remaining = <<>>
    /\ resampled = <<>>
    /\ stage = "jump"

Next ==
    \/ RemoveJumpPosition \/ StartResampling \/ ConsumeOne \/ SplitGreedy
    \/ SplitThrifty \/ ConsumeAll \/ FinishResampling \/ Returned

Spec == Init /\ [][Next]_vars

----------------------------------------------------------------------------
(* Properties *)

(* While no block is in a group, or all are, blocks follow each other       *)
(* without a gap from the start to the end of the input.                    *)
Contiguous(bs) ==
    /\ bs[1].rtime = original[1].rtime
    /\ End(Last(bs)) = End(Last(original))
    /\ \A i \in 2 .. Len(bs) : bs[i].rtime = End(bs[i - 1])

(* remove_jump_position and resample_blocks keep the blocks contiguous, and *)
(* between two groups nothing is lost: what remains and the groups made     *)
(* still cover the whole channel.                                           *)
BlocksContiguous ==
    CASE stage = "groups" -> Contiguous(LeadingZero \o remaining \o Reverse(resampled))
      [] stage = "threw" -> TRUE
      [] OTHER -> Contiguous(blocks)

(* Splitting a block with jumpPosition does not change what is heard: the   *)
(* renderer accepts the blocks without jumpPosition, and draws the same path *)
(* through them at each time.                                               *)
JumpRemovalKeepsPath ==
    stage = "resample" =>
        /\ Accepted(blocks)
        /\ LET before == Points(original)
               after == Points(blocks)
           IN \A t \in Times(original) :
                  Timing!ValuesAt(after, blocks, t) = Timing!ValuesAt(before, original, t)

(* Each block that resample_blocks makes ends on the path of the input, and *)
(* so do the pieces that wait in the stack: the prior block given to        *)
(* split() is always the one the piece moves from, split() is never asked   *)
(* for a time outside the block (it throws), and 0/0 is never used.  Only   *)
(* for a parameter that is not left at its default once it has been set:    *)
(* getLastParameters() goes back to the last block that sets it.            *)
BlocksEndOnPath ==
    /\ stage # "threw"
    /\ (\A i \in 1 .. Len(original) - 1 : original[i].set => original[i + 1].set) =>
          LET path == Points(original)
          IN \A b \in Range(remaining) \cup Range(resampled) : b.v \in Timing!ValuesAt(path, original, End(b))

(* The blocks of the result other than the first that are too short; a      *)
(* leading block of zero length is passed through, and is not counted as    *)
(* the first.                                                               *)
ShortBlocks == {i \in DOMAIN resampled : i < Len(resampled) /\ resampled[i].dur < Interval}

(* "contiguous AudioBlockFormatObjects that, other than the first block,    *)
(* have a duration at least as long as interval" (block_resampling.hpp:14). *)
(* It does not hold: the first block may be completed to interval with the  *)
(* start of the second, of which less than interval may be left.            *)
OnlyFirstIsShort == stage = "done" => ShortBlocks = {}

(* What holds of short blocks: there is no other case than that one.        *)
OnlySecondIsShort ==
    stage = "done" =>
        \A i \in ShortBlocks : i = Len(resampled) - 1 /\ Last(resampled).dur = Interval

(* Resampling ends: each group takes some time, or some blocks, off the     *)
(* stack.                                                                   *)
EachGroupTakes ==
    [][stage = "groups" /\ stage' = "groups" =>
          \/ TotalDuration(remaining') < TotalDuration(remaining)
          \/ TotalDuration(remaining') = TotalDuration(remaining) /\ Len(remaining') < Len(remaining)]_vars
=============================================================================
