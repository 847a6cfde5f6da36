---------------------------- MODULE RenderTiming ----------------------------
(***************************************************************************)
(* What the renderer makes of the times of an audioObject and of the       *)
(* audioBlockFormats of a channel: InterpretTimingMetadata of render.cpp.  *)
(*                                                                         *)
(* An object is a record with a start and a dur, a block one with an rtime *)
(* and a dur; each is a set of at most one time.  The block of an Objects  *)
(* channel also has a jump flag, an interp and a value v, which stands for *)
(* all that the gains are calculated from.  A time without a unit is an    *)
(* integer; so is adm::RationalTime, once all have one denominator.        *)
(***************************************************************************)
EXTENDS Integers, SequencesExt

Only(s) == CHOOSE x \in s : TRUE

NoObject == [start |-> {}, dur |-> {}]

ObjectStart(object) == IF object.start = {} THEN 0 ELSE Only(object.start)

\* get_block_extent(): a block without times lasts as long as its object.
Extent(object, b) ==
  LET start == ObjectStart(object)
  IN  IF b.rtime = {}
      THEN [start |-> start, end |-> {start + d : d \in object.dur}]
      ELSE [start |-> start + Only(b.rtime),
            end   |-> {start + Only(b.rtime) + d : d \in b.dur}]

WithinObject(object, b) ==
  \A e \in Extent(object, b).end, d \in object.dur : e <= ObjectStart(object) + d

\* get_block_extent() throws for none of the blocks.
TimingOK(object, bs) ==
  /\ \A i \in DOMAIN bs : (bs[i].rtime = {} <=> bs[i].dur = {}) /\ WithinObject(object, bs[i])
  /\ \A i \in 2 .. Len(bs) :
       \E e \in Extent(object, bs[i - 1]).end : e <= Extent(object, bs[i]).start

\* The time at which a block of an Objects channel, not the first, has moved
\* to its value.
Target(object, b) ==
  IF b.jump THEN Extent(object, b).start + b.interp ELSE Only(Extent(object, b).end)

\* get_interp_points() neither throws nor runs into its assert: that a block
\* other than the first has an end is "checked in get_block_extent" only of
\* those with a duration.
ObjectTimingOK(object, bs) ==
  /\ TimingOK(object, bs)
  /\ \A i \in 2 .. Len(bs) :
       \E e \in Extent(object, bs[i]).end : Target(object, bs[i]) <= e

-----------------------------------------------------------------------------
\* InterpPoint: at a time, zero gains or those of block number of.
Point(time, zero, of) == [time |-> time, zero |-> zero, of |-> of]

AtEnd(object, b, zero, of) ==
  SetToSeq({Point(e, zero, of) : e \in Extent(object, b).end})

\* get_end_points()
EndPoints(object, bs) == IF bs = <<>> THEN <<>> ELSE AtEnd(object, Last(bs), TRUE, Len(bs))

\* get_interp_points() of an Objects channel: the first block is there at
\* once, each other one moves on from where the one before it has ended.
ObjectPoints(object, bs) ==
  LET start == Extent(object, bs[1]).start
      end(i) == Only(Extent(object, bs[i]).end)
      of(i) == IF i = 1
               THEN <<Point(start, TRUE, 1), Point(start, FALSE, 1)>>
                      \o AtEnd(object, bs[1], FALSE, 1)
               ELSE (IF Target(object, bs[i]) < end(i)
                     THEN <<Point(Target(object, bs[i]), FALSE, i)>> ELSE <<>>)
                      \o <<Point(end(i), FALSE, i)>>
  IN  FlattenSeq([i \in DOMAIN bs |-> of(i)]) \o EndPoints(object, bs)

\* get_interp_points() of the other types: silence between blocks.
BlockPoints(object, bs) ==
  LET start(i) == Extent(object, bs[i]).start
      of(i) == <<Point(start(i), TRUE, i), Point(start(i), FALSE, i)>>
                 \o AtEnd(object, bs[i], FALSE, i) \o AtEnd(object, bs[i], TRUE, i)
  IN  FlattenSeq([i \in DOMAIN bs |-> of(i)]) \o EndPoints(object, bs)

-----------------------------------------------------------------------------
(* GainInterpolator of libear: straight lines between points, and what the *)
(* first and the last point say before and after them.                     *)

\* The values between points at time t; two where the value jumps.
ValuesAt(points, bs, t) ==
  UNION {LET p == points[i]
             q == points[i + 1]
             from == bs[p.of].v
             to == bs[q.of].v
         IN  IF p.zero \/ q.zero \/ t < p.time \/ t > q.time THEN {}
             ELSE IF p.time = q.time THEN {from, to}
             ELSE {from + ((to - from) * (t - p.time)) \div (q.time - p.time)} :
         i \in 1 .. Len(points) - 1}

\* Something is heard at time t.
Audible(points, t) ==
  \/ \E i \in 1 .. Len(points) - 1 :
       /\ points[i].time <= t /\ t < points[i + 1].time
       /\ ~(points[i].zero /\ points[i + 1].zero)
  \/ points # <<>> /\ Last(points).time <= t /\ ~Last(points).zero
=============================================================================
