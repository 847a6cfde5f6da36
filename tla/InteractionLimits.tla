------------------------- MODULE InteractionLimits -------------------------
(***************************************************************************)
(* The process limit_interaction (limit_interaction.cpp), for one          *)
(* audioObject: what InteractionLimiter::process() does to its parameters  *)
(* interact and audioObjectInteraction.                                    *)
(*                                                                         *)
(* A parameter that may be missing is a set of at most one value.  An      *)
(* audioObjectInteraction is a record of the flags onOff, gain and         *)
(* position (the last two may be missing) and of a range for the gain and  *)
(* for each coordinate, whose ends may be missing.  Reading a missing      *)
(* parameter is undefined in the code: the limited object is then none.    *)
(***************************************************************************)
EXTENDS Integers

CONSTANTS
    Coordinates,          \* of the position: azimuth, elevation, ...
    InteractionConfig     \* InteractionLimiter::Config

(* Constraint: the lower and the upper limit of one end of a range.  Either *)
(* may be left out; lo is then numeric_limits<float>::min(), the smallest   *)
(* positive number, here Tiny; all other values are multiples of ten.       *)
Tiny == 1
Lower(limit) == IF limit.lo = {} THEN Tiny ELSE CHOOSE n \in limit.lo : TRUE
Above(x, limit) == \E n \in limit.hi : x > n

(* The limits of the gain and of each coordinate. *)
RangeLimit(limits) ==
    /\ limits.permitted \in BOOLEAN
    /\ \A l \in limits.min \cup limits.max :
          l.lo \subseteq Int /\ l.hi \subseteq Int /\ ~Above(Lower(l), l)

ASSUME InteractionAssumption ==
    /\ InteractionConfig.disable \subseteq {"onOff", "gain", "position"}
    /\ InteractionConfig.removeDisabledRanges \in BOOLEAN
    /\ \A l \in InteractionConfig.gain : RangeLimit(l)
    /\ \A ls \in InteractionConfig.position : \A c \in Coordinates : RangeLimit(ls[c])

NoRange == [min |-> {}, max |-> {}]

----------------------------------------------------------------------------
(* constrain_to_range() *)
ClampBelow(x, limit) == IF x < Lower(limit) THEN Lower(limit) ELSE x  \* a fault: no upper limit
Clamp(x, limit) ==
    IF x < Lower(limit) THEN Lower(limit)
    ELSE IF Above(x, limit) THEN CHOOSE n \in limit.hi : TRUE
    ELSE x

ConstrainEnd(end, limits) == {IF limits = {} THEN x ELSE Clamp(x, CHOOSE l \in limits : TRUE) : x \in end}

Constrain(range, limit) ==
    [min |-> ConstrainEnd(range.min, limit.min), max |-> ConstrainEnd(range.max, limit.max)]

(* disableInteractionTypes() *)
DisableTypes(i) ==
    [i EXCEPT !.onOff = @ /\ "onOff" \notin InteractionConfig.disable,
              !.gain = IF "gain" \in InteractionConfig.disable THEN {} ELSE @,
              !.position = IF "position" \in InteractionConfig.disable THEN {} ELSE @]

(* removeDisabledRanges(): the range of what may not be changed goes. *)
RemoveDisabledRanges(i) ==
    IF ~InteractionConfig.removeDisabledRanges THEN i
    ELSE [i EXCEPT !.gainRange = IF TRUE \in i.gain THEN @ ELSE {},
                   !.positionRange = IF TRUE \in i.position THEN @ ELSE {}]

(* clear_interact_if_all_off() *)
AllOff(i) == ~i.onOff /\ TRUE \notin i.gain /\ TRUE \notin i.position

(* constrain_gain_interaction(): a range that is not permitted is removed,  *)
(* and then read.                                                           *)
ConstrainGain(i, limit) ==
    IF i.gainRange = {} THEN {i}
    ELSE IF ~limit.permitted THEN {}
    ELSE {[i EXCEPT !.gainRange = {Constrain(r, limit) : r \in @}]}

(* constrain_position_interaction(): the coordinates that are not permitted *)
(* are removed before the others are constrained.                           *)
ConstrainPosition(i, limits) ==
    [i EXCEPT !.positionRange =
        {[c \in Coordinates |-> IF limits[c].permitted THEN Constrain(r[c], limits[c]) ELSE NoRange] : r \in @}]

ConstrainRanges(i) ==
    LET afterGain == IF InteractionConfig.gain = {} THEN {i}
                     ELSE ConstrainGain(i, CHOOSE l \in InteractionConfig.gain : TRUE)
    IN IF InteractionConfig.position = {} THEN afterGain
       ELSE {ConstrainPosition(j, CHOOSE ls \in InteractionConfig.position : TRUE) : j \in afterGain}

(* The loop body of process().  An object without an audioObjectInteraction *)
(* is left alone; one that loses it is still given to the constrain_...()   *)
(* functions, which read it.                                                *)
LimitObject(o) ==
    IF o.interaction = {} THEN {o}
    ELSE LET i == RemoveDisabledRanges(DisableTypes(CHOOSE x \in o.interaction : TRUE))
         IN IF o.interact # {} /\ AllOff(i)
            THEN IF InteractionConfig.gain = {} /\ InteractionConfig.position = {}
                 THEN {[o EXCEPT !.interact = {}, !.interaction = {}]}
                 ELSE {}
            ELSE {[o EXCEPT !.interaction = {j}] : j \in ConstrainRanges(i)}

----------------------------------------------------------------------------
(* What the configuration asks of an interaction. *)
EndWithin(end, limits) == \A x \in end, l \in limits : ~Above(x, l) /\ \A n \in l.lo : n <= x
Within(range, limit) == EndWithin(range.min, limit.min) /\ EndWithin(range.max, limit.max)

InteractionWithin(i) ==
    /\ i.onOff => "onOff" \notin InteractionConfig.disable
    /\ "gain" \in InteractionConfig.disable => i.gain = {}
    /\ "position" \in InteractionConfig.disable => i.position = {}
    /\ InteractionConfig.removeDisabledRanges =>
          (TRUE \notin i.gain => i.gainRange = {}) /\ (TRUE \notin i.position => i.positionRange = {})
    /\ \A r \in i.gainRange, l \in InteractionConfig.gain : l.permitted /\ Within(r, l)
    /\ \A r \in i.positionRange, ls \in InteractionConfig.position : \A c \in Coordinates :
          IF ls[c].permitted THEN Within(r[c], ls[c]) ELSE r[c] = NoRange

(* An end that is within the limits, or that is not limited, stays as it is, *)
(* if its limits say how low it may be.                                     *)
EndKept(old, new, limits) ==
    (\A l \in limits : l.lo # {}) /\ EndWithin(old, limits) => new = old
RangeKept(old, new, limit) == EndKept(old.min, new.min, limit.min) /\ EndKept(old.max, new.max, limit.max)

RangesKept(i, j) ==
    /\ \A old \in i.gainRange, new \in j.gainRange, l \in InteractionConfig.gain : RangeKept(old, new, l)
    /\ \A old \in i.positionRange, new \in j.positionRange, ls \in InteractionConfig.position :
          \A c \in Coordinates : ls[c].permitted => RangeKept(old[c], new[c], ls[c])
=============================================================================
