--------------------------- MODULE ContentRewrite ---------------------------
(***************************************************************************)
(* The process rewrite_content_objects_emission (RewriteContentObjects-    *)
(* Emission in profile_conversion_misc.cpp): which audioContents and       *)
(* audioObjects replace those that a programme refers to.  Each element is *)
(* rewritten once, from the references it had at the start, so that the    *)
(* results are functions of the document.                                  *)
(*                                                                         *)
(* A document is a record of functions from the elements of each kind that *)
(* are in it; references are sequences without duplicates.  The content    *)
(* that object_to_content() makes for object o is <<o>>.  (The contents in *)
(* an ObjectResult are left out: nothing in the code adds one.)            *)
(***************************************************************************)
EXTENDS Integers, SequencesExt

CONSTANTS
    MaxObjectsDepth,   \* max_objects_depth of the process
    OnlyObjects        \* the packs of type Objects

ASSUME RewriteAssumption == MaxObjectsDepth \in Nat

(* addReference() leaves out an element that is there already. *)
NoDuplicates(seq) == FoldLeft(LAMBDA s, e : IF Contains(s, e) THEN s ELSE Append(s, e), <<>>, seq)

(* All that f gives for the elements of a sequence, one after the other. *)
Join(f, seq) == FlattenSeq([i \in DOMAIN seq |-> f[seq[i]]])

(* doc->remove() also removes the references to what it removes. *)
Without(seq, removed) == SelectSeq(seq, LAMBDA e : e \notin removed)

Names(results) == [i \in DOMAIN results |-> results[i][1]]

----------------------------------------------------------------------------
(* rewrite_object(): the objects, each with its depth, that replace an      *)
(* object.  One that has objects in it is broken up if one of these is not  *)
(* of type Objects, or if it is nested too deep; if it is kept, its depth   *)
(* is taken to be the maximum.                                              *)
DepthOnly(d, subs) ==  \* a fault: objects of all types may be nested
    \E s \in Range(subs) : s[2] + 1 > MaxObjectsDepth

SplitObject(d, subs) ==
    \/ \E s \in Range(subs) : ~(d.objects[s[1]].packs \subseteq OnlyObjects)
    \/ \E s \in Range(subs) : s[2] + 1 > MaxObjectsDepth

ObjectResults(d) ==
    LET result[o \in DOMAIN d.objects] ==
          LET subs == Join(result, d.objects[o].objects)
          IN IF d.objects[o].objects = <<>> THEN <<<<o, 0>>>>
             ELSE IF SplitObject(d, subs) THEN subs
             ELSE <<<<o, MaxObjectsDepth>>>>
    IN result

(* rewrite_content(): a content is kept if it has at most one object then; *)
(* if not, each of the objects gets a content of its own.                   *)
TooManyObjects(d, c) == Len(Join(ObjectResults(d), d.contents[c].objects)) > 1

ContentResult(d, c) ==
    IF TooManyObjects(d, c)
    THEN [i \in DOMAIN Join(ObjectResults(d), d.contents[c].objects) |->
             <<Join(ObjectResults(d), d.contents[c].objects)[i][1]>>]
    ELSE <<c>>

----------------------------------------------------------------------------
(* What is reached from the programmes: only that is rewritten. *)
Below(d) ==
    LET below[o \in DOMAIN d.objects] ==
          {o} \cup UNION {below[p] : p \in Range(d.objects[o].objects)}
    IN below

ReachedContents(d) == UNION {Range(d.programmes[p]) : p \in DOMAIN d.programmes}
ReachedObjects(d) ==
    UNION {Below(d)[o] : o \in UNION {Range(d.contents[c].objects) : c \in ReachedContents(d)}}

Leaves(d, o) == {p \in Below(d)[o] : d.objects[p].objects = <<>>}
ProgrammeLeaves(d, p) ==
    UNION {UNION {Leaves(d, o) : o \in Range(d.contents[c].objects)} : c \in Range(d.programmes[p])}

RemovedObjects(d) ==
    {o \in ReachedObjects(d) :
        d.objects[o].objects # <<>> /\ SplitObject(d, Join(ObjectResults(d), d.objects[o].objects))}
RemovedContents(d) == {c \in ReachedContents(d) : TooManyObjects(d, c)}

(* object_to_content() *)
MadeContents(d) == UNION {Range(ContentResult(d, c)) : c \in RemovedContents(d)}
ContentOf(d, o) == [objects |-> <<o>>, dialogue |-> d.objects[o].dialogue]

(* The first check of process(): content or nested objects, not both. *)
ContentOrNested(d) ==
    \A o \in DOMAIN d.objects :
        (d.objects[o].objects # <<>>) # (d.objects[o].packs # {} \/ d.objects[o].tracks # {})

(* The nine always_assert()s after an object was removed hold only if it    *)
(* had a start, a duration and all the others: what they let through is an  *)
(* object that loses all of them.                                           *)
HadEverything(o) == o.start # {} /\ o.dur # {} /\ o.rest

RewriteThrows(d) == ~ContentOrNested(d) \/ \E o \in RemovedObjects(d) : ~HadEverything(d.objects[o])

RewrittenObject(d, o) ==
    [d.objects[o] EXCEPT !.objects =
        IF o \in ReachedObjects(d) THEN NoDuplicates(Names(Join(ObjectResults(d), @)))
                                   ELSE Without(@, RemovedObjects(d))]

RewrittenContent(d, c) ==
    IF c \notin DOMAIN d.contents THEN ContentOf(d, c[1])
    ELSE [d.contents[c] EXCEPT !.objects =
             IF c \in ReachedContents(d) THEN NoDuplicates(Names(Join(ObjectResults(d), @)))
                                         ELSE Without(@, RemovedObjects(d))]

Rewrite(d) ==
    [d EXCEPT !.programmes =
                 [p \in DOMAIN @ |-> NoDuplicates(Join([c \in DOMAIN d.contents |-> ContentResult(d, c)], @[p]))],
              !.contents =
                 [c \in (DOMAIN @ \ RemovedContents(d)) \cup MadeContents(d) |-> RewrittenContent(d, c)],
              !.objects = [o \in DOMAIN @ \ RemovedObjects(d) |-> RewrittenObject(d, o)]]

----------------------------------------------------------------------------
(* What the emission profile asks of the structure (the comment on the      *)
(* class): a content has one object at most, only objects of type Objects   *)
(* are nested, and not deeper than max_objects_depth.                       *)
Depth(d) ==
    LET depth[o \in DOMAIN d.objects] ==
          IF d.objects[o].objects = <<>> THEN 0
          ELSE 1 + CHOOSE n \in 0 .. Cardinality(DOMAIN d.objects) :
                      /\ \E p \in Range(d.objects[o].objects) : depth[p] = n
                      /\ \A p \in Range(d.objects[o].objects) : depth[p] <= n
    IN depth

EmissionStructure(d) ==
    /\ \A c \in ReachedContents(d) : Len(d.contents[c].objects) <= 1
    /\ \A o \in ReachedObjects(d) :
          /\ Depth(d)[o] <= MaxObjectsDepth
          /\ \A p \in Range(d.objects[o].objects) : d.objects[p].packs \subseteq OnlyObjects
=============================================================================
