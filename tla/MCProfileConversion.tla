------------------------ MODULE MCProfileConversion ------------------------
(***************************************************************************)
(* Documents for ProfileConversion, one family for each of the things that *)
(* are converted: times, structures, silent tracks and interactions.       *)
(***************************************************************************)
EXTENDS ProfileConversion, TLC

\* Names of contents, and of the tracks of the channels m, n, l, r and of none.
CONSTANTS c1, c2, tm, tn, tl, tr, silent

MCPackChannels == [mono |-> {"m"}, stereo |-> {"l", "r"}, pair |-> {"m", "n"}]
MCOnlyObjects == {"mono", "pair"}
MCCoordinates == {"azimuth", "elevation"}

MCConfig ==
    [disable |-> {"onOff"}, removeDisabledRanges |-> TRUE,
     gain |-> {[permitted |-> TRUE, min |-> {[lo |-> {}, hi |-> {10}]}, max |-> {[lo |-> {10}, hi |-> {20}]}]},
     position |-> {[azimuth |-> [permitted |-> TRUE, min |-> {[lo |-> {-20}, hi |-> {0}]}, max |-> {[lo |-> {0}, hi |-> {20}]}],
                    elevation |-> [permitted |-> FALSE, min |-> {}, max |-> {}]]}]

Object ==
    [start |-> {}, dur |-> {}, objects |-> <<>>, packs |-> {}, tracks |-> {}, interact |-> {},
     interaction |-> {}, dialogue |-> FALSE, importance |-> FALSE, rest |-> FALSE]
Content == [objects |-> <<>>, dialogue |-> FALSE]
Track == [silent |-> FALSE, packs |-> {}, channel |-> {}, format |-> {}]
Channel == [common |-> FALSE, position |-> FALSE, importance |-> FALSE, blocks |-> <<>>]
Block(rtime, dur) == [rtime |-> rtime, dur |-> dur]

\* The channels l and r are common definitions.
Tracks ==
    (tm :> [Track EXCEPT !.packs = {"mono"}, !.channel = {"m"}]) @@
    (tn :> [Track EXCEPT !.packs = {"pair"}, !.format = {"n"}]) @@
    (tl :> [Track EXCEPT !.packs = {"stereo"}, !.channel = {"l"}]) @@
    (tr :> [Track EXCEPT !.packs = {"stereo"}, !.format = {"r"}])
Map(m, n, l, r) == (tm :> m) @@ (tn :> n) @@ (tl :> l) @@ (tr :> r)

Channels(blocks) ==
    [m |-> [Channel EXCEPT !.blocks = blocks], n |-> [Channel EXCEPT !.blocks = <<Block({}, {})>>],
     l |-> [Channel EXCEPT !.common = TRUE], r |-> [Channel EXCEPT !.common = TRUE, !.importance = TRUE]]

\* One programme, one content for all of the objects that are in no other.
Document(objects) ==
    [programmes |-> [p \in {"p"} |-> <<c1>>],
     contents |-> [c \in {c1} |-> [Content EXCEPT !.objects =
         SetToSeq({o \in DOMAIN objects : \A q \in DOMAIN objects : ~Contains(objects[q].objects, o)})]],
     objects |-> objects, tracks |-> Tracks, channels |-> Channels(<<Block({0}, {2}), Block({2}, {1})>>),
     map |-> Map(0, 1, 2, 3), audio |-> 4, version |-> FALSE]

Times == {{}, {1}, {2}}
Playing(tracks, start, dur) == [Object EXCEPT !.packs = {"mono"}, !.tracks = tracks, !.start = start, !.dur = dur]

\* Three objects, of which some share channels, with all starts and durations.
TimeDocuments ==
    {[Document(("a" :> Playing({tm}, s, d)) @@ ("b" :> Playing(t, u, e)) @@ ("c" :> Playing(v, s, {2})))
        EXCEPT !.channels = Channels(blocks)] :
     s \in Times, u \in Times, d \in Times, e \in Times, t \in {{tm}, {tn}, {tm, tn}, {tn, tl}}, v \in {{tn}, {tl, tr}, {}},
     blocks \in {<<Block({}, {})>>, <<Block({}, {1})>>, <<Block({1}, {1}), Block({2}, {1})>>}}

\* Four objects, each in up to two others after it, with a pack of either type.
Nested(subs, rest) ==
    IF subs = <<>> THEN Object ELSE [Object EXCEPT !.objects = subs, !.rest = rest, !.start = IF rest THEN {1} ELSE {},
                                                   !.dur = IF rest THEN {1} ELSE {}]
Leaf(pack) == [Object EXCEPT !.packs = {pack}, !.tracks = {IF pack = "mono" THEN tm ELSE tl}]
SubLists(n) == UNION {kSubset(k, 1 .. n - 1) : k \in 0 .. 2}
StructureDocuments ==
    {[Document([o \in 1 .. 4 |-> IF subs[o] = {} THEN Leaf(pack[o]) ELSE Nested(SetToSeq(subs[o]), rest)])
        EXCEPT !.contents = (c1 :> [Content EXCEPT !.objects = first]) @@
                            (c2 :> [Content EXCEPT !.objects = <<4>>, !.dialogue = TRUE]),
               !.programmes = [p \in {"p", "q"} |-> IF p = "p" THEN <<c1, c2>> ELSE <<c2>>]] :
     subs \in {f \in [1 .. 4 -> SubLists(4)] : \A o \in 1 .. 4 : \A q \in f[o] : q < o},
     pack \in {[o \in 1 .. 4 |-> IF o = k THEN "stereo" ELSE "mono"] : k \in 1 .. 3}, rest \in BOOLEAN,
     first \in {<<3>>, <<2, 3>>, <<>>}}

\* Objects with real and silent tracks; the map leaves a channel out or uses one twice.
SilentDocuments ==
    {[Document([o \in {"a", "b"} |-> IF o = "a" THEN [Object EXCEPT !.packs = {pack}, !.tracks = t]
                                                ELSE [Object EXCEPT !.packs = {"stereo"}, !.tracks = {tl, silent}]])
        EXCEPT !.tracks = [@ EXCEPT ![tm].packs = {tmPack}] @@ (silent :> [Track EXCEPT !.silent = TRUE]),
               !.map = map] :
     tmPack \in {"mono", "pair"}, pack \in DOMAIN MCPackChannels, t \in SUBSET {tm, tn, tl, silent} \ {{}},
     map \in {Map(0, 1, 2, 3), Map(3, 2, 1, 0), Map(1, 2, 3, 0), Map(0, 1, 2, 0)}}

\* Interactions with ranges inside and outside of the limits.
Ends == {{}, {-30}, {-10}, {10}, {30}}
RangesOf == {[min |-> a, max |-> b] : a \in Ends, b \in Ends}
Flags == {{}, {TRUE}, {FALSE}}
InteractionDocuments ==
    {Document([o \in {"a"} |-> [Object EXCEPT !.packs = {"mono"}, !.tracks = {tm}, !.interact = on, !.importance = TRUE,
        !.interaction = {[onOff |-> off, gain |-> g, position |-> q, gainRange |-> gr,
            positionRange |-> {[c \in MCCoordinates |-> [min |-> r.max, max |-> r.min]] : r \in gr}]}]]) :
     on \in {{}, {TRUE}}, off \in BOOLEAN, g \in Flags, q \in Flags, gr \in {{}} \cup {{r} : r \in RangesOf}}

Run(documents, c) == {[doc |-> d, chain |-> c] : d \in documents}

\* An object that the validator accepts, so that it goes through.
ValidDocument ==
    [Document([o \in {"a"} |-> [Object EXCEPT !.packs = {"mono"}, !.tracks = {tm}, !.interact = {FALSE}]])
        EXCEPT !.tracks = [t \in {tm} |-> @[t]], !.contents[c1].dialogue = TRUE, !.version = TRUE,
               !.channels = [c \in DOMAIN @ |-> [@[c] EXCEPT !.position = TRUE]]]

AllInputs ==
    Run(TimeDocuments \cup StructureDocuments \cup SilentDocuments \cup InteractionDocuments \cup {ValidDocument}, WholeChain)
    \cup Run(SilentDocuments, <<"remove_silent_atu", "validate">>)
    \cup Run(StructureDocuments, <<"rewrite_content_objects_emission", "set_content_dialogue_default">>)
    \cup Run({ValidDocument}, <<"validate">>)
=============================================================================
