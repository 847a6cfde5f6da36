----------------------------- MODULE MCRenderer -----------------------------
(***************************************************************************)
(* Documents for Renderer: all ways to give tracks and packs to an object, *)
(* some documents with programmes, nested objects and HOA, and one with    *)
(* times, which is rendered.  In AllDocuments each pack reaches each of its *)
(* channels on one way; TwoWays is a document in which one does not.       *)
(***************************************************************************)
EXTENDS Renderer, TLC

CONSTANT MaxTracks   \* of an object

NoElements == [x \in {} |-> <<>>]

\* mono holds M; stereo holds L and R; wide holds M and, in stereo, L and R;
\* hoa holds W and X.  double, of TwoWays, holds mono and centre, which both
\* hold M.
PackNames == <<"mono", "stereo", "wide", "hoa">>
MCPacks == ToSet(PackNames) \cup {"double", "centre"}
SubPacks ==
  [p \in MCPacks |-> CASE p = "wide" -> <<"stereo">>
                      [] p = "double" -> <<"mono", "centre">>
                      [] OTHER -> <<>>]
Contained ==
  [mono |-> <<"M">>, stereo |-> <<"L", "R">>, wide |-> <<"M">>, hoa |-> <<"W", "X">>,
   double |-> <<>>, centre |-> <<"M">>]
MCFormats == {"M", "L", "R", "W", "X"}
Types ==
  [mono |-> "Objects", stereo |-> "DirectSpeakers", wide |-> "DirectSpeakers",
   hoa |-> "HOA", double |-> "Objects", centre |-> "Objects"]
HoaBlocks ==
  {<<"W", "order", "0">>, <<"W", "degree", "0">>, <<"X", "order", "1">>, <<"X", "degree", "1">>}

\* Tracks: their channel and pack. 0 is silent, and has neither.
Silent == 0
TrackChannels == (Silent :> None) @@ <<"M", "L", "L", "R", "R", "M", "L", "W", "X", "M">>
TrackPacks ==
  <<"mono", "stereo", "wide", "stereo", "wide", "wide", "stereo", "hoa", "hoa", "centre">>
AllTracks == 1 .. 7

Base ==
  [programmes |-> <<>>, contents |-> <<>>, objects |-> <<>>, packs |-> PackNames,
   tracks |-> <<>>, programmeContents |-> NoElements, contentObjects |-> NoElements,
   subObjects |-> NoElements, subPacks |-> SubPacks, packChannels |-> Contained,
   objectPacks |-> NoElements, objectTracks |-> NoElements,
   silent |-> {Silent}, channel |-> TrackChannels,
   viaFormat |-> [t \in DOMAIN TrackChannels |-> None],
   pack |-> TrackPacks, type |-> Types,
   blocks |-> [c \in {"W", "X"} |-> 1], parameters |-> HoaBlocks]

TrackSets == UNION {kSubset(k, AllTracks) : k \in 0 .. MaxTracks}

TrackLists ==
  {SetToSortSeq(s, <) \o [i \in 1 .. n |-> Silent] : s \in TrackSets, n \in 0 .. 2}

Refs ==
  LET names == {"mono", "stereo", "wide"}
  IN  UNION {[1 .. n -> names] : n \in 0 .. 3}

\* One object with any tracks and packs.
OneObject(refs, tracks) ==
  [Base EXCEPT !.objects = <<"o">>, !.subObjects = [o |-> <<>>],
     !.objectPacks = [o |-> refs], !.objectTracks = [o |-> tracks],
     !.contents = <<"c">>, !.contentObjects = [c |-> <<"o">>]]

ObjectDocuments == {OneObject(r, t) : r \in Refs, t \in TrackLists}

\* No objects, only tracks, of which one may be silent.
ChnaDocuments ==
  {[Base EXCEPT !.tracks = SetToSortSeq(s, <)] : s \in TrackSets}
  \cup {[Base EXCEPT !.tracks = <<Silent>>], [Base EXCEPT !.tracks = <<1, Silent>>]}

\* Two programmes; an object in two objects and two contents; HOA beside it.
Nested ==
  [Base EXCEPT
     !.programmes = <<2, 1>>, !.contents = <<"c", "d">>,
     !.objects = <<"o", "p", "q">>,
     !.programmeContents = (1 :> <<"c", "d">>) @@ (2 :> <<"d">>),
     !.contentObjects = [c |-> <<"o">>, d |-> <<"q", "p">>],
     !.subObjects = [o |-> <<"p", "q">>, p |-> <<"q">>, q |-> <<>>],
     !.objectPacks = [o |-> <<"mono">>, p |-> <<"hoa">>, q |-> <<"wide">>],
     !.objectTracks = [o |-> <<1>>, p |-> <<9, 8>>, q |-> <<0, 3, 6>>]]

\* The same without programmes: the objects in no other are the roots.
NoProgramme ==
  [Nested EXCEPT !.programmes = <<>>, !.programmeContents = NoElements]

WithParameters(d, more) == [d EXCEPT !.parameters = @ \cup more]

\* HOA parameters that agree, that differ by channel, that contradict the pack.
HoaDocuments ==
  {WithParameters(Nested, more) : more \in
     {{<<"hoa", "normalization", "N3D">>, <<"W", "normalization", "N3D">>},
      {<<"W", "normalization", "SN3D">>},
      {<<"W", "normalization", "N3D">>},
      {<<"hoa", "nfcRefDist", "far">>, <<"W", "nfcRefDist", "near">>},
      {<<"W", "nfcRefDist", "zero">>},
      {<<"W", "rtime", "late">>}, {<<"W", "rtime", "late">>, <<"X", "rtime", "late">>}}}
  \cup {[Nested EXCEPT !.blocks["W"] = 2],
        [Nested EXCEPT !.parameters = @ \ {<<"X", "degree", "1">>}],
        [Nested EXCEPT !.type["mono"] = "Binaural"]}

\* References by track format: alone, twice the same, two that differ.
FormatDocuments ==
  {[Nested EXCEPT !.viaFormat[1] = c[1], !.channel[1] = c[2]] :
     c \in {<<"M", None>>, <<"M", "M">>, <<"M", "L">>, <<NoStream, "M">>, <<None, None>>}}

\* An object whose pack reaches M on two ways, with a track for each.
TwoWays ==
  [OneObject(<<"double">>, <<1, 10>>) EXCEPT !.packs = <<"mono", "centre", "double">>]

-----------------------------------------------------------------------------
\* An object with an Objects channel; one with speakers, R of them silent, and
\* HOA; tracks in no object.
Timed ==
  [Base EXCEPT
     !.contents = <<"c">>, !.objects = <<"a", "b">>,
     !.contentObjects = [c |-> <<"a", "b">>],
     !.subObjects = [a |-> <<>>, b |-> <<>>],
     !.objectPacks = [a |-> <<"mono">>, b |-> <<"stereo", "hoa">>],
     !.objectTracks = [a |-> <<1>>, b |-> <<2, Silent, 8, 9>>]]

TimedDocuments ==
  {Timed, [Base EXCEPT !.tracks = <<1, 2, 4>>],
   WithParameters(Timed, {<<"hoa", "screenRef", "true">>})}

Block(rtime, dur) == [rtime |-> rtime, dur |-> dur, jump |-> FALSE, interp |-> 0, v |-> 0]
JumpBlock(rtime, dur, interp) ==
  [Block(rtime, dur) EXCEPT !.jump = TRUE, !.interp = interp]

Untimed == <<Block({}, {})>>
SomeBlocks == <<Block({1}, {4}), Block({8}, {5})>>

ChannelTimes(m, speakers, hoa) ==
  [M |-> m, L |-> speakers, R |-> speakers, W |-> hoa, X |-> hoa]

ObjectTimes(from, dur) == [start |-> from, dur |-> dur]
Times(a, b, blocks) ==
  [objects |-> [a |-> a, b |-> b], blocks |-> blocks,
   map |-> (1 :> 2) @@ (2 :> 0) @@ (4 :> 1) @@ (8 :> 1) @@ (9 :> 3)]

\* Nothing timed; gaps between blocks, and jumps; a block with times in an object
\* without; and times that do not fit: a block past its object, blocks that
\* overlap, two blocks without times, an interpolation longer than its block.
SomeTimes ==
  {Times(Timing!NoObject, Timing!NoObject, ChannelTimes(Untimed, Untimed, Untimed)),
   Times(ObjectTimes({1}, {13}), ObjectTimes({2}, {14}),
         ChannelTimes(<<JumpBlock({0}, {4}, 4), JumpBlock({6}, {6}, 1)>>, SomeBlocks, Untimed)),
   Times(ObjectTimes({}, {7}), Timing!NoObject,
         ChannelTimes(Untimed, SomeBlocks, <<Block({3}, {6})>>)),
   Times(ObjectTimes({}, {11}), Timing!NoObject, ChannelTimes(SomeBlocks, Untimed, Untimed)),
   Times(Timing!NoObject, Timing!NoObject,
         ChannelTimes(<<Block({1}, {4}), Block({4}, {5})>>, Untimed, Untimed)),
   Times(Timing!NoObject, Timing!NoObject,
         ChannelTimes(Untimed, <<Block({}, {}), Block({}, {})>>, Untimed)),
   Times(Timing!NoObject, Timing!NoObject,
         ChannelTimes(<<Block({1}, {4}), JumpBlock({6}, {2}, 3)>>, Untimed, Untimed))}

AllDocuments ==
  ObjectDocuments \cup ChnaDocuments \cup {Nested, NoProgramme}
  \cup HoaDocuments \cup FormatDocuments \cup TimedDocuments

AllTimings == [d \in AllDocuments |-> IF d \in TimedDocuments THEN SomeTimes ELSE {None}]

Input(size, channels, rate) == [size |-> size, channels |-> channels, rate |-> rate]
SomeInput ==
  {Input(n, 4, 48000) : n \in 1 .. 3} \cup {Input(1, 3, 48000), Input(1, 4, 44100)}

Start(kind, programme, elements) ==
  [kind |-> kind, programme |-> programme, from |-> elements]

\* Starts other than the default are tried with the documents made by hand.
AllStarts ==
  [d \in AllDocuments |->
     {Start("default", None, <<>>)} \cup
     IF d.objects # <<"o", "p", "q">> THEN {}
     ELSE {Start("programme", p, <<>>) : p \in ToSet(d.programmes)}
          \cup {Start("contents", None, <<"d">>), Start("contents", None, <<"d", "c">>),
                Start("objects", None, <<"q">>), Start("objects", None, <<"q", "o">>)}]

TwoWaysOnly   == {TwoWays}
TwoWaysStarts == [d \in TwoWaysOnly |-> {Start("default", None, <<>>)}]
NotRendered   == [d \in TwoWaysOnly |-> {None}]

\* Problems come from documents.
NoProblems == {}
=============================================================================
