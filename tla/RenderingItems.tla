--------------------------- MODULE RenderingItems ---------------------------
(***************************************************************************)
(* select_items(): the rendering items of an ADM document.  A program, its *)
(* contents and objects are followed to every path of objects; the tracks  *)
(* of the last object of a path are allocated to packs and channels, and   *)
(* each channel, or each HOA pack, is an item.                             *)
(*                                                                         *)
(* A document is a record                                                  *)
(*   programmes, contents, objects, packs, tracks   sequences of elements; *)
(*               an audioProgramme is its ID                               *)
(*   refs        for each element that refers to others, by kind:          *)
(*               programmeContents, contentObjects, subObjects, subPacks,  *)
(*               objectPacks, objectTracks, packChannels, sequences        *)
(*   silent      the tracks that are silent                                *)
(*   channel     the channel format a track refers to, or None             *)
(*   viaFormat   the one it refers to by its track and stream format;      *)
(*               NoStream if the track format has no stream format         *)
(*   pack, type  the pack format of a track, the type of a pack            *)
(*   blocks      the number of blocks of an HOA channel                    *)
(*   parameters  triples of an element, a parameter and its value          *)
(***************************************************************************)
EXTENDS PackAllocation, SequencesExt

CONSTANTS
  Documents, Starts,   \* arguments of select_items()
  None,                \* no element, no value
  NoStream

VARIABLES
  doc, start,
  phase,      \* what select_items() is doing, or how it ended
  agenda,     \* the selections still to come, in the order of the callbacks
  items       \* SelectionResult::items

itemVars == <<doc, start, phase, agenda, items>>
riVars   == <<allocVars, itemVars>>

-----------------------------------------------------------------------------
(* Programme, content and objects. *)

\* All paths from x, those that go further first.
PathsFrom(sub, x) ==
  LET paths[y \in DOMAIN sub] ==
        Append(FlattenSeq([i \in DOMAIN sub[y] |->
                             LET further == paths[sub[y][i]]
                             IN  [j \in DOMAIN further |-> <<y>> \o further[j]]]),
               <<y>>)
  IN  paths[x]

ObjectPaths(d, objects) ==
  FlattenSeq([i \in DOMAIN objects |-> PathsFrom(d.subObjects, objects[i])])

RootObjects(d) ==
  LET IsRoot(o) == \A p \in ToSet(d.objects) : o \notin ToSet(d.subObjects[p])
  IN  SelectSeq(d.objects, IsRoot)

Selection(programme, content, objects) ==
  [programme |-> programme, content |-> content, objects |-> objects]

SelectObjectPaths(d, programme, content) ==
  LET roots == IF content = None THEN RootObjects(d) ELSE d.contentObjects[content]
      paths == ObjectPaths(d, roots)
  IN  [i \in DOMAIN paths |-> Selection(programme, content, paths[i])]

SelectProgramme(d, programme) ==
  IF programme # None \/ d.programmes = <<>> THEN programme
  ELSE CHOOSE p \in ToSet(d.programmes) : \A q \in ToSet(d.programmes) : p <= q

FromProgramme(d, given) ==
  IF d.programmes = <<>> /\ d.contents = <<>> THEN <<Selection(None, None, <<>>)>>
  ELSE LET programme == SelectProgramme(d, given)
       IN  IF programme = None THEN SelectObjectPaths(d, None, None)
           ELSE FlattenSeq([i \in DOMAIN d.programmeContents[programme] |->
                  SelectObjectPaths(d, programme, d.programmeContents[programme][i])])

\* SelectStartVisitor
Selections(d, s) ==
  CASE s.kind = "default"   -> FromProgramme(d, None)
    [] s.kind = "programme" -> FromProgramme(d, s.programme)
    [] s.kind = "contents"  ->
         FlattenSeq([i \in DOMAIN s.from |-> SelectObjectPaths(d, None, s.from[i])])
    [] s.kind = "objects"   ->
         LET paths == ObjectPaths(d, s.from)
         IN  [i \in DOMAIN paths |-> Selection(None, None, paths[i])]

-----------------------------------------------------------------------------
(* Tracks, packs and channels. *)

\* channel_format_for_track_uid(); None if it throws
ChannelOf(d, t) ==
  LET direct == d.channel[t]
      indirect == d.viaFormat[t]
  IN  IF \/ indirect = NoStream
         \/ direct # None /\ indirect # None /\ direct # indirect
      THEN None
      ELSE IF indirect # None THEN indirect ELSE direct

\* The channels of a pack and of the packs in it, each with the way there.
PackChannels(d, pack) ==
  LET paths == PathsFrom(d.subPacks, pack)
  IN  FlattenSeq([i \in DOMAIN paths |->
        LET channels == d.packChannels[Last(paths[i])]
        IN  [j \in DOMAIN channels |-> [format |-> channels[j], path |-> paths[i]]]])

AllocationPack(d, pack) ==
  LET channels == PackChannels(d, pack)
  IN  [root |-> pack,
       channels |-> [c \in DOMAIN channels |->
                       [format |-> channels[c].format, packs |-> ToSet(channels[c].path)]]]

\* Silent tracks are told from others in an object only; in a file without
\* objects all tracks are taken.
ObjectTracks(d, sel) ==
  IF sel.objects = <<>> THEN d.tracks ELSE d.objectTracks[Last(sel.objects)]

TracksOf(d, sel) ==
  LET Taken(t) == sel.objects = <<>> \/ t \notin d.silent
  IN  SelectSeq(ObjectTracks(d, sel), Taken)

AllocationProblem(d, sel) ==
  LET tracks == TracksOf(d, sel)
  IN  [packs |-> [k \in DOMAIN d.packs |-> AllocationPack(d, d.packs[k])],
       tracks |-> [t \in DOMAIN tracks |->
                     [format |-> ChannelOf(d, tracks[t]), pack |-> d.pack[tracks[t]]]],
       refs |-> IF sel.objects = <<>> THEN NoRefs ELSE d.objectPacks[Last(sel.objects)],
       silent |-> Len(ObjectTracks(d, sel)) - Len(tracks)]

\* Fault: tracks are looked up with the silent ones among them.
AllocationWithSilent(d, sel, part) ==
  LET channels == problem.packs[part.pack].channels
  IN  [f \in {channels[c].format : c \in DOMAIN channels} |->
         LET t == part.at[CHOOSE c \in DOMAIN channels : channels[c].format = f]
         IN  IF t = Free THEN None ELSE ObjectTracks(d, sel)[t]]

\* channel_allocation: a map, so that a channel has one track
ChannelAllocation(d, sel, part) ==
  LET channels == problem.packs[part.pack].channels
      formats  == {channels[c].format : c \in DOMAIN channels}
      LastOf(f) == CHOOSE c \in DOMAIN channels :
                     /\ channels[c].format = f
                     /\ \A b \in DOMAIN channels : channels[b].format = f => b <= c
  IN  [f \in formats |->
         LET t == part.at[LastOf(f)]
         IN  IF t = Free THEN None ELSE TracksOf(d, sel)[t]]

\* The paths of a document end in an object of it, and its elements are packs and
\* channels, for which tracks are what select_pack_mapping() looks up.
ASSUME DocumentsAssumption ==
  \A d \in Documents : \A s \in Starts[d] :
    LET selections == Selections(d, s)
    IN  /\ selections \in Seq(ToSet(selections))
        /\ \A sel \in ToSet(selections) :
             /\ sel.objects # <<>> => Last(sel.objects) \in ToSet(d.objects)
             /\ (\A t \in ToSet(TracksOf(d, sel)) : ChannelOf(d, t) # None)
                  => IsProblem(AllocationProblem(d, sel))

-----------------------------------------------------------------------------
(* Items. *)

\* The channels of an allocated pack with their tracks; None is silence.
PackItems(d, sel, part) ==
  LET channels == PackChannels(d, problem.packs[part.pack].root)
  IN  [c \in DOMAIN channels |->
         [track |-> ChannelAllocation(d, sel, part)[channels[c].format],
          path  |-> [selection |-> sel, packs |-> channels[c].path,
                     channel |-> channels[c].format]]]

Values(d, elements, parameter) ==
  {v \in {p[3] : p \in d.parameters} :
     \E e \in elements : <<e, parameter, v>> \in d.parameters}

PathParameters  == {"normalization", "nfcRefDist", "screenRef"}
BlockParameters == {"rtime", "duration"}

ChannelParameter(d, path, parameter) ==
  Values(d, {path.channel} \cup
            (IF parameter \in PathParameters THEN ToSet(path.packs) ELSE {}),
         parameter)

\* value_or() and unwrap_nfcRefDist(): some values mean the same as none
WithDefault(values) == values \ {"SN3D", "zero", "false"}

\* get_rendering_items_HOA() does not throw
HOAItemOK(d, channels) ==
  /\ \A c \in DOMAIN channels :
       LET path == channels[c].path
       IN  /\ d.blocks[path.channel] = 1
           /\ \A p \in PathParameters :
                Cardinality(ChannelParameter(d, path, p)) <= 1
           /\ \A p \in {"order", "degree"} : Values(d, {path.channel}, p) # {}
  /\ \A b, c \in DOMAIN channels : \A p \in PathParameters \cup BlockParameters :
       WithDefault(ChannelParameter(d, channels[b].path, p))
         = WithDefault(ChannelParameter(d, channels[c].path, p))

PackType(d, part) == d.type[problem.packs[part.pack].root]

\* get_rendering_items() does not throw
PackOK(d, sel, part) ==
  \/ PackType(d, part) \in {"Objects", "DirectSpeakers"}
  \/ PackType(d, part) = "HOA" /\ HOAItemOK(d, PackItems(d, sel, part))

GetRenderingItems(d, sel, part) ==
  LET channels == PackItems(d, sel, part)
  IN  IF PackType(d, part) = "HOA" THEN <<[type |-> "HOA", channels |-> channels]>>
      ELSE [c \in DOMAIN channels |->
              [type |-> PackType(d, part), channels |-> <<channels[c]>>]]

-----------------------------------------------------------------------------
RIInit ==
  /\ doc \in Documents /\ start \in Starts[doc]
  /\ phase = "select" /\ items = <<>>
  /\ agenda = Selections(doc, start)
  /\ problem = None /\ calls = <<>> /\ results = <<>>

\* select_pack_mapping(), up to the call of allocate_packs()
SelectPackMapping ==
  /\ phase = "select" /\ agenda # <<>>
  /\ LET sel == Head(agenda)
     IN  IF \E t \in ToSet(TracksOf(doc, sel)) : ChannelOf(doc, t) = None
         THEN phase' = "failed" /\ UNCHANGED allocVars
         ELSE phase' = "allocate" /\ StartSearch(AllocationProblem(doc, sel))
  /\ UNCHANGED <<doc, start, agenda, items>>

AllocatePacks ==
  /\ phase = "allocate" /\ AllocNext
  /\ UNCHANGED itemVars

\* The rest of select_pack_mapping(), with the items of its packs.
FinishMapping ==
  /\ phase = "allocate" /\ calls = <<>>
  /\ IF Len(results) = 1 /\ \A i \in DOMAIN results[1] : PackOK(doc, Head(agenda), results[1][i])
     THEN /\ items' = items \o FlattenSeq(
                 [i \in DOMAIN results[1] |->
                    GetRenderingItems(doc, Head(agenda), results[1][i])])
          /\ agenda' = Tail(agenda) /\ phase' = "select"
     ELSE phase' = "failed" /\ UNCHANGED <<items, agenda>>
  /\ UNCHANGED <<doc, start, allocVars>>

ReturnItems ==
  /\ phase = "select" /\ agenda = <<>>
  /\ phase' = "done"
  /\ UNCHANGED <<doc, start, agenda, items, allocVars>>

\* Nothing happens after the call has returned, and a search that is stuck before
\* is a deadlock.
Returned == phase \in {"done", "failed"} /\ UNCHANGED riVars

RINext ==
  SelectPackMapping \/ AllocatePacks \/ FinishMapping \/ ReturnItems \/ Returned
RISpec == RIInit /\ [][RINext]_riVars

-----------------------------------------------------------------------------
(* Properties. *)

\* Each search of select_pack_mapping() returns what SearchFindsAll asks for: no
\* file counts as ambiguous, or as impossible, that is not.
AllocationsFound == phase = "allocate" => SearchFindsAll

\* The channels of all items made for a selection.
ChannelsOf(sel) ==
  UNION {{<<i, c>> : c \in {b \in DOMAIN items[i].channels :
                              items[i].channels[b].path.selection = sel}} :
         i \in DOMAIN items}

At(ic) == items[ic[1]].channels[ic[2]]

\* Nothing is lost between a file and its items: each track of an object that
\* is reached is in one item for each path to that object, with the channel the
\* track refers to, on a path through the pack it refers to; what is silent in
\* the items of a path is as much as is silent in the object.  That is what
\* AllocationChannel and AllocatedPack say of each channel (pack_allocation.hpp).
\* It holds of packs that reach each of their channels on one way, and not of
\* others, of which ChannelAllocation keeps the last track for a channel only.
EveryTrackRendered ==
  phase = "done" =>
    \A sel \in ToSet(Selections(doc, start)) :
      LET tracks == TracksOf(doc, sel)
      IN  /\ \A t \in DOMAIN tracks :
               Cardinality({ic \in ChannelsOf(sel) : At(ic).track = tracks[t]}) = 1
          /\ \A ic \in ChannelsOf(sel) : At(ic).track # None =>
               /\ At(ic).path.channel = ChannelOf(doc, At(ic).track)
               /\ doc.pack[At(ic).track] \in ToSet(At(ic).path.packs)
          /\ Cardinality({ic \in ChannelsOf(sel) : At(ic).track = None})
               = AllocationProblem(doc, sel).silent
=============================================================================
