------------------------- MODULE ProfileConversion -------------------------
(***************************************************************************)
(* The conversion of a document towards the emission profile: the          *)
(* processes of profile_conversion_misc.cpp, misc.cpp and                  *)
(* limit_interaction.cpp that change metadata, in the chain a              *)
(* configuration file puts them in (example_configs/conform_to_emission),  *)
(* and the profile validator of validate.cpp.  Each process takes a        *)
(* document from its input port and gives the changed one to the next: an  *)
(* action changes the whole document, or throws, which ends the run.       *)
(*                                                                         *)
(* Parameters that may be missing are sets of at most one value, as in     *)
(* InteractionLimits.  Times are integers.  The map takes the              *)
(* audioTrackUIDs to channels of the audio, counted from 0.  The blocks'   *)
(* own conversions (remove_jump_position, resample_blocks) are in          *)
(* BlockTimes, and item selection in RenderingItems.                       *)
(***************************************************************************)
EXTENDS InteractionLimits, ContentRewrite

CONSTANTS
    Inputs,        \* documents (with the number of channels of the audio), each with a chain
    PackChannels   \* the channels of each pack, a set

VARIABLES
    original,  \* the input: a document and a chain
    doc,       \* the document, as the last process has left it
    chain,     \* the processes that have not run yet
    stage      \* "running", "done", "threw" or "undefined"

vars == <<original, doc, chain, stage>>

Only(set) == CHOOSE x \in set : TRUE
OrZero(time) == IF time = {} THEN 0 ELSE Only(time)

----------------------------------------------------------------------------
(* The steps of a chain. *)

Turn(name) == stage = "running" /\ chain # <<>> /\ Head(chain) = name

Result(d) ==
    /\ doc' = d
    /\ chain' = Tail(chain)
    /\ stage' = IF chain' = <<>> THEN "done" ELSE "running"
    /\ UNCHANGED original

Stop(how) == stage' = how /\ UNCHANGED <<original, doc, chain>>

(* example_configs/conform_to_emission.json; the conversions of blocks are   *)
(* left out.                                                                *)
WholeChain ==
    <<"add_block_rtimes", "convert_track_stream_to_channel", "remove_object_times_data_safe",
      "remove_object_times_common_unsafe", "set_position_defaults", "remove_importance",
      "limit_interaction", "rewrite_content_objects_emission", "infer_object_interact",
      "set_content_dialogue_default", "set_profiles", "set_version", "remove_silent_atu">>

----------------------------------------------------------------------------
(* Tracks and channels *)

(* channel_format_for_track_uid() *)
ChannelOf(d, t) == IF d.tracks[t].channel # {} THEN d.tracks[t].channel ELSE d.tracks[t].format

RealTracks(d, o) == {t \in d.objects[o].tracks : ~d.tracks[t].silent}
SilentTracks(d, o) == d.objects[o].tracks \ RealTracks(d, o)
Uses(d, o) == UNION {ChannelOf(d, t) : t \in RealTracks(d, o)}

(* convert_track_stream_to_channel: it also meets the silent audioTrackUID, *)
(* which refers to nothing.                                                 *)
ConvertTrackStreamToChannel ==
    /\ Turn("convert_track_stream_to_channel")
    /\ LET found == {t \in DOMAIN doc.tracks : doc.tracks[t].channel = {}}
       IN IF \E t \in found : doc.tracks[t].format = {} THEN Stop("threw")
          ELSE Result([doc EXCEPT !.tracks =
                   [t \in DOMAIN @ |-> IF t \in found THEN [@[t] EXCEPT !.channel = doc.tracks[t].format, !.format = {}]
                                                      ELSE @[t]]])

(* remove_silent_atu, for one object: the tracks that item selection finds  *)
(* for the channels of the pack stay, and each other channel gets a new one *)
(* on the silent track.  Selection throws unless the tracks fit the pack    *)
(* (PackAllocation).  The new track of channel c is <<o, c>>.               *)
HasSilent(d) == {o \in DOMAIN d.objects : SilentTracks(d, o) # {}}

Allocated(d, o) ==
    LET p == Only(d.objects[o].packs)
    IN /\ Cardinality(d.objects[o].packs) = 1
       /\ Cardinality(d.objects[o].tracks) = Cardinality(PackChannels[p])
       /\ Uses(d, o) \subseteq PackChannels[p]
       /\ \A t \in RealTracks(d, o) : d.tracks[t].packs = {p}
       /\ Cardinality(Uses(d, o)) = Cardinality(RealTracks(d, o))

NewTracks(d, o) == {<<o, c>> : c \in PackChannels[Only(d.objects[o].packs)] \ Uses(d, o)}

(* use_channel_ref: if no track of the object refers to a channel, not even *)
(* one that is silent, the new ones refer to track formats.                 *)
UseChannelRef(d, o) == \E t \in d.objects[o].tracks : d.tracks[t].channel # {}

NewTrack(d, t) ==
    [silent |-> FALSE, packs |-> d.objects[t[1]].packs,
     channel |-> IF UseChannelRef(d, t[1]) THEN {t[2]} ELSE {},
     format |-> IF UseChannelRef(d, t[1]) THEN {} ELSE {t[2]}]

AllNew(d) == UNION {NewTracks(d, o) : o \in HasSilent(d)}

(* silent_track_idx: the size of the channel map before. *)
LastIndex(d) == Cardinality(DOMAIN d.map) - 1  \* a fault: off by one
SilentTrackIndex(d) == Cardinality(DOMAIN d.map)

RemoveSilentATU ==
    /\ Turn("remove_silent_atu")
    /\ IF \E o \in HasSilent(doc) : ~Allocated(doc, o) THEN Stop("threw")
       ELSE Result([doc EXCEPT
              !.objects = [o \in DOMAIN @ |->
                  IF o \in HasSilent(doc) THEN [@[o] EXCEPT !.tracks = RealTracks(doc, o) \cup NewTracks(doc, o)]
                                          ELSE @[o]],
              !.tracks = [t \in DOMAIN @ \cup AllNew(doc) |->
                             IF t \in AllNew(doc) THEN NewTrack(doc, t) ELSE @[t]],
              !.map = [t \in DOMAIN @ \cup AllNew(doc) |->
                             IF t \in AllNew(doc) THEN SilentTrackIndex(doc) ELSE @[t]],
              !.audio = IF AllNew(doc) = {} THEN @ ELSE @ + 1])  \* AddSilentTrack, on the samples

----------------------------------------------------------------------------
(* Times *)

(* add_block_rtimes *)
AddBlockRtimes ==
    /\ Turn("add_block_rtimes")
    /\ Result([doc EXCEPT !.channels = [c \in DOMAIN @ |-> [@[c] EXCEPT !.blocks =
           [i \in DOMAIN @ |-> IF @[i].rtime = {} /\ @[i].dur # {} THEN [@[i] EXCEPT !.rtime = {0}]
                                                                    ELSE @[i]]]]])

(* group_objects_and_channels(): the objects connected to o by channels that *)
(* both use.                                                                *)
Group(d, o) ==
    LET grown[n \in 0 .. Cardinality(DOMAIN d.objects)] ==
          IF n = 0 THEN {o}
          ELSE {p \in DOMAIN d.objects : \E q \in grown[n - 1] : p = q \/ Uses(d, p) \cap Uses(d, q) # {}}
    IN grown[Cardinality(DOMAIN d.objects)]

GroupChannels(d, group) == UNION {Uses(d, o) : o \in group}

SameStart(d, group) ==  \* a fault: the durations are not compared
    \A o, p \in group : OrZero(d.objects[o].start) = OrZero(d.objects[p].start)

SameTimes(d, group) ==
    \A o, p \in group : /\ OrZero(d.objects[o].start) = OrZero(d.objects[p].start)
                        /\ d.objects[o].dur = d.objects[p].dur

(* process_group(): the times of the objects go to the blocks, unless the   *)
(* returns at its start are taken.                                          *)
Movable(d, group) ==
    /\ \A c \in GroupChannels(d, group) : ~d.channels[c].common
    /\ SameTimes(d, group)
    /\ \E o \in group : d.objects[o].start # {} \/ d.objects[o].dur # {}

Moved(d) == {o \in DOMAIN d.objects : Movable(d, Group(d, o))}
MovedBlocks(d, o) == UNION {Range(d.channels[c].blocks) : c \in Uses(d, o)}

MoveTimes(block, o) ==
    IF block.rtime # {} THEN [block EXCEPT !.rtime = {Only(@) + OrZero(o.start)}]
    ELSE [rtime |-> {OrZero(o.start)}, dur |-> o.dur]

NoTimes(d, objects) ==
    [o \in DOMAIN d.objects |-> IF o \in objects THEN [d.objects[o] EXCEPT !.start = {}, !.dur = {}]
                                                 ELSE d.objects[o]]

(* A block with one of its times only is an error.  One with none gets the  *)
(* duration of the object, which is read even if it has none.               *)
RemoveObjectTimesDataSafe ==
    /\ Turn("remove_object_times_data_safe")
    /\ IF \E o \in Moved(doc) : \E b \in MovedBlocks(doc, o) : (b.rtime = {}) # (b.dur = {}) THEN Stop("threw")
       ELSE IF \E o \in Moved(doc) : doc.objects[o].dur = {} /\ \E b \in MovedBlocks(doc, o) : b.dur = {}
       THEN Stop("undefined")
       ELSE Result([doc EXCEPT
              !.objects = NoTimes(doc, Moved(doc)),
              !.channels = [c \in DOMAIN @ |-> [@[c] EXCEPT !.blocks = [i \in DOMAIN @ |->
                  IF \E o \in Moved(doc) : c \in Uses(doc, o)
                  THEN MoveTimes(@[i], doc.objects[CHOOSE o \in Moved(doc) : c \in Uses(doc, o)])
                  ELSE @[i]]]]])

(* remove_object_times_common_unsafe: also of an object without real tracks. *)
RemoveObjectTimesCommonUnsafe ==
    /\ Turn("remove_object_times_common_unsafe")
    /\ Result([doc EXCEPT !.objects =
           NoTimes(doc, {o \in DOMAIN @ : \A c \in Uses(doc, o) : doc.channels[c].common})])

----------------------------------------------------------------------------
(* Parameters of the elements *)

SetPositionDefaults ==
    /\ Turn("set_position_defaults")
    /\ Result([doc EXCEPT !.channels = [c \in DOMAIN @ |-> [@[c] EXCEPT !.position = TRUE]]])

RemoveImportance ==
    /\ Turn("remove_importance")
    /\ Result([doc EXCEPT !.objects = [o \in DOMAIN @ |-> [@[o] EXCEPT !.importance = FALSE]],
                          !.channels = [c \in DOMAIN @ |-> [@[c] EXCEPT !.importance = FALSE]]])

LimitInteraction ==
    /\ Turn("limit_interaction")
    /\ IF \E o \in DOMAIN doc.objects : LimitObject(doc.objects[o]) = {} THEN Stop("undefined")
       ELSE Result([doc EXCEPT !.objects = [o \in DOMAIN @ |-> Only(LimitObject(@[o]))]])

RewriteContentObjects ==
    /\ Turn("rewrite_content_objects_emission")
    /\ IF RewriteThrows(doc) THEN Stop("threw") ELSE Result(Rewrite(doc))

InferFromPresent(o) ==  \* a fault: an object without interaction is left
    IF o.interaction # {} THEN {TRUE} ELSE o.interact
Inferred(o) == IF o.interact = {} THEN {o.interaction # {}} ELSE o.interact

InferObjectInteract ==
    /\ Turn("infer_object_interact")
    /\ Result([doc EXCEPT !.objects = [o \in DOMAIN @ |-> [@[o] EXCEPT !.interact = Inferred(doc.objects[o])]]])

SetContentDialogueDefault ==
    /\ Turn("set_content_dialogue_default")
    /\ Result([doc EXCEPT !.contents = [c \in DOMAIN @ |-> [@[c] EXCEPT !.dialogue = TRUE]]])

(* set_profiles changes nothing that is read; set_version does. *)
SetProfiles == Turn("set_profiles") /\ Result(doc)
SetVersion == Turn("set_version") /\ Result([doc EXCEPT !.version = TRUE])

----------------------------------------------------------------------------
(* make_emission_profile_validator(0): the checks that fail. *)
Checks(d) ==
    [elements     |-> /\ DOMAIN d.programmes # {} /\ DOMAIN d.contents # {}
                     /\ DOMAIN d.objects # {} /\ DOMAIN d.tracks # {},
     contents     |-> \A p \in DOMAIN d.programmes : d.programmes[p] # <<>>,
     tracks       |-> \A o \in DOMAIN d.objects : d.objects[o].tracks # {},
     version      |-> d.version,
     oneObject    |-> \A c \in DOMAIN d.contents : Len(d.contents[c].objects) = 1,
     onePack      |-> \A o \in DOMAIN d.objects : Cardinality(d.objects[o].packs) <= 1,
     trackPack    |-> \A t \in DOMAIN d.tracks : Cardinality(d.tracks[t].packs) = 1,
     trackChannel |-> \A t \in DOMAIN d.tracks : d.tracks[t].channel # {} /\ d.tracks[t].format = {},
     nested       |-> ContentOrNested(d),
     dialogue     |-> \A c \in DOMAIN d.contents : d.contents[c].dialogue,
     interact     |-> \A o \in DOMAIN d.objects : d.objects[o].interact # {},
     times        |-> \A o \in DOMAIN d.objects : d.objects[o].start = {} /\ d.objects[o].dur = {},
     noDialogue   |-> \A o \in DOMAIN d.objects : ~d.objects[o].dialogue,
     importance   |-> \A o \in DOMAIN d.objects : ~d.objects[o].importance,
     position     |-> \A c \in DOMAIN d.channels : d.channels[c].position]

Failing(d) == {check \in DOMAIN Checks(d) : ~Checks(d)[check]}

Validate ==
    /\ Turn("validate")
    /\ IF Failing(doc) # {} THEN Stop("threw") ELSE Result(doc)

----------------------------------------------------------------------------
Init ==
    /\ original \in Inputs
    /\ doc = original.doc
    /\ chain = original.chain
    /\ stage = "running"

(* The run is over: evaluate() returned or threw. *)
Returned == stage # "running" /\ UNCHANGED vars

Next ==
    \/ AddBlockRtimes \/ ConvertTrackStreamToChannel
    \/ RemoveObjectTimesDataSafe \/ RemoveObjectTimesCommonUnsafe
    \/ SetPositionDefaults \/ RemoveImportance \/ LimitInteraction
    \/ RewriteContentObjects \/ InferObjectInteract \/ SetContentDialogueDefault
    \/ SetProfiles \/ SetVersion \/ RemoveSilentATU \/ Validate
    \/ Returned

Spec == Init /\ [][Next]_vars

----------------------------------------------------------------------------
Timing == INSTANCE RenderTiming

(* What the renderer plays of channel c on object o, unless it throws. *)
Played(d, o, c) ==
    IF Timing!TimingOK(d.objects[o], d.channels[c].blocks)
    THEN {Timing!BlockPoints(d.objects[o], d.channels[c].blocks)} ELSE {}

(* remove_object_times_data_safe moves the times of objects into the blocks  *)
(* of channels that several objects may share, but "doesn't potentially      *)
(* change the rendering" (profile_conversion_misc.hpp): what the renderer    *)
(* played of an object before, it plays at the same times afterwards.        *)
TimesKept ==
    [][Turn("remove_object_times_data_safe") /\ stage' # "threw" /\ stage' # "undefined"
       => \A o \in DOMAIN doc.objects : \A c \in Uses(doc, o) :
             Played(doc, o, c) # {} => Played(doc', o, c) = Played(doc, o, c)]_vars

(* rewrite_content_objects_emission breaks objects and contents up until     *)
(* what the programmes refer to has the structure that the profile asks for, *)
(* and each programme still has all of its objects that have tracks.         *)
StructureKept ==
    [][Turn("rewrite_content_objects_emission") /\ stage' # "threw"
       => /\ EmissionStructure(doc')
          /\ \A p \in DOMAIN doc.programmes : ProgrammeLeaves(doc', p) = ProgrammeLeaves(doc, p)]_vars

(* After limit_interaction nothing that a listener may change goes beyond    *)
(* the limits of the configuration, and of what did not, nothing has moved.  *)
InteractionLimited ==
    [][Turn("limit_interaction") /\ stage' # "undefined"
       => \A o \in DOMAIN doc'.objects : \A j \in doc'.objects[o].interaction :
             InteractionWithin(j) /\ \A i \in doc.objects[o].interaction : RangesKept(i, j)]_vars

(* remove_silent_atu: if every channel of the audio had one audioTrackUID,   *)
(* each new track plays the channel that AddSilentTrack appends; an object   *)
(* keeps its real tracks, and has one for each channel of its pack.          *)
EachChannelHasOneTrack(d) ==
    /\ {d.map[t] : t \in DOMAIN d.map} = 0 .. d.audio - 1
    /\ \A t, u \in DOMAIN d.map : d.map[t] = d.map[u] => t = u

SilentTracksAreSilent ==
    [][Turn("remove_silent_atu") /\ stage' # "threw" /\ EachChannelHasOneTrack(doc)
       => /\ \A t \in DOMAIN doc'.map : doc'.map[t] < doc'.audio
          /\ \A t \in DOMAIN doc'.map \ DOMAIN doc.map : doc'.map[t] = doc.audio
          /\ \A o \in HasSilent(doc) :
                /\ RealTracks(doc, o) \subseteq doc'.objects[o].tracks
                /\ Uses(doc', o) = PackChannels[Only(doc.objects[o].packs)]
                /\ Cardinality(doc'.objects[o].tracks) = Cardinality(Uses(doc', o))]_vars

(* A document that has passed the whole chain fails no check that it passed  *)
(* before, and none of those that the chain is there for, whatever a process *)
(* late in the chain adds (contents, tracks) or takes away (interact).       *)
Promised == {"version", "dialogue", "interact", "importance", "position", "trackChannel"}

ConversionConforms ==
    stage = "done" /\ original.chain = WholeChain
    => /\ Failing(doc) \cap Promised = {}
       /\ Failing(doc) \subseteq Failing(original.doc)
=============================================================================
