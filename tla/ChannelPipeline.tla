--------------------------- MODULE ChannelPipeline --------------------------
(***************************************************************************)
(* From file to file through RemoveUnused: an ADM file is read, elements   *)
(* that no programme leads to are removed, the channels of the tracks that *)
(* are left are put side by side, and the result is written.               *)
(*                                                                         *)
(* Metadata and audio go separate ways in between: the metadata through    *)
(* functional processes, the samples in blocks through streaming ones.  The *)
(* channel map and the channel mapping are all that holds them together.   *)
(*                                                                         *)
(* A document is a record                                                  *)
(*   elements    its elements; track UIDs are numbers, and their order is  *)
(*               that of the numbers                                       *)
(*   programmes  those that are an audioProgramme                          *)
(*   tracks, silent  audioTrackUIDs, and those of them that are silent     *)
(*   common      elements of the common definitions                        *)
(*   refs        pairs of elements of which the first refers to the second *)
(***************************************************************************)
EXTENDS Naturals, Sequences, FiniteSets, SequencesExt, FiniteSetsExt

CONSTANTS
  Documents,
  Uids,         \* track UIDs that occur in a CHNA chunk
  FileChannels, FileFrames, BlockSize,
  Sharing,      \* rows of the CHNA chunk may share a channel
  MaxRows       \* a bound on the CHNA chunk

VARIABLES
  stage,       \* the metadata process that runs next, or how it ended
  doc,         \* the document
  channelMap,  \* ADMData::channel_map
  loaded,      \* channelMap and doc as they came from the file
  rows,        \* rows read of the CHNA chunk
  mapping,     \* the ChannelMapping, a sequence of input channels
  framesRead, closed,   \* AudioReader
  inBlocks, outBlocks,  \* the streams into and out of ApplyChannelMapping
  written,     \* the samples of the new file, frame by frame
  chna         \* its CHNA chunk

metadataVars == <<stage, doc, channelMap, loaded, rows, mapping, chna>>
audioVars    == <<framesRead, closed, inBlocks, outBlocks, written>>
vars         == <<metadataVars, audioVars>>

Channels == 0 .. FileChannels - 1

IsDocument(d) ==
  /\ DOMAIN d = {"elements", "programmes", "tracks", "silent", "common", "refs"}
  /\ d.programmes \cup d.tracks \cup d.common \subseteq d.elements
  /\ d.silent \subseteq d.tracks
  /\ d.tracks \subseteq Nat
  /\ d.refs \subseteq d.elements \X d.elements
  /\ IsFiniteSet(d.elements)

ASSUME PipelineAssumption ==
  /\ \A d \in Documents : IsDocument(d)
  /\ Uids \subseteq Nat /\ FileChannels \in Nat /\ FileFrames \in Nat
  /\ BlockSize \in Nat \ {0} /\ MaxRows \in Nat /\ Sharing \in BOOLEAN

Init ==
  /\ doc \in Documents
  /\ stage = "load" /\ rows = 0
  /\ channelMap = <<>> /\ loaded = [doc |-> doc, channelMap |-> <<>>]
  /\ mapping = <<>>
  /\ framesRead = 0 /\ closed = FALSE
  /\ inBlocks = <<>> /\ outBlocks = <<>>
  /\ written = <<>> /\ chna = {}

-----------------------------------------------------------------------------
\* load_chna()

WithTrack(uid) == [doc EXCEPT !.elements = @ \cup {uid}, !.tracks = @ \cup {uid}]

\* A row of the CHNA chunk.  A UID that the document does not have is created;
\* whether setReference() adds it to the document is the library's choice.  Rows
\* name channels that the file has: load_chna() takes any other number as well.
LoadRow ==
  /\ stage = "load" /\ rows < MaxRows
  /\ rows' = rows + 1
  /\ \E uid \in Uids, c \in Channels :
       /\ Sharing \/ \A other \in DOMAIN channelMap : channelMap[other] = c => other = uid
       /\ channelMap' = [u \in DOMAIN channelMap \cup {uid} |->
                           IF u = uid THEN c ELSE channelMap[u]]
       /\ doc' \in {doc, WithTrack(uid)}
  /\ loaded' = [doc |-> doc', channelMap |-> channelMap']
  /\ UNCHANGED <<stage, mapping, chna, audioVars>>

\* A row that contradicts the document, or refers to an element it lacks.
LoadThrows ==
  /\ stage = "load" /\ rows < MaxRows
  /\ stage' = "thrown"
  /\ UNCHANGED <<doc, channelMap, loaded, rows, mapping, chna, audioVars>>

EndLoad ==
  /\ stage = "load"
  /\ stage' = "remove"
  /\ UNCHANGED <<doc, channelMap, loaded, rows, mapping, chna, audioVars>>

-----------------------------------------------------------------------------
\* RemoveUnusedElements

\* A fault: only what programmes refer to themselves.
ReferencedDirectly(d) ==
  d.programmes \cup {r[2] : r \in {q \in d.refs : q[1] \in d.programmes}}

\* The programmes and what add_referenced_elements() adds to them.
Referenced(d) ==
  {e \in d.elements :
     \A S \in SUBSET d.elements :
       d.programmes \subseteq S /\ (\A r \in d.refs : r[1] \in S => r[2] \in S) => e \in S}

\* remove_not_in_set()
WithoutUnused ==
  LET kept == Referenced(doc) \cup doc.common
  IN  [doc EXCEPT !.elements = @ \cap kept, !.programmes = @ \cap kept,
                  !.tracks = @ \cap kept, !.silent = @ \cap kept, !.common = @ \cap kept,
                  !.refs = @ \cap (kept \X kept)]

\* A fault: the channel map keeps what the document has lost.
RemoveElementsOnly ==
  /\ stage = "remove"
  /\ doc' = WithoutUnused
  /\ stage' = "repack"
  /\ UNCHANGED <<channelMap, loaded, rows, mapping, chna, audioVars>>

RemoveUnusedElements ==
  /\ stage = "remove"
  /\ doc' = WithoutUnused
  /\ channelMap' = [u \in DOMAIN channelMap \cap doc'.tracks |-> channelMap[u]]
  /\ stage' = "repack"
  /\ UNCHANGED <<loaded, rows, mapping, chna, audioVars>>

-----------------------------------------------------------------------------
\* RepackChannels

\* uids_for_channels: the last UID in the order of the map.
UidForChannel(c) == Max({u \in DOMAIN channelMap : channelMap[u] = c})

UsedChannels == {channelMap[u] : u \in DOMAIN channelMap}

\* out_channel when the loop gets to channel c.
OutChannel(c) == Cardinality({d \in UsedChannels : d < c})

RepackChannels ==
  /\ stage = "repack"
  /\ mapping' = [k \in 1 .. Cardinality(UsedChannels) |->
                   CHOOSE c \in UsedChannels : OutChannel(c) = k - 1]
  /\ channelMap' = [u \in {UidForChannel(c) : c \in UsedChannels} |-> OutChannel(channelMap[u])]
  /\ stage' = "stream"
  /\ UNCHANGED <<doc, loaded, rows, chna, audioVars>>

-----------------------------------------------------------------------------
\* The samples.  A sample is a pair of the channel and the frame it comes from.

\* AudioReader: a block of at most BlockSize frames, or the end.
Read ==
  /\ stage = "stream" /\ ~closed
  /\ LET n == IF FileFrames - framesRead < BlockSize THEN FileFrames - framesRead
                                                     ELSE BlockSize
         Frame(k) == [c \in 1 .. FileChannels |-> <<c - 1, framesRead + k>>]
     IN  IF n > 0
           THEN /\ inBlocks' = Append(inBlocks, [k \in 1 .. n |-> Frame(k)])
                /\ framesRead' = framesRead + n
                /\ UNCHANGED closed
           ELSE closed' = TRUE /\ UNCHANGED <<inBlocks, framesRead>>
  /\ UNCHANGED <<metadataVars, outBlocks, written>>

\* A fault: mapping[input channel] is taken for the output channel.
ApplyInverse(frame) ==
  [k \in DOMAIN mapping |->
     IF \E c \in DOMAIN mapping : mapping[c] + 1 = k
       THEN frame[CHOOSE c \in DOMAIN mapping : mapping[c] + 1 = k] ELSE frame[k]]

MapFrame(frame) == [k \in DOMAIN mapping |-> frame[mapping[k] + 1]]

\* ApplyChannelMapping: all blocks there are.
ApplyMapping ==
  /\ stage = "stream" /\ inBlocks # <<>>
  /\ outBlocks' = outBlocks \o
       [b \in DOMAIN inBlocks |-> [k \in DOMAIN inBlocks[b] |-> MapFrame(inBlocks[b][k])]]
  /\ inBlocks' = <<>>
  /\ UNCHANGED <<metadataVars, framesRead, closed, written>>

\* AudioWriter: all blocks there are.
Write ==
  /\ stage = "stream" /\ outBlocks # <<>>
  /\ written' = written \o FlattenSeq(outBlocks)
  /\ outBlocks' = <<>>
  /\ UNCHANGED <<metadataVars, framesRead, closed, inBlocks>>

EndStream ==
  /\ stage = "stream" /\ closed /\ inBlocks = <<>> /\ outBlocks = <<>>
  /\ stage' = "write"
  /\ UNCHANGED <<doc, channelMap, loaded, rows, mapping, chna, audioVars>>

-----------------------------------------------------------------------------
\* make_chna(), for the channels of the file just written.  It also throws for a
\* track that refers to no pack, or to no channel or track format; each track
\* that is left in channelMap was given both by load_chna().
MakeChna ==
  /\ stage = "write"
  /\ LET audible == doc.tracks \ doc.silent
     IN  IF audible \subseteq DOMAIN channelMap
           THEN /\ chna' = {[uid |-> u, trackIndex |-> channelMap[u] + 1] : u \in audible}
                /\ stage' = "done"
           ELSE stage' = "thrown" /\ UNCHANGED chna
  /\ UNCHANGED <<doc, channelMap, loaded, rows, mapping, audioVars>>

Next ==
  \/ LoadRow \/ LoadThrows \/ EndLoad \/ RemoveUnusedElements \/ RepackChannels
  \/ Read \/ ApplyMapping \/ Write \/ EndStream \/ MakeChna

Spec == Init /\ [][Next]_vars
-----------------------------------------------------------------------------

\* A track in the new file has all the samples it had in the old one, in order,
\* wherever its channel is now.
TracksKeepSamples ==
  stage = "done" => \A row \in chna :
    [k \in DOMAIN written |-> written[k][row.trackIndex]]
      = [k \in 1 .. FileFrames |-> <<loaded.channelMap[row.uid], k>>]

\* The tracks that a programme leads to, in as many steps as there are elements.
TracksOfProgrammes(d) ==
  LET reached[n \in 0 .. Cardinality(d.elements)] ==
        IF n = 0 THEN d.programmes
        ELSE LET before == reached[n - 1]
             IN  before \cup {r[2] : r \in {q \in d.refs : q[1] \in before}}
  IN  d.tracks \cap (d.common \cup reached[Cardinality(d.elements)])

\* What a programme leads to is written, and make_chna() does not fail for a
\* track that had a channel in the file.  RemoveUnused "removes unused elements
\* and the channels they references" (remove_unused.cpp:177-179).
UsedTracksKept ==
  LET used == TracksOfProgrammes(loaded.doc) \ loaded.doc.silent
  IN  /\ stage = "done" => {row.uid : row \in chna} = used
      /\ stage \in {"stream", "write"} =>
           (used \subseteq DOMAIN channelMap <=> used \subseteq DOMAIN loaded.channelMap)

\* The new file has no channel that no track of a programme uses.
NoUnusedChannels ==
  stage = "done" =>
    {channelMap[u] : u \in DOMAIN channelMap \cap TracksOfProgrammes(loaded.doc)}
      = 0 .. Len(mapping) - 1
=============================================================================
