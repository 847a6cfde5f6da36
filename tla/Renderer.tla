------------------------------ MODULE Renderer ------------------------------
(***************************************************************************)
(* RendererProcess of render.cpp: select_items() on the document, then a   *)
(* stream of samples in blocks of any size.  An adapter hands samples to   *)
(* the renderers in blocks of one size, which makes its output late; the   *)
(* decorrelators make the Objects path later still, and a delay line keeps *)
(* the other paths in step with it.  The process drops the samples that    *)
(* come out before the first one has gone through, and feeds in silence at *)
(* the end until the last one has.                                         *)
(*                                                                         *)
(* What is heard is kept as a set for each output sample: the item, its    *)
(* channel, the input track and the number of the input sample.  Gains are *)
(* heard or not heard; their values are not modelled.                      *)
(***************************************************************************)
EXTENDS RenderingItems

Timing == INSTANCE RenderTiming

CONSTANTS
  Timings,         \* of each document: the times of objects and blocks, in
                   \* half samples, and the channel map; None: not rendered
  InputBlocks,     \* blocks of samples that may arrive: size, channels, rate
  SampleRate,
  BlockSize,       \* of the renderers
  Decorrelation,   \* decorrelatorCompensationDelay()
  MaxSamples       \* bound on the input

ASSUME RendererAssumption ==
  /\ BlockSize \in Nat \ {0} /\ Decorrelation \in Nat
  /\ None \notin Nat
  /\ \A b \in InputBlocks : b.size \in Nat

OptionalTime == {x \in SUBSET Nat : \A a, b \in x : a = b}
TimedObjects == [start : OptionalTime, dur : OptionalTime]
TimedBlocks  ==
  [rtime : OptionalTime, dur : OptionalTime, jump : BOOLEAN, interp : Nat, v : Nat]

ASSUME TimingsAssumption ==
  \A d \in Documents : \A t \in Timings[d] \ {None} :
    /\ \A o \in ToSet(d.objects) : t.objects[o] \in TimedObjects
    /\ \A f \in Formats : t.blocks[f] \in Seq(TimedBlocks)

VARIABLES
  timing,
  stage,           \* initialise, running, closed or failed
  chains,          \* items with their input tracks and interpolation points
  dsp,             \* the adapter, the delay lines and block_start
  received,        \* n_samples_processed
  inputChannels,   \* n_input_channels, or None
  out              \* the samples pushed

rendererVars == <<timing, stage, chains, dsp, received, inputChannels, out>>

-----------------------------------------------------------------------------
(* setup_rendering_items() *)

\* round(); times are in half samples.
Sample(t) == (t + 1) \div 2

\* get_object(): the last of the path.
ObjectOf(item) ==
  LET path == item.channels[1].path.selection.objects
  IN  IF path = <<>> THEN Timing!NoObject ELSE timing.objects[Last(path)]

BlocksOf(item) == timing.blocks[item.channels[1].path.channel]

\* The times of an item make sense, and its parameters are supported.
ItemOK(item) ==
  IF item.type = "Objects" THEN Timing!ObjectTimingOK(ObjectOf(item), BlocksOf(item))
  ELSE /\ Timing!TimingOK(ObjectOf(item), BlocksOf(item))
       /\ item.type = "HOA" =>
            WithDefault(ChannelParameter(doc, item.channels[1].path, "screenRef")) = {}

Chain(item) ==
  LET points == IF item.type = "Objects"
                THEN Timing!ObjectPoints(ObjectOf(item), BlocksOf(item))
                ELSE Timing!BlockPoints(ObjectOf(item), BlocksOf(item))
      indexOf(t) == IF t = None THEN {} ELSE {timing.map[t]}
  IN  [type   |-> item.type,
       tracks |-> [c \in DOMAIN item.channels |-> indexOf(item.channels[c].track)],
       points |-> [p \in DOMAIN points |-> [points[p] EXCEPT !.time = Sample(@)]]]

\* setup_input_channels() does not throw.
EnoughChannels(n) ==
  \A i \in DOMAIN chains : \A c \in DOMAIN chains[i].tracks :
    \A t \in chains[i].tracks[c] : t + 1 <= n

-----------------------------------------------------------------------------
(* process() of the renderers and of the adapter.  An input sample is its  *)
(* number; None is the silence fed in at the end.                          *)


\* The channels of an item, each with its track, at a position of the output.
HeardOf(i, position, sample) ==
  IF sample = None \/ ~Timing!Audible(chains[i].points, position) THEN {}
  ELSE UNION {{<<i, c, t, sample>> : t \in chains[i].tracks[c]} : c \in DOMAIN chains[i].tracks}

Mixed(types, position, sample) ==
  UNION {HeardOf(i, position, sample) : i \in {k \in DOMAIN chains : chains[k].type \in types}}

\* What a renderer adds to its delay line for a block.
MixedBlock(types, position, samples) ==
  [j \in DOMAIN samples |-> Mixed(types, position + j - 1, samples[j])]

NothingHeard(n) == [j \in 1 .. n |-> {}]

InitialDsp ==
  [start   |-> 0,                             \* block_start
   objects |-> NothingHeard(Decorrelation),   \* decorrelator_delay
   others  |-> NothingHeard(Decorrelation),   \* objects_comp_delay
   block   |-> NothingHeard(BlockSize),       \* of the adapter: output block
   filled  |-> <<>>,                          \* and input block
   output  |-> <<>>]                          \* of one call of the adapter

\* CombinedRenderer::process()
RenderFullBlock(d, samples) ==
  LET objects == d.objects \o MixedBlock({"Objects"}, d.start, samples)
      others  == d.others \o MixedBlock({"DirectSpeakers", "HOA"}, d.start, samples)
      Kept(line) == SubSeq(line, BlockSize + 1, BlockSize + Decorrelation)
  IN  [d EXCEPT !.start = @ + BlockSize,
                !.objects = Kept(objects), !.others = Kept(others),
                !.block = [j \in 1 .. BlockSize |-> objects[j] \cup others[j]]]

\* One sample goes into the input block, one comes from the output block.
AdaptSample(d, sample) ==
  LET filled == Append(d.filled, sample)
      next   == [d EXCEPT !.filled = filled,
                          !.output = Append(@, d.block[Len(filled)])]
  IN  IF Len(filled) < BlockSize THEN next
      ELSE [RenderFullBlock(next, filled) EXCEPT !.filled = <<>>]

\* VariableBlockSizeAdapter::process()
Adapt(samples) == FoldLeft(AdaptSample, [dsp EXCEPT !.output = <<>>], samples)

DelaySamples == Decorrelation + BlockSize

-----------------------------------------------------------------------------
RendererInit ==
  /\ RIInit
  /\ timing \in Timings[doc]
  /\ stage = "initialise" /\ chains = <<>> /\ dsp = InitialDsp
  /\ received = 0 /\ inputChannels = None /\ out = <<>>

SelectItems == stage = "initialise" /\ RINext /\ UNCHANGED rendererVars

\* The rest of initialise(), after select_items().
SetupRenderingItems ==
  /\ stage = "initialise" /\ timing # None /\ phase = "done"
  /\ IF \A i \in DOMAIN items : ItemOK(items[i])
     THEN stage' = "running" /\ chains' = [i \in DOMAIN items |-> Chain(items[i])]
     ELSE stage' = "failed" /\ UNCHANGED chains
  /\ UNCHANGED <<riVars, timing, dsp, received, inputChannels, out>>

\* Fault: the block in which the first sample comes out is not cut.
PushedWhole(output) == out \o output

\* What has come out, from the first sample that is not of the delay.
Pushed(output) ==
  out \o IF received > DelaySamples THEN output
         ELSE SubSeq(output, DelaySamples - received + 1, Len(output))

\* A turn of the loop of process().
ProcessBlock(b) ==
  /\ stage = "running" /\ received + b.size <= MaxSamples
  /\ IF /\ b.rate = SampleRate
        /\ IF inputChannels = None THEN EnoughChannels(b.channels)
           ELSE b.channels = inputChannels
     THEN LET after == Adapt([j \in 1 .. b.size |-> received + j - 1])
          IN  /\ dsp' = after
              /\ out' = IF received + b.size > DelaySamples THEN Pushed(after.output) ELSE out
              /\ received' = received + b.size
              /\ inputChannels' = b.channels
              /\ UNCHANGED stage
     ELSE stage' = "failed" /\ UNCHANGED <<dsp, out, received, inputChannels>>
  /\ UNCHANGED <<riVars, timing, chains>>

\* process() at the end of its input.
EndOfInput ==
  /\ stage = "running"
  /\ IF received > 0
     THEN LET after == Adapt([j \in 1 .. DelaySamples |-> None])
          IN  dsp' = after /\ out' = Pushed(after.output)
     ELSE UNCHANGED <<dsp, out>>
  /\ stage' = "closed"
  /\ UNCHANGED <<riVars, timing, chains, received, inputChannels>>

Rendered == stage \in {"closed", "failed"} /\ UNCHANGED <<riVars, rendererVars>>

RendererNext ==
  SelectItems \/ SetupRenderingItems \/ (\E b \in InputBlocks : ProcessBlock(b))
  \/ EndOfInput \/ Rendered

RendererSpec == RendererInit /\ [][RendererNext]_<<riVars, rendererVars>>

-----------------------------------------------------------------------------
(* Properties. *)

\* The document says that an item is heard at a sample: in one of its blocks or,
\* for Objects, which move from block to block, between the first and the last.
HeardInDocument(item, n) ==
  LET bs == BlocksOf(item)
      Begun(b) == Sample(Timing!Extent(ObjectOf(item), b).start) <= n
      Ended(b) == \E e \in Timing!Extent(ObjectOf(item), b).end : Sample(e) <= n
  IN  IF item.type = "Objects" THEN bs # <<>> /\ Begun(bs[1]) /\ ~Ended(Last(bs))
      ELSE \E i \in DOMAIN bs : Begun(bs[i]) /\ ~Ended(bs[i])

\* The tracks that are heard at a sample, each in its item and channel.
InDocument(n) ==
  UNION {{<<i, c, timing.map[items[i].channels[c].track], n>> :
            c \in {k \in DOMAIN items[i].channels : items[i].channels[k].track # None}} :
         i \in {k \in DOMAIN items : HeardInDocument(items[k], n)}}

\* The output is in step with the input, whatever blocks the input comes in: output
\* sample n is made of input sample n of each track that the document says is
\* heard then, all renderers together, and of nothing else.  While the stream
\* runs the output is late by the delay; at its end nothing is missing.
RenderedInStep ==
  /\ \A n \in DOMAIN out : out[n] = InDocument(n - 1)
  /\ stage = "running" => Len(out) = IF received > DelaySamples
                                     THEN received - DelaySamples ELSE 0
  /\ stage = "closed" => Len(out) = received
=============================================================================
