# A specification of the EBU ADM Toolbox in TLA+

The toolbox reads, changes, renders and writes audio files with ADM metadata.
Every tool is a graph of *processes* whose *ports* are connected, and the graph
is run by a small framework: it is flattened, planned and evaluated.  This
directory models the framework, which decides in which order the processes run,
where streams are buffered and when a stream has ended, and which every tool
depends on; and the processes with logic of their own: rendering from the
document to the samples, the conversion of documents to the emission profile,
the timing of blocks, silence detection, and the mapping of channels.

Paths are relative to the root of the repository; the code is C++20 and runs in
one thread.  What makes it hard is not concurrency between threads but
*nondeterminism of order*: candidates are kept in sets of pointers, so each run
may visit them differently, and processes, user code among them, decide how many
items to read and write each time they are called.

## Inventory

| component | source | state | operations | what makes it correct |
|---|---|---|---|---|
| graph construction | `framework/process.cpp` | processes and `port_inputs` of a graph or composite | `register_process`, `connect` | an input port has one upstream; ports belong to the graph |
| flattening and validation | `framework/evaluate.cpp` 14-139 | the flat graph under construction | `validate`, `flatten` | every atomic input port is joined to the atomic output port the composites lead to |
| planner | `framework/evaluate.cpp` 143-455, `exec_steps.hpp` 88-127 | `to_run`, `ran`, the list of subgraphs, the steps | `subgraphs_in_order` (twice), `augment_subgraphs`, `check_subgraph_connections`, `plan` | inputs first; stream connections inside subgraphs, data connections between them; buffers exactly where needed; no failure on acyclic graphs |
| executor | `framework/exec_steps.hpp`, `evaluate.hpp`, `evaluate_progress.cpp` | position in the plan, ports, processes | `Plan::run`, `ExecFunctional`, `ExecCopyData`, `ExecStreamingSubgraph` | every process sees the protocol initialise, process..., finalise; every item arrives once and in order; loops end |
| ports and buffers | `include/eat/framework/process.hpp` | queue and end flag; data value | `push`, `pop`, `close`, `eof`, `clear`, `copy_to`, `move_to`; `InMemBufferWrite`, `InMemBufferRead` | nothing after the end; contents preserved |
| dynamic subgraph | `framework/dynamic_subgraph.hpp` | an inner plan | `initialise`, `process`, `finalise` | the inner graph behaves as one streaming process |
| value pointers | `include/eat/framework/value_ptr.hpp` | shared value | `read`, `move_or_copy` | no holder sees a change of another |
| silence detection | `include/eat/process/silence_detect.hpp` | counters, current interval | `process`, `finish` | the intervals reported are the silent runs of the input |
| channel mapping | `process/remove_unused.cpp`, `channel_mapping.cpp`, `chna.cpp` | channel map | `RemoveUnusedElements`, `RepackChannels`, `ApplyChannelMapping`, `make_chna` | track UIDs keep their samples |
| block resampling, jump position removal | `process/block_resampling.cpp`, `block_modification.cpp`, `jump_position_removal.cpp` | stack of blocks and a group | `split_jump_position_blocks`, `next_group`, `group_to_block` | the timeline has no gaps; blocks end where the renderer would have been; minimum length; the loop ends |
| profile conversion | `process/profile_conversion_misc.cpp`, `misc.cpp`, `remove_elements.cpp`, ... | an ADM document, the channel map | one rewrite each | what is played when, and which programme leads where, stays the same; constraints of the profile hold at the end |
| interaction limiter | `process/limit_interaction.cpp` | interaction of one object | four steps in a fixed order | ranges within limits, nothing read once removed |
| pack allocation | `render/pack_allocation.cpp` | partial allocation, packs still possible | recursive search | finds the valid allocations, each once, and no others |
| rendering item selection | `render/rendering_items.cpp` | state of a selection, passed down by callbacks | `select_items` | each track of each path to an object is in one item |
| renderer | `render/render.cpp` | interpolation points, delay lines, `block_start`, the adapter, `n_samples_processed` | `setup_rendering_items`, `process` | output in step with the input, all paths aligned, nothing lost at the ends |
| direct speakers, loudness | `process/directspeaker_conversion.cpp`, `loudness.cpp` | none; filters | per channel; per block | numeric |
| files | `process/adm_bw64.cpp`, `block.cpp`, `temp_dir.cpp` | open files | read and write blocks | stream protocol of the executor |
| configuration | `config_file/` | JSON | `make_graph`, `make_process` | the graph the file describes |
| validation, utilities | `process/validate*.cpp`, `utilities/` | none | | |

The tools build a graph from configuration or in code (`config_file`,
`examples`) and hand it to `evaluate()`.  The executor calls the processes, and
these meet one another only at their ports.

`PROJECT.json` lists the hazards, each at the line where it bites with the
properties that cover it.

## Modules

    ProcessGraph      flat graphs and the planner's questions about them (no state)
    CompositeGraph    connect(), validate() and flatten(): EXTENDS ProcessGraph
    Planner           plan() from the flat graph on: EXTENDS ProcessGraph
    Ports             a stream port and a data port as values (no state)
    Evaluate          plan() and then Plan::run(): EXTENDS Planner, Ports
    Dataflow          what a graph of processes promises, with no plan at all
    EvaluateHierarchy evaluate() from connect() to the end: EXTENDS CompositeGraph, INSTANCE Evaluate
    DynamicSubgraph   a process that runs a graph of its own: EXTENDS Evaluate
    SilenceDetect     SilenceDetector
    ChannelPipeline   from file to file through RemoveUnused
    PackAllocation    allocate_packs(), the search for packs
    RenderingItems    select_items(): EXTENDS PackAllocation
    RenderTiming      the renderer's reading of times (no state)
    Renderer          RendererProcess: EXTENDS RenderingItems, INSTANCE RenderTiming
    BlockTimes        remove_jump_position and resample_blocks
    InteractionLimits limit_interaction for one object (no state)
    ContentRewrite    rewrite_content_objects_emission (no state)
    ProfileConversion conform_to_emission.json: EXTENDS both
    MC*               graphs, hierarchies, documents and constants of the runs
    SequenceLemmas       facts about numbers, finite sets and sequences
    CompositeProofs      theorems about flatten()
    EvaluateProofs       planning: order, success, buffers; running the plan; the refinement of Dataflow
    DynamicProofs        dynamic subgraphs.  EXTENDS EvaluateProofs
    SilenceProofs        the theorem about silence detection
    RendererProofs       theorems about the search for packs and the output of the renderer
    BlockProofs          theorems about the timing of blocks and the path through them
    ChannelProofs        theorems about RemoveUnused from file to file

Some modules define a *fault* next to the definition of the code: what a
plausible mistake would make of it.  No specification uses them; they are there
to show that each property can fail.

### ProcessGraph and Planner

A graph is a record of processes, of those that stream, and of connections.  A
connection stands for an entry of `port_inputs` together with the processes that
own its ports (`Connection` of `utilities.hpp`).  The three loops of
`evaluate.cpp` that grow a set one pointer at a time until nothing can be added
(`runnable_streaming_processes`, `streaming_subgraphs_from_set`, and the search
through neighbours within it) are each stated as the least set closed under one
turn of the loop; the result does not depend on the order of the turns.  All
choices whose result does depend on the order are existential quantifiers in
actions: the functional process that is picked, the complete subgraph, the
incomplete subgraph, the streaming process that `pick_runnable` returns.

| action | code |
|---|---|
| `PickFunctional`, `PickComplete`, `PickIncomplete`, `OrderingFails` | one turn of the loop of `subgraphs_in_order` |
| `AugmentSubgraphs` | `augment_subgraphs`, `flatten`, and the start of the second run |
| `CheckSubgraphConnections` | the call of that name |
| `EmitFunctional`, `BeginStreaming`, `OrderStreaming`, `EndStreaming`, `EndPlan` | the loop of `plan` and the constructor of `ExecStreamingSubgraph` |

A writer is named by the port it drains, a reader by the port and the subgraph
it feeds, as in the maps of `augment_subgraphs`.  `always_assert` throws: the
phase becomes `"failed"` and stays so.

### CompositeGraph

A hierarchy says which process is registered in which graph and which ports each
process has; `inputs` is the `port_inputs` of every graph.  `Connect` tries any
pair of ports in any graph: `Graph::connect` and `CompositeProcess::connect`
differ only in that a composite's own ports count too, from inside, and the
outermost graph has none.  `Validate` is `ValidateAllConnected`, one graph at a
time, and `ValidateStreaming`.  `StartTrace`, `Trace` and `EndTrace` are the two
loops of `flatten`, one look-up at a time, up to the `always_assert` and the
`connect` of the new graph; the map that `do_flatten` accumulates is the union of
all `inputs`, as no port is downstream in two graphs.  A process is registered
in one graph; the code does not check that.

`connect` and `validate` accept ports of composites that lead to one another in
a circle, and then the search never ends; `FlattenReturns` is about all other
graphs, and the TODO of `validate` ("processes are loop-free") stands.

### Evaluate, Ports and Dataflow

`Evaluate` runs the steps `Planner` made.  Its steps are the calls of the code:
one action for a functional process, one for each copy of a data port, one for
each call of `initialise`, `process` and `finalise`, one for each copy of a
stream port, and one for the test at the end of the loop.  Processes of the user
are *external*: at each call of `process` they may read and write any number of
items (also more than they take, or some at the end when there is nothing left to take, as
the renderer does) and close their outputs, as long as they follow the contract of
`StreamingAtomicProcess`: they take at least one item of an input that has any,
push nothing after closing, and close once their inputs have ended.  (The
processes of the repository take all there is.)  With `MayThrow` they may throw
whenever they are called.  Buffers are not external;
`WriterProcess` and `ReaderProcess` are the code of `InMemBufferWrite` and
`InMemBufferRead`.  A stream item is its position in the stream of the output it
was first pushed to, so that an item that is lost, doubled or out of order is seen; a data value is the set of
processes it depends on or the items a buffer holds.

`Dataflow` is the abstract specification: processes start when their data inputs
are done, streams advance, a process is finished when its streams have ended.  It knows no
steps, subgraphs or buffers' loops.  `ImplementsDataflow` is refinement by
`INSTANCE Dataflow WITH ...`.

`Graphs` are the graphs `plan()` is called for; of those in `PlanOnly` the plan is made
and checked and not run, which is a use of the two functions of `evaluate.hpp` and
lets a run plan more graphs than it can evaluate.

### EvaluateHierarchy

`CompositeGraph` and an instance of `Evaluate`, one after the other: `BuildGraph` is a
step of `connect`, `validate` or `flatten`, `PlanFlat` hands the flat graph over to
`subgraphs_in_order`, and `PlanAndRun` is a step of `Evaluate`.  `PathsDeliver` joins
what either module says for itself: when `evaluate()` has returned, what was sent
into a path through the composites has come out at its other end, whatever the
graph was flattened, ordered and buffered to.

### DynamicSubgraph

The inner graph is planned by the actions of `Planner` and run by those of
`Evaluate`; what is new is who calls them.  `stage` says where the dynamic
subgraph is:

| stage | code |
|---|---|
| plan, inputs, initialise | `initialise()`: plan, check that there is one streaming step, move the data inputs, run the steps before it and initialise its processes |
| first, ready, return | between calls: the loop of the outer graph (`OuterTurn`, `DrainOutputs`, `CallFinalise`) |
| pull, turn, push | `process()`: move the outer inputs in, one turn of the inner streaming step, move the outer outputs out |
| drain, finalise, outputs | `finalise()`: `process()` until the inner step is done, finalise, the remaining steps, move the data outputs |

The parent processes (`ParentDataInput` and so on) are members of the inner graph
that do nothing when called; each has the one port its constructor adds, and
`validate` has checked that it is connected (`ParentAssumption`).  The outer graph is modelled by its streaming step
seen from this process: it pushes, closes, drains and may go on for the sake of
other processes after this one's ports have ended.  In each turn every outer
input that is open gets an item or ends; turns in which one of them gets nothing
are left out.  The checks of `add_port` are left out.

### SilenceDetect and ChannelPipeline

`SilenceDetect` is `SilenceStatus` sample by sample, as a fold over the channels
of a frame; the reference is the set of maximal runs in the sequence of all
tested samples.  A sample that follows a loud one in the same frame is not
silent, whatever it is.

`ChannelPipeline` follows metadata and audio from `load_chna` and `AudioReader`
through `RemoveUnusedElements`, `RepackChannels` and `ApplyChannelMapping` to
`AudioWriter` and `make_chna`.  Elements of a document are members of a small
set with a relation for references, a sample is the pair of the channel and the
frame it came from, so that the new file can be compared with the old one.
libadm is external: whether `setReference` adds a new track UID to the document
is left open.  Rows of the CHNA chunk have indices within the file, and a track
that `load_chna` has accepted has all the references that `make_chna` asks for
(`chna.cpp:65-76`): the exceptions for the others are left out.

### PackAllocation, RenderingItems and Renderer

`allocate_packs` calls itself; here the calls that have not returned are the
elements of a stack, each with its solution and with the choices its loops have
still to try.  `Try` goes down, `GoBack` returns, `Found` reports.  The reference,
`ValidAllocations`, is stated from the rules in `pack_allocation.hpp` without a
search: placements of all tracks in parts, as bags, so that two solutions that
differ in order count once.

`RenderingItems` is `select_items` with its chain of callbacks as an `agenda` of
selections, in the order the callbacks make them; each goes through
`SelectPackMapping`, the search, and `FinishMapping`.  A path of objects is a
sequence, as in `ItemSelectionState`; all elements of a document are names.
Without objects all tracks of the file are taken, silent ones among them, and none
is counted as silent (`rendering_items.cpp:235-239`).
`always_assert` and the exceptions for HOA parameters end in `"failed"`.

`Renderer` goes on from the items: `SetupRenderingItems` turns times into
interpolation points, `ProcessBlock` is a turn of the loop of `process()`, and
`EndOfInput` feeds in the silence.  The renderers' three delays are explicit:
one line for the decorrelators of the Objects path, one that compensates it for
the others, and the block of the adapter (libear, external), which hands over
`BlockSize` samples at a time.  A gain is heard or not heard; an output sample
is the set of what is heard in it.  The diffuse and the direct part of an object
are one, with one delay.

`RenderTiming` holds `InterpretTimingMetadata`, since what blocks *mean* is
needed elsewhere too: `BlockTimes` and `ProfileConversion` state what they
preserve in terms of the renderer's points, not in terms of their own.

### BlockTimes

The blocks of one Objects channel, with one interpolated parameter, through both
processes.  `StartResampling`, the four kinds of group of `next_group` and
`FinishResampling` are actions; the stack has its top at the end, and groups are
made from the last block backwards, as in the code.  `lerp` by 0/0 gives `NaN`.
The times have one unit, as the code assumes of a channel (its functions convert
between two, exactly).  The positions of a channel are all polar or all
Cartesian: `split` throws for a block that follows one of the other kind
(`block_modification.cpp:70-73`), which is left out.

### ProfileConversion, ContentRewrite and InteractionLimits

A document goes through a chain of processes, alone or in the order of
`conform_to_emission.json`, one action for each.  Elements are members of small
sets; what a process does not look at is left out.  `InteractionLimits` is
`limit_interaction` as a function of one object's parameters: the set of its
possible results, which is empty where the code reads a range it has just unset.
Such a run ends in the stage `"undefined"`.  `ContentRewrite` is the memoised
recursion of `RewriteContentObjectsEmission` as recursive functions of the
document.  `Validate` is the part of the emission validator that looks at what
the conversions change.

## Runs

| run | inputs | what it shows |
|---|---|---|
| `evaluate` | every graph on 3 processes (each functional or streaming, cyclic ones too), 5120 in all, and six made by hand, with up to 2 items on each output of a process of the user and exceptions anywhere; every acyclic graph on 4 streaming processes with at most 5 connections, which is planned and not run | inputs first; planning fails on cyclic graphs only, and always; where buffers are and are not; what the finished plan looks like; integrity of streams, delivery end to end, data never read after it was moved, refinement of `Dataflow` |
| `evaluate_hierarchy` | every way to connect five hierarchies: nested composites, a pass-through with two ways, streams beside data, a stream that needs a buffer within a composite, a functional process with a stream port; up to 2 items, exceptions anywhere | `flatten()` makes a graph for the planner of what `validate()` accepts, along the paths and nothing else; what is sent into a path comes out of it; flattening, planning and running come to an end |
| `dynamic_subgraph` | eight inner graphs, one of two streams that do not meet among them, up to 2 items on each outer input, exceptions anywhere | what goes in and out of a dynamic subgraph; refinement of `Dataflow` by the inner graph; its inner loop ends |
| `silence` | 0 to 3 channels, minimum lengths 1 to 3, up to 9 samples | intervals are the long silences, in order |
| `silence_twice` | mono | *violated*: a silence is reported twice |
| `channels` | two documents, up to 4 rows in the CHNA chunk, 4 channels, 3 frames in blocks of 2 | tracks keep their samples, used ones are kept, unused channels are not |
| `channels_shared` | the same, two tracks on one channel | *violated*: a used track is lost |
| `rendering` | an object with any 4 of 7 tracks, up to 2 silent, and up to 3 pack references; tracks without objects; nested objects with HOA from every kind of start; a document with 7 sets of times, rendered from up to 8 samples in blocks of 1 to 3 | the search finds what there is and its assert holds; with packs that reach each channel on one way no track is lost or doubled; the output is in step with the input |
| `rendering_two_ways` | a pack with two packs that hold the same channel, and a track for each | *violated*: one track is lost, the other is rendered twice |
| `blocks` | 1 to 4 blocks of 5 durations (0 among them), with and without jumps and defaults | the timeline and the renderer's path are kept; resampling ends |
| `blocks_short` | the same, up to 3 blocks | *violated*: the second block is too short |
| `conversion` | four families of documents (times, structures, silent tracks, interactions), through each process and the whole chain | what is played when, what programmes lead to, limits, tracks, and what validation says at the end |

What the four violations show, in the code:

* `silence_detect.hpp:117-119`: `finish()` does not reset `complete_interval`, so
  that an interval completed by the very last frame is pushed once more.
  `IntervalsAreSilences` states that this is the only exception.
* `remove_unused.cpp:125-126`: of two tracks on one channel `RepackChannels` keeps
  the last (the comment says so), and `make_chna` throws `out_of_range` for the
  other at the end of the run.  With one track to a channel, all holds.
* `rendering_items.cpp:278`: the tracks of a pack are kept by channel format, and read
  back by channel format for each path from the pack (`:298`).  If a pack holds a
  channel format on two ways, the search gives each of them its track, as
  `pack_allocation.hpp:20-22` and `:52-54` say, but both items then read the last
  one.  `rendering` has packs with one way to each channel, and there all holds.
* `block_resampling.hpp:14-15` promises blocks that, "other than the first block, have
  a duration at least as long as interval"; `docs/config_file.rst:331-334` and
  `example_configs/README.rst:62` say the same.  The second may be shorter: if the
  first is too short it is completed to the interval with the start of the
  second, of which less than the interval may be left (blocks of 1 and 4
  with an interval of 3 become 3 and 2).  `OnlySecondIsShort`, which is proved, states
  that this is the only case.

Other things a reader may trip over.  The models do as the code does, and each
property says where it stops:

* With several channels, `SilenceDetector` counts samples of all channels, so that
  `minimum_length` and the intervals are not in frames.
* `getLastParameters` (`block_resampling.cpp:186`) keeps the last value of a parameter
  that a later block sets back to its default; `BlocksEndOnPath` is about channels
  that do not go back to it.
* The assertions in `profile_conversion_misc.cpp:693-701` are inverted: by their
  messages an object that is split should have no start, duration, gain,
  interaction and so on, but they require each of them, so that a split throws
  unless the object has everything.  In the whole chain a split always throws.
* `profile_conversion_misc.cpp:129` takes the size of the channel map for the number
  of the appended silent channel; `SilentTracksAreSilent` needs one track for each
  channel, and says nothing of a file in which the new track would play a channel
  that is heard.  `:707` gives an object that is kept the maximal depth, not its own;
  `:464` reads the duration of a group in which no object has one.
* `ConvertTrackStreamToChannel` (`misc.cpp:109`) throws for a silent track.
* The emission validator wants a track in each object (`validate.cpp:229`), so that
  no document with nested objects passes.
* `limit_interaction.cpp:56-57` reads a gain range it has just unset, and `:200` the
  interaction that `clear_interact_if_all_off` may have unset; the model ends there,
  and `InteractionLimited` is about the other cases.  The default lower
  limit is `numeric_limits<float>::min()`, the smallest positive number: a limit
  with only a maximum raises zero and negative ends (`limit_interaction.hpp:15`),
  though a limit may have only one of the two (`limit_interaction.schema.json:126`);
  `InteractionLimited` asks that an end stays only of limits that have a minimum.
* `rendering_items.cpp:145` ignores the objects of a document without programmes
  and contents; the assertion at `:314` tests the stream format a second time
  instead of the channel format.
* `render.cpp:291` calls "checked in get_block_extent" what is checked only of
  blocks with a duration.

Bounds.  A buffer is needed for the first time with three processes (a stream
and a data connection between the same two, or around a third), and with four
there are two buffers that meet, several subgraphs for one port, and a buffer
whose need shows up only after another was chosen.  `MaxConns` leaves out only
denser graphs on four processes; three have at most twelve connections, so that
all their graphs are there.  `MaxItems` bounds what a process pushes;
with two items order and duplication show.  Every graph has at most one
connection between two processes of each kind; `HandMade` adds several ports and
shared ports.

Hierarchies have a composite within a composite, the least depth at which a
search passes from one inner graph to another in both directions.  Nine samples
hold two long silences with signal around them in mono and one in three
channels.  Four channels and rows are enough for a channel that moves by more
than one, a UID that no element refers to and one that the document lacks.

Four tracks with two silent ones fill the three packs twice over, with channels
that two packs share; three references are one more than can be met by most.
A renderer of blocks of two samples, three samples of decorrelation and eight of
input has a delay that is no multiple of a block, inputs shorter than, equal to
and longer than it, and a block at the end that is not full.  Four blocks of
durations below, at and above the interval, up to more than twice, make every
kind of group, at the start, in the middle and at the end.  Three objects that
share channels in every way, and four nested in every way, are what it takes for
a group of objects with different times, and for a split inside a split.

Fairness.  `FairHierarchySpec` is weak fairness of `flatten()`, of the call of the planner
and of the steps of `Evaluate`, and nothing more: nobody has to call `evaluate()`, or to finish
building a graph.  `evaluate()` runs in
one thread, so as long as there is a next call it is made.  That a process of
the user makes progress is part of the model of such a process: each call of
`process()` takes at least one of the items that are there and pushes or closes,
and a source pushes at most `MaxItems`; a source that never ends keeps any
framework busy for ever.  `FairDynamicSpec`, the specification of `dynamic_subgraph`, adds strong fairness of `CallFinalise`:
the outer loop may go on for other processes for a while after this one's ports
have ended, but not for ever.

## Proofs

The theorems hold for graphs, hierarchies, problems and channels of any size.

* `TypeCorrect` and `InputsComeFirst` follow from `OrderInvariant`:
  `PlannerSpec => []OrderInv`.  `InputsFirst` alone is not inductive: that a data
  input comes *strictly* earlier needs that the subgraphs are disjoint, that
  `ran` is their union and that `toRun` is the rest, and the types of the sets,
  `order` and `todo` have to go along because `augment_subgraphs` makes a new graph.
* `StreamingSubgraphsClosed` and `RunnableStreamingInputs` are the facts about
  the candidates that a step needs.  `AugmentIsGraph` shows that the augmented
  graph is a graph for any cover of the processes.
* `PlanningSucceeds` is the main theorem: `plan()` throws on cyclic graphs only,
  and never gets past its first run on one.  `FailsOnlyOnCycles` says nothing of
  why, so the inductive invariant `SuccessInv` adds, for the first run, that what
  has run has no cycle (`RunnableStreamingAcyclic`, `AcyclicExtends`), and for the
  second, that all subgraphs taken are complete and that the list of the first
  run is an order (`IsOrder`).  The argument: attach each buffer to the subgraph
  of the first run it reads from or feeds (`Block`).  The blocks cover the
  augmented graph (`BlocksCover`), no stream connection leaves one
  (`BlocksComplete`), and data connections lead to later blocks
  (`BlocksInOrder`).  Whatever the second run has taken so far, the remainder of
  the first block with a remainder needs nothing from the rest, so that
  `runnable_streaming_processes` finds it and a complete candidate lies within it
  (`CompleteCandidate`, `SecondRunFindsComplete`).  The graph has no cycle
  (`AugmentAcyclic`), so `pick_runnable` finds a process each time.
  Finding the first such block is an induction over data; it is stated as a least
  element of a set of numbers (`LeastNat`), which well-founded minima give.
* `BuffersAreBridges` and `BuffersAreNeeded`: in the augmented graph a writer and a
  reader stand for the connection they replace and for nothing else, and a graph
  that can be ordered without splitting gets no buffers at all.  The first
  needs that a connection of the augmented graph is told by one of its ends
  (`BufferConns`); the second that in such a graph a complete subgraph is found
  in every turn of the first run (`NothingSplit`), and that no stream connection
  leaves a complete one (`CompleteNeedNoBuffers`).
* `PlansRespectConnections`: every process is called once, a stream connection
  leads within one step to a later call, and the step that copies a data
  connection lies strictly between the calls of its ends.  Inductive (`PlanInv`) is
  the same of the part of the graph that has been emitted (`PlanFor`, with `Emitted`
  for the graph), which adds that no stream connection leads out of that part,
  that no output is copied twice and that a copy comes after the call of its
  process.  While the order inside a step is being made, `OrderGood` says so of
  the processes that have been placed.  That each subgraph is within the streaming
  processes or a single functional one comes from the second run taking complete
  subgraphs only, hence `SuccessInv` is a part of `PlanInv`.
* The theorems about `Evaluate` follow from one invariant, `ExecInv`.  It keeps
  `PlanInv`, so that everything about the finished plan is at hand, and says of the
  run (`RunInv`):
  - `ControlOK`, `LifeFollowsPlan`: `step`, `mode` and `at` determine which processes
    are idle, running or done.  This is how the order of the plan turns into
    statements about what has happened.
  - `StreamIntegrity`: what has been popped from an input, what waits in it and
    what waits in the output it is connected to are together what was pushed.
    An output may feed several inputs: each gets all that waits before `clear`.
  - `EndsInOrder`, `ClosedAtTheEnd`, `StreamsOver`: the end of a stream travels behind
    its items; a process closes an output with nothing left to read; the test at
    the end of the loop lets a step finish only when all of its streams have
    ended.
  - `WritersKeep`, `ReadersReplay`: a writer holds what it has read; what a reader has
    sent and what it has left are together the vector it was given.
  - `ValuesAwaitCopy`, `ValuesCopied`: a value made by a process that is done stays in
    the output until the step that copies it, and has reached every connected
    input after that step.
  `FrameworkDoesNotThrow` is about the exception of `StreamPort::push`: by
  `EndsInOrder` and `ClosedAtTheEnd` nothing waits in an output whose input has
  ended.  `DataIsFinished` and `DataInputsAreAvailable` come from
  `LifeFollowsPlan`, `PlanFor` and `ValuesCopied`, and `StreamsLoseNothing` is a part.  `StreamsAreDelivered` says that when all is
  done each input of a process of the user has got exactly what was pushed to the
  output it was connected to in the graph that was given: within a step by
  integrity and `StreamsOver`, and through a buffer by going from the output to the
  writer, from its vector to the reader by `ValuesCopied`, and from there to the
  input (`DeliveredThroughBuffer`).
* `EvaluateKeepsContract` is the refinement of `Dataflow`, `EvaluateSpec =>
  ImplementsDataflow`.  The mapping forgets buffers and steps.  A call of a process
  of the user is `Run`, `Start`, `Stream` or `Finish`; planning, copies, calls of
  buffers and control are stutters (`Stutters`), and there is one lemma for each
  action.  The guards of `Dataflow` are where the invariants are used: a process may
  start because its data inputs are finished (`NothingRunsOnUnfinishedData`), what a
  process takes next must be what the *source* has sent next, across any number
  of queues and a buffer, and it may finish only when the upstream has closed and
  all has arrived (`SourceDelivered`).
* `OuterPortsDeliver`, `DynamicInputsAreAvailable`, `DynamicDoesNotThrow` and
  `DynamicKeepsContract` are about `DynamicSubgraph`, whose `initialise`, `process`
  and `finalise` take the steps of the inner plan that `Plan::run` would take in one
  go, and move items in and out between them.  `ExecInv` still holds of the inner
  graph: what is put into the port of a `ParentStreamInput` is what a `process` of
  it might have pushed, and what is taken from a `ParentStreamOutput` what it might
  have popped, so that its calls, which do nothing, and the moves together are a
  process of the user (`CallOK`, `PullInputIs`, `PushOutputIs`).  `DynamicInv` adds where
  the plan is in each stage (`StageOK`; there is one streaming step, and the three
  methods divide the plan at it), that an item on its way is in just one of two
  ports and an end comes after it (`InputsMove`, `OutputsMove`), that `finalise`
  is entered only when the outer ports have ended, so that nothing comes after
  it (`FinalisingOK`), and that a data input has been given its value where its
  idle process would have had to set it (`ValuesMovedIn`).  At the last step,
  `MoveDataOutputs`, `ExecInv` ends, as the values are taken out of the inner ports,
  and the properties themselves remain.  For the refinement a step is one of
  `Evaluate`, a call of a process, or not visible to the processes of the user
  (`AllowedStep`).  The assumptions are `GraphsAssumption` and `ParentAssumption`.
* The assumption of the theorems so far is `GraphsAssumption`: a graph is a record with finitely
  many connections, `Graph::connect` and `validate` have checked it (`IsGraph`), and
  the buffers that may be added are none of its processes (`BuffersAreNew`).
  `MaxItems` is any number.
* `FlattenMakesGraph` discharges the first half of it: for any hierarchy the flat
  graph satisfies `IsGraph`, and `FlattenSucceeds` says that no exception is left
  after `validate()`.  Inductive (`CompositeInv`) are what `validate` has found
  out, that a trace is at a port connections lead from and has met one type only,
  and which ports are connected.  A trace that cannot go on is then at an output
  of an atomic process (`TraceEndsAtOutput`): every other port is a sink of some
  graph.  The assumption is `HierarchiesAssumption`.
* `FlatteningFollowsPaths` and `AllOutputsAreUsed` are about what is connected to
  what.  A path is an induction over data; `LeadsTo` states it as the least set
  closed under one step, so that two facts do for it: the set is closed
  (`LeadsToIsClosed`) and it is within every closed set (`LeadsToIsLeast`).
  `PathInv` says that each trace and each connection is on a path, which gives one
  direction; the other is that no port has two atomic outputs above it (`OneStart`),
  as `InputPort` is a function.  For `AllOutputsAreUsed`, suppose no atomic input
  is among the ports R that an output o leads to.  Every port of R then has
  something connected to it, so that going up from a port is a map of R without o
  onto all of R, which a finite set does not have (`SomeInputReached`).  That the
  ports of a hierarchy are finitely many is part of `IsHierarchy`.
* `NeverOvercommitted` and `AllocationsAreSound` hold for every problem of any size.
  The assert of `update_packs_possible` is about a single solution, but whether it
  holds for the next depends on what may be possible in this one; `SearchInv` says
  of every call on the stack that its tracks and parts fit together (`SolutionOK`):
  each track before the next one is in exactly one channel, and the channels that
  are open are no more than the tracks left.  The last needs
  `update_packs_possible` itself: a pack stays possible only if the tracks that
  are spare can fill it.  The assumption is `ProblemsAssumption`.  That *every*
  allocation is found is model-checked only.
* `OutputIsInStep` is `RenderedInStep` for every document, every time in it, every
  block size, delay and number of samples, in blocks of any size; with
  `RendererNeverOvercommits` the search is followed inside `select_items`, where one
  call comes after the other.  `RendererInv` has four parts, and each has a section
  of the module.  (1) `ItemsInv`: an item is of a channel format of the document, on a
  path of its selections, and of one of the three types that have a renderer; packs
  that are allocated have channels (`PartsUsed`), without which an HOA item might have
  none.  (2) `BlocksAreHeard` and `ObjectsAreHeard`: the points of an item are audible
  at a sample if and only if the document says so.  A list of points is a run
  from its first to its last with the set of samples it covers (`IsRun`), runs are
  joined block by block (`RunsJoin`), and the exceptions of `get_block_extent` and
  `get_interp_points` (`ItemOK`) are what makes each one begin where the one before
  it has ended.  (3) `InStep`: after n samples the input block, the two delay lines
  and the output block of the adapter hold what samples up to n have made, each at its place; it is an
  invariant of a single sample (`SampleInStep`), a call of the adapter is a fold over
  those (`FoldIs`).  `Source` tells the input from the silence that follows it, which an
  adapter that has not got there yet cannot know (`InStepStays`).  (4) `IsPushed`: what
  has been pushed is the output from the first sample on, whichever block it comes in
  (`OutputIsPushed`).  The assumptions are `RendererAssumption` (sizes are numbers),
  `DocumentsAssumption` (references of a document lead to its own elements) and
  `TimingsAssumption` (times are not negative and given once or not at all).

* `BlocksStayContiguous`, `ShortBlocksComeFirst`, `GroupsTakeBlocks` and
  `ResamplingSucceeds` hold for every channel and every minimum duration.  `BlockInv`
  says that what remains on the stack fills the time from the start of the channel
  to `Cut`, and what was made of groups the time from `Cut` to its end.  The
  policies compare sums of durations, and the sum of blocks that follow each other
  is the time they span (`TotalSpan`), so that every comparison becomes one of
  points in time.  Each branch then has one thing to show: that the time of the
  cut lies inside the block that is cut (`SplitGreedyStep`, `SplitThriftyStep`).
  It follows that `split` does not throw and that `lerp` never divides by zero
  (`CutBlock`).  `OnlySecondIsShort` is not inductive: a short group appears when
  what remains is exactly the interval, or nothing, and the next step has to know
  which (`ShortOK`).  The assumption, `BlockTimesAssumption`, is the precondition in
  `block_resampling.hpp:18-20`: the blocks of a channel follow each other; and a block
  interpolates for no longer than it lasts (`render.cpp:302`).
* `RemovalIsNotHeard` compares two lists of points of the renderer, one of the blocks as
  they were and one of the pieces without jumpPosition.  Their points have the
  numbers of different blocks, so that both are first reduced to what is seen of
  them, a time and a value (`ValuesAreSeen`), and what is seen of a channel is that
  of its blocks one after the other (`PathExists`).  The two pieces of a block that is
  split show together what it showed (`PiecesSeen`), except for the first block of
  the channel, which starts at its own value: there the split adds one more point
  on a constant stretch (`FirstWidened`), which no time can tell (`AlikeSeen`).  As the
  pieces of a block may be one or two, the induction over blocks goes along the
  pieces gathered so far (`PathOfPieces`).  That the renderer accepts the result is
  `PlainAccepted`: pieces are contiguous, and a block without jumpPosition ends its
  interpolation where it ends.
* `BlocksStayOnPath` needs to know where each piece on the stack comes from (`PathInv`):
  what remains is the channel without jumpPosition, block by block, up to its last
  block, which is a whole block or the first part of one (`IsStack`).  Such a part is on
  the way of its block (`PieceOf`): it has come as many steps as it takes time.  Cut
  again, it still is (`CutIsPiece`), because the prior block given to `split` is the one
  below it in the channel, on the stack or, for the second block, the leading block of
  zero length (`PriorOnStack`).  A group ends with the value of its latest block although
  `getLastParameters` looks for the latest that is set (`GroupEndsAt`): once set, the
  parameter stays set (`SetInAllLater`).  The path of the input is that of the pieces,
  by `RemovalKeepsPath`.  Besides `BlockTimesAssumption` this takes `ExactAssumption`:
  values move in whole steps per unit of time, so that a value interpolated twice is
  the one interpolated once.  The code computes with floating point numbers, of which
  that holds only up to rounding; rounding is not modelled.

* `SilencesAreFound` holds for any number of channels, any minimum from 1 on
  (`ConfigsAssumption`) and any frames.  One call of `process_frame` is first
  unfolded into the states after each of its samples.  What is known after each
  sample (`Knows`) relates the counters to all samples so far: `zero_count` samples
  up to the last one are silent and the one before them is not, and the intervals,
  with the one that is ready, are the long silences whose end was seen (`Ended`).
  `process_frame` has room for one interval only, and reports it after the whole
  frame.  Nothing is lost by that because channels after the first that is not
  silent do not count: in a frame the silent samples come first, so that at most one silence ends in it.  At
  the end, `finish()` either ends the silence that is still open or leaves in place
  an interval that was reported before, which is the one repetition allowed.

* `TracksKeepTheirSamples`, `UsedTracksAreKept` and `NoChannelIsUnused` hold for every
  document with finitely many elements, every CHNA chunk, block size and length of
  the file (`PipelineAssumption`).  `PipeInv` says what the two ways through
  `RemoveUnused` agree on: the channel map gives each track a channel of the new
  file, the mapping takes that channel from where the track was (`MappingInv`), and
  what is written, what waits to be written and what waits to be mapped are one
  stream of frames without a gap (`StreamInv`).  Two algorithms are compared with a
  definition of another kind: the least set that programmes lead to is what is
  reached in as many steps as there are elements, as a step that adds nothing is
  the last one (`UsedTracksAre`); and the position of a channel in the new file is
  the number of used channels below it, which are all the numbers from 0 on, each
  once (`RanksAre`).  `UsedTracksAreKept` has the hypothesis that no two tracks share
  a channel: the run `channels_shared` shows that it is false without.

Model-checked only: that every allocation is found (`AllocationsFound`), for which the search
would have to be related to the set of all solutions;
what items and conversions make of whole documents (`EveryTrackRendered`,
`ConversionConforms`), where both sides are recursive over the document, and the first
also needs that the search finds all there is;
and liveness, which is out of the prover's reach.

## Plan

Done: the framework (`ProcessGraph`, `CompositeGraph`, `Planner`, `Evaluate`,
`Dataflow`, `DynamicSubgraph`), the processes listed above, and the theorems about
flattening, the planner, the run of a plan, as a whole or by a dynamic subgraph,
its refinement of `Dataflow`, the search for packs, the output of the renderer, the timing of blocks,
what is heard of them and where they end, silence detection, and the way through `RemoveUnused`.

Next: `AllocationsFound`, from which `EveryTrackRendered` would follow for each item.

## Not modelled

* *Value pointers.*  `move_or_copy` is `const`, so its `std::move` copies the shared
  pointer, and a value is copied whenever there is another holder: no order of
  calls goes wrong.  `DataSource`, `DataSink` and `NullSink` are processes of the
  user in `Evaluate`.
* *Gains, filters, loudness, direct speakers.*  Floating point and geometry: what
  TLC would check is a table.  The graph that loudness measurement builds is one
  of those that `Evaluate` covers.
* *Configuration files.*  `make_graph.cpp` calls `register_process` and `connect`,
  whose every sequence `CompositeGraph` tries; the rest is JSON.
* *Validation.*  The checks of values (ranges, allowed sets, lengths of strings) have
  no state and interact with nothing; those that the conversion can undo are in
  `ProfileConversion`.
* *Rewrites of single values* among the profile conversions: strings, language
  codes, sub-elements of blocks, reference screens.
* *Files*, parsing, printing and looking up IDs.
* *A second evaluation* of a graph: `block_start` and the delay lines of the renderer
  (`render.cpp:585`) are not reset.  No tool evaluates a graph twice.
