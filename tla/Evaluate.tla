------------------------------ MODULE Evaluate ------------------------------
(***************************************************************************)
(* evaluate(): plan a graph, then run the steps of the plan one by one     *)
(* (Plan::run(), exec_steps.hpp).                                          *)
(*                                                                         *)
(* The processes of the graph given to evaluate() belong to the user of    *)
(* the framework.  They are modelled from the contract in docs/            *)
(* framework.rst: process() takes something from every stream input that   *)
(* has something, pushes to its outputs, and closes them once its inputs   *)
(* have ended; a process without stream inputs closes when it likes.       *)
(* Buffer writers and readers are modelled from their code.                *)
(*                                                                         *)
(* An item is told apart by its position in the stream of the port it was  *)
(* first pushed to.                                                        *)
(***************************************************************************)
EXTENDS Planner, Ports, FiniteSetsExt

CONSTANTS
  PlanOnly,  \* the graphs plan() is called for without a run() of the plan
  MaxItems,  \* how many items may be pushed to an output of a user's process
  MayThrow   \* whether the processes of the user may throw

ASSUME EvaluateAssumption == MaxItems \in Nat /\ MayThrow \in BOOLEAN

VARIABLES
  status,   \* "planning", "running", "done"; "thrown" by a process, or
            \* "error" when the framework itself throws
  step,     \* the index of the step being run
  mode,     \* in a streaming step: "initialise", "run", "check", "finalise"
  at,       \* index into its processes, or into its inner plan in mode "run"
  life,     \* for each process "idle", "running" or "done"
  dataOut, dataIn,      \* the data ports
  streamOut, streamIn,  \* the stream ports
  buf,      \* the vector of each buffer writer, and what is left to push of
            \* that of each buffer reader
  sent,     \* all items pushed to a stream output port so far
  got       \* all items popped from a stream input port so far

portVars == <<dataOut, dataIn, streamOut, streamIn, buf, sent, got>>
execVars == <<status, step, mode, at, life, portVars>>
vars     == <<plannerVars, execVars>>

IsUser(p)   == p \in source.procs
IsWriter(p) == ~IsUser(p) /\ StreamInPorts(flat, p) # {}
IsReader(p) == ~IsUser(p) /\ DataInPorts(flat, p) # {}

PortsOf(Kind(_, _), g) == UNION {Kind(g, p) : p \in g.procs}

EvaluateInit ==
  /\ PlannerInit
  /\ status = "planning"
  /\ step = 0 /\ mode = "initialise" /\ at = 1
  /\ life = [p \in source.procs |-> "idle"]
  /\ dataOut = <<>> /\ dataIn = <<>>
  /\ streamOut = <<>> /\ streamIn = <<>>
  /\ buf = <<>> /\ sent = <<>> /\ got = <<>>

-----------------------------------------------------------------------------
\* Plan::run()

\* Step n, if there is one.
GoTo(n) ==
  /\ step' = n
  /\ mode' = "initialise"
  /\ at' = 1
  /\ status' = IF n > Len(plan) THEN "done" ELSE "running"

\* The processes and ports, constructed long before, are as new.
StartRun ==
  /\ phase = "planned" /\ status = "planning"
  /\ source \notin PlanOnly
  /\ GoTo(1)
  /\ life' = [p \in flat.procs |-> "idle"]
  /\ dataOut' = [o \in PortsOf(DataOutPorts, flat) |-> Unset]
  /\ dataIn' = [i \in PortsOf(DataInPorts, flat) |-> Unset]
  /\ streamOut' = [o \in PortsOf(StreamOutPorts, flat) |-> OpenPort]
  /\ streamIn' = [i \in PortsOf(StreamInPorts, flat) |-> OpenPort]
  /\ buf' = [p \in flat.procs \ source.procs |-> <<>>]
  /\ sent' = [o \in PortsOf(StreamOutPorts, flat) |-> <<>>]
  /\ got' = [i \in PortsOf(StreamInPorts, flat) |-> <<>>]
  /\ UNCHANGED plannerVars

Running(kind) == status = "running" /\ plan[step].kind = kind

\* f with the value e(x) at each x of S.
Updated(f, S, e(_)) == [x \in DOMAIN f |-> IF x \in S THEN e(x) ELSE f[x]]

\* The process sets its data outputs: to something of its own, or to the
\* contents of a buffer.
SetDataOutputs(p) ==
  LET NewValue(o) == Value(o, IF IsUser(p) THEN <<>> ELSE buf[p])
  IN  dataOut' = Updated(dataOut, DataOutPorts(flat, p), NewValue)

RunFunctional ==
  /\ Running("functional")
  /\ LET p == plan[step].process
     IN  /\ life' = [life EXCEPT ![p] = "done"]
         /\ SetDataOutputs(p)
  /\ GoTo(step + 1)
  /\ UNCHANGED <<plannerVars, dataIn, streamOut, streamIn, buf, sent, got>>

\* A fault: the value is moved to the first connected port, then copied.
RunMoveThenCopy ==
  /\ Running("copy")
  /\ LET from == plan[step].from
         to == plan[step].to
         NewValue(i) == IF i = to[1] THEN dataOut[from] ELSE MovedOut
     IN  /\ dataIn' = Updated(dataIn, ToSet(to), NewValue)
         /\ dataOut' = [dataOut EXCEPT ![from] = MovedOut]
  /\ GoTo(step + 1)
  /\ UNCHANGED <<plannerVars, life, streamOut, streamIn, buf, sent, got>>

\* Copied to all connected ports but the last, and moved to the last.
RunCopyData ==
  /\ Running("copy")
  /\ LET from == plan[step].from
         NewValue(i) == dataOut[from]
     IN  /\ dataIn' = Updated(dataIn, ToSet(plan[step].to), NewValue)
         /\ dataOut' = [dataOut EXCEPT ![from] = MovedOut]
  /\ GoTo(step + 1)
  /\ UNCHANGED <<plannerVars, life, streamOut, streamIn, buf, sent, got>>

-----------------------------------------------------------------------------
(***************************************************************************)
(* ExecStreamingSubgraph.  Its inner plan, fixed by the constructor, calls *)
(* each process and then copies that process's stream outputs.             *)
(***************************************************************************)
Processes == plan[step].processes

CallProcess(p) == [kind |-> "process", process |-> p]
CopyStream(o)  == [kind |-> "copy", from |-> o]

InnerPlan ==
  LET CallAndCopy(p) == LET ports == SetToSeq(StreamOutPorts(flat, p))
                        IN  <<CallProcess(p)>> \o [k \in DOMAIN ports |-> CopyStream(ports[k])]
  IN  FlattenSeq([k \in DOMAIN Processes |-> CallAndCopy(Processes[k])])

InMode(m) == Running("streaming") /\ mode = m

\* On to the next of n things to do in this mode, or to mode m.
Advance(n, m) ==
  /\ IF at < n THEN at' = at + 1 /\ UNCHANGED mode
               ELSE at' = 1 /\ mode' = m
  /\ UNCHANGED <<status, step>>

\* run_initialise(): a buffer reader takes a copy of the buffer.
Initialise ==
  /\ InMode("initialise")
  /\ LET p == Processes[at]
     IN  /\ life' = [life EXCEPT ![p] = "running"]
         /\ buf' = IF IsReader(p)
                     THEN [buf EXCEPT ![p] = dataIn[<<p, "in">>].items]
                     ELSE buf
  /\ Advance(Len(Processes), "run")
  /\ UNCHANGED <<plannerVars, dataOut, dataIn, streamOut, streamIn, sent, got>>

\* p pops take[i] items from each stream input i, pushes the items give[o] to
\* each stream output o, then closes the outputs in ends.
Stream(p, take, give, ends) ==
  LET ins  == StreamInPorts(flat, p)
      outs == StreamOutPorts(flat, p)
      Taken(i)   == Pop(streamIn[i], take[i])
      GotNow(i)  == got[i] \o Popped(streamIn[i], take[i])
      SentNow(o) == sent[o] \o give[o]
      Given(o)   == LET pushed == Push(streamOut[o], give[o])
                    IN  IF o \in ends THEN Close(pushed) ELSE pushed
  IN  /\ streamIn' = Updated(streamIn, ins, Taken)
      /\ got' = Updated(got, ins, GotNow)
      /\ streamOut' = Updated(streamOut, outs, Given)
      /\ sent' = Updated(sent, outs, SentNow)

\* The next n items that belong to port o.
Fresh(o, n) == [k \in 1 .. n |-> Len(sent[o]) + k]

\* How many items may still be pushed to port o.
Room(o) == IF streamOut[o].eof THEN 0 ELSE MaxItems - Len(sent[o])

\* process() of a process that has stream inputs: it pops something wherever
\* there is something, pushes as much as it likes, and closes when all its
\* inputs have ended.
UserTransform(p) ==
  LET ins  == StreamInPorts(flat, p)
      outs == StreamOutPorts(flat, p)
      longest == Max({Len(streamIn[i].queue) : i \in ins})
      Takes == {t \in [ins -> 0 .. longest] :
                  \A i \in ins : /\ t[i] <= Len(streamIn[i].queue)
                                 /\ t[i] = 0 => streamIn[i].queue = <<>>}
  IN  /\ ins # {}
      /\ \E take \in Takes :
           LET ended == \A i \in ins : Eof(Pop(streamIn[i], take[i]))
           IN  \E n \in [outs -> 0 .. MaxItems] :
                 /\ \A o \in outs : n[o] <= Room(o)
                 /\ Stream(p, take, [o \in outs |-> Fresh(o, n[o])],
                           IF ended THEN outs ELSE {})

\* process() of a process without stream inputs: for each output that is
\* open, more items, or the end, or both.
UserSource(p) ==
  LET outs == StreamOutPorts(flat, p)
      open == {o \in outs : ~streamOut[o].eof}
  IN  /\ StreamInPorts(flat, p) = {}
      /\ \E n \in [outs -> 0 .. MaxItems], ends \in SUBSET open :
           /\ \A o \in outs : n[o] <= Room(o)
           /\ \A o \in open \ ends : n[o] > 0
           /\ Stream(p, <<>>, [o \in outs |-> Fresh(o, n[o])], ends)

\* InMemBufferWrite::process(): the input is drained.
WriterProcess(p) ==
  /\ IsWriter(p)
  /\ LET i == <<p, "in">>
         all == Len(streamIn[i].queue)
     IN  /\ Stream(p, [j \in {i} |-> all], <<>>, {})
         /\ buf' = [buf EXCEPT ![p] = @ \o Popped(streamIn[i], all)]

\* p pushes the next n items of its buffer, and closes its output if end.
ReadOn(p, n, end) ==
  LET o == <<p, "out">>
  IN  /\ Stream(p, <<>>, [x \in {o} |-> SubSeq(buf[p], 1, n)],
                IF end THEN {o} ELSE {})
      /\ buf' = [buf EXCEPT ![p] = SubSeq(@, n + 1, Len(@))]

\* Faults: the output closed with every item, the last item never read, the
\* output never closed.
ReaderClosesAlways(p) ==
  IsReader(p) /\ ReadOn(p, IF buf[p] = <<>> THEN 0 ELSE 1, TRUE)
ReaderStopsEarly(p) ==
  IsReader(p) /\ ReadOn(p, IF Len(buf[p]) <= 1 THEN 0 ELSE 1, Len(buf[p]) <= 1)
ReaderNeverCloses(p) ==
  IsReader(p) /\ ReadOn(p, IF buf[p] = <<>> THEN 0 ELSE 1, FALSE)

\* InMemBufferRead::process(): one item, or the end if there is none left.
ReaderProcess(p) ==
  /\ IsReader(p)
  /\ IF buf[p] # <<>> THEN ReadOn(p, 1, FALSE) ELSE ReadOn(p, 0, TRUE)

UserProcess(p) ==
  /\ IsUser(p)
  /\ UserTransform(p) \/ UserSource(p)
  /\ UNCHANGED buf

\* ExecStreaming, as one step of run_run().
RunProcess ==
  /\ InMode("run")
  /\ InnerPlan[at].kind = "process"
  /\ LET p == InnerPlan[at].process
     IN  UserProcess(p) \/ WriterProcess(p) \/ ReaderProcess(p)
  /\ Advance(Len(InnerPlan), "check")
  /\ UNCHANGED <<plannerVars, life, dataOut, dataIn>>

\* ExecCopyStream: the items and the end-of-file flag are passed on to all
\* connected ports, which throws if one of them was closed before.
RunCopyStream ==
  /\ InMode("run")
  /\ InnerPlan[at].kind = "copy"
  /\ LET o == InnerPlan[at].from
         to == ConnectedPorts(flat, o)
         NewPort(i) == Received(streamOut[o], streamIn[i])
     IN  IF \A i \in to : CanPush(streamIn[i], streamOut[o].queue)
           THEN /\ streamIn' = Updated(streamIn, to, NewPort)
                /\ streamOut' = [streamOut EXCEPT ![o] = Clear(@)]
                /\ Advance(Len(InnerPlan), "check")
           ELSE /\ status' = "error"
                /\ UNCHANGED <<step, mode, at, streamIn, streamOut>>
  /\ UNCHANGED <<plannerVars, life, dataOut, dataIn, buf, sent, got>>

\* A fault: only the output ports are looked at.
OutputsRunnable ==
  \E p \in ToSet(Processes) : \E o \in StreamOutPorts(flat, p) : ~Eof(streamOut[o])

\* runnable(): some stream port of the subgraph has not reached its end.
StillRunnable ==
  \E p \in ToSet(Processes) :
    \/ \E i \in StreamInPorts(flat, p) : ~Eof(streamIn[i])
    \/ \E o \in StreamOutPorts(flat, p) : ~Eof(streamOut[o])

\* The condition of the do-while loop, after each turn of run_run().
CheckRunnable ==
  /\ InMode("check")
  /\ mode' = IF StillRunnable THEN "run" ELSE "finalise"
  /\ UNCHANGED <<plannerVars, status, step, at, life, portVars>>

\* run_finalise(): data outputs are set here at the latest.
Finalise ==
  /\ InMode("finalise")
  /\ LET p == Processes[at]
     IN  /\ life' = [life EXCEPT ![p] = "done"]
         /\ SetDataOutputs(p)
  /\ IF at < Len(Processes)
       THEN at' = at + 1 /\ UNCHANGED <<status, step, mode>>
       ELSE GoTo(step + 1)
  /\ UNCHANGED <<plannerVars, dataIn, streamOut, streamIn, buf, sent, got>>

-----------------------------------------------------------------------------
\* The process about to be called, if any.
Callee ==
  IF Running("functional") THEN {plan[step].process}
  ELSE IF InMode("initialise") \/ InMode("finalise") THEN {Processes[at]}
  ELSE IF InMode("run")
    THEN IF InnerPlan[at].kind = "process" THEN {InnerPlan[at].process} ELSE {}
  ELSE {}

\* An exception thrown by a process passes through run() to the caller of
\* evaluate(): nothing that follows is called, not even a finalise().
ProcessThrows ==
  /\ MayThrow
  /\ \E p \in Callee : IsUser(p)
  /\ status' = "thrown"
  /\ UNCHANGED <<plannerVars, step, mode, at, life, portVars>>

EvaluateNext ==
  \/ PlannerNext /\ UNCHANGED execVars
  \/ StartRun \/ RunFunctional \/ RunCopyData
  \/ Initialise \/ RunProcess \/ RunCopyStream \/ CheckRunnable \/ Finalise
  \/ ProcessThrows

EvaluateSpec == EvaluateInit /\ [][EvaluateNext]_vars
-----------------------------------------------------------------------------
StreamConns == {c \in flat.conns : c.stream}
Started     == status \notin {"planning"}

\* Whatever is pushed to a stream port is at every moment in exactly one place
\* for each connected input: popped, in the input queue, or still in the
\* output queue, in this order, so that the copies and moves of ExecCopyStream
\* and its clear() lose, repeat and reorder nothing.
StreamIntegrity ==
  Started => \A c \in StreamConns :
    sent[OutPort(c)] =
      got[InPort(c)] \o streamIn[InPort(c)].queue \o streamOut[OutPort(c)].queue

\* No port is pushed to after it was closed as long as the processes keep to
\* their contract, so the exception of StreamPort::push() is never the
\* framework's own doing.
FrameworkNeverThrows == status # "error"

\* A process that has started found in each of its data inputs the value its
\* upstream process set (process.hpp: "so non-streaming inputs are
\* available"), not a default or a moved-from value; for a buffer reader that
\* is everything that was pushed to the port the buffer was made for.
DataInputsAvailable ==
  Started => \A c \in flat.conns : ~c.stream /\ life[c.down] # "idle" =>
    /\ dataIn[InPort(c)].state = "set"
    /\ dataIn[InPort(c)].port = OutPort(c)
    /\ IsReader(c.down) =>
         \A w \in InputConns(flat, c.up) :
           dataIn[InPort(c)].items = sent[OutPort(w)]

\* Across a buffer as well as within a subgraph, the consumer of a connection
\* of the user's graph gets a prefix of what its producer pushed, and all of
\* it by the time evaluate() returns.
EndToEndDelivery ==
  Started => \A c \in source.conns : c.stream =>
    /\ IsPrefix(got[InPort(c)], sent[OutPort(c)])
    /\ status = "done" => got[InPort(c)] = sent[OutPort(c)]

\* An exception leaves everything downstream of the thrower untouched over
\* data connections: no process runs on the data outputs of one that is not
\* done.
NothingRunsOnUnfinishedData ==
  Started => \A c \in flat.conns :
    ~c.stream /\ life[c.down] # "idle" => life[c.up] = "done"

\* evaluate() keeps the promises of process.hpp to the processes of the graph
\* it was given, whatever buffers the planner inserted.
Contract == INSTANCE Dataflow WITH
  graph  <- source,
  life   <- [p \in source.procs |-> life[p]],
  sent   <- [o \in PortsOf(StreamOutPorts, source) |->
               IF Started THEN sent[o] ELSE <<>>],
  closed <- {o \in PortsOf(StreamOutPorts, source) :
               Started /\ streamOut[o].eof},
  got    <- [i \in PortsOf(StreamInPorts, source) |->
               IF Started THEN got[i] ELSE <<>>]

ImplementsDataflow == Contract!Spec
=============================================================================
