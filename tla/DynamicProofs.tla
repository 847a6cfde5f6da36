--------------------------- MODULE DynamicProofs ----------------------------
(***************************************************************************)
(* Theorems about DynamicSubgraph, for every set of inner graphs that fits *)
(* the parent processes.                                                   *)
(*                                                                         *)
(* What is known of the run of a plan, ExecInv of EvaluateProofs, holds    *)
(* for the inner graph as well, although its steps are taken by three      *)
(* methods and its parent processes are called to do nothing: what a       *)
(* dynamic subgraph moves to and from their ports is what a process()      *)
(* might have pushed and popped there.                                     *)
(***************************************************************************)
EXTENDS DynamicSubgraph, EvaluateProofs

\* The stages between PartitionPlan and MoveDataInputs or InnerProcessThrows
\* in which the processes of the inner graph take turns.
Turning == {"first", "ready", "return", "pull", "turn", "push", "drain"}
Stages  == {"plan", "rejected", "inputs", "initialise"} \cup Turning
             \cup {"finalise", "outputs", "done"}

\* Where the inner plan is, by stage.
StageOK ==
  /\ stage \in Stages
  /\ stage \in {"plan", "rejected"} <=> status = "planning"
  /\ stage \in {"outputs", "done"} <=> status = "done"
  /\ status = "thrown" => stage \in {"initialise", "turn", "finalise"}
  /\ Started => \E n \in DOMAIN plan : StreamingSteps = {n}
  /\ stage = "inputs" => step = 1 /\ mode = "initialise" /\ at = 1
  /\ stage = "initialise" => mode = "initialise" /\ \A n \in StreamingSteps : step <= n
  /\ stage \in Turning =>
       /\ InStreaming
       /\ mode = IF stage = "push" THEN "check" ELSE "run"
       /\ stage # "turn" => at = 1
  /\ stage = "finalise" =>
       (InStreaming => mode = "finalise") /\ \A n \in StreamingSteps : n <= step

\* process() is called by finalise() once the outer ports have ended.
FinalisingOK ==
  /\ stage \in {"drain", "finalise", "outputs", "done"} => finalising
  /\ stage \in Stages \ {"pull", "turn", "push", "drain", "finalise", "outputs", "done"}
       => ~finalising
  /\ finalising => OuterEnded

OuterTypeOK ==
  /\ outerIn \in [Here(ParentStreamInputs) -> StreamPort]
  /\ outerOut \in [Here(ParentStreamOutputs) -> StreamPort]
  /\ outerSent \in [Here(ParentStreamInputs) -> Seq(Nat)]
  /\ outerGot \in [Here(ParentStreamOutputs) -> Seq(Nat)]
  /\ DOMAIN outerData = Here(ParentDataInputs) \cup Here(ParentDataOutputs)
  /\ stage = "pull" => pending \subseteq Here(ParentStreamInputs)
  /\ stage = "push" => pending \subseteq Here(ParentStreamOutputs)

\* Before the run nothing has passed the outer ports.
NothingMovedYet ==
  stage \in {"plan", "rejected", "inputs"} =>
    /\ \A p \in Here(ParentStreamInputs) : outerIn[p] = OpenPort /\ outerSent[p] = <<>>
    /\ \A p \in Here(ParentStreamOutputs) : outerOut[p] = OpenPort /\ outerGot[p] = <<>>
    /\ \A p \in Here(ParentDataInputs) : outerData[p] = Value(InnerOut(p), <<>>)

\* What was pushed to an outer input is on the inner side or waits outside,
\* and the inner port ends after the outer one has been emptied.
InputsMove ==
  \A p \in Here(ParentStreamInputs) :
    /\ sent[InnerOut(p)] \o outerIn[p].queue = outerSent[p]
    /\ streamOut[InnerOut(p)].eof => Eof(outerIn[p])

\* What left an inner process is outside or waits in the outer port, which
\* ends after the inner one has been emptied.
OutputsMove ==
  \A p \in Here(ParentStreamOutputs) :
    /\ outerGot[p] \o outerOut[p].queue = got[InnerIn(p)]
    /\ outerOut[p].eof => Eof(streamIn[InnerIn(p)])

\* The value of a data input was put where its parent process, which does
\* nothing, would have had to set it.
ValuesMovedIn ==
  /\ dataOut = [o \in DataOuts |-> dataOut[o]]
  /\ stage # "inputs" => \A p \in Here(ParentDataInputs) :
       life[p] = "idle" => dataOut[InnerOut(p)] = Value(InnerOut(p), <<>>)

LiveInv ==
  /\ ExecInv /\ NothingCalledYet
  /\ StageOK /\ FinalisingOK /\ OuterTypeOK /\ NothingMovedYet
  /\ Started => InputsMove /\ OutputsMove /\ ValuesMovedIn

\* MoveDataOutputs takes the values out of the inner graph, and is the last
\* thing that happens.
DynamicInv ==
  IF stage = "done" THEN status = "done" /\ Kept /\ OuterDelivery /\ DynamicDataAvailable
                    ELSE LiveInv

-----------------------------------------------------------------------------
(***************************************************************************)
(* The parent processes in the planned graph.                              *)
(***************************************************************************)

\* Buffers are connected by data only to one another.
LEMMA UserDataPorts ==
  ASSUME PlanInv, phase = "planned", NEW p \in source.procs
  PROVE  /\ DataOutPorts(flat, p) = DataOutPorts(source, p)
         /\ DataInPorts(flat, p) = DataInPorts(source, p)
<1> DEFINE cut == Crossing(source, split)
<1>1. /\ IsGraph(source) /\ BuffersAreNew(source) /\ Covers(source, split)
      /\ flat = Augment(source, split)
  BY PlanFacts DEF PlanInv, SuccessInv, OrderInv, PlannerTypeOK, SecondRun, IsOrder
<1>2. \A e \in flat.conns :
        \/ e \in source.conns
        \/ \E d \in cut : e = ToWriter(d) \/ e = ToReader(split, d) \/ e = FromReader(split, d)
  BY <1>1, AugmentedConnsAre
<1>3. \A d \in cut : WriterFor(d) \notin source.procs /\ ReaderFor(split, d) \notin source.procs
  BY <1>1, BuffersDiffer
<1>4. \A d : /\ ToWriter(d).stream /\ FromReader(split, d).stream
             /\ ToReader(split, d).up = WriterFor(d)
             /\ ToReader(split, d).down = ReaderFor(split, d)
  BY DEF ToWriter, ToReader, FromReader, Connection
<1>5. \A c \in source.conns : ~c.stream => c \in flat.conns
  BY UserPorts
<1> HIDE DEF cut
<1>6. \A e \in flat.conns : ~e.stream /\ (e.up = p \/ e.down = p) => e \in source.conns
  BY <1>2, <1>3, <1>4
<1>7. DataOutPorts(flat, p) = DataOutPorts(source, p)
  BY <1>5, <1>6 DEF DataOutPorts, OutputConns
<1>8. DataInPorts(flat, p) = DataInPorts(source, p)
  BY <1>5, <1>6 DEF DataInPorts, InputConns
<1> QED
  BY <1>7, <1>8

\* A parent process is planned with the one port it has.
LEMMA ParentPorts ==
  ASSUME PlanInv, phase = "planned", NEW p \in source.procs
  PROVE  /\ p \in flat.procs /\ IsUser(p) /\ ~IsWriter(p) /\ ~IsReader(p)
         /\ p \in ParentStreamInputs =>
              /\ p \in flat.streaming /\ HasPorts(flat, p, {InnerOut(p)}, {}, {}, {})
              /\ InnerOut(p) \in StreamOuts
         /\ p \in ParentStreamOutputs =>
              /\ p \in flat.streaming /\ HasPorts(flat, p, {}, {InnerIn(p)}, {}, {})
              /\ InnerIn(p) \in StreamIns
         /\ p \in ParentDataInputs =>
              /\ p \notin flat.streaming /\ HasPorts(flat, p, {}, {}, {InnerOut(p)}, {})
              /\ InnerOut(p) \in DataOuts
         /\ p \in ParentDataOutputs =>
              /\ p \notin flat.streaming /\ HasPorts(flat, p, {}, {}, {}, {InnerIn(p)})
              /\ InnerIn(p) \in DataIns
<1>1. /\ p \in flat.procs /\ IsUser(p) /\ source \in Graphs
      /\ p \in source.streaming <=> p \in flat.streaming
      /\ StreamOutPorts(flat, p) = StreamOutPorts(source, p)
      /\ StreamInPorts(flat, p) = StreamInPorts(source, p)
      /\ DataOutPorts(flat, p) = DataOutPorts(source, p)
      /\ DataInPorts(flat, p) = DataInPorts(source, p)
  BY UserPorts, UserDataPorts DEF IsUser, PlanInv
<1>2. /\ StreamOutPorts(flat, p) \subseteq StreamOuts /\ StreamInPorts(flat, p) \subseteq StreamIns
      /\ DataOutPorts(flat, p) \subseteq DataOuts /\ DataInPorts(flat, p) \subseteq DataIns
  BY <1>1 DEF StreamOuts, StreamIns, DataOuts, DataIns, PortsOf
<1>3. \A so, si, do, di : HasPorts(source, p, so, si, do, di) <=> HasPorts(flat, p, so, si, do, di)
  BY <1>1 DEF HasPorts
<1>4. ~IsWriter(p) /\ ~IsReader(p)
  BY <1>1 DEF IsWriter, IsReader
<1>5. CASE p \in ParentStreamInputs
  BY <1>1, <1>2, <1>3, <1>4, <1>5, ParentAssumption DEF HasPorts
<1>6. CASE p \in ParentStreamOutputs
  BY <1>1, <1>2, <1>3, <1>4, <1>6, ParentAssumption DEF HasPorts
<1>7. CASE p \in ParentDataInputs
  BY <1>1, <1>2, <1>3, <1>4, <1>7, ParentAssumption DEF HasPorts
<1>8. CASE p \in ParentDataOutputs
  BY <1>1, <1>2, <1>3, <1>4, <1>8, ParentAssumption DEF HasPorts
<1>9. /\ p \in ParentStreamInputs =>
         /\ p \notin ParentStreamOutputs \cup ParentDataInputs \cup ParentDataOutputs
      /\ p \in ParentStreamOutputs => p \notin ParentDataInputs \cup ParentDataOutputs
      /\ p \in ParentDataInputs => p \notin ParentDataOutputs
  BY <1>1, ParentAssumption DEF HasPorts
<1> QED
  BY <1>1, <1>4, <1>5, <1>6, <1>7, <1>8, <1>9

-----------------------------------------------------------------------------
(***************************************************************************)
(* What the stage says of the run.                                         *)
(***************************************************************************)
LEMMA LiveFacts ==
  ASSUME LiveInv, Started
  PROVE  /\ PlanInv /\ phase = "planned" /\ RunInv /\ stage \in Stages
         /\ status \in {"running", "done", "thrown"}
         /\ step \in Nat /\ Len(plan) \in Nat /\ DOMAIN plan = 1 .. Len(plan)
         /\ \E n \in DOMAIN plan : StreamingSteps = {n}
         /\ \A n : n \in StreamingSteps <=> n \in DOMAIN plan /\ plan[n].kind = "streaming"
         /\ InStreaming <=> step \in StreamingSteps
<1>1. PlanInv /\ phase = "planned" /\ RunInv
  BY DEF LiveInv, ExecInv
<1>2. Len(plan) \in Nat /\ DOMAIN plan = 1 .. Len(plan)
  BY <1>1, PlanFacts
<1>3. step \in Nat
  BY <1>1, <1>2 DEF RunInv, ControlOK
<1>4. /\ \A n : n \in StreamingSteps <=> n \in DOMAIN plan /\ plan[n].kind = "streaming"
      /\ InStreaming <=> step \in StreamingSteps
  BY DEF StreamingSteps, InStreaming
<1>5. status \in {"running", "done", "thrown"}
  BY DEF LiveInv, ExecInv, Started
<1> QED
  BY <1>1, <1>2, <1>3, <1>4, <1>5 DEF LiveInv, StageOK

\* The outer graph is at work while the streaming step of the plan is run.
LEMMA StageFacts ==
  ASSUME LiveInv
  PROVE  /\ stage \notin {"plan", "rejected"} <=> Started
         /\ stage \in {"plan", "rejected"} => ~finalising
         /\ stage = "outputs" => status = "done" /\ finalising
         /\ stage \in {"inputs"} \cup (Turning \ {"turn"}) => status = "running"
         /\ stage \in Turning =>
              /\ InStreaming /\ step \in DOMAIN plan /\ plan[step].kind = "streaming"
              /\ mode = IF stage = "push" THEN "check" ELSE "run"
              /\ stage # "turn" => at = 1
         /\ finalising => OuterEnded
<1>1. stage \notin {"plan", "rejected"} <=> Started
  BY DEF LiveInv, StageOK, Started
<1>2. ASSUME stage \in {"inputs"} \cup (Turning \ {"turn"}) PROVE status = "running"
  <2>1. Started
    BY <1>1, <1>2 DEF Turning
  <2>2. status \in {"running", "done", "thrown"}
    BY <2>1, LiveFacts
  <2> QED
    BY <1>2, <2>2 DEF LiveInv, StageOK, Turning
<1>3. stage \in Turning =>
        /\ InStreaming /\ step \in DOMAIN plan /\ plan[step].kind = "streaming"
        /\ mode = IF stage = "push" THEN "check" ELSE "run"
        /\ stage # "turn" => at = 1
  BY DEF LiveInv, StageOK, InStreaming
<1>4. /\ stage = "outputs" => status = "done" /\ finalising
      /\ stage \in {"plan", "rejected"} => ~finalising
      /\ finalising => OuterEnded
  BY DEF LiveInv, StageOK, FinalisingOK, Stages
<1> QED
  BY <1>1, <1>2, <1>3, <1>4

\* The stream ports of the dynamic subgraph are stood for by processes of the
\* one streaming step there is.
LEMMA ParentRuns ==
  ASSUME LiveInv, stage \in Turning,
         NEW p \in Here(ParentStreamInputs) \cup Here(ParentStreamOutputs)
  PROVE  /\ p \in flat.procs /\ life[p] = "running"
         /\ \A a \in CalledAt(plan, p) : a[1] = step
<1>1. /\ Started /\ InStreaming /\ mode \in {"run", "check"}
  BY StageFacts DEF Turning
<1>2. /\ PlanInv /\ phase = "planned" /\ LifeFollowsPlan
      /\ \E n \in DOMAIN plan : StreamingSteps = {n}
      /\ \A n : n \in StreamingSteps <=> n \in DOMAIN plan /\ plan[n].kind = "streaming"
      /\ step \in StreamingSteps /\ step \in Nat
  BY <1>1, LiveFacts DEF RunInv
<1>3. p \in flat.procs /\ p \in flat.streaming
  BY <1>2, ParentPorts DEF Here
<1>4. ASSUME NEW a \in CalledAt(plan, p) PROVE a[1] = step
  <2>1. /\ a[1] \in DOMAIN plan /\ a[2] \in DOMAIN Calls(plan[a[1]])
        /\ Calls(plan[a[1]])[a[2]] = p
    BY <1>2, <1>3, Places
  <2>2. plan[a[1]].kind \notin {"functional", "copy"}
    BY <1>2, <1>3, <2>1, StepKinds
  <2>3. plan[a[1]].kind = "streaming"
    BY <1>2, <2>1, <2>2, StepKinds
  <2> QED
    BY <1>2, <2>1, <2>3
<1>5. PICK a \in CalledAt(plan, p) : TRUE
  BY <1>2, <1>3, Places
<1>6. life[p] = "running"
  BY <1>1, <1>2, <1>3, <1>4, <1>5 DEF LifeFollowsPlan, LifeAt
<1> QED
  BY <1>3, <1>4, <1>6

-----------------------------------------------------------------------------
(***************************************************************************)
(* What a step of the inner plan does to the parent processes' ports.      *)
(***************************************************************************)

\* Nothing is pushed to or closed by a parent process, and nothing taken from
\* one.
ParentsQuiet ==
  /\ \A p \in Here(ParentStreamInputs) :
       /\ sent'[InnerOut(p)] = sent[InnerOut(p)]
       /\ streamOut'[InnerOut(p)].eof => streamOut[InnerOut(p)].eof
  /\ \A p \in Here(ParentStreamOutputs) :
       /\ got'[InnerIn(p)] = got[InnerIn(p)]
       /\ Eof(streamIn[InnerIn(p)]) => Eof(streamIn'[InnerIn(p)])

\* The values of the data inputs stay until they are copied.
ValuesStay ==
  /\ dataOut' = [o \in DataOuts |-> dataOut'[o]]
  /\ \A p \in Here(ParentDataInputs) : life'[p] = "idle" =>
       life[p] = "idle" /\ dataOut'[InnerOut(p)] = dataOut[InnerOut(p)]

LEMMA HereIs ==
  ASSUME Frame
  PROVE  \A P : Here(P)' = Here(P)
BY FrameIs DEF Here

LEMMA MovesKept ==
  ASSUME LiveInv, Started, Frame, ParentsQuiet, ValuesStay, UNCHANGED outerVars,
         stage # "inputs" \/ stage' = "inputs"
  PROVE  InputsMove' /\ OutputsMove' /\ ValuesMovedIn'
<1>1. /\ UNCHANGED <<outerIn, outerOut, outerSent, outerGot>>
      /\ Here(ParentStreamInputs)' = Here(ParentStreamInputs)
      /\ Here(ParentStreamOutputs)' = Here(ParentStreamOutputs)
      /\ Here(ParentDataInputs)' = Here(ParentDataInputs)
      /\ DataOuts' = DataOuts
  BY FrameIs, FramePorts DEF outerVars, Here
<1>2. InputsMove /\ OutputsMove /\ ValuesMovedIn
  BY DEF LiveInv
<1>3. InputsMove'
  BY <1>1, <1>2 DEF InputsMove, ParentsQuiet, Eof
<1>4. OutputsMove'
  BY <1>1, <1>2 DEF OutputsMove, ParentsQuiet
<1>5. ValuesMovedIn'
  BY <1>1, <1>2 DEF ValuesMovedIn, ValuesStay
<1> QED
  BY <1>3, <1>4, <1>5

LEMMA QuietStreamsAreQuiet ==
  ASSUME QuietStreams
  PROVE  ParentsQuiet
BY DEF QuietStreams, ParentsQuiet

\* A process that sets its data outputs is not idle after it.
LEMMA SetOutputsStay ==
  ASSUME LiveInv, Started, NEW p \in flat.procs, SetDataOutputs(p),
         life' = [life EXCEPT ![p] = "done"]
  PROVE  ValuesStay
<1>1. PlanInv /\ phase = "planned" /\ ExecInv /\ ExecTypeOK
  BY DEF LiveInv, ExecInv, RunInv
<1>2. \A o \in DataOuts \ DataOutPorts(flat, p) : dataOut'[o] = dataOut[o]
  BY <1>1, DataOutputsSet
<1>3. dataOut' = [o \in DataOuts |-> dataOut'[o]]
  BY <1>1 DEF SetDataOutputs, Updated, ExecTypeOK
<1>4. ASSUME NEW q \in Here(ParentDataInputs), life'[q] = "idle"
      PROVE  life[q] = "idle" /\ dataOut'[InnerOut(q)] = dataOut[InnerOut(q)]
  <2>1. q \in flat.procs /\ InnerOut(q) \in DataOuts
    BY <1>1, ParentPorts DEF Here
  <2>2. q # p /\ life[q] = "idle"
    BY <1>1, <1>4, <2>1 DEF ExecTypeOK
  <2>3. InnerOut(q) \notin DataOutPorts(flat, p)
    BY <2>2, DataOutPortOwner DEF InnerOut
  <2> QED
    BY <1>2, <2>1, <2>2, <2>3
<1> QED
  BY <1>3, <1>4 DEF ValuesStay

\* The value of a port is copied after its process is done.
LEMMA CopyStays ==
  ASSUME LiveInv, Started, RunCopyData
  PROVE  ValuesStay
<1> DEFINE from == plan[step].from
<1>1. /\ PlanInv /\ phase = "planned" /\ ExecTypeOK /\ ControlOK /\ LifeFollowsPlan
      /\ status = "running" /\ plan[step].kind = "copy"
      /\ dataOut' = [dataOut EXCEPT ![from] = MovedOut] /\ life' = life
  BY DEF LiveInv, ExecInv, RunInv, RunCopyData, Running
<1>2. step \in DOMAIN plan /\ DOMAIN plan \subseteq Nat
  BY <1>1, PlanFacts DEF ControlOK
<1>3. dataOut = [o \in DataOuts |-> dataOut[o]]
  BY DEF LiveInv, ValuesMovedIn
<1>4. dataOut' = [o \in DataOuts |-> dataOut'[o]]
  BY <1>1, <1>3
<1>5. ASSUME NEW q \in Here(ParentDataInputs), life'[q] = "idle"
      PROVE  dataOut'[InnerOut(q)] = dataOut[InnerOut(q)]
  <2>1. /\ q \in flat.procs /\ InnerOut(q) \in DataOuts
        /\ DataOutPorts(flat, q) = {InnerOut(q)}
    BY <1>1, ParentPorts DEF Here, HasPorts
  <2>2. from # InnerOut(q)
    <3> SUFFICES ASSUME from = InnerOut(q) PROVE FALSE
      OBVIOUS
    <3>1. PICK c \in flat.conns : ~c.stream /\ c.up = q /\ InnerOut(q) = OutPort(c)
      BY <2>1, PortEnds
    <3>2. ToSet(plan[step].to) = ConnectedPorts(flat, from)
      BY <1>1, <1>2, StepKinds
    <3>3. InPort(c) \in ToSet(plan[step].to)
      BY <3>1, <3>2 DEF ConnectedPorts
    <3>4. CopiesAt(plan, c, step)
      BY <1>1, <1>2, <3>3, ConnPlaces
    <3>5. PICK u \in CalledAt(plan, c.up) : u[1] < step
      BY <1>1, <1>2, <3>4, ConnPlaces
    <3>6. life[q] = "done"
      BY <1>1, <2>1, <3>1, <3>5 DEF LifeFollowsPlan, LifeAt
    <3> QED
      BY <1>1, <1>5, <3>6
  <2> QED
    BY <1>1, <1>3, <2>1, <2>2
<1> QED
  BY <1>1, <1>4, <1>5 DEF ValuesStay

\* A call of another process leaves the ports of the parent processes alone.
LEMMA CallIsQuiet ==
  ASSUME LiveInv, Started, NEW q \in flat.procs, q \notin Parents, Flows(q)
  PROVE  ParentsQuiet
<1>1. PlanInv /\ phase = "planned"
  BY DEF LiveInv, ExecInv
<1>2. ASSUME NEW p \in Here(ParentStreamInputs)
      PROVE  /\ sent'[InnerOut(p)] = sent[InnerOut(p)]
             /\ streamOut'[InnerOut(p)] = streamOut[InnerOut(p)]
  <2>1. InnerOut(p) \in StreamOuts /\ p # q
    BY <1>1, ParentPorts DEF Here, Parents
  <2>2. InnerOut(p) \notin StreamOutPorts(flat, q)
    BY <2>1, PortOwners DEF InnerOut
  <2> QED
    BY <2>1, <2>2 DEF Flows
<1>3. ASSUME NEW p \in Here(ParentStreamOutputs)
      PROVE  /\ got'[InnerIn(p)] = got[InnerIn(p)]
             /\ streamIn'[InnerIn(p)] = streamIn[InnerIn(p)]
  <2>1. InnerIn(p) \in StreamIns /\ p # q
    BY <1>1, ParentPorts DEF Here, Parents
  <2>2. InnerIn(p) \notin StreamInPorts(flat, q)
    BY <2>1, PortOwners DEF InnerIn
  <2> QED
    BY <2>1, <2>2 DEF Flows
<1> QED
  BY <1>2, <1>3 DEF ParentsQuiet

\* A copy adds to the ports of stream outputs, but not after their end.
LEMMA CopyIsQuiet ==
  ASSUME LiveInv, Started, RunCopyStream
  PROVE  ParentsQuiet
<1>1. /\ ExecInv /\ PlanInv /\ phase = "planned" /\ EndsInOrder /\ IsGraph(flat)
      /\ sent' = sent /\ got' = got
  BY PlanFacts DEF LiveInv, ExecInv, RunInv, RunCopyStream
<1>2. PICK o \in StreamOuts :
        /\ \A x \in StreamOuts : streamOut'[x].eof <=> streamOut[x].eof
        /\ \A c \in StreamConns :
             IF OutPort(c) = o
             THEN /\ streamIn'[InPort(c)].queue = streamIn[InPort(c)].queue \o streamOut[o].queue
                  /\ streamIn'[InPort(c)].eof <=> streamIn[InPort(c)].eof \/ streamOut[o].eof
             ELSE streamIn'[InPort(c)] = streamIn[InPort(c)]
  BY <1>1, CopyStreamEffect DEF StreamOuts, PortsOf
<1>3. ASSUME NEW i \in StreamIns, Eof(streamIn[i])
      PROVE  Eof(streamIn'[i])
  <2>1. PICK c \in StreamConns : i = InPort(c)
    BY <1>1, PortsOfGraph DEF StreamIns, StreamConns
  <2>2. streamOut[OutPort(c)].eof /\ streamOut[OutPort(c)].queue = <<>>
    BY <1>1, <1>3, <2>1 DEF EndsInOrder, Eof
  <2>3. <<>> \o <<>> = <<>>
    BY ItemSeqs
  <2> QED
    BY <1>2, <1>3, <2>1, <2>2, <2>3 DEF Eof
<1>4. /\ \A p \in Here(ParentStreamInputs) : InnerOut(p) \in StreamOuts
      /\ \A p \in Here(ParentStreamOutputs) : InnerIn(p) \in StreamIns
  BY <1>1, ParentPorts DEF Here
<1> QED
  BY <1>1, <1>2, <1>3, <1>4 DEF ParentsQuiet

-----------------------------------------------------------------------------
(***************************************************************************)
(* Steps of the inner plan, in initialise(), process() and finalise().     *)
(***************************************************************************)

\* A process that is not a streaming one is not a buffer.
LEMMA FunctionalIsUser ==
  ASSUME PlanInv, phase = "planned", NEW p \in flat.procs, p \notin flat.streaming
  PROVE  p \in source.procs
<1> SUFFICES ASSUME p \notin source.procs PROVE FALSE
  OBVIOUS
<1>1. ~allowSplit /\ IsGraph(flat)
  BY PlanFacts
<1>2. WriterShape(flat, p) \/ ReaderShape(flat, p)
  BY <1>1, BufferShapes
<1>3. StreamInPorts(flat, p) # {} \/ StreamOutPorts(flat, p) # {}
  BY <1>2 DEF WriterShape, ReaderShape
<1>4. \E c \in flat.conns : c.stream /\ (c.up = p \/ c.down = p)
  BY <1>3, PortEnds
<1> QED
  BY <1>1, <1>4 DEF IsGraph

\* A parent process that is called for its data outputs finds them set.
LEMMA ParentIdles ==
  ASSUME LiveInv, Started, stage # "inputs", RunInnerFunctional
  PROVE  RunFunctional
<1> SUFFICES ASSUME Running("functional"), plan[step].process \in Parents
             PROVE  RunFunctional
  BY DEF RunInnerFunctional
<1> DEFINE p == plan[step].process
<1>1. /\ life' = [life EXCEPT ![p] = "done"] /\ GoTo(step + 1)
      /\ UNCHANGED <<plannerVars, dataOut, dataIn, streamOut, streamIn, buf, sent, got>>
      /\ status = "running" /\ plan[step].kind = "functional"
  BY DEF RunInnerFunctional, Running, portVars
<1>2. /\ PlanInv /\ phase = "planned" /\ ControlOK /\ LifeFollowsPlan
      /\ step \in DOMAIN plan /\ step \in Nat
      /\ mode = "initialise" /\ at = 1
  BY <1>1, LiveFacts DEF RunInv, ControlOK, InStreaming
<1>3. p \in flat.procs /\ p \notin flat.streaming /\ Calls(plan[step]) = <<p>>
  BY <1>1, <1>2, StepKinds
<1>4. p \in source.procs
  BY <1>2, <1>3, FunctionalIsUser
<1> HIDE DEF p
<1>5. life[p] = "idle"
  <2>1. 1 \in DOMAIN Calls(plan[step]) /\ Calls(plan[step])[1] = p
    BY <1>3
  <2>2. <<step, 1>> \in CalledAt(plan, p)
    BY <1>2, <2>1, Places
  <2>3. LifeAt(<<step, 1>>) = "idle"
    BY <1>2 DEF LifeAt
  <2> QED
    BY <1>2, <1>3, <2>2, <2>3 DEF LifeFollowsPlan
<1>6. \A o \in DataOutPorts(flat, p) : dataOut[o] = Value(o, <<>>)
  <2>1. p \in ParentDataInputs \/ p \in ParentDataOutputs
    BY <1>2, <1>3, <1>4, ParentPorts DEF Parents, p
  <2>2. CASE p \in ParentDataInputs
    <3>1. DataOutPorts(flat, p) = {InnerOut(p)}
      BY <1>2, <1>4, <2>2, ParentPorts DEF HasPorts
    <3>2. dataOut[InnerOut(p)] = Value(InnerOut(p), <<>>)
      BY <1>4, <1>5, <2>2 DEF LiveInv, ValuesMovedIn, Here
    <3> QED
      BY <3>1, <3>2
  <2>3. CASE p \in ParentDataOutputs
    BY <1>2, <1>4, <2>3, ParentPorts DEF HasPorts
  <2> QED
    BY <2>1, <2>2, <2>3
<1>7. SetDataOutputs(p)
  <2>1. dataOut = [o \in DOMAIN dataOut |-> dataOut[o]]
    <3>1. dataOut = [o \in DataOuts |-> dataOut[o]]
      BY DEF LiveInv, ValuesMovedIn
    <3>2. DOMAIN dataOut = DataOuts
      BY <3>1
    <3> QED
      BY <3>1, <3>2, Zenon
  <2>2. IsUser(p)
    BY <1>4 DEF IsUser
  <2>3. dataOut = [o \in DOMAIN dataOut |->
                     IF o \in DataOutPorts(flat, p) THEN Value(o, <<>>) ELSE dataOut[o]]
    BY <1>6, <2>1
  <2> QED
    BY <1>1, <2>2, <2>3 DEF SetDataOutputs, Updated
<1> QED
  BY <1>1, <1>7 DEF RunFunctional, p

\* Nothing changes but the place of the process in the turn.
LEMMA QuietCall ==
  ASSUME ExecInv, Started, Frame, UNCHANGED portVars, NEW p \in flat.procs, life[p] # "idle"
  PROVE  CallOK(p)
<1>1. /\ UNCHANGED <<streamOut, streamIn, sent, got, buf>>
      /\ ExecTypeOK /\ ClosedAtTheEnd /\ WritersKeep
  BY DEF portVars, ExecInv, RunInv
<1>2. <<>> \in Seq(Nat)
      /\ \A i \in StreamIns : got[i] \o <<>> = got[i]
      /\ \A o \in StreamOuts : /\ sent[o] \o <<>> = sent[o]
                               /\ streamOut[o].queue \o <<>> = streamOut[o].queue
  BY <1>1, ItemSeqs DEF ExecTypeOK, StreamPort
<1>3. \A i \in StreamIns : \E x \in Seq(Nat) : got'[i] = got[i] \o x
  BY <1>1, <1>2
<1>4. \A o \in StreamOuts : \E x \in Seq(Nat) :
        sent'[o] = sent[o] \o x /\ streamOut'[o].queue = streamOut[o].queue \o x
  <2> TAKE o \in StreamOuts
  <2>1. /\ sent'[o] = sent[o] \o <<>> /\ streamOut'[o].queue = streamOut[o].queue \o <<>>
        /\ <<>> \in Seq(Nat)
    BY <1>1, <1>2
  <2> QED
    BY <2>1
<1>5. Flows(p)
  BY <1>1, <1>3, <1>4 DEF Flows, ExecTypeOK
<1> QED
  BY <1>1, <1>5 DEF CallOK, ExecTypeOK, ClosedAtTheEnd, WritersKeep

\* The invariants of the run hold after a step that keeps RunInv.
LEMMA StillExec ==
  ASSUME ExecInv, Started, Frame, RunInv', status' \in {"running", "done", "thrown"}
  PROVE  ExecInv'
BY NextPlanInv, FrameIs DEF ExecInv, Frame

\* The rest of the invariant after a step of the inner plan.
LEMMA InnerStep ==
  ASSUME LiveInv, Started, Frame, ExecInv', Started', ParentsQuiet, ValuesStay,
         UNCHANGED <<finalising, outerVars>>,
         stage \notin {"inputs", "pull", "push"},
         stage' \notin {"plan", "rejected", "inputs", "pull"},
         stage' = "push" => pending' = DOMAIN outerOut,
         StageOK', FinalisingOK'
  PROVE  LiveInv'
<1>1. InputsMove' /\ OutputsMove' /\ ValuesMovedIn'
  BY MovesKept
<1>2. OuterTypeOK'
  <2>1. /\ UNCHANGED <<outerIn, outerOut, outerData, outerSent, outerGot>>
        /\ \A P : Here(P)' = Here(P)
    BY HereIs DEF outerVars
  <2>2. DOMAIN outerOut = Here(ParentStreamOutputs)
    BY DEF LiveInv, OuterTypeOK
  <2> QED
    BY <2>1, <2>2 DEF LiveInv, OuterTypeOK
<1>3. NothingCalledYet' /\ NothingMovedYet'
  BY DEF NothingCalledYet, NothingMovedYet
<1> QED
  BY <1>1, <1>2, <1>3 DEF LiveInv

LEMMA StepsBeforeAndAfter ==
  ASSUME LiveInv, Started, stage \in {"initialise", "finalise"},
         RunInnerFunctional \/ RunCopyData
  PROVE  /\ EvaluateNext /\ Frame /\ Started'
         /\ ParentsQuiet /\ ValuesStay
         /\ step' = step + 1 /\ mode' = "initialise" /\ at' = 1
         /\ status' = (IF step + 1 > Len(plan) THEN "done" ELSE "running")
         /\ step \in DOMAIN plan /\ plan[step].kind # "streaming"
<1>1. RunFunctional \/ RunCopyData
  BY ParentIdles
<1>2. /\ EvaluateNext /\ Frame /\ GoTo(step + 1) /\ QuietStreams
      /\ status = "running" /\ plan[step].kind \in {"functional", "copy"}
  BY <1>1 DEF EvaluateNext, RunFunctional, RunCopyData, Running, Frame, QuietStreams
<1>3. step \in DOMAIN plan
  BY <1>2, LiveFacts DEF RunInv, ControlOK
<1>4. ValuesStay
  <2>1. CASE RunFunctional
    <3>1. /\ plan[step].process \in flat.procs /\ SetDataOutputs(plan[step].process)
          /\ life' = [life EXCEPT ![plan[step].process] = "done"]
      BY <1>3, <2>1, LiveFacts, StepKinds DEF RunFunctional, Running
    <3> QED
      BY <3>1, SetOutputsStay
  <2>2. CASE RunCopyData
    BY <2>2, CopyStays
  <2> QED
    BY <1>1, <2>1, <2>2
<1>5. ParentsQuiet
  BY <1>2, QuietStreamsAreQuiet
<1>6. Started'
  BY <1>2 DEF GoTo, Started
<1> QED
  BY <1>2, <1>3, <1>4, <1>5, <1>6 DEF GoTo

\* initialise(): the steps before the streaming step, and its beginning.
LEMMA RunFirstStepsLive ==
  ASSUME LiveInv, RunFirstSteps
  PROVE  LiveInv' /\ [EvaluateNext]_vars
<1>1. /\ stage = "initialise" /\ UNCHANGED <<finalising, pending, outerVars>>
      /\ RunInnerFunctional \/ RunCopyData \/ Initialise
      /\ stage' = IF mode' = "run" THEN "first" ELSE "initialise"
  BY DEF RunFirstSteps
<1>2. Started /\ ~finalising /\ \A n \in StreamingSteps : step <= n
  BY <1>1 DEF LiveInv, StageOK, FinalisingOK, Started, Stages
<1>3. /\ ExecInv /\ Len(plan) \in Nat /\ DOMAIN plan = 1 .. Len(plan) /\ step \in Nat
      /\ \E n \in DOMAIN plan : StreamingSteps = {n}
      /\ InStreaming <=> step \in StreamingSteps
  BY <1>2, LiveFacts DEF LiveInv
<1>4. ASSUME Frame, EvaluateNext, Started', ParentsQuiet, ValuesStay,
             status' = "running", stage' \in {"initialise", "first"},
             stage' = "initialise" => mode' = "initialise" /\ \A n \in StreamingSteps : step' <= n,
             stage' = "first" => InStreaming' /\ mode' = "run" /\ at' = 1
      PROVE  LiveInv'
  <2>1. StreamingSteps' = StreamingSteps /\ plan' = plan
    BY <1>4, FrameIs DEF StreamingSteps
  <2>2. StageOK'
    BY <1>1, <1>3, <1>4, <2>1 DEF StageOK, Stages, Turning, Started
  <2>3. FinalisingOK'
    BY <1>1, <1>2, <1>4 DEF FinalisingOK
  <2>4. ExecInv'
    BY <1>3, <1>4, NextExecInv
  <2> QED
    BY <1>1, <1>2, <1>4, <2>2, <2>3, <2>4, InnerStep
<1>5. CASE RunInnerFunctional \/ RunCopyData
  <2>1. /\ EvaluateNext /\ Frame /\ Started' /\ ParentsQuiet /\ ValuesStay
        /\ step' = step + 1 /\ mode' = "initialise"
        /\ status' = (IF step + 1 > Len(plan) THEN "done" ELSE "running")
        /\ step \in DOMAIN plan /\ plan[step].kind # "streaming"
    BY <1>1, <1>2, <1>5, StepsBeforeAndAfter
  <2>2. PICK n \in DOMAIN plan : StreamingSteps = {n}
    BY <1>3
  <2>3. step # n /\ step <= n
    BY <1>2, <1>3, <2>1, <2>2 DEF InStreaming
  <2>4. step + 1 <= n /\ n <= Len(plan)
    BY <1>3, <2>2, <2>3
  <2>5. status' = "running" /\ stage' = "initialise"
    BY <1>1, <1>3, <2>1, <2>2, <2>4
  <2> QED
    BY <1>4, <2>1, <2>2, <2>4, <2>5
<1>6. CASE Initialise
  <2>1. /\ InMode("initialise") /\ Advance(Len(Processes), "run") /\ Frame
        /\ dataOut' = dataOut /\ QuietStreams /\ EvaluateNext
        /\ life' = [life EXCEPT ![Processes[at]] = "running"]
    BY <1>6 DEF Initialise, Frame, QuietStreams, EvaluateNext
  <2>2. /\ status = "running" /\ mode = "initialise" /\ InStreaming
        /\ Len(Processes) \in Nat \ {0} /\ DOMAIN Processes = 1 .. Len(Processes)
        /\ at \in 1 .. Len(Processes)
    BY <1>2, <1>3, <2>1, InModeIs
  <2>3. /\ status' = "running" /\ step' = step
        /\ mode' = "initialise" \/ (mode' = "run" /\ at' = 1)
    BY <2>1, <2>2 DEF Advance
  <2>4. InStreaming' = InStreaming /\ Started'
    BY <2>1, <2>3, SameStep DEF Started
  <2>5. ValuesStay
    <3>1. \A q \in flat.procs : life'[q] = "idle" => life[q] = "idle"
      BY <2>1, <1>2, LiveFacts DEF RunInv, ExecTypeOK
    <3>2. \A p \in Here(ParentDataInputs) : p \in flat.procs
      BY <1>2, LiveFacts, ParentPorts DEF Here
    <3>3. dataOut = [o \in DataOuts |-> dataOut[o]]
      BY <1>2 DEF LiveInv, ValuesMovedIn
    <3> QED
      BY <2>1, <3>1, <3>2, <3>3 DEF ValuesStay
  <2>6. ParentsQuiet
    BY <2>1, QuietStreamsAreQuiet
  <2> QED
    BY <1>1, <1>2, <1>4, <2>1, <2>2, <2>3, <2>4, <2>5, <2>6
<1> QED
  BY <1>1, <1>5, <1>6

\* finalise(): the rest of the streaming step, and the steps after it.
LEMMA RunLastStepsLive ==
  ASSUME LiveInv, RunLastSteps
  PROVE  LiveInv' /\ [EvaluateNext]_vars
<1>1. /\ stage = "finalise" /\ UNCHANGED <<finalising, pending, outerVars>>
      /\ Finalise \/ RunInnerFunctional \/ RunCopyData
      /\ stage' = IF status' = "done" THEN "outputs" ELSE "finalise"
  BY DEF RunLastSteps
<1>2. Started /\ finalising /\ OuterEnded /\ \A n \in StreamingSteps : n <= step
  BY <1>1 DEF LiveInv, StageOK, FinalisingOK, Started
<1>3. /\ ExecInv /\ Len(plan) \in Nat /\ DOMAIN plan = 1 .. Len(plan) /\ step \in Nat
      /\ \E n \in DOMAIN plan : StreamingSteps = {n}
      /\ InStreaming <=> step \in StreamingSteps
      /\ \A n : n \in StreamingSteps <=> n \in DOMAIN plan /\ plan[n].kind = "streaming"
  BY <1>2, LiveFacts DEF LiveInv
<1>4. ASSUME Frame, EvaluateNext, Started', ParentsQuiet, ValuesStay,
             status' \in {"running", "done"},
             \/ step' = step /\ mode' = "finalise"
             \/ step' = step + 1
      PROVE  LiveInv'
  <2>1. StreamingSteps' = StreamingSteps /\ plan' = plan
    BY <1>4, FrameIs DEF StreamingSteps
  <2>2. \A n \in StreamingSteps : n <= step' /\ n \in Nat
    BY <1>2, <1>3, <1>4
  <2>3. InStreaming' => mode' = "finalise"
    <3>1. step' = step + 1 => step' \notin StreamingSteps
      BY <1>2, <1>3
    <3>2. InStreaming' => step' \in StreamingSteps
      BY <1>3, <2>1 DEF InStreaming
    <3> QED
      BY <1>4, <3>1, <3>2
  <2>4. StageOK'
    BY <1>1, <1>3, <1>4, <2>1, <2>2, <2>3 DEF StageOK, Stages, Turning, Started
  <2>5. FinalisingOK'
    BY <1>1, <1>2 DEF FinalisingOK, OuterEnded, Stages, Turning, outerVars
  <2>6. ExecInv'
    BY <1>3, <1>4, NextExecInv
  <2> QED
    BY <1>1, <1>2, <1>4, <2>4, <2>5, <2>6, InnerStep
<1>5. CASE RunInnerFunctional \/ RunCopyData
  BY <1>1, <1>2, <1>4, <1>5, StepsBeforeAndAfter
<1>6. CASE Finalise
  <2>1. /\ InMode("finalise") /\ Frame /\ QuietStreams /\ EvaluateNext
        /\ life' = [life EXCEPT ![Processes[at]] = "done"] /\ SetDataOutputs(Processes[at])
        /\ \/ UNCHANGED <<status, step, mode>>
           \/ GoTo(step + 1)
    BY <1>6 DEF Finalise, Frame, QuietStreams, EvaluateNext
  <2>2. /\ status = "running" /\ mode = "finalise" /\ step \in DOMAIN plan
        /\ Calls(plan[step]) = Processes /\ at \in DOMAIN Processes
        /\ PlanInv /\ phase = "planned"
    BY <1>2, <1>3, <2>1, InModeIs
  <2>3. /\ status' \in {"running", "done"}
        /\ \/ step' = step /\ mode' = "finalise"
           \/ step' = step + 1
    BY <2>1, <2>2 DEF GoTo
  <2>4. Processes[at] \in flat.procs
    BY <2>2, CallsOfStep
  <2>5. ValuesStay /\ ParentsQuiet
    BY <1>2, <2>1, <2>4, SetOutputsStay, QuietStreamsAreQuiet
  <2> QED
    BY <1>4, <2>1, <2>3, <2>5 DEF Started
<1>7. EvaluateNext
  BY <1>1, <1>2, StepsBeforeAndAfter DEF EvaluateNext
<1> QED
  BY <1>1, <1>5, <1>6, <1>7

-----------------------------------------------------------------------------
(***************************************************************************)
(* process().                                                              *)
(***************************************************************************)

\* What a step is to the processes of the inner graph: a step of evaluate(),
\* a call of one of them, or nothing.
Called ==
  /\ Started /\ Started' /\ Frame /\ life' = life
  /\ \E p \in flat.procs : CallOK(p) /\ life[p] = "running"
Unseen == Started /\ Started' /\ Frame /\ UNCHANGED <<life, sent, got, streamOut>>
AllowedStep == [EvaluateNext]_vars \/ Called \/ Unseen

LEMMA AllowedKeepsContract ==
  ASSUME ExecInv, NothingCalledYet, Kept', AllowedStep
  PROVE  [Contract!Next]_Contract!dataflowVars
<1>1. CASE [EvaluateNext]_vars
  BY <1>1, NextKeepsContract
<1>2. CASE Called
  BY <1>2, CallKeeps DEF Called
<1>3. CASE Unseen
  BY <1>3, StepUnseen DEF Unseen
<1> QED
  BY <1>1, <1>2, <1>3 DEF AllowedStep

\* A turn stays in the streaming step.
LEMMA TurnControl ==
  ASSUME LiveInv, stage \in Turning, status = "running", Frame,
         UNCHANGED <<status, step, life>>,
         \/ mode' = "run" /\ at' \in 1 .. Len(InnerPlan)
         \/ mode' = "run" /\ at' = 1
         \/ mode' \in {"check", "finalise"} /\ at' = 1
         \/ UNCHANGED <<mode, at>>
  PROVE  /\ ControlOK' /\ LifeFollowsPlan' /\ Started /\ Started'
         /\ InStreaming /\ InStreaming'
         /\ StreamingSteps' = StreamingSteps
         /\ \E n \in DOMAIN plan' : StreamingSteps' = {n}
         /\ \A n \in StreamingSteps' : n = step'
<1>1. /\ Started /\ InStreaming /\ mode \in {"run", "check"}
      /\ plan[step].kind = "streaming"
  BY StageFacts DEF Turning
<1>2. InMode(mode) /\ ExecInv
  BY <1>1 DEF InMode, Running, LiveInv
<1>3. /\ mode = "run" => at \in 1 .. Len(InnerPlan)
      /\ mode = "check" => at = 1
      /\ Len(InnerPlan) \in Nat \ {0}
  BY <1>1, <1>2, InModeIs
<1>4. 1 \in 1 .. Len(InnerPlan)
  BY <1>3
<1>5. \/ mode' = "run" /\ at' \in 1 .. Len(InnerPlan)
      \/ mode' \in {"check", "finalise"} /\ at' = 1
  BY <1>1, <1>3, <1>4
<1>6. ControlOK' /\ LifeFollowsPlan'
  BY <1>1, <1>2, <1>5, StillRunningLife
<1>7. plan' = plan /\ InStreaming' = InStreaming /\ StreamingSteps' = StreamingSteps
  BY FrameIs, SameStep DEF StreamingSteps
<1>8. PICK n \in DOMAIN plan : StreamingSteps = {n} /\ step \in StreamingSteps
  BY <1>1, LiveFacts
<1> QED
  BY <1>1, <1>6, <1>7, <1>8 DEF Started

\* There is a process in the streaming step.
LEMMA SomeProcessRuns ==
  ASSUME LiveInv, stage \in Turning, status = "running"
  PROVE  \E p \in flat.procs : life[p] = "running" /\ \A a \in CalledAt(plan, p) : a[1] = step
<1>1. InMode(mode) /\ Started /\ ExecInv /\ mode \in {"run", "check"}
  BY StageFacts DEF InMode, Running, LiveInv, Turning
<1>2. /\ PlanInv /\ phase = "planned" /\ step \in DOMAIN plan
      /\ Calls(plan[step]) = Processes /\ Len(Processes) \in Nat \ {0}
      /\ DOMAIN Processes = 1 .. Len(Processes) /\ step \in Nat /\ LifeFollowsPlan
  BY <1>1, InModeIs DEF RunInv
<1>3. 1 \in DOMAIN Processes
  BY <1>2
<1>4. /\ Processes[1] \in flat.procs
      /\ \A a \in CalledAt(plan, Processes[1]) : a[1] = step
  BY <1>2, <1>3, CallsOfStep
<1>5. PICK a \in CalledAt(plan, Processes[1]) : TRUE
  BY <1>2, <1>4, Places
<1>6. life[Processes[1]] = "running"
  BY <1>1, <1>2, <1>4, <1>5 DEF LifeFollowsPlan, LifeAt
<1> QED
  BY <1>4, <1>6

\* A step of run_run().
LEMMA TakeTurnLive ==
  ASSUME LiveInv, TakeTurn
  PROVE  LiveInv' /\ AllowedStep
<1>1. /\ stage = "turn" /\ UNCHANGED <<finalising, outerVars>>
      /\ RunInnerProcess \/ RunCopyStream
      /\ IF mode' = "check" THEN stage' = "push" /\ pending' = DOMAIN outerOut
                            ELSE UNCHANGED <<stage, pending>>
  BY DEF TakeTurn
<1>2. stage \in Turning /\ Started /\ ExecInv
  BY <1>1, StageFacts DEF LiveInv, Turning
<1>3. ASSUME Frame, InMode("run"), Advance(Len(InnerPlan), "check"), ExecInv', ParentsQuiet,
             life' = life, dataOut' = dataOut
      PROVE  LiveInv'
  <2>1. /\ status = "running" /\ status' = status /\ step' = step /\ mode' \in {"run", "check"}
        /\ \/ mode' = "run" /\ at' \in 1 .. Len(InnerPlan)
           \/ mode' \in {"check", "finalise"} /\ at' = 1
    BY <1>2, <1>3, TurnGoesOn, InModeIs
  <2>2. /\ Started' /\ InStreaming' /\ \E n \in DOMAIN plan' : StreamingSteps' = {n}
    BY <1>2, <1>3, <2>1, TurnControl
  <2>3. StageOK'
    BY <1>1, <2>1, <2>2 DEF StageOK, Stages, Turning, Started
  <2>4. FinalisingOK'
    BY <1>1 DEF LiveInv, FinalisingOK, OuterEnded, Stages, Turning, outerVars
  <2>5. ValuesStay
    <3>1. dataOut = [o \in DataOuts |-> dataOut[o]]
      BY <1>2 DEF LiveInv, ValuesMovedIn
    <3> QED
      BY <1>3, <3>1 DEF ValuesStay
  <2> QED
    BY <1>1, <1>2, <1>3, <2>2, <2>3, <2>4, <2>5, InnerStep
<1>4. CASE RunCopyStream
  <2>1. Advance(Len(InnerPlan), "check")
    BY <1>2, <1>4, CopyStreamEffect
  <2>2. Frame /\ InMode("run") /\ EvaluateNext /\ life' = life /\ dataOut' = dataOut
    BY <1>4 DEF RunCopyStream, Frame, EvaluateNext
  <2>3. ExecInv' /\ ParentsQuiet
    BY <1>2, <1>4, <2>2, NextExecInv, CopyIsQuiet
  <2> QED
    BY <1>3, <2>1, <2>2, <2>3 DEF AllowedStep
<1>5. CASE RunInnerProcess /\ RunProcess
  <2>1. /\ Frame /\ InMode("run") /\ EvaluateNext /\ life' = life /\ dataOut' = dataOut
        /\ Advance(Len(InnerPlan), "check") /\ InnerPlan[at].kind = "process"
    BY <1>5 DEF RunProcess, Frame, EvaluateNext
  <2>2. PICK p \in flat.procs : CallOK(p) /\ p = InnerPlan[at].process
    BY <1>2, <1>5, RunProcessCalls
  <2>3. CASE p \notin Parents
    <3>1. ParentsQuiet
      BY <1>2, <2>2, <2>3, CallIsQuiet DEF CallOK
    <3>2. ExecInv'
      BY <1>2, <2>1, NextExecInv
    <3> QED
      BY <1>3, <2>1, <3>1, <3>2 DEF AllowedStep
  <2>4. CASE p \in Parents
    <3>1. UNCHANGED <<life, portVars>>
      BY <1>5, <2>1, <2>2, <2>4 DEF RunInnerProcess
    <3>2. QuietStreams
      BY <3>1 DEF portVars, QuietStreams
    <3>3. ExecInv' /\ ParentsQuiet
      BY <1>2, <2>1, <3>2, NextExecInv, QuietStreamsAreQuiet
    <3> QED
      BY <1>3, <2>1, <3>3 DEF AllowedStep
  <2> QED
    BY <2>3, <2>4
<1>6. CASE RunInnerProcess /\ ~RunProcess
  <2>1. /\ InMode("run") /\ Advance(Len(InnerPlan), "check") /\ Frame
        /\ UNCHANGED <<life, portVars>>
    BY <1>6 DEF RunInnerProcess, Frame
  <2>2. /\ UNCHANGED <<status, step, life, dataOut, dataIn>> /\ QuietStreams
        /\ mode' \in {"run", "check"} /\ ControlOK' /\ LifeFollowsPlan'
        /\ status = "running" /\ InStreaming
    BY <1>2, <2>1, TurnGoesOn, StillRunningLife, InModeIs DEF portVars, QuietStreams
  <2>3. PICK p \in flat.procs : life[p] = "running" /\ \A a \in CalledAt(plan, p) : a[1] = step
    BY <1>2, <2>2, SomeProcessRuns
  <2>4. CallOK(p)
    BY <1>2, <2>1, <2>3, QuietCall
  <2>5. RunInv'
    BY <1>2, <2>1, <2>2, <2>3, <2>4, CallInv
  <2>6. ExecInv'
    BY <1>2, <2>1, <2>2, <2>5, StillExec
  <2>7. Unseen
    BY <1>2, <2>1, <2>2 DEF Unseen, QuietStreams, Started
  <2> QED
    BY <1>3, <2>1, <2>2, <2>6, <2>7, QuietStreamsAreQuiet DEF AllowedStep
<1> QED
  BY <1>1, <1>4, <1>5, <1>6

\* Moving an outer input does not throw, and is to the inner graph as if the
\* parent process had pushed the items and closed its port.
LEMMA PullInputIs ==
  ASSUME LiveInv, stage = "pull", Frame, NEW p \in Here(ParentStreamInputs), PullInput(p),
         UNCHANGED <<life, buf, streamIn, got>>
  PROVE  /\ p \in flat.procs /\ CallOK(p) /\ status' = status
         /\ sent'[InnerOut(p)] = sent[InnerOut(p)] \o outerIn[p].queue
         /\ streamOut'[InnerOut(p)].eof => outerIn[p].eof
         /\ outerIn' \in [Here(ParentStreamInputs) -> StreamPort]
         /\ outerIn'[p].queue = <<>> /\ outerIn'[p].eof = outerIn[p].eof
         /\ \A q \in Here(ParentStreamInputs) : q # p =>
              /\ outerIn'[q] = outerIn[q]
              /\ sent'[InnerOut(q)] = sent[InnerOut(q)]
              /\ streamOut'[InnerOut(q)] = streamOut[InnerOut(q)]
<1> DEFINE o == InnerOut(p)
           x == outerIn[p].queue
<1>1. /\ Started /\ PlanInv /\ phase = "planned" /\ ExecTypeOK /\ InputsMove
      /\ outerIn \in [Here(ParentStreamInputs) -> StreamPort]
  BY StageFacts DEF LiveInv, ExecInv, RunInv, OuterTypeOK
<1>2. /\ p \in flat.procs /\ IsUser(p) /\ ~IsWriter(p) /\ ~IsReader(p) /\ o \in StreamOuts
      /\ StreamOutPorts(flat, p) = {o} /\ StreamInPorts(flat, p) = {}
  BY <1>1, ParentPorts DEF Here, HasPorts
<1>3. /\ outerIn[p] \in StreamPort /\ streamOut[o] \in StreamPort
      /\ x \in Seq(Nat) /\ streamOut[o].queue \in Seq(Nat)
      /\ streamOut \in [StreamOuts -> StreamPort] /\ sent \in [StreamOuts -> Seq(Nat)]
  BY <1>1, <1>2 DEF ExecTypeOK, StreamPort
<1>4. streamOut[o].eof => x = <<>> /\ outerIn[p].eof
  BY <1>1 DEF InputsMove, Eof
<1>5. /\ streamOut' = [streamOut EXCEPT ![o] = Received(outerIn[p], streamOut[o])]
      /\ sent' = [sent EXCEPT ![o] = sent[o] \o x]
      /\ outerIn' = [outerIn EXCEPT ![p] = Clear(outerIn[p])]
      /\ status' = status
  BY <1>4 DEF PullInput, CanPush
<1>6. /\ Received(outerIn[p], streamOut[o]) \in StreamPort
      /\ Received(outerIn[p], streamOut[o]).queue = streamOut[o].queue \o x
      /\ Received(outerIn[p], streamOut[o]).eof <=> streamOut[o].eof \/ outerIn[p].eof
      /\ Clear(outerIn[p]) \in StreamPort /\ Clear(outerIn[p]).queue = <<>>
      /\ Clear(outerIn[p]).eof = outerIn[p].eof
  BY <1>3, ReceivedIs
<1>7. sent[o] \o x \in Seq(Nat)
  BY <1>2, <1>3, ItemSeqs
<1> HIDE DEF o, x
<1>8. /\ streamOut' \in [StreamOuts -> StreamPort] /\ sent' \in [StreamOuts -> Seq(Nat)]
      /\ streamOut'[o].queue = streamOut[o].queue \o x
      /\ streamOut'[o].eof <=> streamOut[o].eof \/ outerIn[p].eof
      /\ sent'[o] = sent[o] \o x
      /\ \A y \in StreamOuts : y # o => streamOut'[y] = streamOut[y] /\ sent'[y] = sent[y]
  BY <1>2, <1>3, <1>5, <1>6, <1>7
<1>9. /\ outerIn' \in [Here(ParentStreamInputs) -> StreamPort]
      /\ outerIn'[p].queue = <<>> /\ outerIn'[p].eof = outerIn[p].eof
      /\ \A q \in Here(ParentStreamInputs) : q # p => outerIn'[q] = outerIn[q]
  BY <1>1, <1>5, <1>6
<1>10. /\ <<>> \in Seq(Nat)
       /\ \A i \in StreamIns : got[i] \o <<>> = got[i]
       /\ \A y \in StreamOuts : /\ sent[y] \o <<>> = sent[y]
                                /\ streamOut[y].queue \o <<>> = streamOut[y].queue
  BY <1>1, ItemSeqs DEF ExecTypeOK, StreamPort
<1>11. ASSUME NEW i \in StreamIns
       PROVE  \E y \in Seq(Nat) : got'[i] = got[i] \o y
  <2>1. got'[i] = got[i] \o <<>> /\ <<>> \in Seq(Nat)
    BY <1>10
  <2> QED
    BY <2>1
<1>12. ASSUME NEW y \in StreamOuts
       PROVE  \E z \in Seq(Nat) : /\ sent'[y] = sent[y] \o z
                                  /\ streamOut'[y].queue = streamOut[y].queue \o z
  <2>1. CASE y = o
    BY <1>3, <1>8, <2>1 DEF x
  <2>2. CASE y # o
    <3>1. /\ sent'[y] = sent[y] \o <<>> /\ streamOut'[y].queue = streamOut[y].queue \o <<>>
          /\ <<>> \in Seq(Nat)
      BY <1>8, <1>10, <2>2
    <3> QED
      BY <3>1
  <2> QED
    BY <2>1, <2>2
<1>13. \A y \in StreamOuts : streamOut[y].eof =>
         /\ streamOut'[y].eof /\ sent'[y] = sent[y]
         /\ streamOut'[y].queue = streamOut[y].queue
  BY <1>2, <1>4, <1>8, <1>10
<1>14. Flows(p)
  BY <1>1, <1>2, <1>8, <1>11, <1>12, <1>13 DEF Flows, ExecTypeOK
<1>15. CallOK(p)
  BY <1>1, <1>2, <1>14 DEF CallOK, ExecTypeOK
<1>16. ASSUME NEW q \in Here(ParentStreamInputs), q # p
       PROVE  InnerOut(q) \in StreamOuts /\ InnerOut(q) # o
  BY <1>1, <1>16, ParentPorts DEF Here, InnerOut, o
<1> QED
  BY <1>2, <1>4, <1>5, <1>8, <1>9, <1>15, <1>16 DEF o, x

LEMMA PullInputsLive ==
  ASSUME LiveInv, PullInputs
  PROVE  LiveInv' /\ AllowedStep
<1>1. /\ stage = "pull" /\ status = "running" /\ Frame
      /\ UNCHANGED <<step, mode, at, life, dataOut, dataIn, streamIn, buf, got>>
      /\ UNCHANGED <<finalising, outerOut, outerData, outerSent, outerGot>>
  BY DEF PullInputs, Frame
<1>2. /\ stage \in Turning /\ Started /\ ExecInv /\ mode = "run" /\ at = 1 /\ InStreaming
      /\ pending \subseteq Here(ParentStreamInputs)
      /\ InputsMove /\ OutputsMove /\ ValuesMovedIn /\ OuterTypeOK /\ FinalisingOK
  BY <1>1, StageFacts DEF LiveInv, Turning, OuterTypeOK
<1>3. /\ Here(ParentStreamInputs)' = Here(ParentStreamInputs)
      /\ Here(ParentStreamOutputs)' = Here(ParentStreamOutputs)
      /\ Here(ParentDataInputs)' = Here(ParentDataInputs)
      /\ Here(ParentDataOutputs)' = Here(ParentDataOutputs)
      /\ DataOuts' = DataOuts
  BY <1>1, HereIs, FramePorts
<1>4. ASSUME status' = status, stage' \in {"pull", "turn"}, ExecInv', InputsMove',
             outerIn' \in [Here(ParentStreamInputs) -> StreamPort],
             \A q \in Here(ParentStreamInputs) : Eof(outerIn[q]) => Eof(outerIn'[q]),
             stage' = "pull" => pending' \subseteq pending
      PROVE  LiveInv'
  <2>1. /\ Started' /\ InStreaming' /\ \E n \in DOMAIN plan' : StreamingSteps' = {n}
    BY <1>1, <1>2, <1>4, TurnControl
  <2>2. StageOK'
    BY <1>1, <1>2, <1>4, <2>1 DEF StageOK, Stages, Turning, Started
  <2>3. FinalisingOK'
    BY <1>1, <1>2, <1>3, <1>4 DEF FinalisingOK, OuterEnded, OuterTypeOK, Stages, Turning
  <2>4. OuterTypeOK'
    BY <1>1, <1>2, <1>3, <1>4 DEF OuterTypeOK
  <2>5. OutputsMove'
    BY <1>1, <1>2, <1>3 DEF OutputsMove
  <2>6. ValuesMovedIn'
    BY <1>1, <1>2, <1>3 DEF ValuesMovedIn
  <2>7. NothingCalledYet' /\ NothingMovedYet'
    BY <1>4, <2>1 DEF NothingCalledYet, NothingMovedYet
  <2> QED
    BY <1>4, <2>2, <2>3, <2>4, <2>5, <2>6, <2>7 DEF LiveInv
<1>5. CASE pending = {}
  <2>1. stage' = "turn" /\ UNCHANGED <<status, streamOut, sent, outerIn, pending>>
    BY <1>5 DEF PullInputs
  <2>2. UNCHANGED vars
    BY <1>1, <2>1 DEF vars, execVars, portVars, Frame
  <2>3. ExecInv'
    BY <1>2, <2>2, NextExecInv
  <2>4. InputsMove'
    BY <1>1, <1>2, <1>3, <2>1 DEF InputsMove
  <2> QED
    BY <1>2, <1>4, <2>1, <2>2, <2>3, <2>4 DEF AllowedStep, OuterTypeOK
<1>6. CASE pending # {}
  <2>1. PICK p \in pending : PullInput(p) /\ pending' = pending \ {p} /\ stage' = stage
    BY <1>6 DEF PullInputs
  <2>2. /\ p \in Here(ParentStreamInputs) /\ p \in flat.procs /\ CallOK(p) /\ status' = status
        /\ sent'[InnerOut(p)] = sent[InnerOut(p)] \o outerIn[p].queue
        /\ streamOut'[InnerOut(p)].eof => outerIn[p].eof
        /\ outerIn' \in [Here(ParentStreamInputs) -> StreamPort]
        /\ outerIn'[p].queue = <<>> /\ outerIn'[p].eof = outerIn[p].eof
        /\ \A q \in Here(ParentStreamInputs) : q # p =>
             /\ outerIn'[q] = outerIn[q]
             /\ sent'[InnerOut(q)] = sent[InnerOut(q)]
             /\ streamOut'[InnerOut(q)] = streamOut[InnerOut(q)]
    BY <1>1, <1>2, <2>1, PullInputIs
  <2>3. life[p] = "running" /\ \A a \in CalledAt(plan, p) : a[1] = step
    BY <1>2, <2>2, ParentRuns
  <2>4. ControlOK' /\ LifeFollowsPlan' /\ Started'
    BY <1>1, <1>2, <2>2, TurnControl
  <2>5. RunInv'
    BY <1>1, <1>2, <2>2, <2>3, <2>4, CallInv
  <2>6. ExecInv'
    BY <1>1, <1>2, <2>2, <2>5, StillExec
  <2>7. InputsMove'
    <3>1. ASSUME NEW q \in Here(ParentStreamInputs)
          PROVE  /\ sent'[InnerOut(q)] \o outerIn'[q].queue = outerSent[q]
                 /\ streamOut'[InnerOut(q)].eof => Eof(outerIn'[q])
      <4>1. CASE q = p
        <5>1. sent'[InnerOut(p)] = outerSent[p] /\ outerSent[p] \in Seq(Nat)
          BY <1>2, <2>2 DEF InputsMove, OuterTypeOK
        <5>2. outerSent[p] \o <<>> = outerSent[p]
          BY <5>1, ItemSeqs
        <5> QED
          BY <2>2, <4>1, <5>1, <5>2 DEF Eof
      <4>2. CASE q # p
        BY <1>2, <2>2, <4>2 DEF InputsMove
      <4> QED
        BY <4>1, <4>2
    <3> QED
      BY <1>1, <1>3, <3>1 DEF InputsMove
  <2>8. \A q \in Here(ParentStreamInputs) : Eof(outerIn[q]) => Eof(outerIn'[q])
    BY <2>2 DEF Eof
  <2>9. Called
    BY <1>1, <1>2, <2>2, <2>3, <2>4 DEF Called
  <2> QED
    BY <1>1, <1>4, <2>1, <2>2, <2>6, <2>7, <2>8, <2>9 DEF AllowedStep
<1> QED
  BY <1>5, <1>6

\* Moving an inner output does not throw either, and is to the inner graph as
\* if the parent process had popped the items.
LEMMA PushOutputIs ==
  ASSUME LiveInv, stage = "push", Frame, NEW p \in Here(ParentStreamOutputs), PushOutput(p),
         UNCHANGED <<life, buf, streamOut, sent>>
  PROVE  /\ p \in flat.procs /\ CallOK(p) /\ status' = status
         /\ got'[InnerIn(p)] = got[InnerIn(p)] \o streamIn[InnerIn(p)].queue
         /\ streamIn'[InnerIn(p)].queue = <<>>
         /\ streamIn'[InnerIn(p)].eof = streamIn[InnerIn(p)].eof
         /\ outerOut' \in [Here(ParentStreamOutputs) -> StreamPort]
         /\ outerOut'[p].queue = outerOut[p].queue \o streamIn[InnerIn(p)].queue
         /\ outerOut'[p].eof <=> outerOut[p].eof \/ streamIn[InnerIn(p)].eof
         /\ \A q \in Here(ParentStreamOutputs) : q # p =>
              /\ outerOut'[q] = outerOut[q]
              /\ got'[InnerIn(q)] = got[InnerIn(q)]
              /\ streamIn'[InnerIn(q)] = streamIn[InnerIn(q)]
<1> DEFINE i == InnerIn(p)
           x == streamIn[i].queue
<1>1. /\ Started /\ PlanInv /\ phase = "planned" /\ ExecTypeOK /\ OutputsMove
      /\ outerOut \in [Here(ParentStreamOutputs) -> StreamPort]
  BY StageFacts DEF LiveInv, ExecInv, RunInv, OuterTypeOK
<1>2. /\ p \in flat.procs /\ IsUser(p) /\ ~IsWriter(p) /\ ~IsReader(p) /\ i \in StreamIns
      /\ StreamOutPorts(flat, p) = {} /\ StreamInPorts(flat, p) = {i}
  BY <1>1, ParentPorts DEF Here, HasPorts
<1>3. /\ outerOut[p] \in StreamPort /\ streamIn[i] \in StreamPort
      /\ x \in Seq(Nat) /\ got[i] \in Seq(Nat)
      /\ streamIn \in [StreamIns -> StreamPort] /\ got \in [StreamIns -> Seq(Nat)]
  BY <1>1, <1>2 DEF ExecTypeOK, StreamPort
<1>4. outerOut[p].eof => x = <<>> /\ streamIn[i].eof
  BY <1>1 DEF OutputsMove, Eof
<1>5. /\ outerOut' = [outerOut EXCEPT ![p] = Received(streamIn[i], outerOut[p])]
      /\ got' = [got EXCEPT ![i] = got[i] \o x]
      /\ streamIn' = [streamIn EXCEPT ![i] = Clear(streamIn[i])]
      /\ status' = status
  BY <1>4 DEF PushOutput, CanPush
<1>6. /\ Received(streamIn[i], outerOut[p]) \in StreamPort
      /\ Received(streamIn[i], outerOut[p]).queue = outerOut[p].queue \o x
      /\ Received(streamIn[i], outerOut[p]).eof <=> outerOut[p].eof \/ streamIn[i].eof
      /\ Clear(streamIn[i]) \in StreamPort /\ Clear(streamIn[i]).queue = <<>>
      /\ Clear(streamIn[i]).eof = streamIn[i].eof
  BY <1>3, ReceivedIs
<1>7. got[i] \o x \in Seq(Nat) /\ (got[i] \o x) \o <<>> = got[i] \o x
  BY <1>2, <1>3, ItemSeqs
<1> HIDE DEF i, x
<1>8. /\ streamIn' \in [StreamIns -> StreamPort] /\ got' \in [StreamIns -> Seq(Nat)]
      /\ streamIn'[i].queue = <<>> /\ streamIn'[i].eof = streamIn[i].eof
      /\ got'[i] = got[i] \o x
      /\ \A y \in StreamIns : y # i => streamIn'[y] = streamIn[y] /\ got'[y] = got[y]
  BY <1>2, <1>3, <1>5, <1>6, <1>7
<1>9. /\ outerOut' \in [Here(ParentStreamOutputs) -> StreamPort]
      /\ outerOut'[p].queue = outerOut[p].queue \o x
      /\ outerOut'[p].eof <=> outerOut[p].eof \/ streamIn[i].eof
      /\ \A q \in Here(ParentStreamOutputs) : q # p => outerOut'[q] = outerOut[q]
  BY <1>1, <1>5, <1>6
<1>10. /\ <<>> \in Seq(Nat)
       /\ \A y \in StreamIns : got[y] \o <<>> = got[y]
       /\ \A y \in StreamOuts : /\ sent[y] \o <<>> = sent[y]
                                /\ streamOut[y].queue \o <<>> = streamOut[y].queue
  BY <1>1, ItemSeqs DEF ExecTypeOK, StreamPort
<1>11. ASSUME NEW y \in StreamIns
       PROVE  /\ \E z \in Seq(Nat) : got'[y] = got[y] \o z
              /\ got'[y] \o streamIn'[y].queue = got[y] \o streamIn[y].queue
              /\ streamIn'[y].eof = streamIn[y].eof
              /\ Eof(streamIn[y]) => Eof(streamIn'[y])
  <2>1. CASE y = i
    <3>1. got'[i] \o streamIn'[i].queue = got[i] \o x
      BY <1>7, <1>8, Zenon
    <3> QED
      BY <1>3, <1>8, <2>1, <3>1 DEF x, Eof
  <2>2. CASE y # i
    <3>1. /\ got'[y] = got[y] \o <<>> /\ <<>> \in Seq(Nat)
          /\ got'[y] = got[y] /\ streamIn'[y] = streamIn[y]
      BY <1>8, <1>10, <2>2
    <3>2. \E z \in Seq(Nat) : got'[y] = got[y] \o z
      BY <3>1
    <3> QED
      BY <3>1, <3>2
  <2> QED
    BY <2>1, <2>2
<1>12. ASSUME NEW y \in StreamOuts
       PROVE  \E z \in Seq(Nat) : /\ sent'[y] = sent[y] \o z
                                  /\ streamOut'[y].queue = streamOut[y].queue \o z
  <2>1. /\ sent'[y] = sent[y] \o <<>> /\ streamOut'[y].queue = streamOut[y].queue \o <<>>
        /\ <<>> \in Seq(Nat)
    BY <1>10
  <2> QED
    BY <2>1
<1>13. Flows(p)
  BY <1>1, <1>2, <1>8, <1>11, <1>12 DEF Flows, ExecTypeOK
<1>14. CallOK(p)
  BY <1>1, <1>2, <1>13 DEF CallOK, ExecTypeOK
<1>15. ASSUME NEW q \in Here(ParentStreamOutputs), q # p
       PROVE  InnerIn(q) \in StreamIns /\ InnerIn(q) # i
  BY <1>1, <1>15, ParentPorts DEF Here, InnerIn, i
<1> QED
  BY <1>2, <1>5, <1>8, <1>9, <1>14, <1>15 DEF i, x

LEMMA PushOutputsLive ==
  ASSUME LiveInv, PushOutputs
  PROVE  LiveInv' /\ AllowedStep
<1>1. /\ stage = "push" /\ status = "running" /\ Frame
      /\ UNCHANGED <<step, life, dataOut, dataIn, streamOut, buf, sent>>
      /\ UNCHANGED <<finalising, outerIn, outerData, outerSent, outerGot>>
  BY DEF PushOutputs, Frame
<1>2. /\ stage \in Turning /\ Started /\ ExecInv /\ mode = "check" /\ at = 1 /\ InStreaming
      /\ pending \subseteq Here(ParentStreamOutputs)
      /\ InputsMove /\ OutputsMove /\ ValuesMovedIn /\ OuterTypeOK /\ FinalisingOK
  BY <1>1, StageFacts DEF LiveInv, Turning, OuterTypeOK
<1>3. /\ Here(ParentStreamInputs)' = Here(ParentStreamInputs)
      /\ Here(ParentStreamOutputs)' = Here(ParentStreamOutputs)
      /\ Here(ParentDataInputs)' = Here(ParentDataInputs)
      /\ Here(ParentDataOutputs)' = Here(ParentDataOutputs)
      /\ DataOuts' = DataOuts
  BY <1>1, HereIs, FramePorts
<1>4. ASSUME status' = status, ExecInv', OutputsMove',
             outerOut' \in [Here(ParentStreamOutputs) -> StreamPort],
             finalising => \A q \in Here(ParentStreamOutputs) : Eof(outerOut'[q]),
             at' = 1,
             \/ stage' = "push" /\ mode' = "check" /\ pending' \subseteq pending
             \/ stage' = (IF finalising THEN "drain" ELSE "return") /\ mode' = "run"
      PROVE  LiveInv'
  <2>1. /\ Started' /\ InStreaming' /\ \E n \in DOMAIN plan' : StreamingSteps' = {n}
    BY <1>1, <1>2, <1>4, TurnControl
  <2>2. StageOK'
    BY <1>1, <1>2, <1>4, <2>1 DEF StageOK, Stages, Turning, Started
  <2>3. FinalisingOK'
    <3>1. finalising => OuterEnded'
      BY <1>1, <1>2, <1>4 DEF FinalisingOK, OuterEnded, OuterTypeOK
    <3> QED
      BY <1>1, <1>4, <3>1 DEF FinalisingOK, Stages, Turning
  <2>4. OuterTypeOK'
    BY <1>1, <1>2, <1>3, <1>4 DEF OuterTypeOK
  <2>5. InputsMove'
    BY <1>1, <1>2, <1>3 DEF InputsMove
  <2>6. ValuesMovedIn'
    BY <1>1, <1>2, <1>3 DEF ValuesMovedIn
  <2>7. NothingCalledYet' /\ NothingMovedYet'
    BY <1>4, <2>1 DEF NothingCalledYet, NothingMovedYet
  <2> QED
    BY <1>4, <2>2, <2>3, <2>4, <2>5, <2>6, <2>7 DEF LiveInv
<1>5. CASE pending = {}
  <2>1. /\ stage' = (IF finalising THEN "drain" ELSE "return") /\ mode' = "run" /\ at' = 1
        /\ UNCHANGED <<status, streamIn, got, outerOut, pending>>
    BY <1>5 DEF PushOutputs
  <2>2. QuietStreams /\ UNCHANGED portVars
    BY <1>1, <2>1 DEF QuietStreams, portVars
  <2>3. ControlOK' /\ LifeFollowsPlan' /\ Started'
    BY <1>1, <1>2, <2>1, TurnControl
  <2>4. PICK p \in flat.procs : life[p] = "running" /\ \A a \in CalledAt(plan, p) : a[1] = step
    BY <1>1, <1>2, SomeProcessRuns
  <2>5. CallOK(p)
    BY <1>1, <1>2, <2>2, <2>4, QuietCall
  <2>6. RunInv'
    BY <1>1, <1>2, <2>1, <2>3, <2>4, <2>5, CallInv
  <2>7. ExecInv'
    BY <1>1, <1>2, <2>1, <2>6, StillExec
  <2>8. OutputsMove'
    BY <1>1, <1>2, <1>3, <2>1 DEF OutputsMove
  <2>9. finalising => \A q \in Here(ParentStreamOutputs) : Eof(outerOut[q])
    BY <1>2 DEF FinalisingOK, OuterEnded, OuterTypeOK
  <2>10. Unseen
    BY <1>1, <1>2, <2>1, <2>3 DEF Unseen
  <2> QED
    BY <1>2, <1>4, <2>1, <2>7, <2>8, <2>9, <2>10 DEF AllowedStep, OuterTypeOK
<1>6. CASE pending # {}
  <2>1. PICK p \in pending : /\ PushOutput(p) /\ pending' = pending \ {p}
                             /\ UNCHANGED <<stage, mode, at>>
    BY <1>6 DEF PushOutputs
  <2>2. /\ p \in Here(ParentStreamOutputs) /\ p \in flat.procs /\ CallOK(p) /\ status' = status
        /\ got'[InnerIn(p)] = got[InnerIn(p)] \o streamIn[InnerIn(p)].queue
        /\ streamIn'[InnerIn(p)].queue = <<>>
        /\ streamIn'[InnerIn(p)].eof = streamIn[InnerIn(p)].eof
        /\ outerOut' \in [Here(ParentStreamOutputs) -> StreamPort]
        /\ outerOut'[p].queue = outerOut[p].queue \o streamIn[InnerIn(p)].queue
        /\ outerOut'[p].eof <=> outerOut[p].eof \/ streamIn[InnerIn(p)].eof
        /\ \A q \in Here(ParentStreamOutputs) : q # p =>
             /\ outerOut'[q] = outerOut[q]
             /\ got'[InnerIn(q)] = got[InnerIn(q)]
             /\ streamIn'[InnerIn(q)] = streamIn[InnerIn(q)]
    BY <1>1, <1>2, <2>1, PushOutputIs
  <2>3. life[p] = "running" /\ \A a \in CalledAt(plan, p) : a[1] = step
    BY <1>2, <2>2, ParentRuns
  <2>4. ControlOK' /\ LifeFollowsPlan' /\ Started'
    BY <1>1, <1>2, <2>1, <2>2, TurnControl
  <2>5. RunInv'
    BY <1>1, <1>2, <2>1, <2>2, <2>3, <2>4, CallInv
  <2>6. ExecInv'
    BY <1>1, <1>2, <2>2, <2>5, StillExec
  <2>7. /\ outerGot[p] \in Seq(Nat) /\ outerOut[p].queue \in Seq(Nat)
        /\ streamIn[InnerIn(p)].queue \in Seq(Nat)
    <3>1. InnerIn(p) \in StreamIns
      BY <1>2, <2>2, LiveFacts, ParentPorts DEF Here
    <3>2. streamIn[InnerIn(p)] \in StreamPort /\ outerOut[p] \in StreamPort
      BY <1>2, <2>2, <3>1 DEF ExecInv, RunInv, ExecTypeOK, OuterTypeOK
    <3> QED
      BY <1>2, <2>2, <3>2 DEF OuterTypeOK, StreamPort
  <2>8. OutputsMove'
    <3>1. ASSUME NEW q \in Here(ParentStreamOutputs)
          PROVE  /\ outerGot[q] \o outerOut'[q].queue = got'[InnerIn(q)]
                 /\ outerOut'[q].eof => Eof(streamIn'[InnerIn(q)])
      <4>1. CASE q = p
        <5>1. /\ outerGot[p] \o outerOut[p].queue = got[InnerIn(p)]
              /\ outerOut[p].eof => streamIn[InnerIn(p)].eof
          BY <1>2, <2>2 DEF OutputsMove, Eof
        <5>2. \A a, b, c \in Seq(Nat) : (a \o b) \o c = a \o (b \o c)
          BY ItemSeqs
        <5>3. (outerGot[p] \o outerOut[p].queue) \o streamIn[InnerIn(p)].queue
                = outerGot[p] \o (outerOut[p].queue \o streamIn[InnerIn(p)].queue)
          BY <2>7, <5>2, Zenon
        <5>4. outerGot[p] \o outerOut'[p].queue = got'[InnerIn(p)]
          BY <2>2, <5>1, <5>3, Zenon
        <5> QED
          BY <2>2, <4>1, <5>1, <5>4 DEF Eof
      <4>2. CASE q # p
        BY <1>2, <2>2, <4>2 DEF OutputsMove
      <4> QED
        BY <4>1, <4>2
    <3> QED
      BY <1>1, <1>3, <3>1 DEF OutputsMove
  <2>9. finalising => \A q \in Here(ParentStreamOutputs) : Eof(outerOut'[q])
    <3> SUFFICES ASSUME finalising, NEW q \in Here(ParentStreamOutputs)
                 PROVE  Eof(outerOut'[q])
      OBVIOUS
    <3>1. Eof(outerOut[q])
      BY <1>2 DEF FinalisingOK, OuterEnded, OuterTypeOK
    <3>2. CASE q = p
      <4>1. streamIn[InnerIn(p)].queue = <<>>
        BY <1>2, <2>2, <3>1, <3>2 DEF OutputsMove, Eof
      <4>2. <<>> \o <<>> = <<>>
        BY ItemSeqs
      <4> QED
        BY <2>2, <3>1, <3>2, <4>1, <4>2 DEF Eof
    <3>3. CASE q # p
      BY <2>2, <3>1, <3>3
    <3> QED
      BY <3>2, <3>3
  <2>10. Called
    BY <1>1, <1>2, <2>2, <2>3, <2>4 DEF Called
  <2> QED
    BY <1>1, <1>2, <1>4, <2>1, <2>2, <2>6, <2>8, <2>9, <2>10 DEF AllowedStep
<1> QED
  BY <1>5, <1>6

-----------------------------------------------------------------------------
(***************************************************************************)
(* The outer graph, and the end of it.                                     *)
(***************************************************************************)

\* A step that leaves the inner graph alone.
LEMMA VarsStay ==
  ASSUME LiveInv, UNCHANGED vars
  PROVE  /\ ExecInv' /\ NothingCalledYet' /\ Frame /\ AllowedStep
         /\ UNCHANGED <<status, step, mode, at, life, dataOut, dataIn>>
         /\ UNCHANGED <<streamOut, streamIn, buf, sent, got, plan, phase>>
         /\ UNCHANGED <<Started, InStreaming, StreamingSteps, DataOuts>>
         /\ \A P : Here(P)' = Here(P)
<1>1. /\ Frame
      /\ UNCHANGED <<status, step, mode, at, life, dataOut, dataIn>>
      /\ UNCHANGED <<streamOut, streamIn, buf, sent, got>>
  BY DEF vars, execVars, portVars, Frame
<1>2. ExecInv' /\ NothingCalledYet' /\ AllowedStep
  BY NextExecInv, NextNothingCalledYet DEF LiveInv, AllowedStep
<1>3. UNCHANGED <<plan, phase, InStreaming, DataOuts>> /\ \A P : Here(P)' = Here(P)
  BY <1>1, FrameIs, SameStep, FramePorts, HereIs
<1>4. UNCHANGED <<Started, StreamingSteps>>
  BY <1>1, <1>3 DEF Started, StreamingSteps
<1> QED
  BY <1>1, <1>2, <1>3, <1>4

\* One more turn of the outer graph's loop, or its end: the stages of the
\* streaming step in which process() is not being executed.
LEMMA OuterStep ==
  ASSUME LiveInv, stage \in {"first", "ready", "return"}, UNCHANGED vars,
         stage' \in {"ready", "pull", "drain"}, InputsMove', OutputsMove',
         stage' = "pull" => pending' = DOMAIN outerIn,
         stage' = "drain" <=> finalising', finalising' => OuterEnded',
         outerIn' \in [Here(ParentStreamInputs) -> StreamPort],
         outerOut' \in [Here(ParentStreamOutputs) -> StreamPort],
         outerSent' \in [Here(ParentStreamInputs) -> Seq(Nat)],
         outerGot' \in [Here(ParentStreamOutputs) -> Seq(Nat)],
         outerData' = outerData
  PROVE  LiveInv' /\ AllowedStep
<1>1. /\ ExecInv' /\ NothingCalledYet' /\ AllowedStep
      /\ UNCHANGED <<status, step, mode, at, life, dataOut, plan>>
      /\ UNCHANGED <<Started, InStreaming, StreamingSteps, DataOuts>>
      /\ \A P : Here(P)' = Here(P)
  BY VarsStay
<1>2. Started /\ status = "running" /\ InStreaming /\ mode = "run" /\ at = 1
  BY StageFacts DEF Turning
<1>3. \E n \in DOMAIN plan : StreamingSteps = {n}
  BY <1>2, LiveFacts
<1>4. StageOK'
  BY <1>1, <1>2, <1>3 DEF StageOK, Stages, Turning
<1>5. FinalisingOK'
  BY DEF FinalisingOK, Stages, Turning
<1>6. OuterTypeOK'
  BY <1>1 DEF LiveInv, OuterTypeOK
<1>7. ValuesMovedIn'
  BY <1>1, <1>2 DEF LiveInv, ValuesMovedIn
<1>8. NothingMovedYet'
  BY DEF NothingMovedYet
<1> QED
  BY <1>1, <1>4, <1>5, <1>6, <1>7, <1>8 DEF LiveInv

LEMMA CountedItems ==
  ASSUME NEW n \in Nat, NEW f \in [1 .. n -> Nat]
  PROVE  f \in Seq(Nat) /\ (n = 0 => f = <<>>)
<1>1. f \in Seq(Nat) /\ Len(f) = n
  OBVIOUS
<1> QED
  BY <1>1

LEMMA OuterTurnLive ==
  ASSUME LiveInv, OuterTurn
  PROVE  LiveInv' /\ AllowedStep
<1> DEFINE open == {p \in DOMAIN outerIn : ~outerIn[p].eof}
           items(n, p) == [k \in 1 .. n[p] |-> Len(outerSent[p]) + k]
           Fed(n, ends, p) == LET pushed == Push(outerIn[p], items(n, p))
                              IN  IF p \in ends THEN Close(pushed) ELSE pushed
<1>1. /\ stage \in {"first", "ready"} /\ stage' = "pull" /\ pending' = DOMAIN outerIn
      /\ UNCHANGED <<vars, finalising, outerOut, outerData, outerGot>>
  BY DEF OuterTurn
<1>2. PICK n \in [DOMAIN outerIn -> 0 .. MaxItems], ends \in SUBSET open :
        /\ \A p \in DOMAIN outerIn \ open : n[p] = 0
        /\ outerIn' = [p \in DOMAIN outerIn |-> Fed(n, ends, p)]
        /\ outerSent' = [p \in DOMAIN outerSent |-> outerSent[p] \o items(n, p)]
  BY DEF OuterTurn
<1>3. /\ Started /\ ~finalising /\ OuterTypeOK /\ InputsMove /\ OutputsMove
      /\ DOMAIN outerIn = Here(ParentStreamInputs) /\ DOMAIN outerSent = Here(ParentStreamInputs)
  BY <1>1, StageFacts DEF LiveInv, FinalisingOK, OuterTypeOK, Stages, Turning
<1>4. ASSUME NEW p \in Here(ParentStreamInputs)
      PROVE  /\ outerIn[p] \in StreamPort /\ outerSent[p] \in Seq(Nat)
             /\ items(n, p) \in Seq(Nat)
             /\ outerIn[p].eof => items(n, p) = <<>> /\ p \notin ends
  <2>1. outerIn[p] \in StreamPort /\ outerSent[p] \in Seq(Nat) /\ n[p] \in Nat
    BY <1>3, EvaluateAssumption DEF OuterTypeOK
  <2>2. items(n, p) \in [1 .. n[p] -> Nat]
    BY <2>1
  <2> HIDE DEF items
  <2>3. items(n, p) \in Seq(Nat) /\ (n[p] = 0 => items(n, p) = <<>>)
    BY <2>1, <2>2, CountedItems
  <2> QED
    BY <1>2, <1>3, <2>1, <2>3
<1> HIDE DEF items
<1>5. ASSUME NEW p \in Here(ParentStreamInputs)
      PROVE  /\ Fed(n, ends, p) \in StreamPort
             /\ Fed(n, ends, p).queue = outerIn[p].queue \o items(n, p)
             /\ outerIn[p].eof => Fed(n, ends, p).eof
  <2>1. /\ Push(outerIn[p], items(n, p)) \in StreamPort
        /\ Close(Push(outerIn[p], items(n, p))) \in StreamPort
        /\ Push(outerIn[p], items(n, p)).queue = outerIn[p].queue \o items(n, p)
        /\ Push(outerIn[p], items(n, p)).eof = outerIn[p].eof
        /\ Close(Push(outerIn[p], items(n, p))).queue = outerIn[p].queue \o items(n, p)
        /\ Close(Push(outerIn[p], items(n, p))).eof = TRUE
    <3>1. \A x \in Seq(Nat) :
            /\ Push(outerIn[p], x) \in StreamPort /\ Close(Push(outerIn[p], x)) \in StreamPort
            /\ Push(outerIn[p], x).queue = outerIn[p].queue \o x
            /\ Push(outerIn[p], x).eof = outerIn[p].eof
            /\ Close(Push(outerIn[p], x)).queue = outerIn[p].queue \o x
            /\ Close(Push(outerIn[p], x)).eof = TRUE
      BY <1>4, PortOps
    <3> QED
      BY <1>4, <3>1, Zenon
  <2> QED
    BY <2>1
<1> HIDE DEF Fed
<1>6. ASSUME NEW p \in Here(ParentStreamInputs)
      PROVE  /\ outerIn'[p] = Fed(n, ends, p)
             /\ outerSent'[p] = outerSent[p] \o items(n, p)
             /\ outerSent[p] \o items(n, p) \in Seq(Nat)
             /\ outerIn[p].queue \in Seq(Nat)
  BY <1>2, <1>3, <1>4, ItemSeqs DEF StreamPort
<1>7. /\ outerIn' \in [Here(ParentStreamInputs) -> StreamPort]
      /\ outerSent' \in [Here(ParentStreamInputs) -> Seq(Nat)]
  BY <1>2, <1>3, <1>5, <1>6
<1>8. /\ UNCHANGED <<sent, got, streamOut, streamIn>> /\ \A P : Here(P)' = Here(P)
  BY <1>1, VarsStay
<1>9. InputsMove'
  <2>1. ASSUME NEW p \in Here(ParentStreamInputs)
        PROVE  /\ sent[InnerOut(p)] \o outerIn'[p].queue = outerSent'[p]
               /\ streamOut[InnerOut(p)].eof => Eof(outerIn'[p])
    <3>1. /\ sent[InnerOut(p)] \o outerIn[p].queue = outerSent[p]
          /\ streamOut[InnerOut(p)].eof => Eof(outerIn[p])
      BY <1>3 DEF InputsMove
    <3>2. sent[InnerOut(p)] \in Seq(Nat)
      <4>1. InnerOut(p) \in StreamOuts
        BY <1>3, LiveFacts, ParentPorts DEF Here
      <4> QED
        BY <1>3, <4>1, LiveFacts DEF RunInv, ExecTypeOK
    <3>3. \A a, b, c \in Seq(Nat) : (a \o b) \o c = a \o (b \o c)
      BY ItemSeqs
    <3>4. (sent[InnerOut(p)] \o outerIn[p].queue) \o items(n, p)
            = sent[InnerOut(p)] \o (outerIn[p].queue \o items(n, p))
      BY <1>4, <1>6, <3>2, <3>3, Zenon
    <3>5. sent[InnerOut(p)] \o outerIn'[p].queue = outerSent'[p]
      BY <1>5, <1>6, <3>1, <3>4, Zenon
    <3>6. ASSUME Eof(outerIn[p]) PROVE Eof(outerIn'[p])
      <4>1. outerIn[p].queue = <<>> /\ outerIn[p].eof /\ items(n, p) = <<>>
        BY <1>4, <3>6 DEF Eof
      <4>2. <<>> \o <<>> = <<>>
        BY ItemSeqs
      <4> QED
        BY <1>5, <1>6, <4>1, <4>2 DEF Eof
    <3> QED
      BY <3>1, <3>5, <3>6
  <2> QED
    BY <1>8, <2>1 DEF InputsMove
<1>10. OutputsMove'
  BY <1>1, <1>3, <1>8 DEF OutputsMove
<1> QED
  BY <1>1, <1>3, <1>7, <1>9, <1>10, OuterStep DEF OuterTypeOK

LEMMA DrainOutputsLive ==
  ASSUME LiveInv, DrainOutputs
  PROVE  LiveInv' /\ AllowedStep
<1>1. /\ stage = "return" /\ stage' = "ready"
      /\ outerGot' = [p \in DOMAIN outerGot |-> outerGot[p] \o outerOut[p].queue]
      /\ outerOut' = [p \in DOMAIN outerOut |-> Clear(outerOut[p])]
      /\ UNCHANGED <<vars, finalising, outerIn, outerData, outerSent>>
  BY DEF DrainOutputs
<1>2. /\ Started /\ ~finalising /\ OuterTypeOK /\ InputsMove /\ OutputsMove
      /\ DOMAIN outerOut = Here(ParentStreamOutputs) /\ DOMAIN outerGot = Here(ParentStreamOutputs)
  BY <1>1, StageFacts DEF LiveInv, FinalisingOK, OuterTypeOK, Stages, Turning
<1>3. ASSUME NEW p \in Here(ParentStreamOutputs)
      PROVE  /\ outerOut'[p] \in StreamPort /\ outerOut'[p].queue = <<>>
             /\ outerOut'[p].eof = outerOut[p].eof
             /\ outerGot'[p] = outerGot[p] \o outerOut[p].queue
             /\ outerGot'[p] \in Seq(Nat) /\ outerGot'[p] \o <<>> = outerGot'[p]
  <2>1. outerOut[p] \in StreamPort /\ outerGot[p] \in Seq(Nat)
    BY <1>2 DEF OuterTypeOK
  <2>2. outerOut[p].queue \in Seq(Nat)
    BY <2>1 DEF StreamPort
  <2>3. outerGot[p] \o outerOut[p].queue \in Seq(Nat)
    BY <2>1, <2>2, ItemSeqs
  <2>4. outerGot'[p] = outerGot[p] \o outerOut[p].queue /\ outerOut'[p] = Clear(outerOut[p])
    BY <1>1, <1>2
  <2>5. outerGot'[p] \o <<>> = outerGot'[p]
    BY <2>3, <2>4, ItemSeqs
  <2> QED
    BY <2>1, <2>3, <2>4, <2>5, ReceivedIs
<1>4. /\ outerOut' \in [Here(ParentStreamOutputs) -> StreamPort]
      /\ outerGot' \in [Here(ParentStreamOutputs) -> Seq(Nat)]
  BY <1>1, <1>2, <1>3
<1>5. /\ UNCHANGED <<sent, got, streamOut, streamIn>> /\ \A P : Here(P)' = Here(P)
  BY <1>1, VarsStay
<1>6. InputsMove'
  BY <1>1, <1>2, <1>5 DEF InputsMove
<1>7. OutputsMove'
  BY <1>2, <1>3, <1>5 DEF OutputsMove
<1> QED
  BY <1>1, <1>2, <1>4, <1>6, <1>7, OuterStep DEF OuterTypeOK

LEMMA CallFinaliseLive ==
  ASSUME LiveInv, CallFinalise
  PROVE  LiveInv' /\ AllowedStep
<1>1. /\ stage = "ready" /\ OuterEnded /\ stage' = "drain" /\ finalising' = TRUE
      /\ UNCHANGED <<vars, outerIn, outerOut, outerData, outerSent, outerGot>>
  BY DEF CallFinalise, outerVars
<1>2. Started /\ OuterTypeOK /\ InputsMove /\ OutputsMove
  BY <1>1, StageFacts DEF LiveInv
<1>3. /\ UNCHANGED <<sent, got, streamOut, streamIn>> /\ \A P : Here(P)' = Here(P)
  BY <1>1, VarsStay
<1>4. InputsMove' /\ OutputsMove' /\ OuterEnded'
  BY <1>1, <1>2, <1>3 DEF InputsMove, OutputsMove, OuterEnded
<1> QED
  BY <1>1, <1>2, <1>4, OuterStep DEF OuterTypeOK

-----------------------------------------------------------------------------
(***************************************************************************)
(* finalise(), and exceptions.                                             *)
(***************************************************************************)

\* A streaming step that has nothing left to move goes on to finalise().
LEMMA FinaliseBegins ==
  ASSUME ExecInv, Started, status = "running", InStreaming, ~StillRunnable, Frame,
         UNCHANGED <<status, step, life, portVars>>, mode' = "finalise",
         ControlOK', LifeFollowsPlan'
  PROVE  RunInv'
<1>1. /\ step' = step
      /\ UNCHANGED <<life, dataOut, dataIn, streamOut, streamIn, buf, sent, got>>
  BY DEF portVars
<1>2. /\ PlanInv /\ phase = "planned" /\ ExecTypeOK /\ StreamsOver
      /\ step \in DOMAIN plan /\ step \in Nat /\ Calls(plan[step]) = Processes
  <2>1. InMode(mode)
    BY DEF InMode, Running, InStreaming
  <2> QED
    BY <2>1, InModeIs DEF RunInv
<1>3. ExecTypeOK'
  <2>1. UNCHANGED <<flat, source, StreamOuts, StreamIns, DataOuts, DataIns>>
    BY FrameIs, FramePorts
  <2> QED
    BY <1>1, <1>2, <2>1 DEF ExecTypeOK
<1>4. StreamIntegrity' /\ EndsInOrder' /\ ClosedAtTheEnd' /\ WritersKeep'
  BY <1>1, QuietStep DEF QuietStreams
<1>5. StreamsOver'
  <2>1. ASSUME NEW q \in flat.procs, NEW a \in CalledAt(plan, q), StepOver(a[1])'
        PROVE  /\ \A i \in StreamInPorts(flat, q) : Eof(streamIn[i])
               /\ \A o \in StreamOutPorts(flat, q) : Eof(streamOut[o])
    <3>1. CASE StepOver(a[1])
      BY <1>2, <3>1 DEF StreamsOver
    <3>2. CASE ~StepOver(a[1])
      <4>1. a[1] = step
        BY <1>1, <2>1, <3>2 DEF StepOver
      <4>2. q \in ToSet(Processes)
        BY <1>2, <4>1, Places DEF ToSet
      <4> QED
        BY <4>2 DEF StillRunnable
    <3> QED
      BY <3>1, <3>2
  <2>2. /\ UNCHANGED <<flat, plan>> /\ \A q : CalledAt(plan, q)' = CalledAt(plan, q)
    BY FrameIs
  <2> QED
    BY <1>1, <2>1, <2>2 DEF StreamsOver
<1>6. ReadersReplay'
  BY <1>1, ReadersKept
<1>7. ValuesAwaitCopy'
  BY <1>1, AwaitKept
<1>8. ValuesCopied'
  BY <1>1, <1>2, CopiedKept
<1> QED
  BY <1>3, <1>4, <1>5, <1>6, <1>7, <1>8 DEF RunInv

LEMMA DrainSubgraphLive ==
  ASSUME LiveInv, DrainSubgraph
  PROVE  LiveInv' /\ AllowedStep
<1>1. /\ stage = "drain" /\ status = "running" /\ Frame
      /\ UNCHANGED <<status, step, life, portVars, finalising, outerVars>>
      /\ UNCHANGED <<dataOut, dataIn, streamOut, streamIn, buf, sent, got>>
      /\ UNCHANGED <<outerIn, outerOut, outerData, outerSent, outerGot>>
  BY DEF DrainSubgraph, Frame, portVars, outerVars
<1>2. /\ stage \in Turning /\ Started /\ ExecInv /\ InStreaming /\ mode = "run" /\ at = 1
      /\ OuterTypeOK /\ FinalisingOK /\ finalising /\ OuterEnded
      /\ InputsMove /\ OutputsMove /\ ValuesMovedIn
  BY <1>1, StageFacts DEF LiveInv, FinalisingOK, Turning
<1>3. /\ \A P : Here(P)' = Here(P)
      /\ DataOuts' = DataOuts
  BY <1>1, HereIs, FramePorts
<1>4. InputsMove' /\ OutputsMove' /\ ValuesMovedIn'
  <2>1. InputsMove' /\ OutputsMove'
    BY <1>1, <1>2, <1>3 DEF InputsMove, OutputsMove
  <2>2. ValuesMovedIn'
    BY <1>1, <1>2, <1>3 DEF ValuesMovedIn
  <2> QED
    BY <2>1, <2>2
<1>5. ASSUME ExecInv', stage' \in {"pull", "finalise"},
             stage' = "pull" => pending' = DOMAIN outerIn /\ mode' = "run" /\ at' = 1,
             stage' = "finalise" => mode' = "finalise" /\ at' = 1
      PROVE  LiveInv'
  <2>1. /\ Started' /\ InStreaming' /\ \E n \in DOMAIN plan' : StreamingSteps' = {n}
        /\ \A n \in StreamingSteps' : n = step'
    BY <1>1, <1>2, <1>5, TurnControl
  <2>2. step' \in Nat
    BY <1>1, <1>2, LiveFacts
  <2>3. StageOK'
    BY <1>1, <1>5, <2>1, <2>2 DEF StageOK, Stages, Turning, Started
  <2>4. FinalisingOK'
    BY <1>1, <1>2, <1>5 DEF FinalisingOK, OuterEnded, Stages, Turning
  <2>5. OuterTypeOK'
    BY <1>1, <1>2, <1>3, <1>5 DEF OuterTypeOK
  <2>6. NothingCalledYet' /\ NothingMovedYet'
    BY <1>5, <2>1 DEF NothingCalledYet, NothingMovedYet
  <2> QED
    BY <1>4, <1>5, <2>3, <2>4, <2>5, <2>6 DEF LiveInv
<1>6. CASE StillRunnable
  <2>1. stage' = "pull" /\ pending' = DOMAIN outerIn /\ UNCHANGED <<mode, at>>
    BY <1>6 DEF DrainSubgraph
  <2>2. UNCHANGED vars
    BY <1>1, <2>1 DEF vars, execVars, Frame
  <2> QED
    BY <1>2, <1>5, <2>1, <2>2, VarsStay
<1>7. CASE ~StillRunnable
  <2>1. stage' = "finalise" /\ mode' = "finalise" /\ at' = 1
    BY <1>7 DEF DrainSubgraph
  <2>2. ControlOK' /\ LifeFollowsPlan' /\ Started'
    BY <1>1, <1>2, <2>1, TurnControl
  <2>3. RunInv'
    BY <1>1, <1>2, <1>7, <2>1, <2>2, FinaliseBegins
  <2>4. ExecInv'
    BY <1>1, <1>2, <2>3, StillExec
  <2>5. Unseen
    BY <1>1, <1>2, <2>2 DEF Unseen
  <2> QED
    BY <1>5, <2>1, <2>4, <2>5 DEF AllowedStep
<1> QED
  BY <1>6, <1>7

LEMMA InnerProcessThrowsLive ==
  ASSUME LiveInv, InnerProcessThrows
  PROVE  LiveInv' /\ AllowedStep
<1>1. /\ stage \in {"initialise", "turn", "finalise"} /\ stage' = stage
      /\ UNCHANGED <<finalising, pending, outerVars>> /\ ProcessThrows
      /\ Frame /\ status' = "thrown"
      /\ UNCHANGED <<step, mode, at, life, dataOut, dataIn, streamOut, streamIn, buf, sent, got>>
  BY DEF InnerProcessThrows, ProcessThrows, Frame, portVars
<1>2. Started /\ Started' /\ ExecInv
  BY <1>1, StageFacts DEF LiveInv, Started
<1>3. ExecInv' /\ AllowedStep
  BY <1>1, <1>2, NextExecInv DEF EvaluateNext, AllowedStep
<1>4. UNCHANGED <<plan, InStreaming, StreamingSteps>>
  BY <1>1, FrameIs, SameStep DEF StreamingSteps
<1>5. StageOK'
  BY <1>1, <1>2, <1>4 DEF LiveInv, StageOK, Turning
<1>6. FinalisingOK'
  BY <1>1 DEF LiveInv, FinalisingOK, OuterEnded, outerVars
<1>7. ParentsQuiet
  BY <1>1, QuietStreamsAreQuiet DEF QuietStreams
<1>8. ValuesStay
  <2>1. dataOut = [o \in DataOuts |-> dataOut[o]]
    BY <1>2 DEF LiveInv, ValuesMovedIn
  <2> QED
    BY <1>1, <2>1 DEF ValuesStay
<1>9. LiveInv'
  BY <1>1, <1>2, <1>3, <1>5, <1>6, <1>7, <1>8, InnerStep
<1> QED
  BY <1>3, <1>9

-----------------------------------------------------------------------------
(***************************************************************************)
(* initialise(): the plan, and the values of the data inputs.              *)
(***************************************************************************)
LEMMA PlanSubgraphLive ==
  ASSUME LiveInv, PlanSubgraph
  PROVE  LiveInv' /\ AllowedStep
<1>1. /\ stage = "plan" /\ stage' = stage /\ PlannerNext /\ UNCHANGED execVars
      /\ UNCHANGED <<finalising, pending, outerIn, outerOut, outerData, outerSent, outerGot>>
  BY DEF PlanSubgraph, outerVars
<1>2. [EvaluateNext]_vars
  BY <1>1 DEF EvaluateNext
<1>3. ExecInv' /\ NothingCalledYet'
  BY <1>2, NextExecInv, NextNothingCalledYet DEF LiveInv
<1>4. status = "planning" /\ status' = "planning" /\ ~Started'
  BY <1>1 DEF LiveInv, StageOK, Started, execVars
<1>5. \A P : Here(P)' = Here(P)
  BY <1>1, SourceStays DEF Here
<1>6. StageOK'
  BY <1>1, <1>4 DEF StageOK, Stages, Turning
<1>7. FinalisingOK' /\ OuterTypeOK' /\ NothingMovedYet'
  <2>1. FinalisingOK'
    BY <1>1 DEF LiveInv, FinalisingOK, OuterEnded
  <2>2. OuterTypeOK'
    BY <1>1, <1>5 DEF LiveInv, OuterTypeOK
  <2>3. NothingMovedYet'
    BY <1>1, <1>5 DEF LiveInv, NothingMovedYet
  <2> QED
    BY <2>1, <2>2, <2>3
<1> QED
  BY <1>2, <1>3, <1>4, <1>6, <1>7 DEF LiveInv, AllowedStep

\* The plan is run if it has one streaming step.
LEMMA PartitionPlanLive ==
  ASSUME LiveInv, PartitionPlan
  PROVE  LiveInv' /\ AllowedStep
<1>1. /\ stage = "plan" /\ phase = "planned" /\ status = "planning" /\ ~finalising
      /\ UNCHANGED <<finalising, pending, outerIn, outerOut, outerData, outerSent, outerGot>>
      /\ ExecInv /\ PlanInv /\ OuterTypeOK /\ NothingMovedYet
  BY StageFacts DEF PartitionPlan, outerVars, LiveInv, StageOK, ExecInv
<1>2. ASSUME ExecInv', NothingCalledYet', StageOK', \A P : Here(P)' = Here(P),
             stage' \in {"inputs", "rejected"},
             Started' => InputsMove' /\ OutputsMove' /\ ValuesMovedIn'
      PROVE  LiveInv'
  <2>1. FinalisingOK'
    BY <1>1, <1>2 DEF FinalisingOK, OuterEnded, Turning
  <2>2. OuterTypeOK'
    BY <1>1, <1>2 DEF OuterTypeOK
  <2>3. NothingMovedYet'
    BY <1>1, <1>2 DEF NothingMovedYet
  <2> QED
    BY <1>2, <2>1, <2>2, <2>3 DEF LiveInv
<1>3. CASE Cardinality(StreamingSteps) # 1
  <2>1. stage' = "rejected" /\ UNCHANGED vars
    BY <1>3 DEF PartitionPlan
  <2>2. /\ ExecInv' /\ NothingCalledYet' /\ AllowedStep /\ status' = status
        /\ Started' = Started /\ \A P : Here(P)' = Here(P)
    BY <2>1, VarsStay
  <2>3. StageOK' /\ ~Started'
    BY <1>1, <2>1, <2>2 DEF StageOK, Stages, Turning, Started
  <2> QED
    BY <1>2, <2>1, <2>2, <2>3
<1>4. CASE Cardinality(StreamingSteps) = 1
  <2>1. stage' = "inputs" /\ StartRun
    BY <1>4 DEF PartitionPlan
  <2>2. PICK n \in DOMAIN plan : StreamingSteps = {n}
    <3>1. Len(plan) \in Nat /\ DOMAIN plan = 1 .. Len(plan)
      BY <1>1, PlanFacts
    <3>2. IsFiniteSet(1 .. Len(plan))
      BY <3>1, FS_Interval
    <3>3. IsFiniteSet(StreamingSteps)
      BY <3>1, <3>2, FS_Subset DEF StreamingSteps
    <3>4. PICK n : StreamingSteps = {n}
      BY <1>4, <3>3, FS_Singleton
    <3> QED
      BY <3>4 DEF StreamingSteps
  <2>3. /\ Frame /\ EvaluateNext /\ step' = 1 /\ mode' = "initialise" /\ at' = 1
        /\ status' = (IF 1 > Len(plan) THEN "done" ELSE "running")
        /\ dataOut' = [o \in DataOuts |-> Unset]
        /\ streamOut' = [o \in StreamOuts |-> OpenPort] /\ streamIn' = [i \in StreamIns |-> OpenPort]
        /\ sent' = [o \in StreamOuts |-> <<>>] /\ got' = [i \in StreamIns |-> <<>>]
    BY <2>1 DEF StartRun, EvaluateNext, Frame, GoTo, DataOuts, StreamOuts, StreamIns
  <2>4. status' = "running"
    BY <1>1, <2>2, <2>3, PlanFacts
  <2>5. ExecInv' /\ NothingCalledYet' /\ AllowedStep
    BY <1>1, <2>3, NextExecInv, NextNothingCalledYet DEF AllowedStep, LiveInv
  <2>6. /\ plan' = plan /\ StreamingSteps' = StreamingSteps /\ DataOuts' = DataOuts
        /\ \A P : Here(P)' = Here(P)
    BY <2>3, FrameIs, FramePorts, HereIs DEF StreamingSteps
  <2>7. StageOK'
    BY <2>1, <2>2, <2>3, <2>4, <2>6 DEF StageOK, Stages, Turning
  <2>8. OpenPort.queue = <<>> /\ OpenPort.eof = FALSE /\ <<>> \o <<>> = <<>>
    BY DEF OpenPort
  <2>9. InputsMove'
    <3>1. \A p \in Here(ParentStreamInputs) : InnerOut(p) \in StreamOuts
      BY <1>1, ParentPorts DEF Here
    <3>2. ASSUME NEW p \in Here(ParentStreamInputs)
          PROVE  /\ sent'[InnerOut(p)] = <<>> /\ outerIn[p].queue = <<>> /\ outerSent[p] = <<>>
                 /\ ~streamOut'[InnerOut(p)].eof
      BY <1>1, <2>3, <2>8, <3>1 DEF NothingMovedYet
    <3> QED
      BY <1>1, <2>6, <2>8, <3>2 DEF InputsMove
  <2>10. OutputsMove'
    <3>1. \A p \in Here(ParentStreamOutputs) : InnerIn(p) \in StreamIns
      BY <1>1, ParentPorts DEF Here
    <3>2. ASSUME NEW p \in Here(ParentStreamOutputs)
          PROVE  /\ got'[InnerIn(p)] = <<>> /\ outerOut[p].queue = <<>> /\ outerGot[p] = <<>>
                 /\ ~outerOut[p].eof
      BY <1>1, <2>3, <2>8, <3>1 DEF NothingMovedYet
    <3> QED
      BY <1>1, <2>6, <2>8, <3>2 DEF OutputsMove
  <2>11. ValuesMovedIn'
    BY <2>1, <2>3, <2>6 DEF ValuesMovedIn
  <2> QED
    BY <1>2, <2>1, <2>5, <2>6, <2>7, <2>9, <2>10, <2>11
<1> QED
  BY <1>3, <1>4

\* Moving a value in is to the inner graph as if the parent process had been
\* called before the others.
LEMMA MoveDataInputsLive ==
  ASSUME LiveInv, MoveDataInputs
  PROVE  LiveInv' /\ AllowedStep
<1> DEFINE ports == {InnerOut(p) : p \in Here(ParentDataInputs)}
<1>1. /\ stage = "inputs" /\ stage' = "initialise" /\ Frame
      /\ dataOut' = [o \in DOMAIN dataOut |-> IF o \in ports THEN outerData[o[1]] ELSE dataOut[o]]
      /\ DOMAIN outerData' = DOMAIN outerData
      /\ UNCHANGED <<status, step, mode, at, life, dataIn, streamOut, streamIn, buf, sent, got>>
      /\ UNCHANGED <<finalising, pending, outerIn, outerOut, outerSent, outerGot>>
  BY DEF MoveDataInputs, Updated, Frame
<1>2. /\ Started /\ status = "running" /\ ExecInv /\ RunInv /\ PlanInv /\ phase = "planned"
      /\ step = 1 /\ mode = "initialise" /\ at = 1 /\ ~finalising
      /\ NothingMovedYet /\ OuterTypeOK /\ InputsMove /\ OutputsMove
      /\ DOMAIN plan = 1 .. Len(plan) /\ Len(plan) \in Nat /\ step \in DOMAIN plan
      /\ \E n \in DOMAIN plan : StreamingSteps = {n}
  <2>1. Started /\ status = "running" /\ ~finalising /\ step = 1 /\ mode = "initialise" /\ at = 1
    BY <1>1, StageFacts DEF LiveInv, StageOK, FinalisingOK, Stages, Turning
  <2>2. RunInv /\ DOMAIN plan = 1 .. Len(plan) /\ Len(plan) \in Nat
        /\ PlanInv /\ phase = "planned" /\ \E n \in DOMAIN plan : StreamingSteps = {n}
    BY <2>1, LiveFacts
  <2>3. step \in DOMAIN plan
    BY <2>1, <2>2 DEF RunInv, ControlOK
  <2> QED
    BY <2>1, <2>2, <2>3 DEF LiveInv
<1>3. ASSUME NEW p \in Here(ParentDataInputs)
      PROVE  InnerOut(p) \in DataOuts /\ outerData[p] = Value(InnerOut(p), <<>>)
  BY <1>1, <1>2, ParentPorts DEF NothingMovedYet, Here
<1>4. ASSUME NEW p \in flat.procs
      PROVE  life[p] = "idle"
  <2>1. PICK a \in CalledAt(plan, p) : TRUE
    BY <1>2, Places
  <2>2. a[1] \in Nat \ {0} /\ a[2] \in Nat \ {0}
    BY <1>2, Places
  <2> QED
    BY <1>2, <2>1, <2>2 DEF RunInv, LifeFollowsPlan, LifeAt
<1>5. /\ DOMAIN dataOut = DataOuts /\ DOMAIN dataOut' = DataOuts
      /\ \A o \in ports : \E p \in Here(ParentDataInputs) : o = InnerOut(p) /\ o[1] = p
      /\ \A o \in DataOuts : dataOut[o].items \in Seq(Nat)
      /\ dataOut' = [o \in DataOuts |-> dataOut'[o]]
  BY <1>1, <1>2 DEF RunInv, ExecTypeOK, InnerOut
<1>6. ASSUME NEW p \in Here(ParentDataInputs)
      PROVE  dataOut'[InnerOut(p)] = Value(InnerOut(p), <<>>)
  <2>1. InnerOut(p) \in DOMAIN dataOut /\ InnerOut(p) \in ports
    BY <1>3, <1>5
  <2>2. InnerOut(p)[1] = p
    BY DEF InnerOut
  <2>3. dataOut'[InnerOut(p)] = outerData[InnerOut(p)[1]]
    BY <1>1, <2>1, Zenon
  <2> QED
    BY <1>3, <2>2, <2>3
<1>7. ASSUME NEW o \in DataOuts
      PROVE  dataOut'[o].items \in Seq(Nat)
  <2>1. CASE o \in ports
    <3>1. PICK p \in Here(ParentDataInputs) : o = InnerOut(p)
      BY <2>1
    <3>2. Value(o, <<>>).items = <<>>
      BY DEF Value
    <3>3. dataOut'[o] = Value(o, <<>>)
      BY <1>6, <3>1, Zenon
    <3>4. <<>> \in Seq(Nat)
      OBVIOUS
    <3> QED
      BY <3>2, <3>3, <3>4, Zenon
  <2>2. CASE o \notin ports
    <3>1. dataOut'[o] = dataOut[o]
      BY <1>1, <1>5, <2>2, Zenon
    <3> QED
      BY <1>5, <3>1
  <2> QED
    BY <2>1, <2>2
<1> HIDE DEF ports
<1>8. /\ UNCHANGED <<flat, source, plan, StreamOuts, StreamIns, DataOuts, DataIns>>
      /\ \A q : CalledAt(plan, q)' = CalledAt(plan, q)
      /\ InnerPlan' = InnerPlan /\ Processes' = Processes /\ InStreaming' = InStreaming
      /\ StreamingSteps' = StreamingSteps /\ \A P : Here(P)' = Here(P)
  BY <1>1, FrameIs, FramePorts, SameStep, HereIs DEF StreamingSteps
<1>9. RunInv'
  <2>1. ControlOK' /\ LifeFollowsPlan'
    BY <1>1, <1>2, <1>8 DEF RunInv, ControlOK, LifeFollowsPlan, LifeAt
  <2>2. ExecTypeOK'
    BY <1>1, <1>2, <1>5, <1>7, <1>8 DEF RunInv, ExecTypeOK
  <2>3. StreamIntegrity' /\ EndsInOrder' /\ ClosedAtTheEnd' /\ WritersKeep'
    BY <1>1, <1>2, QuietStep DEF QuietStreams
  <2>4. StreamsOver'
    BY <1>1, <1>2, QuietStreamsOver DEF StepOver
  <2>5. ReadersReplay'
    BY <1>1, <1>2, ReadersKept
  <2>6. ValuesAwaitCopy'
    BY <1>1, <1>2, <1>4, AwaitKept
  <2>7. ValuesCopied'
    BY <1>1, <1>2, CopiedKept
  <2> QED
    BY <2>1, <2>2, <2>3, <2>4, <2>5, <2>6, <2>7 DEF RunInv
<1>10. ExecInv' /\ Started'
  BY <1>1, <1>2, <1>9, StillExec DEF Started
<1>11. StageOK'
  <2>1. \A n \in StreamingSteps : 1 <= n
    BY <1>2
  <2> QED
    BY <1>1, <1>2, <1>8, <1>10, <2>1 DEF StageOK, Stages, Turning
<1>12. FinalisingOK' /\ NothingMovedYet' /\ NothingCalledYet'
  BY <1>1, <1>2, <1>10 DEF FinalisingOK, NothingMovedYet, NothingCalledYet, Turning
<1>13. OuterTypeOK'
  BY <1>1, <1>2, <1>8 DEF OuterTypeOK
<1>14. InputsMove' /\ OutputsMove'
  BY <1>1, <1>2, <1>8 DEF InputsMove, OutputsMove
<1>15. ValuesMovedIn'
  BY <1>5, <1>6, <1>8 DEF ValuesMovedIn
<1>16. Unseen
  BY <1>1, <1>2, <1>10 DEF Unseen
<1> QED
  BY <1>10, <1>11, <1>12, <1>13, <1>14, <1>15, <1>16 DEF LiveInv, AllowedStep

-----------------------------------------------------------------------------
(***************************************************************************)
(* The last step, and what the invariant says of the properties.           *)
(***************************************************************************)
LEMMA PrefixOfPrefix ==
  ASSUME NEW a \in Seq(Nat), NEW b \in Seq(Nat), NEW x \in Seq(Nat), IsPrefix(a, b)
  PROVE  IsPrefix(a, b \o x)
<1>1. /\ Len(a) \in Nat /\ Len(b) \in Nat /\ Len(x) \in Nat /\ Len(a) <= Len(b)
      /\ \A k \in 1 .. Len(a) : a[k] = b[k]
  BY DEF IsPrefix
<1> QED
  BY <1>1 DEF IsPrefix

LEMMA PrefixTransitive ==
  ASSUME NEW a \in Seq(Nat), NEW b \in Seq(Nat), NEW c \in Seq(Nat),
         IsPrefix(a, b), IsPrefix(b, c)
  PROVE  IsPrefix(a, c)
<1>1. /\ Len(a) \in Nat /\ Len(b) \in Nat /\ Len(c) \in Nat
      /\ Len(a) <= Len(b) /\ Len(b) <= Len(c)
      /\ \A k \in 1 .. Len(a) : a[k] = b[k]
      /\ \A k \in 1 .. Len(b) : b[k] = c[k]
  BY DEF IsPrefix
<1> QED
  BY <1>1 DEF IsPrefix

\* What a parent process has got was pushed outside.
LEMMA InputsDelivered ==
  ASSUME LiveInv, Started,
         NEW c \in source.conns, c.stream, c.up \in ParentStreamInputs
  PROVE  /\ IsPrefix(got[InPort(c)], outerSent[c.up])
         /\ status = "done" => got[InPort(c)] = outerSent[c.up]
<1> DEFINE p == c.up
           x == outerIn[p].queue
<1>1. ExecInv /\ RunInv /\ PlanInv /\ phase = "planned" /\ InputsMove /\ OuterTypeOK
  BY LiveFacts DEF LiveInv
<1>2. /\ p \in source.procs /\ c.down \in flat.procs
      /\ OutPort(c) \in StreamOutPorts(flat, p)
      /\ InPort(c) \in StreamInPorts(flat, c.down)
  BY <1>1, UserPorts
<1>3. p \in Here(ParentStreamInputs) /\ OutPort(c) = InnerOut(p)
  BY <1>1, <1>2, ParentPorts DEF Here, HasPorts
<1>4. OutPort(c) \in StreamOuts /\ InPort(c) \in StreamIns
  BY <1>1, <1>2, UserPorts DEF StreamOuts, StreamIns, PortsOf
<1>5. /\ sent[OutPort(c)] \in Seq(Nat) /\ got[InPort(c)] \in Seq(Nat)
      /\ outerIn[p] \in StreamPort
  BY <1>1, <1>3, <1>4 DEF RunInv, ExecTypeOK, OuterTypeOK
<1>6. x \in Seq(Nat)
  BY <1>5 DEF StreamPort
<1>7. /\ sent[OutPort(c)] \o x = outerSent[p]
      /\ streamOut[OutPort(c)].eof => x = <<>>
  BY <1>1, <1>3 DEF InputsMove, Eof
<1>8. /\ IsPrefix(got[InPort(c)], sent[OutPort(c)])
      /\ Eof(streamIn[InPort(c)]) =>
           got[InPort(c)] = sent[OutPort(c)] /\ streamOut[OutPort(c)].eof
  BY <1>1, SourceDelivered DEF Delivers
<1> HIDE DEF x
<1>9. IsPrefix(got[InPort(c)], outerSent[p])
  BY <1>5, <1>6, <1>7, <1>8, PrefixOfPrefix
<1>10. ASSUME status = "done" PROVE got[InPort(c)] = outerSent[p]
  <2>1. Eof(streamIn[InPort(c)])
    BY <1>1, <1>2, <1>10, AllStreamsOver
  <2>2. sent[OutPort(c)] \o <<>> = sent[OutPort(c)]
    BY <1>5, ItemSeqs
  <2> QED
    BY <1>7, <1>8, <2>1, <2>2
<1> QED
  BY <1>9, <1>10

\* What is got outside was pushed to a parent process.
LEMMA OutputsDelivered ==
  ASSUME LiveInv, Started,
         NEW c \in source.conns, c.stream, c.down \in ParentStreamOutputs
  PROVE  /\ IsPrefix(outerGot[c.down], sent[OutPort(c)])
         /\ status = "done" =>
              outerGot[c.down] = sent[OutPort(c)] /\ outerOut[c.down].eof
<1> DEFINE p == c.down
           x == outerOut[p].queue
<1>1. /\ ExecInv /\ RunInv /\ PlanInv /\ phase = "planned" /\ OutputsMove /\ OuterTypeOK
  BY LiveFacts DEF LiveInv
<1>2. /\ p \in source.procs /\ p \in flat.procs
      /\ OutPort(c) \in StreamOutPorts(flat, c.up) /\ c.up \in flat.procs
      /\ InPort(c) \in StreamInPorts(flat, p)
  BY <1>1, UserPorts
<1>3. p \in Here(ParentStreamOutputs) /\ InPort(c) = InnerIn(p)
  BY <1>1, <1>2, ParentPorts DEF Here, HasPorts
<1>4. OutPort(c) \in StreamOuts /\ InPort(c) \in StreamIns
  BY <1>2 DEF StreamOuts, StreamIns, PortsOf
<1>5. /\ sent[OutPort(c)] \in Seq(Nat) /\ got[InPort(c)] \in Seq(Nat)
      /\ outerOut[p] \in StreamPort /\ outerGot[p] \in Seq(Nat)
  BY <1>1, <1>3, <1>4 DEF RunInv, ExecTypeOK, OuterTypeOK
<1>6. x \in Seq(Nat)
  BY <1>5 DEF StreamPort
<1>7. outerGot[p] \o x = got[InPort(c)]
  BY <1>1, <1>3 DEF OutputsMove
<1>8. /\ IsPrefix(got[InPort(c)], sent[OutPort(c)])
      /\ Eof(streamIn[InPort(c)]) => got[InPort(c)] = sent[OutPort(c)]
  BY <1>1, SourceDelivered DEF Delivers
<1>9. status = "done" => x = <<>> /\ outerOut[p].eof
  <2>1. status = "done" => OuterEnded
    BY DEF LiveInv, StageOK, FinalisingOK
  <2> QED
    BY <1>1, <1>3, <2>1 DEF OuterEnded, OuterTypeOK, Eof
<1> HIDE DEF x
<1>10. IsPrefix(outerGot[p], got[InPort(c)])
  BY <1>5, <1>6, <1>7, BeginsWith
<1>11. IsPrefix(outerGot[p], sent[OutPort(c)])
  BY <1>5, <1>8, <1>10, PrefixTransitive
<1>12. ASSUME status = "done"
       PROVE  outerGot[p] = sent[OutPort(c)] /\ outerOut[p].eof
  <2>1. Eof(streamIn[InPort(c)])
    BY <1>1, <1>2, <1>12, AllStreamsOver
  <2>2. outerGot[p] \o <<>> = outerGot[p]
    BY <1>5, ItemSeqs
  <2> QED
    BY <1>7, <1>8, <1>9, <1>12, <2>1, <2>2
<1> QED
  BY <1>11, <1>12

\* At the end of the plan the data outputs have their values.
LEMMA DataOutputsFilled ==
  ASSUME LiveInv, status = "done", NEW c \in source.conns, c.down \in ParentDataOutputs
  PROVE  /\ c.down \in Here(ParentDataOutputs) /\ InPort(c) = InnerIn(c.down)
         /\ dataIn[InPort(c)].state = "set" /\ dataIn[InPort(c)].port = OutPort(c)
<1> DEFINE p == c.down
<1>1. /\ Started /\ ExecInv /\ RunInv /\ PlanInv /\ phase = "planned"
      /\ step = Len(plan) + 1
  BY LiveFacts DEF LiveInv, Started, RunInv, ControlOK
<1>2. p \in source.procs /\ p \in flat.procs /\ p \in Here(ParentDataOutputs)
  BY <1>1, UserPorts DEF Here
<1>3. HasPorts(flat, p, {}, {}, {}, {InnerIn(p)})
  BY <1>1, <1>2, ParentPorts
<1>4. ~c.stream /\ c \in flat.conns
  BY <1>1, <1>3, UserPorts DEF HasPorts
<1>5. InPort(c) = InnerIn(p)
  BY <1>3, <1>4 DEF HasPorts, DataInPorts, InputConns
<1>6. life[p] # "idle"
  <2>1. PICK a \in CalledAt(plan, p) : TRUE
    BY <1>1, <1>2, Places
  <2>2. a[1] < step
    BY <1>1, <1>2, Places, PlanFacts
  <2> QED
    BY <1>1, <1>2, <2>1, <2>2 DEF RunInv, LifeFollowsPlan, LifeAt
<1>7. DataInputsAvailable
  BY <1>1, WhatIsKept
<1> QED
  BY <1>1, <1>2, <1>4, <1>5, <1>6, <1>7 DEF DataInputsAvailable

LEMMA LiveKeeps ==
  ASSUME LiveInv
  PROVE  /\ stage # "done" => OuterDelivery /\ DynamicDataAvailable
         /\ FrameworkNeverThrows /\ Kept
<1>1. FrameworkNeverThrows /\ Kept /\ DataInputsAvailable
  BY WhatIsKept DEF LiveInv, Kept
<1>2. stage # "done" => OuterDelivery
  BY InputsDelivered, OutputsDelivered DEF OuterDelivery
<1>3. stage # "done" => DynamicDataAvailable
  BY <1>1 DEF DynamicDataAvailable
<1> QED
  BY <1>1, <1>2, <1>3

\* Moving the values of the data outputs is the last thing that happens.
LEMMA MoveDataOutputsEnds ==
  ASSUME LiveInv, MoveDataOutputs
  PROVE  /\ status' = "done" /\ Kept' /\ OuterDelivery' /\ DynamicDataAvailable'
         /\ AllowedStep
<1>1. /\ stage = "outputs" /\ stage' = "done" /\ Frame
      /\ outerData' = [p \in DOMAIN outerData |->
                         IF p \in Here(ParentDataOutputs) THEN dataIn[InnerIn(p)] ELSE outerData[p]]
      /\ UNCHANGED <<status, life, streamOut, streamIn, sent, got>>
      /\ UNCHANGED <<outerIn, outerOut, outerSent, outerGot>>
  BY DEF MoveDataOutputs, Updated, Frame
<1>2. Started /\ status = "done" /\ Started' /\ Kept /\ OuterTypeOK
  BY <1>1, StageFacts, LiveKeeps DEF Started, LiveInv
<1>3. source' = source /\ flat' = flat
  BY <1>1, FrameIs
<1>4. Kept'
  BY <1>1, <1>2, <1>3 DEF Kept, NothingRunsOnUnfinishedData, EndToEndDelivery
<1>5. OuterDelivery'
  <2>1. \A c \in source.conns : c.stream /\ c.up \in ParentStreamInputs =>
          /\ IsPrefix(got[InPort(c)], outerSent[c.up])
          /\ got[InPort(c)] = outerSent[c.up]
    BY <1>2, InputsDelivered
  <2>2. \A c \in source.conns : c.stream /\ c.down \in ParentStreamOutputs =>
          /\ IsPrefix(outerGot[c.down], sent[OutPort(c)])
          /\ outerGot[c.down] = sent[OutPort(c)] /\ outerOut[c.down].eof
    BY <1>2, OutputsDelivered
  <2> QED
    BY <1>1, <1>3, <2>1, <2>2 DEF OuterDelivery
<1>6. DynamicDataAvailable'
  <2>1. ASSUME NEW c \in source.conns, c.down \in ParentDataOutputs
        PROVE  outerData'[c.down].state = "set" /\ outerData'[c.down].port = OutPort(c)
    <3>1. /\ c.down \in Here(ParentDataOutputs) /\ InPort(c) = InnerIn(c.down)
          /\ dataIn[InPort(c)].state = "set" /\ dataIn[InPort(c)].port = OutPort(c)
      BY <1>2, <2>1, DataOutputsFilled
    <3>2. c.down \in DOMAIN outerData
      BY <1>2, <3>1 DEF OuterTypeOK
    <3>3. outerData'[c.down] = dataIn[InPort(c)]
      BY <1>1, <3>1, <3>2
    <3> QED
      BY <3>1, <3>3
  <2> QED
    BY <1>1, <1>3, <2>1 DEF DynamicDataAvailable
<1>7. AllowedStep
  BY <1>1, <1>2 DEF AllowedStep, Unseen
<1> QED
  BY <1>1, <1>2, <1>4, <1>5, <1>6, <1>7

LEMMA InitDynamicInv == DynamicInit => DynamicInv
<1> SUFFICES ASSUME DynamicInit PROVE LiveInv
  BY DEF DynamicInv, DynamicInit
<1>1. /\ EvaluateInit /\ stage = "plan" /\ finalising = FALSE
      /\ outerIn = [p \in Here(ParentStreamInputs) |-> OpenPort]
      /\ outerOut = [p \in Here(ParentStreamOutputs) |-> OpenPort]
      /\ outerData = [p \in Here(ParentDataInputs) \cup Here(ParentDataOutputs) |->
                        IF p \in ParentDataInputs THEN Value(InnerOut(p), <<>>) ELSE Unset]
      /\ outerSent = [p \in Here(ParentStreamInputs) |-> <<>>]
      /\ outerGot = [p \in Here(ParentStreamOutputs) |-> <<>>]
  BY DEF DynamicInit
<1>2. ExecInv /\ status = "planning" /\ ~Started /\ NothingCalledYet
  BY <1>1, InitExecInv DEF EvaluateInit, PlannerInit, Started, NothingCalledYet
<1>3. StageOK
  BY <1>1, <1>2 DEF StageOK, Stages, Turning
<1>4. FinalisingOK
  BY <1>1 DEF FinalisingOK, Stages, Turning
<1>5. OpenPort \in StreamPort /\ <<>> \in Seq(Nat)
  BY DEF OpenPort, StreamPort
<1>6. /\ DOMAIN outerData = Here(ParentDataInputs) \cup Here(ParentDataOutputs)
      /\ \A p \in Here(ParentDataInputs) : outerData[p] = Value(InnerOut(p), <<>>)
  BY <1>1 DEF Here
<1>7. OuterTypeOK
  BY <1>1, <1>5, <1>6 DEF OuterTypeOK
<1>8. NothingMovedYet
  BY <1>1, <1>6 DEF NothingMovedYet
<1> QED
  BY <1>2, <1>3, <1>4, <1>7, <1>8 DEF LiveInv

\* As long as the dynamic subgraph is at work each of its steps keeps the
\* invariant, and is one that Dataflow allows.
LEMMA NextLive ==
  ASSUME LiveInv, DynamicNext
  PROVE  AllowedStep /\ (LiveInv' \/ MoveDataOutputs)
<1>1. CASE RunFirstSteps \/ RunLastSteps
  BY <1>1, RunFirstStepsLive, RunLastStepsLive DEF AllowedStep
<1>2. CASE PlanSubgraph \/ PartitionPlan \/ MoveDataInputs
  BY <1>2, PlanSubgraphLive, PartitionPlanLive, MoveDataInputsLive
<1>3. CASE OuterTurn \/ DrainOutputs \/ CallFinalise
  BY <1>3, OuterTurnLive, DrainOutputsLive, CallFinaliseLive
<1>4. CASE PullInputs \/ TakeTurn \/ PushOutputs
  BY <1>4, PullInputsLive, TakeTurnLive, PushOutputsLive
<1>5. CASE DrainSubgraph \/ InnerProcessThrows
  BY <1>5, DrainSubgraphLive, InnerProcessThrowsLive
<1>6. CASE MoveDataOutputs
  BY <1>6, MoveDataOutputsEnds
<1> QED
  BY <1>1, <1>2, <1>3, <1>4, <1>5, <1>6 DEF DynamicNext

\* The stage is never "done" without the run being over.
LEMMA LiveNotDone ==
  ASSUME LiveInv, DynamicNext, ~MoveDataOutputs
  PROVE  stage' # "done"
BY DEF DynamicNext, PlanSubgraph, PartitionPlan, MoveDataInputs, RunFirstSteps, OuterTurn,
       DrainOutputs, CallFinalise, PullInputs, TakeTurn, PushOutputs, DrainSubgraph,
       RunLastSteps, InnerProcessThrows

\* After the end there is no step.
LEMMA DoneIsFinal ==
  ASSUME DynamicNext
  PROVE  stage # "done"
BY DEF DynamicNext, PlanSubgraph, PartitionPlan, MoveDataInputs, RunFirstSteps, OuterTurn,
       DrainOutputs, CallFinalise, PullInputs, TakeTurn, PushOutputs, DrainSubgraph,
       RunLastSteps, InnerProcessThrows, MoveDataOutputs

LEMMA NothingHappens ==
  ASSUME LiveInv, UNCHANGED dynamicVars
  PROVE  LiveInv'
<1>1. /\ UNCHANGED vars
      /\ UNCHANGED <<stage, finalising, pending>>
      /\ UNCHANGED <<outerIn, outerOut, outerData, outerSent, outerGot>>
  BY DEF dynamicVars, outerVars
<1>2. /\ ExecInv' /\ NothingCalledYet'
      /\ UNCHANGED <<status, step, mode, at, life, dataOut, plan>>
      /\ UNCHANGED <<streamOut, streamIn, sent, got>>
      /\ UNCHANGED <<Started, InStreaming, StreamingSteps, DataOuts>>
      /\ \A P : Here(P)' = Here(P)
  BY <1>1, VarsStay
<1>3. StageOK' /\ FinalisingOK'
  <2>1. StageOK'
    BY <1>1, <1>2 DEF LiveInv, StageOK
  <2>2. FinalisingOK'
    BY <1>1 DEF LiveInv, FinalisingOK, OuterEnded
  <2> QED
    BY <2>1, <2>2
<1>4. OuterTypeOK' /\ NothingMovedYet'
  <2>1. OuterTypeOK'
    BY <1>1, <1>2 DEF LiveInv, OuterTypeOK
  <2>2. NothingMovedYet'
    BY <1>1, <1>2 DEF LiveInv, NothingMovedYet
  <2> QED
    BY <2>1, <2>2
<1>5. ASSUME Started PROVE InputsMove' /\ OutputsMove' /\ ValuesMovedIn'
  <2>1. InputsMove /\ OutputsMove /\ ValuesMovedIn
    BY <1>5 DEF LiveInv
  <2>2. InputsMove' /\ OutputsMove'
    BY <1>1, <1>2, <2>1 DEF InputsMove, OutputsMove
  <2>3. ValuesMovedIn'
    BY <1>1, <1>2, <2>1 DEF ValuesMovedIn
  <2> QED
    BY <2>2, <2>3
<1> QED
  BY <1>2, <1>3, <1>4, <1>5 DEF LiveInv

LEMMA NextDynamicInv == DynamicInv /\ [DynamicNext]_dynamicVars => DynamicInv'
<1> SUFFICES ASSUME DynamicInv, [DynamicNext]_dynamicVars PROVE DynamicInv'
  OBVIOUS
<1>1. CASE stage # "done" /\ DynamicNext
  <2>1. LiveInv
    BY <1>1 DEF DynamicInv
  <2>2. CASE MoveDataOutputs
    <3>1. stage' = "done"
      BY <2>2 DEF MoveDataOutputs
    <3> QED
      BY <2>1, <2>2, <3>1, MoveDataOutputsEnds DEF DynamicInv
  <2>3. CASE ~MoveDataOutputs
    BY <1>1, <2>1, <2>3, NextLive, LiveNotDone DEF DynamicInv
  <2> QED
    BY <2>2, <2>3
<1>2. CASE stage # "done" /\ UNCHANGED dynamicVars
  <2>1. stage' = stage
    BY <1>2 DEF dynamicVars
  <2> QED
    BY <1>2, <2>1, NothingHappens DEF DynamicInv
<1>3. CASE stage = "done"
  <2>1. UNCHANGED dynamicVars
    BY <1>3, DoneIsFinal
  <2>2. /\ Frame /\ UNCHANGED <<stage, status, life, streamOut, streamIn, sent, got>>
        /\ UNCHANGED <<outerIn, outerOut, outerData, outerSent, outerGot>>
    BY <2>1 DEF dynamicVars, outerVars, vars, execVars, portVars, Frame
  <2>3. source' = source /\ flat' = flat
    BY <2>2, FrameIs
  <2>4. status = "done" /\ Kept /\ OuterDelivery /\ DynamicDataAvailable
    BY <1>3 DEF DynamicInv
  <2>5. Kept'
    BY <2>2, <2>3, <2>4 DEF Kept, NothingRunsOnUnfinishedData, EndToEndDelivery, Started
  <2>6. OuterDelivery'
    BY <2>2, <2>3, <2>4 DEF OuterDelivery, Started
  <2>7. DynamicDataAvailable'
    BY <1>3, <2>2, <2>3, <2>4 DEF DynamicDataAvailable
  <2> QED
    BY <1>3, <2>2, <2>4, <2>5, <2>6, <2>7 DEF DynamicInv
<1> QED
  BY <1>1, <1>2, <1>3

LEMMA DynamicKeeps ==
  ASSUME DynamicInv
  PROVE  OuterDelivery /\ DynamicDataAvailable /\ DynamicNeverThrows /\ Kept
BY LiveKeeps DEF DynamicInv, DynamicNeverThrows, FrameworkNeverThrows

LEMMA DynamicRuns == DynamicSpec => []DynamicInv
BY InitDynamicInv, NextDynamicInv, PTL DEF DynamicSpec

LEMMA DynamicNextKeepsContract ==
  ASSUME DynamicInv, Kept', [DynamicNext]_dynamicVars
  PROVE  [Contract!Next]_Contract!dataflowVars
<1>1. CASE DynamicNext
  <2>1. LiveInv
    BY <1>1, DoneIsFinal DEF DynamicInv
  <2>2. AllowedStep
    BY <1>1, <2>1, NextLive
  <2> QED
    BY <2>1, <2>2, AllowedKeepsContract DEF LiveInv
<1>2. CASE UNCHANGED dynamicVars
  BY <1>2, PlannerKeeps DEF dynamicVars, vars
<1> QED
  BY <1>1, <1>2

-----------------------------------------------------------------------------
(***************************************************************************)
(* The theorems.                                                           *)
(***************************************************************************)

\* What process() of a dynamic subgraph moves from its stream inputs to the
\* inner graph and back to its stream outputs is neither lost, repeated nor
\* reordered, and by the end of finalise(), which goes on calling process()
\* after the outer graph has stopped to, all of it has arrived: whatever the
\* inner graph is made of and however the outer graph feeds and drains it.
THEOREM OuterPortsDeliver == DynamicSpec => []OuterDelivery
BY DynamicRuns, DynamicKeeps, PTL

\* Inner processes find their data inputs filled, those that come from a data
\* input of the dynamic subgraph included, and finalise() leaves in its data
\* outputs what the inner processes connected to them set.
THEOREM DynamicInputsAreAvailable == DynamicSpec => []DynamicDataAvailable
BY DynamicRuns, DynamicKeeps, PTL

\* The moves between inner and outer stream ports, in process() and when
\* finalise() calls it, and the copies in between never push to a closed port.
THEOREM DynamicDoesNotThrow == DynamicSpec => []DynamicNeverThrows
BY DynamicRuns, DynamicKeeps, PTL

\* Run piecemeal by initialise(), process() and finalise(), the inner graph
\* is still evaluated as process.hpp promises to each of its processes.
THEOREM DynamicKeepsContract == DynamicSpec => ImplementsDataflow
<1>1. DynamicInit => EvaluateInit
  BY DEF DynamicInit
<1>2. DynamicInv /\ Kept' /\ [DynamicNext]_dynamicVars
        => [Contract!Next]_Contract!dataflowVars
  BY DynamicNextKeepsContract
<1>3. DynamicInv => Kept
  BY DynamicKeeps
<1> QED
  BY <1>1, <1>2, <1>3, DynamicRuns, ContractInit, PTL
  DEF DynamicSpec, ImplementsDataflow, Contract!Spec
=============================================================================
