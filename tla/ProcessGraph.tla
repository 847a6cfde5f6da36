---------------------------- MODULE ProcessGraph ----------------------------
(***************************************************************************)
(* Flat process graphs, as the planner sees them after flatten(), and the  *)
(* questions it asks of them: utilities.hpp and the static functions of    *)
(* evaluate.cpp.  Nothing here has state.                                  *)
(*                                                                         *)
(* A graph is a record                                                     *)
(*   procs      the atomic processes                                       *)
(*   streaming  those of them that are StreamingAtomicProcess              *)
(*   conns      its connections: an element of port_inputs together with   *)
(*              the processes that own its two ports                       *)
(*                                                                         *)
(* The loops of the source that grow a set until nothing can be added are  *)
(* stated here as the least set closed under one turn of the loop, which   *)
(* is what they compute in whatever order the pointers are visited.        *)
(***************************************************************************)
EXTENDS Naturals, Sequences, FiniteSets, SequencesExt

Connection(up, out, down, in, stream) ==
  [up |-> up, out |-> out, down |-> down, in |-> in, stream |-> stream]

OutPort(c) == <<c.up, c.out>>
InPort(c)  == <<c.down, c.in>>

OutputConns(g, p) == {c \in g.conns : c.up = p}
InputConns(g, p)  == {c \in g.conns : c.down = p}

\* All processes upstream of p are in R.
InputsIn(g, p, R) == \A c \in InputConns(g, p) : c.up \in R

ConnectedPorts(g, o) == {InPort(c) : c \in {d \in g.conns : OutPort(d) = o}}

StreamOutPorts(g, p) == {OutPort(c) : c \in {d \in OutputConns(g, p) : d.stream}}
DataOutPorts(g, p)   == {OutPort(c) : c \in {d \in OutputConns(g, p) : ~d.stream}}
StreamInPorts(g, p)  == {InPort(c) : c \in {d \in InputConns(g, p) : d.stream}}
DataInPorts(g, p)    == {InPort(c) : c \in {d \in InputConns(g, p) : ~d.stream}}

-----------------------------------------------------------------------------
(***************************************************************************)
(* The graphs validate() and Graph::connect() accept: both ends belong to  *)
(* the graph, an input port has one connection, whether a connection       *)
(* streams is a matter of its output port, and only streaming processes    *)
(* have stream ports.                                                      *)
(***************************************************************************)
IsGraph(g) ==
  /\ g.streaming \subseteq g.procs
  /\ \A c \in g.conns :
       /\ c.up \in g.procs /\ c.down \in g.procs
       /\ c.stream \in BOOLEAN
       /\ c.stream => c.up \in g.streaming /\ c.down \in g.streaming
  /\ \A c, d \in g.conns :
       /\ InPort(c) = InPort(d) => c = d
       /\ OutPort(c) = OutPort(d) => c.stream = d.stream

\* No process can be reached from itself: every nonempty set of processes
\* has a member with no upstream in the set.
Acyclic(g) ==
  \A S \in SUBSET g.procs :
    S # {} => \E p \in S : \A c \in InputConns(g, p) : c.up \notin S

-----------------------------------------------------------------------------
\* Processes of toRun whose inputs, of either kind, have all been run.
Runnable(g, ran, toRun) == {p \in toRun : InputsIn(g, p, ran)}

\* A fault: data inputs are ignored.
DataReadyAtOnce(g, ran, toRun) == toRun \cap g.streaming

\* Streaming processes of toRun whose data inputs have all been run.
DataReady(g, ran, toRun) ==
  {p \in toRun \cap g.streaming :
     \A c \in InputConns(g, p) : ~c.stream => c.up \in ran}

\* The part of DataReady that is reached by repeatedly adding a process all
\* of whose stream inputs come from processes run or already added.
RunnableStreaming(g, ran, toRun) ==
  LET ready == DataReady(g, ran, toRun)
      StreamInputsIn(p, R) == \A c \in InputConns(g, p) : c.stream => c.up \in R
      closed == {C \in SUBSET ready :
                   \A p \in ready : StreamInputsIn(p, ran \cup C) => p \in C}
  IN  {p \in ready : \A C \in closed : p \in C}

\* The sets of processes that stream connections between members of P join.
StreamingSubgraphs(g, P) ==
  LET inner  == {c \in g.conns : c.stream /\ c.up \in P /\ c.down \in P}
      closed == {C \in SUBSET P : \A c \in inner : c.up \in C <=> c.down \in C}
      StreamingSubgraph(p) == {q \in P : \A C \in closed : p \in C => q \in C}
  IN  {StreamingSubgraph(p) : p \in P}

\* Every stream connection with one end in S has both ends in S.
CompleteSubgraph(g, S) ==
  \A c \in g.conns : c.stream => (c.up \in S <=> c.down \in S)

-----------------------------------------------------------------------------
(***************************************************************************)
(* Buffers.  The writer for an output port drains it into a data value;    *)
(* the reader for an output port and a subgraph turns the value back into  *)
(* a stream for the members of that subgraph.                              *)
(***************************************************************************)
Writer(o)    == <<"writer", o>>
Reader(o, S) == <<"reader", o, S>>

\* Buffers are new objects: none of them is already in the graph.
BuffersAreNew(g) ==
  \A c \in g.conns : /\ Writer(OutPort(c)) \notin g.procs
                     /\ \A S \in SUBSET g.procs : Reader(OutPort(c), S) \notin g.procs

\* find_subgraph()
SubgraphOf(subgraphs, p) == CHOOSE S \in ToSet(subgraphs) : p \in S

\* The stream connections between two subgraphs, which buffers replace.
Crossing(g, subgraphs) ==
  {c \in g.conns :
     c.stream /\ SubgraphOf(subgraphs, c.up) # SubgraphOf(subgraphs, c.down)}

\* The processes of g and buffers for the connections in cut, where
\* ReaderOf(c) is the reader that takes the place of c's output port.
WithBuffers(g, cut, ReaderOf(_)) ==
  LET WriterOf(c) == Writer(OutPort(c))
      buffers     == {WriterOf(c) : c \in cut} \cup {ReaderOf(c) : c \in cut}
  IN  [procs     |-> g.procs \cup buffers,
       streaming |-> g.streaming \cup buffers,
       conns     |-> (g.conns \ cut)
          \cup {Connection(c.up, c.out, WriterOf(c), "in", TRUE) : c \in cut}
          \cup {Connection(WriterOf(c), "out", ReaderOf(c), "in", FALSE) : c \in cut}
          \cup {Connection(ReaderOf(c), "out", c.down, c.in, TRUE) : c \in cut}]

\* Faults: the replaced connections are not erased, and one reader serves all
\* the subgraphs that an output port leads to.
AugmentWithoutErase(g, subgraphs) ==
  LET cut == Crossing(g, subgraphs)
      ReaderOf(c) == Reader(OutPort(c), SubgraphOf(subgraphs, c.down))
      new == WithBuffers(g, cut, ReaderOf)
  IN  [new EXCEPT !.conns = @ \cup cut]
AugmentWithOneReader(g, subgraphs) ==
  LET ReaderOf(c) == Reader(OutPort(c), {})
  IN  WithBuffers(g, Crossing(g, subgraphs), ReaderOf)

\* One reader for each subgraph that an output port leads to.
Augment(g, subgraphs) ==
  LET ReaderOf(c) == Reader(OutPort(c), SubgraphOf(subgraphs, c.down))
  IN  WithBuffers(g, Crossing(g, subgraphs), ReaderOf)
=============================================================================
