------------------------------ MODULE Dataflow ------------------------------
(***************************************************************************)
(* What the framework promises the author of a process: the comments on    *)
(* FunctionalAtomicProcess, StreamingAtomicProcess and StreamPortBase in   *)
(* process.hpp, without plans, steps, buffers or queues.                   *)
(*                                                                         *)
(* Every connection carries, reliably and in order, what was pushed to its *)
(* output port; a process starts once after everything connected to its    *)
(* data inputs is done, and is done once after its streams have ended.     *)
(***************************************************************************)
EXTENDS ProcessGraph

VARIABLES
  graph,   \* the graph being evaluated
  life,    \* for each process "idle", "running" or "done"
  sent,    \* for each stream output port the items pushed
  closed,  \* the stream output ports that were closed
  got      \* for each stream input port the items popped

dataflowVars == <<graph, life, sent, closed, got>>

Init ==
  /\ life = [p \in graph.procs |-> "idle"]
  /\ sent = [o \in UNION {StreamOutPorts(graph, p) : p \in graph.procs} |-> <<>>]
  /\ closed = {}
  /\ got = [i \in UNION {StreamInPorts(graph, p) : p \in graph.procs} |-> <<>>]

DataInputsDone(p) ==
  \A c \in InputConns(graph, p) : ~c.stream => life[c.up] = "done"

\* process() of a functional process.
Run(p) ==
  /\ p \notin graph.streaming
  /\ life[p] = "idle" /\ DataInputsDone(p)
  /\ life' = [life EXCEPT ![p] = "done"]
  /\ UNCHANGED <<graph, sent, closed, got>>

\* initialise() of a streaming process.
Start(p) ==
  /\ p \in graph.streaming
  /\ life[p] = "idle" /\ DataInputsDone(p)
  /\ life' = [life EXCEPT ![p] = "running"]
  /\ UNCHANGED <<graph, sent, closed, got>>

\* process() of a streaming process: it pops from its inputs and pushes to
\* those of its outputs that are open, and may close them.
Stream(p) ==
  /\ life[p] = "running"
  /\ \A c \in InputConns(graph, p) : c.stream =>
       LET i == InPort(c)
           o == OutPort(c)
       IN  IsPrefix(got[i], got'[i]) /\ IsPrefix(got'[i], sent[o])
  /\ \A o \in StreamOutPorts(graph, p) :
       IsPrefix(sent[o], sent'[o]) /\ (o \in closed => sent'[o] = sent[o])
  /\ \A i \in DOMAIN got \ StreamInPorts(graph, p) : got'[i] = got[i]
  /\ \A o \in DOMAIN sent \ StreamOutPorts(graph, p) : sent'[o] = sent[o]
  /\ DOMAIN got' = DOMAIN got /\ DOMAIN sent' = DOMAIN sent
  /\ closed \subseteq closed'
  /\ closed' \subseteq closed \cup StreamOutPorts(graph, p)
  /\ UNCHANGED <<graph, life>>

\* All p had to read was read, and all it had to write was written.
StreamsEnded(p) ==
  /\ StreamOutPorts(graph, p) \subseteq closed
  /\ \A c \in InputConns(graph, p) :
       c.stream => OutPort(c) \in closed /\ got[InPort(c)] = sent[OutPort(c)]

\* finalise() of a streaming process.
Finish(p) ==
  /\ life[p] = "running" /\ StreamsEnded(p)
  /\ life' = [life EXCEPT ![p] = "done"]
  /\ UNCHANGED <<graph, sent, closed, got>>

Next == \E p \in graph.procs : Run(p) \/ Start(p) \/ Stream(p) \/ Finish(p)

Spec == Init /\ [][Next]_dataflowVars
=============================================================================
