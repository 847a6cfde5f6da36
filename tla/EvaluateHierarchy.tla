------------------------- MODULE EvaluateHierarchy --------------------------
(***************************************************************************)
(* evaluate() from end to end: a hierarchy of processes is built, checked  *)
(* and flattened as in CompositeGraph, and the flat graph is planned and   *)
(* run as in Evaluate.                                                     *)
(***************************************************************************)
EXTENDS CompositeGraph

CONSTANTS MaxItems, MayThrow

VARIABLES
  source, flat, planPhase, allowSplit, toRun, ran, subgraphs, split,
  emitted, planTodo, order, plan,
  status, step, mode, at, life, dataOut, dataIn, streamOut, streamIn,
  buf, sent, got

evaluationVars ==
  <<source, flat, planPhase, allowSplit, toRun, ran, subgraphs, split,
    emitted, planTodo, order, plan,
    status, step, mode, at, life, dataOut, dataIn, streamOut, streamIn,
    buf, sent, got>>
hierarchyVars == <<vars, evaluationVars>>

\* What plan() holds before it has a flat graph.
NoGraph == [procs |-> {}, streaming |-> {}, conns |-> {}]

Evaluation ==
  INSTANCE Evaluate WITH
    phase <- planPhase, todo <- planTodo, Graphs <- {NoGraph}, PlanOnly <- {}

HierarchyInit == CompositeInit /\ Evaluation!EvaluateInit

\* The calls of connect(), validate() and flatten().
BuildGraph == CompositeNext /\ UNCHANGED evaluationVars

\* subgraphs_in_order() is called with what flatten() returned.
PlanFlat ==
  /\ phase = "flat" /\ source # Flat
  /\ source' = Flat
  /\ flat' = Flat
  /\ toRun' = Atomic
  /\ life' = [p \in Atomic |-> "idle"]
  /\ UNCHANGED <<vars, planPhase, allowSplit, ran, subgraphs, split, emitted,
                 planTodo, order, plan, status, step, mode, at, dataOut,
                 dataIn, streamOut, streamIn, buf, sent, got>>

PlanAndRun ==
  /\ phase = "flat" /\ source = Flat
  /\ Evaluation!EvaluateNext
  /\ UNCHANGED vars

HierarchyNext == BuildGraph \/ PlanFlat \/ PlanAndRun

HierarchySpec == HierarchyInit /\ [][HierarchyNext]_hierarchyVars

\* evaluate() runs in one thread, which is never stopped between two steps.
\* Nobody has to call it, or to finish building a graph.
FairHierarchySpec ==
  /\ HierarchySpec
  /\ WF_hierarchyVars(Flatten /\ UNCHANGED evaluationVars)
  /\ WF_hierarchyVars(PlanFlat)
  /\ WF_hierarchyVars(PlanAndRun)
-----------------------------------------------------------------------------
\* plan() has thrown, run() has returned, or a process has thrown.
Evaluated == planPhase = "failed" \/ status \in {"done", "thrown"}

\* evaluate() returns or throws once the graph is found valid, when processes
\* keep to their contract: flattening, the loops of the planner and the
\* do-while loop of every streaming subgraph come to an end.
EvaluateTerminates ==
  phase = "next" /\ ~PassThroughLoop ~> phase = "failed" \/ Evaluated

PortName(p) == <<p.proc, p.name>>

\* When evaluate() has returned, each input of an atomic process was given
\* what the output at the other end of its path through the composites sent,
\* whatever the graph was flattened, ordered and buffered to: all items of a
\* stream in their order, or the value.
PathsDeliver ==
  status = "done" =>
    \A o \in PortsOf(Atomic, "out") : \A i \in LeadsTo(o) \cap PortsOf(Atomic, "in") :
      IF o.type \in StreamTypes
        THEN got[PortName(i)] = sent[PortName(o)]
        ELSE dataIn[PortName(i)].state = "set" /\ dataIn[PortName(i)].port = PortName(o)
=============================================================================
