-------------------------- MODULE DynamicSubgraph ---------------------------
(***************************************************************************)
(* dynamic_subgraph.hpp: a streaming process that builds a graph of its    *)
(* own in initialise(), plans it, and runs the plan piecemeal: the steps   *)
(* before its only streaming step in initialise(), one turn of that step   *)
(* in each process(), and the rest in finalise().                          *)
(*                                                                         *)
(* source is the inner graph.  Some of its processes stand for ports of    *)
(* the dynamic subgraph and do nothing when called; the dynamic subgraph   *)
(* moves values between their ports and its own, the outer ports.  The     *)
(* outer graph is whatever feeds and drains these ports and goes on        *)
(* calling process() until they have ended.                                *)
(***************************************************************************)
EXTENDS Evaluate

CONSTANTS
  ParentStreamInputs, ParentStreamOutputs,  \* inner processes that stand for
  ParentDataInputs, ParentDataOutputs       \* outer ports

VARIABLES
  stage,       \* where in initialise(), process() or finalise() it is
  finalising,  \* process() was called by finalise()
  pending,     \* the parent ports still to be moved in this call
  outerIn, outerOut,    \* the outer stream ports
  outerData,   \* the outer data ports
  outerSent,   \* all items pushed to an outer stream input so far
  outerGot     \* all items taken from an outer stream output so far

outerVars   == <<outerIn, outerOut, outerData, outerSent, outerGot>>
dynamicVars == <<vars, stage, finalising, pending, outerVars>>

Parents == ParentStreamInputs \cup ParentStreamOutputs
             \cup ParentDataInputs \cup ParentDataOutputs
Here(P) == P \cap source.procs

\* The port of a parent process in the inner graph.
InnerOut(p) == <<p, "out">>
InnerIn(p)  == <<p, "in">>

HasPorts(g, p, streamOuts, streamIns, dataOuts, dataIns) ==
  /\ StreamOutPorts(g, p) = streamOuts /\ StreamInPorts(g, p) = streamIns
  /\ DataOutPorts(g, p) = dataOuts /\ DataInPorts(g, p) = dataIns

\* A parent process has the one port its constructor adds, of which validate()
\* has checked that it is connected.
ASSUME ParentAssumption ==
  \A g \in Graphs : \A p \in g.procs :
    /\ p \in ParentStreamInputs =>
         p \in g.streaming /\ HasPorts(g, p, {InnerOut(p)}, {}, {}, {})
    /\ p \in ParentStreamOutputs =>
         p \in g.streaming /\ HasPorts(g, p, {}, {InnerIn(p)}, {}, {})
    /\ p \in ParentDataInputs =>
         p \notin g.streaming /\ HasPorts(g, p, {}, {}, {InnerOut(p)}, {})
    /\ p \in ParentDataOutputs =>
         p \notin g.streaming /\ HasPorts(g, p, {}, {}, {}, {InnerIn(p)})

DynamicInit ==
  /\ EvaluateInit
  /\ stage = "plan" /\ finalising = FALSE /\ pending = {}
  /\ outerIn = [p \in Here(ParentStreamInputs) |-> OpenPort]
  /\ outerOut = [p \in Here(ParentStreamOutputs) |-> OpenPort]
  /\ outerData = [p \in Here(ParentDataInputs) \cup Here(ParentDataOutputs) |->
                    IF p \in ParentDataInputs THEN Value(InnerOut(p), <<>>) ELSE Unset]
  /\ outerSent = [p \in Here(ParentStreamInputs) |-> <<>>]
  /\ outerGot = [p \in Here(ParentStreamOutputs) |-> <<>>]

-----------------------------------------------------------------------------
\* initialise()

PlanSubgraph ==
  /\ stage = "plan"
  /\ PlannerNext
  /\ UNCHANGED <<execVars, stage, finalising, pending, outerVars>>

StreamingSteps == {n \in DOMAIN plan : plan[n].kind = "streaming"}

\* The plan must have exactly one streaming step.
PartitionPlan ==
  /\ stage = "plan" /\ phase = "planned"
  /\ IF Cardinality(StreamingSteps) = 1
       THEN StartRun /\ stage' = "inputs"
       ELSE stage' = "rejected" /\ UNCHANGED vars
  /\ UNCHANGED <<finalising, pending, outerVars>>

\* A fault: the inputs stay where they are.
DataInputsStay ==
  /\ stage = "inputs"
  /\ stage' = "initialise"
  /\ UNCHANGED <<vars, finalising, pending, outerVars>>

MoveDataInputs ==
  /\ stage = "inputs"
  /\ LET ports == {InnerOut(p) : p \in Here(ParentDataInputs)}
         NewValue(o) == outerData[o[1]]
         Left(p) == MovedOut
     IN  /\ dataOut' = Updated(dataOut, ports, NewValue)
         /\ outerData' = Updated(outerData, Here(ParentDataInputs), Left)
  /\ stage' = "initialise"
  /\ UNCHANGED <<plannerVars, status, step, mode, at, life, dataIn, streamOut,
                 streamIn, buf, sent, got, finalising, pending,
                 outerIn, outerOut, outerSent, outerGot>>

\* A functional step; the process() of a parent process does nothing.
RunInnerFunctional ==
  IF Running("functional") /\ plan[step].process \in Parents
    THEN /\ life' = [life EXCEPT ![plan[step].process] = "done"]
         /\ GoTo(step + 1)
         /\ UNCHANGED <<plannerVars, portVars>>
    ELSE RunFunctional

RunFirstSteps ==
  /\ stage = "initialise"
  /\ RunInnerFunctional \/ RunCopyData \/ Initialise
  /\ stage' = IF mode' = "run" THEN "first" ELSE "initialise"
  /\ UNCHANGED <<finalising, pending, outerVars>>

-----------------------------------------------------------------------------
(***************************************************************************)
(* The loop of the outer graph's streaming step.                           *)
(***************************************************************************)

\* Something is pushed to each outer input that is open, or it is closed, and
\* process() is called, the first time unconditionally.  (That processes of the
\* outer graph may also let a turn pass without a push is left out.)
OuterTurn ==
  /\ stage \in {"first", "ready"}
  /\ LET open == {p \in DOMAIN outerIn : ~outerIn[p].eof}
     IN  \E n \in [DOMAIN outerIn -> 0 .. MaxItems], ends \in SUBSET open :
           /\ \A p \in DOMAIN outerIn \ open : n[p] = 0
           /\ \A p \in open : n[p] <= MaxItems - Len(outerSent[p])
           /\ \A p \in open \ ends : n[p] > 0
           /\ LET items(p) == [k \in 1 .. n[p] |-> Len(outerSent[p]) + k]
                  Fed(p) == LET pushed == Push(outerIn[p], items(p))
                            IN  IF p \in ends THEN Close(pushed) ELSE pushed
              IN  /\ outerIn' = [p \in DOMAIN outerIn |-> Fed(p)]
                  /\ outerSent' = [p \in DOMAIN outerSent |-> outerSent[p] \o items(p)]
  /\ stage' = "pull"
  /\ pending' = DOMAIN outerIn
  /\ UNCHANGED <<vars, finalising, outerOut, outerData, outerGot>>

\* After process(), outputs are copied to where they are connected and cleared.
DrainOutputs ==
  /\ stage = "return"
  /\ outerGot' = [p \in DOMAIN outerGot |-> outerGot[p] \o outerOut[p].queue]
  /\ outerOut' = [p \in DOMAIN outerOut |-> Clear(outerOut[p])]
  /\ stage' = "ready"
  /\ UNCHANGED <<vars, finalising, pending, outerIn, outerData, outerSent>>

OuterEnded == /\ \A p \in DOMAIN outerIn : Eof(outerIn[p])
              /\ \A p \in DOMAIN outerOut : Eof(outerOut[p])

\* The loop may go on for the sake of other processes after the ports of this
\* one have ended, but not end before.
CallFinalise ==
  /\ stage = "ready" /\ OuterEnded
  /\ stage' = "drain"
  /\ finalising' = TRUE
  /\ UNCHANGED <<vars, pending, outerVars>>

-----------------------------------------------------------------------------
\* process()

\* A fault: the items of an outer input are moved, but not its end.
PullItemsOnly(p) ==
  LET o == InnerOut(p)
  IN  /\ streamOut' = [streamOut EXCEPT ![o] = Push(@, outerIn[p].queue)]
      /\ sent' = [sent EXCEPT ![o] = @ \o outerIn[p].queue]
      /\ outerIn' = [outerIn EXCEPT ![p] = Clear(@)]
      /\ UNCHANGED status

\* An outer input is moved to the parent process that stands for it.
PullInput(p) ==
  LET o == InnerOut(p)
  IN  IF CanPush(streamOut[o], outerIn[p].queue)
        THEN /\ streamOut' = [streamOut EXCEPT ![o] = Received(outerIn[p], @)]
             /\ sent' = [sent EXCEPT ![o] = @ \o outerIn[p].queue]
             /\ outerIn' = [outerIn EXCEPT ![p] = Clear(@)]
             /\ UNCHANGED status
        ELSE /\ status' = "error"
             /\ UNCHANGED <<streamOut, sent, outerIn>>

PullInputs ==
  /\ stage = "pull" /\ status = "running"
  /\ IF pending = {}
       THEN stage' = "turn" /\ UNCHANGED <<status, streamOut, sent, outerIn, pending>>
       ELSE /\ \E p \in pending : PullInput(p) /\ pending' = pending \ {p}
            /\ UNCHANGED stage
  /\ UNCHANGED <<plannerVars, step, mode, at, life, dataOut, dataIn, streamIn,
                 buf, got, finalising, outerOut, outerData, outerSent, outerGot>>

\* A step of run_run(); the process() of a parent process does nothing.
RunInnerProcess ==
  IF InMode("run") /\ InnerPlan[at].kind = "process" /\ InnerPlan[at].process \in Parents
    THEN /\ Advance(Len(InnerPlan), "check")
         /\ UNCHANGED <<plannerVars, life, portVars>>
    ELSE RunProcess

TakeTurn ==
  /\ stage = "turn"
  /\ RunInnerProcess \/ RunCopyStream
  /\ IF mode' = "check"
       THEN stage' = "push" /\ pending' = DOMAIN outerOut
       ELSE UNCHANGED <<stage, pending>>
  /\ UNCHANGED <<finalising, outerVars>>

\* A fault: the items stay in the inner port when they are moved.
PushAgain(p) ==
  LET i == InnerIn(p)
  IN  IF CanPush(outerOut[p], streamIn[i].queue)
        THEN /\ outerOut' = [outerOut EXCEPT ![p] = Received(streamIn[i], @)]
             /\ UNCHANGED <<status, got, streamIn>>
        ELSE /\ status' = "error"
             /\ UNCHANGED <<streamIn, got, outerOut>>

\* A parent process's input is moved to the outer output it stands for.
PushOutput(p) ==
  LET i == InnerIn(p)
  IN  IF CanPush(outerOut[p], streamIn[i].queue)
        THEN /\ outerOut' = [outerOut EXCEPT ![p] = Received(streamIn[i], @)]
             /\ got' = [got EXCEPT ![i] = @ \o streamIn[i].queue]
             /\ streamIn' = [streamIn EXCEPT ![i] = Clear(@)]
             /\ UNCHANGED status
        ELSE /\ status' = "error"
             /\ UNCHANGED <<streamIn, got, outerOut>>

\* When all outputs are moved, process() returns to its caller.
PushOutputs ==
  /\ stage = "push" /\ status = "running"
  /\ IF pending = {}
       THEN /\ stage' = IF finalising THEN "drain" ELSE "return"
            /\ mode' = "run" /\ at' = 1
            /\ UNCHANGED <<status, streamIn, got, outerOut, pending>>
       ELSE /\ \E p \in pending : PushOutput(p) /\ pending' = pending \ {p}
            /\ UNCHANGED <<stage, mode, at>>
  /\ UNCHANGED <<plannerVars, step, life, dataOut, dataIn, streamOut, buf, sent,
                 finalising, outerIn, outerData, outerSent, outerGot>>

-----------------------------------------------------------------------------
\* finalise()

\* A fault: what the inner processes have left to do is not done.
FinaliseAtOnce ==
  /\ stage = "drain" /\ status = "running"
  /\ stage' = "finalise" /\ mode' = "finalise" /\ at' = 1
  /\ UNCHANGED <<plannerVars, status, step, life, portVars, finalising, pending, outerVars>>

\* process() again, as long as an inner stream port has not ended.
DrainSubgraph ==
  /\ stage = "drain" /\ status = "running"
  /\ IF StillRunnable
       THEN stage' = "pull" /\ pending' = DOMAIN outerIn /\ UNCHANGED <<mode, at>>
       ELSE stage' = "finalise" /\ mode' = "finalise" /\ at' = 1 /\ UNCHANGED pending
  /\ UNCHANGED <<plannerVars, status, step, life, portVars, finalising, outerVars>>

RunLastSteps ==
  /\ stage = "finalise"
  /\ Finalise \/ RunInnerFunctional \/ RunCopyData
  /\ stage' = IF status' = "done" THEN "outputs" ELSE "finalise"
  /\ UNCHANGED <<finalising, pending, outerVars>>

MoveDataOutputs ==
  /\ stage = "outputs"
  /\ LET ports == {InnerIn(p) : p \in Here(ParentDataOutputs)}
         Left(i) == MovedOut
         NewValue(p) == dataIn[InnerIn(p)]
     IN  /\ outerData' = Updated(outerData, Here(ParentDataOutputs), NewValue)
         /\ dataIn' = Updated(dataIn, ports, Left)
  /\ stage' = "done"
  /\ UNCHANGED <<plannerVars, status, step, mode, at, life, dataOut, streamOut,
                 streamIn, buf, sent, got, finalising, pending,
                 outerIn, outerOut, outerSent, outerGot>>

-----------------------------------------------------------------------------
\* An inner process throws, and with it the method of the dynamic subgraph.
InnerProcessThrows ==
  /\ stage \in {"initialise", "turn", "finalise"}
  /\ Callee \cap Parents = {}
  /\ ProcessThrows
  /\ UNCHANGED <<stage, finalising, pending, outerVars>>

DynamicNext ==
  \/ PlanSubgraph \/ PartitionPlan \/ MoveDataInputs \/ RunFirstSteps
  \/ OuterTurn \/ DrainOutputs \/ CallFinalise
  \/ PullInputs \/ TakeTurn \/ PushOutputs
  \/ DrainSubgraph \/ RunLastSteps \/ MoveDataOutputs
  \/ InnerProcessThrows

DynamicSpec == DynamicInit /\ [][DynamicNext]_dynamicVars

\* One thread, and an outer loop that ends some time after the ports have.
FairDynamicSpec ==
  DynamicSpec /\ WF_dynamicVars(DynamicNext) /\ SF_dynamicVars(CallFinalise)
-----------------------------------------------------------------------------

\* To the outer graph the dynamic subgraph is a streaming process like any
\* other: what it took from an outer input and what an inner process sees, and
\* what an inner process pushed and what the outer graph gets, are the same
\* stream, and by the end of finalise() nothing is left on the way, although
\* the outer graph copies nothing any more once it has called finalise().
OuterDelivery ==
  Started /\ status # "thrown" =>
    /\ \A c \in source.conns : c.stream /\ c.up \in ParentStreamInputs =>
         /\ IsPrefix(got[InPort(c)], outerSent[c.up])
         /\ stage = "done" => got[InPort(c)] = outerSent[c.up]
    /\ \A c \in source.conns : c.stream /\ c.down \in ParentStreamOutputs =>
         /\ IsPrefix(outerGot[c.down], sent[OutPort(c)])
         /\ stage = "done" => outerGot[c.down] = sent[OutPort(c)] /\ outerOut[c.down].eof

\* No inner process works with a data input that has not been filled, from an
\* outer port or by another process, and the outer data outputs hold what
\* their upstream process set.
DynamicDataAvailable ==
  /\ stage \notin {"done", "plan", "rejected"} => DataInputsAvailable
  /\ stage = "done" => \A c \in source.conns : c.down \in ParentDataOutputs =>
       outerData[c.down].state = "set" /\ outerData[c.down].port = OutPort(c)

\* No port, inner or outer, is pushed to after it was closed, also when
\* process() is called by finalise().
DynamicNeverThrows == FrameworkNeverThrows

\* finalise() is reached and returns: the inner loop that runs the processes
\* to their end comes to an end too.
DynamicTerminates ==
  <>(stage \in {"done", "rejected"} \/ status = "thrown" \/ phase = "failed")
=============================================================================
