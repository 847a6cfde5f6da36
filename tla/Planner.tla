------------------------------ MODULE Planner ------------------------------
(***************************************************************************)
(* plan() of evaluate.cpp: how a flat graph becomes a list of steps.       *)
(*                                                                         *)
(* subgraphs_in_order() is run twice.  The first run may pick a streaming  *)
(* subgraph that has stream connections leading out of it (allow_split);   *)
(* augment_subgraphs() then puts buffers in the place of all stream        *)
(* connections between subgraphs, and the second run, which may not split, *)
(* must find an order for the augmented graph.  Finally one step is made   *)
(* for each subgraph, followed by the copies of its data outputs.          *)
(*                                                                         *)
(* The candidates of every choice are kept by the code in sets of          *)
(* pointers, so which one comes first differs from run to run: each choice *)
(* here is an existential quantifier.                                      *)
(***************************************************************************)
EXTENDS ProcessGraph

CONSTANT Graphs  \* the flat graphs that may be given to plan()

ASSUME GraphsAssumption ==
  \A g \in Graphs :
    /\ g = [procs |-> g.procs, streaming |-> g.streaming, conns |-> g.conns]
    /\ IsGraph(g) /\ BuffersAreNew(g)
    /\ IsFiniteSet(g.conns)

VARIABLES
  source,      \* the graph given to plan()
  flat,        \* source, and later the augmented graph
  phase,       \* "order", "emit", "planned", or "failed" when plan() throws
  allowSplit,  \* the argument of subgraphs_in_order(): TRUE in the first run
  toRun,       \* to_run, processes not yet in a subgraph
  ran,         \* ran, the others
  subgraphs,   \* out, the subgraphs picked so far in this run
  split,       \* the result of the first run
  emitted,     \* the number of subgraphs turned into steps
  todo,        \* to_run of the ExecStreamingSubgraph under construction
  order,       \* its processes, in the order they will be called
  plan         \* the steps

orderVars == <<allowSplit, toRun, ran, subgraphs, split>>
emitVars  == <<emitted, todo, order, plan>>
plannerVars == <<source, flat, phase, orderVars, emitVars>>

PlannerInit ==
  /\ source \in Graphs
  /\ flat = source
  /\ phase = "order"
  /\ allowSplit = TRUE
  /\ toRun = source.procs
  /\ ran = {}
  /\ subgraphs = <<>>
  /\ split = <<>>
  /\ emitted = 0
  /\ todo = {}
  /\ order = <<>>
  /\ plan = <<>>

-----------------------------------------------------------------------------
\* subgraphs_in_order()

RunnableNow == Runnable(flat, ran, toRun)

\* A fault: whatever can stream is taken as one subgraph.
OneCandidate == {RunnableStreaming(flat, ran, toRun)}

Candidates == StreamingSubgraphs(flat, RunnableStreaming(flat, ran, toRun))

Ordering == phase = "order" /\ toRun # {}

\* No functional process can run, so a streaming subgraph is looked for.
OnlyStreaming == RunnableNow \subseteq flat.streaming

\* The tail of the loop: the chosen processes count as run.
Take(S) ==
  /\ ran' = ran \cup S
  /\ toRun' = toRun \ S
  /\ subgraphs' = Append(subgraphs, S)
  /\ UNCHANGED <<source, flat, phase, allowSplit, split, emitVars>>

\* A functional process whose inputs have run is taken alone and first.
PickFunctional ==
  /\ Ordering
  /\ \E p \in RunnableNow \ flat.streaming : Take({p})

\* Otherwise a streaming subgraph without outside stream connections.
PickComplete ==
  /\ Ordering
  /\ OnlyStreaming
  /\ \E S \in Candidates : CompleteSubgraph(flat, S) /\ Take(S)

\* A fault: a subgraph is split although a complete one is there.
PickAnySubgraph ==
  /\ Ordering
  /\ OnlyStreaming
  /\ allowSplit
  /\ \E S \in Candidates : Take(S)

\* Failing that any streaming subgraph, if splitting is allowed.
PickIncomplete ==
  /\ Ordering
  /\ OnlyStreaming
  /\ allowSplit
  /\ ~\E S \in Candidates : CompleteSubgraph(flat, S)
  /\ \E S \in Candidates : Take(S)

\* One of the always_assert()s of the loop: nothing can run, or only
\* incomplete subgraphs when they may not be split.
OrderingFails ==
  /\ Ordering
  /\ OnlyStreaming
  /\ ~\E S \in Candidates : allowSplit \/ CompleteSubgraph(flat, S)
  /\ phase' = "failed"
  /\ UNCHANGED <<source, flat, orderVars, emitVars>>

-----------------------------------------------------------------------------
\* Between the two runs: augment_subgraphs(), and the second run starts.
AugmentSubgraphs ==
  /\ phase = "order"
  /\ toRun = {}
  /\ allowSplit
  /\ flat' = Augment(flat, subgraphs)
  /\ allowSplit' = FALSE
  /\ toRun' = flat'.procs
  /\ ran' = {}
  /\ split' = subgraphs
  /\ subgraphs' = <<>>
  /\ UNCHANGED <<source, phase, emitVars>>

\* What check_subgraph_connections() asserts.
ConnectionsOK(g, subs) ==
  \A i \in DOMAIN subs : \A c \in g.conns :
    c.up \in subs[i] => (c.stream <=> c.down \in subs[i])

CheckSubgraphConnections ==
  /\ phase = "order"
  /\ toRun = {}
  /\ ~allowSplit
  /\ phase' = IF ConnectionsOK(flat, subgraphs) THEN "emit" ELSE "failed"
  /\ UNCHANGED <<source, flat, orderVars, emitVars>>

-----------------------------------------------------------------------------
(***************************************************************************)
(* The steps.  Copies of different ports touch different ports, so the     *)
(* order among the copies that follow one subgraph is not told apart.      *)
(***************************************************************************)
ExecFunctional(p)   == [kind |-> "functional", process |-> p]
ExecStreaming(ps)   == [kind |-> "streaming", processes |-> ps]
ExecCopyData(o, is) == [kind |-> "copy", from |-> o, to |-> is]

\* A fault: only functional processes have their outputs copied.
DataCopiesOfFunctional(S) ==
  LET ports == UNION {DataOutPorts(flat, p) : p \in S \ flat.streaming}
      CopyOf(o) == ExecCopyData(o, SetToSeq(ConnectedPorts(flat, o)))
      seq == SetToSeq(ports)
  IN  [i \in DOMAIN seq |-> CopyOf(seq[i])]

DataCopies(S) ==
  LET ports == UNION {DataOutPorts(flat, p) : p \in S}
      CopyOf(o) == ExecCopyData(o, SetToSeq(ConnectedPorts(flat, o)))
      seq == SetToSeq(ports)
  IN  [i \in DOMAIN seq |-> CopyOf(seq[i])]

Current  == subgraphs[emitted + 1]
Emitting == phase = "emit" /\ emitted < Len(subgraphs)

Emit(step) ==
  /\ plan' = Append(plan, step) \o DataCopies(Current)
  /\ emitted' = emitted + 1
  /\ order' = <<>>
  /\ todo' = {}

EmitFunctional ==
  /\ Emitting
  /\ \E p \in Current \ flat.streaming : Emit(ExecFunctional(p))
  /\ UNCHANGED <<source, flat, phase, orderVars>>

\* The constructor of ExecStreamingSubgraph starts with to_run = subgraph ...
BeginStreaming ==
  /\ Emitting
  /\ Current \subseteq flat.streaming
  /\ todo = {} /\ order = <<>>
  /\ todo' = Current
  /\ UNCHANGED <<source, flat, phase, orderVars, emitted, order, plan>>

\* ... and pick_runnable() moves one process at a time from it.
PickRunnable ==
  {p \in todo : \A c \in InputConns(flat, p) : c.stream => c.up \in ToSet(order)}

OrderStreaming ==
  /\ Emitting
  /\ todo # {}
  /\ IF PickRunnable = {}
       THEN phase' = "failed" /\ UNCHANGED <<todo, order>>
       ELSE /\ \E p \in PickRunnable : /\ todo' = todo \ {p}
                                       /\ order' = Append(order, p)
            /\ UNCHANGED phase
  /\ UNCHANGED <<source, flat, orderVars, emitted, plan>>

EndStreaming ==
  /\ Emitting
  /\ todo = {} /\ order # <<>>
  /\ Emit(ExecStreaming(order))
  /\ UNCHANGED <<source, flat, phase, orderVars>>

EndPlan ==
  /\ phase = "emit"
  /\ emitted = Len(subgraphs)
  /\ phase' = "planned"
  /\ UNCHANGED <<source, flat, orderVars, emitVars>>

PlannerNext ==
  \/ PickFunctional \/ PickComplete \/ PickIncomplete \/ OrderingFails
  \/ AugmentSubgraphs \/ CheckSubgraphConnections
  \/ EmitFunctional \/ BeginStreaming \/ OrderStreaming \/ EndStreaming
  \/ EndPlan

PlannerSpec ==
  PlannerInit /\ [][PlannerNext]_plannerVars
-----------------------------------------------------------------------------
\* Type invariant of the planner: where the processes of every list and set
\* it keeps come from.
PlannerTypeOK ==
  /\ IsGraph(source)
  /\ IsGraph(flat)
  /\ phase \in {"order", "emit", "planned", "failed"}
  /\ allowSplit \in BOOLEAN
  /\ toRun \subseteq flat.procs /\ ran \subseteq flat.procs
  /\ subgraphs \in Seq(SUBSET flat.procs)
  /\ split \in Seq(SUBSET source.procs)
  /\ emitted \in 0 .. Len(subgraphs)
  /\ todo \subseteq flat.streaming
  /\ order \in Seq(flat.streaming)

InSubgraph(p, i) == p \in subgraphs[i]

\* subgraphs_in_order() never picks a process before everything upstream of
\* it, and picks strictly later whatever is downstream over a data port: no
\* data connection lies inside a streaming subgraph, although the candidates
\* are found while looking only at data inputs that have run already.
InputsFirst ==
  \A j \in DOMAIN subgraphs : \A c \in flat.conns :
    InSubgraph(c.down, j) =>
      \E i \in 1 .. j : InSubgraph(c.up, i) /\ (~c.stream => i < j)

\* The inductive invariant behind PlannerTypeOK and InputsFirst.  The two sets
\* of processes are complements, the subgraphs are disjoint and make up the
\* one that has run, and nothing is emitted before the order is complete.
OrderInv ==
  /\ PlannerTypeOK
  /\ toRun = flat.procs \ ran
  /\ ran = UNION ToSet(subgraphs)
  /\ \A i, j \in DOMAIN subgraphs : i # j => subgraphs[i] \cap subgraphs[j] = {}
  /\ allowSplit => flat = source /\ BuffersAreNew(source)
  /\ phase = "order" => emitted = 0 /\ todo = {} /\ order = <<>>
  /\ phase \in {"emit", "planned"} => toRun = {}
  /\ InputsFirst

\* The comment of plan() and docs/framework.rst promise that enough buffers
\* are inserted: the second run never has to split a subgraph, its asserts
\* and those of check_subgraph_connections() and pick_runnable() never fire,
\* so planning fails on exactly the graphs that have a cycle.
FailsOnlyOnCycles ==
  /\ phase = "failed" => ~Acyclic(source)
  /\ ~allowSplit => Acyclic(source)

\* Every nonempty part of the graph closed under stream connections has a
\* complete subgraph with no data input from that part: it can be planned
\* without splitting anything.
NeedsNoBuffers(g) ==
  \A S \in (SUBSET g.procs) \ {{}} : CompleteSubgraph(g, S) =>
    \E T \in (SUBSET S) \ {{}} :
      /\ CompleteSubgraph(g, T)
      /\ \A c \in g.conns : c.down \in T /\ ~c.stream => c.up \notin S

\* Buffers are inserted only where docs/framework.rst says they are needed:
\* not at all when the graph can be ordered without splitting.
NoNeedlessBuffers ==
  (~allowSplit /\ NeedsNoBuffers(source)) => flat = source

\* augment_subgraphs() neither loses nor crosses a connection: each stream
\* connection of the source is still there, or goes through one writer and
\* one reader between the same two ports, and a buffer feeds or drains
\* nothing else.
BuffersBridge ==
  ~allowSplit =>
    LET Kept == {c \in source.conns : c \in flat.conns}
        From(c) == {a \in flat.conns : OutPort(a) = OutPort(c) /\ a.stream}
        Into(c) == {d \in flat.conns : InPort(d) = InPort(c) /\ d.stream}
        Data == {b \in flat.conns : ~b.stream}
        Chain(c) == {t \in From(c) \X Data \X Into(c) :
                       t[1].down = t[2].up /\ t[2].down = t[3].up}
    IN  /\ \A c \in source.conns \ Kept : c.stream /\ Cardinality(Chain(c)) = 1
        /\ flat.conns = Kept \cup
             UNION {UNION {{t[1], t[2], t[3]} : t \in Chain(c)} : c \in source.conns \ Kept}
        /\ \A c, d \in source.conns \ Kept :
             Chain(c) \cap Chain(d) # {} => c = d

\* The processes that a step calls, in this order, and the places in a plan
\* where a process is called: a step, and an index into its calls.
Calls(s) ==
  IF s.kind = "functional" THEN <<s.process>>
  ELSE IF s.kind = "streaming" THEN s.processes
  ELSE <<>>

CalledAt(pl, p) ==
  UNION {{<<n, k>> : k \in {i \in DOMAIN Calls(pl[n]) : Calls(pl[n])[i] = p}} :
           n \in DOMAIN pl}

\* Step n copies the value of data connection c.
CopiesAt(pl, c, n) ==
  /\ pl[n].kind = "copy"
  /\ pl[n].from = OutPort(c)
  /\ InPort(c) \in ToSet(pl[n].to)

\* The finished plan calls every process in exactly one step, a process after
\* all its upstream processes; what a stream connection joins is in the same
\* step, and between the two ends of a data connection there is a step that
\* copies its port.
PlanRespectsConnections ==
  phase = "planned" =>
    /\ \A p \in flat.procs : Cardinality(CalledAt(plan, p)) = 1
    /\ \A c \in flat.conns :
         \A u \in CalledAt(plan, c.up), d \in CalledAt(plan, c.down) :
           IF c.stream THEN u[1] = d[1] /\ u[2] < d[2]
           ELSE \E n \in u[1] + 1 .. d[1] - 1 : CopiesAt(plan, c, n)
=============================================================================
