--------------------------- MODULE CompositeGraph ---------------------------
(***************************************************************************)
(* How the flat graph of ProcessGraph comes about: connect() of a Graph    *)
(* and of a CompositeProcess, in any order, then validate() and flatten(). *)
(*                                                                         *)
(* A hierarchy is a record                                                 *)
(*   procs       all processes                                             *)
(*   composites  those that contain others; the rest is atomic             *)
(*   streaming   the atomic ones that are StreamingAtomicProcess           *)
(*   owner       the graph a process is registered in: a composite process *)
(*               or Root, the graph that is evaluated                      *)
(*   ports       all ports: the process, the direction, the name, the type *)
(***************************************************************************)
EXTENDS ProcessGraph

CONSTANTS Hierarchies, Root, StreamTypes, NoPort

VARIABLES
  h,        \* the hierarchy
  inputs,   \* for each graph, its port_inputs: downstream port to upstream port
  phase,
  todo,     \* input ports that flatten() has still to connect
  port,     \* the one it is tracing
  upstream, \* where it has got to
  conns     \* the port_inputs of new_graph

built == <<h, inputs>>
vars  == <<h, inputs, phase, todo, port, upstream, conns>>

IsHierarchy(r) ==
  /\ IsFiniteSet(r.ports)
  /\ Root \notin r.procs
  /\ r.composites \subseteq r.procs
  /\ r.streaming \subseteq r.procs \ r.composites
  /\ r.owner \in [r.procs -> r.composites \cup {Root}]
  /\ \A S \in SUBSET r.procs : S # {} => \E p \in S : r.owner[p] \notin S
  /\ \A p \in r.ports : p.proc \in r.procs /\ p.dir \in {"in", "out"}
  /\ \A p, q \in r.ports :
       p.proc = q.proc /\ p.dir = q.dir /\ p.name = q.name => p = q

\* add_in_port() and add_out_port() accept a name once; a process belongs to
\* one graph, in the end to Root.
ASSUME HierarchiesAssumption == \A r \in Hierarchies : IsHierarchy(r)

-----------------------------------------------------------------------------
GraphsOf == h.composites \cup {Root}
Atomic   == h.procs \ h.composites
Registered(g) == {p \in h.procs : h.owner[p] = g}

PortsOf(P, dir) == {p \in h.ports : p.proc \in P /\ p.dir = dir}

\* The ports that connections of g lead from and to: those of its processes
\* and, seen from inside, its own.  Root has no ports.
Sources(g) == PortsOf(Registered(g), "out") \cup PortsOf({g}, "in")
Sinks(g)   == PortsOf(Registered(g), "in") \cup PortsOf({g}, "out")

\* connect() does not throw.
Accepts(sources, sinks, made, a, b) ==
  /\ a # b
  /\ a.type = b.type
  /\ a \in sources
  /\ b \in sinks
  /\ b \notin DOMAIN made

\* The map with a new entry.
Emplace(map, key, value) ==
  [k \in DOMAIN map \cup {key} |-> IF k = key THEN value ELSE map[k]]

CompositeInit ==
  /\ h \in Hierarchies
  /\ inputs = [g \in GraphsOf |-> <<>>]
  /\ phase = "building"
  /\ todo = {} /\ port = NoPort /\ upstream = NoPort /\ conns = <<>>

\* An exception ends the construction.  (A caller that catches it has a graph
\* that is as if it had not called connect().)
Connect(g, a, b) ==
  /\ phase = "building"
  /\ IF Accepts(Sources(g), Sinks(g), inputs[g], a, b)
       THEN inputs' = [inputs EXCEPT ![g] = Emplace(@, b, a)] /\ UNCHANGED phase
       ELSE phase' = "rejected" /\ UNCHANGED inputs
  /\ UNCHANGED <<h, todo, port, upstream, conns>>

-----------------------------------------------------------------------------
\* Faults: only sinks have to be connected; only the outermost graph is
\* checked.
SinksConnected(g) == Sinks(g) \subseteq DOMAIN inputs[g]
OutermostConnected(g) ==
  g = Root => Sinks(g) \subseteq DOMAIN inputs[g] /\ Sources(g) \subseteq Range(inputs[g])

\* validate_graph()
AllConnected(g) ==
  /\ Sinks(g) \subseteq DOMAIN inputs[g]
  /\ Sources(g) \subseteq Range(inputs[g])

\* A fault: functional processes may have stream ports.
AnyPorts == TRUE

\* ValidateStreaming
FunctionalPortsOK ==
  \A p \in h.ports : p.proc \in Atomic \ h.streaming => p.type \notin StreamTypes

Validate ==
  /\ phase = "building"
  /\ IF (\A g \in GraphsOf : AllConnected(g)) /\ FunctionalPortsOK
       THEN /\ phase' = "next"
            /\ todo' = PortsOf(Atomic, "in")
       ELSE phase' = "invalid" /\ UNCHANGED todo
  /\ UNCHANGED <<built, port, upstream, conns>>

\* The connections of all graphs together, as do_flatten() collects them.  No
\* port is downstream in two graphs.
HasInput(p)  == \E g \in GraphsOf : p \in DOMAIN inputs[g]
InputPort(p) == inputs[CHOOSE g \in GraphsOf : p \in DOMAIN inputs[g]][p]

\* A fault: each trace goes on where the last one ended.
ResumeTrace ==
  /\ phase = "next"
  /\ \E p \in todo :
       /\ port' = p
       /\ upstream' = IF conns = <<>> THEN p ELSE upstream
       /\ todo' = todo \ {p}
  /\ phase' = "trace"
  /\ UNCHANGED <<built, conns>>

StartTrace ==
  /\ phase = "next"
  /\ \E p \in todo : port' = p /\ upstream' = p /\ todo' = todo \ {p}
  /\ phase' = "trace"
  /\ UNCHANGED <<built, conns>>

\* A fault: the look-up is that of the input port each time.
TraceInPlace ==
  /\ phase = "trace" /\ HasInput(upstream)
  /\ upstream' = InputPort(port)
  /\ UNCHANGED <<built, phase, todo, port, conns>>

Trace ==
  /\ phase = "trace" /\ HasInput(upstream)
  /\ upstream' = InputPort(upstream)
  /\ UNCHANGED <<built, phase, todo, port, conns>>

\* The connection is made with Graph::connect(), which may throw.
EndTrace ==
  /\ phase = "trace" /\ ~HasInput(upstream)
  /\ IF Accepts(PortsOf(Atomic, "out"), PortsOf(Atomic, "in"), conns, upstream, port)
       THEN phase' = "next" /\ conns' = Emplace(conns, port, upstream)
       ELSE phase' = "failed" /\ UNCHANGED conns
  /\ UNCHANGED <<built, todo, port, upstream>>

EndFlatten ==
  /\ phase = "next" /\ todo = {}
  /\ phase' = "flat"
  /\ UNCHANGED <<built, todo, port, upstream, conns>>

Flatten == StartTrace \/ Trace \/ EndTrace \/ EndFlatten

CompositeNext ==
  \/ \E g \in GraphsOf, a, b \in h.ports : Connect(g, a, b)
  \/ Validate
  \/ Flatten

CompositeSpec == CompositeInit /\ [][CompositeNext]_vars

-----------------------------------------------------------------------------
\* Type invariant of the construction.
CompositeTypeOK ==
  /\ h \in Hierarchies
  /\ DOMAIN inputs = GraphsOf
  /\ \A g \in GraphsOf : \A b \in DOMAIN inputs[g] :
       b \in Sinks(g) /\ inputs[g][b] \in Sources(g) /\ inputs[g][b].type = b.type
  /\ phase \in {"building", "rejected", "invalid", "next", "trace", "flat", "failed"}
  /\ todo \subseteq PortsOf(Atomic, "in")
  /\ phase = "trace" => port \in PortsOf(Atomic, "in") \ todo /\ upstream \in h.ports
  /\ DOMAIN conns \subseteq PortsOf(Atomic, "in")

\* The flat graph as a record of ProcessGraph.
Flat ==
  [procs     |-> Atomic,
   streaming |-> h.streaming,
   conns     |-> {Connection(conns[i].proc, conns[i].name, i.proc, i.name,
                             conns[i].type \in StreamTypes) : i \in DOMAIN conns}]

\* What flatten() returns is a graph as the planner takes for granted, and all
\* input ports of atomic processes are connected in it ("port not connected",
\* utilities.hpp), to ports of their type.
FlatIsGraph ==
  phase = "flat" =>
    /\ IsGraph(Flat)
    /\ DOMAIN conns = PortsOf(Atomic, "in")
    /\ \A i \in DOMAIN conns : conns[i].type = i.type

\* No exception and no assertion of flatten() is left for a graph that
\* validate() accepts: "all ports must be connected" and what Graph::connect()
\* throws.
ValidGraphsFlatten == phase # "failed"

\* What an atomic process produces is used by an atomic process, through
\* whatever composites: validate() looks at one graph at a time.
OutputsAreUsed ==
  phase = "flat" => \A o \in PortsOf(Atomic, "out") : o \in Range(conns)

\* The ports that p leads to, in any graph.
LeadsTo(p) ==
  {q \in h.ports :
     \A S \in SUBSET h.ports :
       p \in S /\ (\A r \in h.ports : HasInput(r) /\ InputPort(r) \in S => r \in S) => q \in S}

\* Two atomic processes are connected if and only if a path through the
\* composites leads from one to the other.
FlattenFollowsPaths ==
  phase = "flat" =>
    \A o \in PortsOf(Atomic, "out"), i \in PortsOf(Atomic, "in") :
      conns[i] = o <=> i \in LeadsTo(o)

\* Ports of composites that lead to one another in a circle, without a process
\* in between.  connect() and validate() accept that.
PassThroughLoop ==
  \E S \in SUBSET {p \in h.ports : p.proc \in h.composites} :
    S # {} /\ \A p \in S : HasInput(p) /\ InputPort(p) \in S

\* flatten() returns, unless composites pass something through in a circle.
FlattenReturns ==
  phase = "next" /\ ~PassThroughLoop ~> phase \in {"flat", "failed"}
=============================================================================
