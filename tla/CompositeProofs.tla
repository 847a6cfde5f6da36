-------------------------- MODULE CompositeProofs ---------------------------
(***************************************************************************)
(* flatten() accepts what validate() accepts, and makes of it a graph the  *)
(* planner can work with, for any hierarchy.                               *)
(***************************************************************************)
EXTENDS CompositeGraph, FiniteSetTheorems, TLAPS

\* What validate() has found out.
ValidatedInv ==
  phase \in {"next", "trace", "flat"} =>
    (\A g \in GraphsOf : AllConnected(g)) /\ FunctionalPortsOK

\* A trace has left its port or is at a port that connections lead from, and
\* has never met another type.
TraceInv ==
  phase = "trace" =>
    /\ upstream.type = port.type
    /\ upstream = port \/ \E g \in GraphsOf : upstream \in Sources(g)

\* The connections made so far.
ConnsInv ==
  phase \in {"next", "trace", "flat"} =>
    /\ DOMAIN conns = IF phase = "trace" THEN PortsOf(Atomic, "in") \ (todo \cup {port})
                                         ELSE PortsOf(Atomic, "in") \ todo
    /\ \A i \in DOMAIN conns : conns[i] \in PortsOf(Atomic, "out") /\ conns[i].type = i.type
    /\ phase = "flat" => todo = {}

CompositeInv ==
  /\ CompositeTypeOK /\ ValidatedInv /\ TraceInv /\ ConnsInv
  /\ ValidGraphsFlatten
  /\ phase = "building" => conns = <<>>

-----------------------------------------------------------------------------
\* The owner of a process is a graph, in which its ports can be connected from
\* the outside, as those of a composite process can from the inside.
LEMMA WhereConnected ==
  ASSUME IsHierarchy(h), NEW p \in h.ports
  PROVE  /\ h.owner[p.proc] \in GraphsOf
         /\ p.dir = "in" => p \in Sinks(h.owner[p.proc])
         /\ p.dir = "out" /\ p.proc \in h.composites => p \in Sinks(p.proc)
  BY DEF IsHierarchy, GraphsOf, Sinks, PortsOf, Registered

\* Where a trace has to stop: at an output port of an atomic process.
LEMMA TraceEndsAtOutput ==
  ASSUME IsHierarchy(h), \A g \in GraphsOf : AllConnected(g),
         NEW p \in h.ports, ~HasInput(p),
         \/ p \in PortsOf(Atomic, "in")
         \/ \E g \in GraphsOf : p \in Sources(g)
  PROVE  p \in PortsOf(Atomic, "out")
<1>1. \A g \in GraphsOf : p \notin Sinks(g)
  BY DEF AllConnected, HasInput
<1>2. p.dir # "in" /\ ~(p.dir = "out" /\ p.proc \in h.composites)
  <2>1. h.composites \subseteq GraphsOf
    BY DEF GraphsOf
  <2> QED  BY <1>1, <2>1, WhereConnected
<1>3. p.proc \in h.procs /\ p.dir \in {"in", "out"}
  BY DEF IsHierarchy
<1> QED  BY <1>2, <1>3 DEF PortsOf, Atomic

-----------------------------------------------------------------------------
LEMMA CompositeInitInv == CompositeInit => CompositeInv
<1> SUFFICES ASSUME CompositeInit PROVE CompositeInv
  OBVIOUS
<1>1. DOMAIN conns = {} /\ \A g \in GraphsOf : DOMAIN inputs[g] = {}
  BY DEF CompositeInit
<1>2. CompositeTypeOK
  BY <1>1 DEF CompositeInit, CompositeTypeOK
<1> QED
  BY <1>2 DEF CompositeInit, CompositeInv, ValidatedInv, TraceInv, ConnsInv, ValidGraphsFlatten

LEMMA ConnectInv ==
  ASSUME CompositeInv, NEW g \in GraphsOf, NEW a \in h.ports, NEW b \in h.ports,
         Connect(g, a, b)
  PROVE  CompositeInv'
<1>1. phase = "building" /\ phase' \in {"building", "rejected"} /\ conns = <<>>
      /\ h' = h /\ todo' = todo /\ conns' = conns
  BY DEF Connect, CompositeInv
<1>2. CASE inputs' = inputs
  BY <1>1, <1>2
     DEF CompositeInv, CompositeTypeOK, ValidatedInv, TraceInv, ConnsInv, ValidGraphsFlatten,
         GraphsOf, Sinks, Sources, PortsOf, Registered, Atomic
<1>3. CASE Accepts(Sources(g), Sinks(g), inputs[g], a, b)
           /\ inputs' = [inputs EXCEPT ![g] = Emplace(@, b, a)]
  <2>1. DOMAIN inputs' = DOMAIN inputs /\ DOMAIN inputs = GraphsOf
    BY <1>3 DEF CompositeInv, CompositeTypeOK
  <2>2. inputs'[g] = Emplace(inputs[g], b, a)
    BY <1>3, <2>1
  <2>3. \A k \in GraphsOf : k # g => inputs'[k] = inputs[k]
    BY <1>3, <2>1
  <2>4. b \notin DOMAIN inputs[g] /\ a \in Sources(g) /\ b \in Sinks(g) /\ a.type = b.type
    BY <1>3 DEF Accepts
  <2>5. ASSUME NEW k \in GraphsOf, NEW q \in DOMAIN inputs'[k]
        PROVE  q \in Sinks(k) /\ inputs'[k][q] \in Sources(k) /\ inputs'[k][q].type = q.type
    <3>1. ASSUME q \in DOMAIN inputs[k]
          PROVE  q \in Sinks(k) /\ inputs[k][q] \in Sources(k) /\ inputs[k][q].type = q.type
      BY <3>1 DEF CompositeInv, CompositeTypeOK
    <3>2. CASE k # g
      BY <2>3, <3>1, <3>2
    <3>3. CASE k = g
      <4>1. /\ DOMAIN inputs'[k] = DOMAIN inputs[g] \cup {b}
            /\ inputs'[k][b] = a
            /\ \A z \in DOMAIN inputs[g] : inputs'[k][z] = inputs[g][z]
        BY <2>2, <2>4, <3>3 DEF Emplace
      <4> QED  BY <2>4, <3>1, <3>3, <4>1
    <3> QED  BY <3>2, <3>3
  <2>6. GraphsOf' = GraphsOf /\ \A k : Sinks(k)' = Sinks(k) /\ Sources(k)' = Sources(k)
    BY <1>1 DEF GraphsOf, Sinks, Sources, PortsOf, Registered
  <2>7. PortsOf(Atomic, "in")' = PortsOf(Atomic, "in")
    BY <1>1 DEF PortsOf, Atomic
  <2>8. CompositeTypeOK'
    BY <1>1, <2>1, <2>5, <2>6, <2>7 DEF CompositeInv, CompositeTypeOK
  <2> QED
    BY <1>1, <2>8 DEF CompositeInv, ValidatedInv, TraceInv, ConnsInv, ValidGraphsFlatten
<1> QED  BY <1>2, <1>3 DEF Connect

LEMMA ValidateInv ==
  ASSUME CompositeInv, Validate
  PROVE  CompositeInv'
<1>1. phase = "building" /\ conns = <<>> /\ conns' = conns /\ h' = h /\ inputs' = inputs
  BY DEF Validate, CompositeInv, built
<1>2. DOMAIN conns = {}
  BY <1>1
<1>3. /\ GraphsOf' = GraphsOf /\ Atomic' = Atomic
      /\ PortsOf(Atomic, "in")' = PortsOf(Atomic, "in")
      /\ \A k : Sinks(k)' = Sinks(k) /\ Sources(k)' = Sources(k)
      /\ \A k : AllConnected(k)' = AllConnected(k)
      /\ FunctionalPortsOK' = FunctionalPortsOK
  BY <1>1 DEF GraphsOf, Sinks, Sources, PortsOf, Registered, Atomic, AllConnected,
              FunctionalPortsOK
<1>4. \/ /\ \A g \in GraphsOf : AllConnected(g)
         /\ FunctionalPortsOK /\ phase' = "next" /\ todo' = PortsOf(Atomic, "in")
      \/ phase' = "invalid" /\ todo' = todo
  BY DEF Validate
<1>5. CompositeTypeOK'
  BY <1>1, <1>2, <1>3, <1>4 DEF CompositeInv, CompositeTypeOK
<1> QED
  BY <1>1, <1>2, <1>3, <1>4, <1>5
     DEF CompositeInv, ValidatedInv, TraceInv, ConnsInv, ValidGraphsFlatten

LEMMA FlattenInv ==
  ASSUME CompositeInv, Flatten
  PROVE  CompositeInv'
<1>1. h' = h /\ inputs' = inputs /\ phase \in {"next", "trace"}
  BY DEF Flatten, StartTrace, Trace, EndTrace, EndFlatten, built
<1>2. /\ GraphsOf' = GraphsOf /\ Atomic' = Atomic
      /\ PortsOf(Atomic, "in")' = PortsOf(Atomic, "in")
      /\ PortsOf(Atomic, "out")' = PortsOf(Atomic, "out")
      /\ \A k : Sinks(k)' = Sinks(k) /\ Sources(k)' = Sources(k)
      /\ \A k : AllConnected(k)' = AllConnected(k)
      /\ FunctionalPortsOK' = FunctionalPortsOK
  BY <1>1 DEF GraphsOf, Sinks, Sources, PortsOf, Registered, Atomic, AllConnected,
              FunctionalPortsOK
<1>3. /\ h \in Hierarchies /\ IsHierarchy(h)
      /\ \A g \in GraphsOf : AllConnected(g)
      /\ FunctionalPortsOK
  BY <1>1, HierarchiesAssumption DEF CompositeInv, CompositeTypeOK, ValidatedInv
<1>4. /\ DOMAIN inputs = GraphsOf
      /\ \A g \in GraphsOf : \A b \in DOMAIN inputs[g] :
           b \in Sinks(g) /\ inputs[g][b] \in Sources(g) /\ inputs[g][b].type = b.type
  BY DEF CompositeInv, CompositeTypeOK
<1>5. PortsOf(Atomic, "in") \subseteq h.ports /\ \A g : Sources(g) \subseteq h.ports
  BY DEF PortsOf, Sources
<1>6. todo \subseteq PortsOf(Atomic, "in")
  BY DEF CompositeInv, CompositeTypeOK
<1>7. CASE StartTrace
  <2>1. PICK p \in todo : port' = p /\ upstream' = p /\ todo' = todo \ {p}
    BY <1>7 DEF StartTrace
  <2>2. phase = "next" /\ phase' = "trace" /\ conns' = conns
    BY <1>7 DEF StartTrace
  <2>3. CompositeTypeOK'
    BY <1>1, <1>2, <1>3, <1>4, <1>5, <1>6, <2>1, <2>2 DEF CompositeInv, CompositeTypeOK
  <2>4. DOMAIN conns = PortsOf(Atomic, "in") \ todo
        /\ \A i \in DOMAIN conns : conns[i] \in PortsOf(Atomic, "out") /\ conns[i].type = i.type
    BY <2>2 DEF CompositeInv, ConnsInv
  <2>5. ConnsInv'
    BY <1>2, <1>6, <2>1, <2>2, <2>4 DEF ConnsInv
  <2> QED
    BY <1>2, <1>3, <2>1, <2>2, <2>3, <2>5 DEF CompositeInv, ValidatedInv, TraceInv, ValidGraphsFlatten
<1>8. CASE Trace
  <2>1. phase = "trace" /\ phase' = "trace" /\ HasInput(upstream) /\ upstream' = InputPort(upstream)
        /\ conns' = conns /\ todo' = todo /\ port' = port
    BY <1>8 DEF Trace
  <2>2. PICK g \in GraphsOf : upstream \in DOMAIN inputs[g] /\ upstream' = inputs[g][upstream]
    BY <2>1 DEF HasInput, InputPort
  <2>3. upstream' \in Sources(g) /\ upstream'.type = upstream.type
    BY <1>4, <2>2
  <2>4. TraceInv'
    BY <1>2, <2>1, <2>3 DEF CompositeInv, TraceInv
  <2>5. CompositeTypeOK'
    BY <1>1, <1>2, <1>3, <1>4, <1>5, <2>1, <2>3 DEF CompositeInv, CompositeTypeOK
  <2> QED
    BY <1>2, <1>3, <2>1, <2>4, <2>5 DEF CompositeInv, ValidatedInv, ConnsInv, ValidGraphsFlatten
<1>9. CASE EndTrace
  <2>1. phase = "trace" /\ ~HasInput(upstream) /\ todo' = todo /\ port' = port
    BY <1>9 DEF EndTrace
  <2>2. /\ port \in PortsOf(Atomic, "in") \ todo /\ upstream \in h.ports
        /\ upstream.type = port.type
        /\ upstream = port \/ \E g \in GraphsOf : upstream \in Sources(g)
    BY <2>1 DEF CompositeInv, CompositeTypeOK, TraceInv
  <2>3. upstream \in PortsOf(Atomic, "out")
    BY <1>3, <2>1, <2>2, TraceEndsAtOutput
  <2>4. /\ DOMAIN conns = PortsOf(Atomic, "in") \ (todo \cup {port})
        /\ \A i \in DOMAIN conns : conns[i] \in PortsOf(Atomic, "out") /\ conns[i].type = i.type
    BY <2>1 DEF CompositeInv, ConnsInv
  <2>5. upstream # port
    BY <2>2, <2>3 DEF PortsOf
  <2>6. Accepts(PortsOf(Atomic, "out"), PortsOf(Atomic, "in"), conns, upstream, port)
    BY <2>2, <2>3, <2>4, <2>5 DEF Accepts
  <2>7. phase' = "next" /\ conns' = Emplace(conns, port, upstream)
    BY <1>9, <2>6 DEF EndTrace
  <2>8. /\ DOMAIN conns' = DOMAIN conns \cup {port}
        /\ conns'[port] = upstream
        /\ \A i \in DOMAIN conns : conns'[i] = conns[i]
    BY <2>2, <2>4, <2>7 DEF Emplace
  <2>9. ConnsInv'
    <3>1. DOMAIN conns' = PortsOf(Atomic, "in") \ todo
      BY <2>2, <2>4, <2>8
    <3>2. \A i \in DOMAIN conns' : conns'[i] \in PortsOf(Atomic, "out") /\ conns'[i].type = i.type
      BY <2>2, <2>3, <2>4, <2>8
    <3> QED  BY <1>2, <2>1, <2>7, <3>1, <3>2 DEF ConnsInv
  <2>10. CompositeTypeOK'
    BY <1>1, <1>2, <1>3, <1>4, <1>6, <2>1, <2>2, <2>4, <2>7, <2>8 DEF CompositeTypeOK
  <2> QED
    BY <1>2, <1>3, <2>7, <2>9, <2>10 DEF CompositeInv, ValidatedInv, TraceInv, ValidGraphsFlatten
<1>10. CASE EndFlatten
  <2>1. phase = "next" /\ todo = {} /\ phase' = "flat" /\ todo' = todo /\ conns' = conns
    BY <1>10 DEF EndFlatten
  <2>2. CompositeTypeOK'
    BY <1>1, <1>2, <1>3, <1>4, <1>6, <2>1 DEF CompositeInv, CompositeTypeOK
  <2> QED
    BY <1>2, <1>3, <2>1, <2>2 DEF CompositeInv, ValidatedInv, TraceInv, ConnsInv, ValidGraphsFlatten
<1> QED  BY <1>7, <1>8, <1>9, <1>10 DEF Flatten

LEMMA CompositeStutter ==
  ASSUME CompositeInv, UNCHANGED vars
  PROVE  CompositeInv'
  BY DEF vars, CompositeInv, CompositeTypeOK, ValidatedInv, TraceInv, ConnsInv,
         ValidGraphsFlatten, GraphsOf, Sinks, Sources, PortsOf, Registered, Atomic,
         AllConnected, FunctionalPortsOK

LEMMA CompositeInvariant == CompositeSpec => []CompositeInv
<1>1. CompositeInv /\ [CompositeNext]_vars => CompositeInv'
  BY ConnectInv, ValidateInv, FlattenInv, CompositeStutter DEF CompositeNext
<1> QED  BY <1>1, CompositeInitInv, PTL DEF CompositeSpec

-----------------------------------------------------------------------------
\* flatten() never throws: what validate() has accepted, graph by graph, can
\* be traced through composites of any depth.
THEOREM FlattenSucceeds == CompositeSpec => []ValidGraphsFlatten
<1>1. CompositeInv => ValidGraphsFlatten
  BY DEF CompositeInv
<1> QED  BY <1>1, CompositeInvariant, PTL

\* The flat graph is a graph in the sense of the planner's modules, with all
\* inputs connected to outputs of their type: IsGraph is what GraphsAssumption
\* of Planner takes for granted.
THEOREM FlattenMakesGraph == CompositeSpec => []FlatIsGraph
<1>1. CompositeInv => FlatIsGraph
  <2> SUFFICES ASSUME CompositeInv, phase = "flat"
               PROVE  /\ IsGraph(Flat)
                      /\ DOMAIN conns = PortsOf(Atomic, "in")
                      /\ \A i \in DOMAIN conns : conns[i].type = i.type
    BY DEF FlatIsGraph
  <2>1. /\ DOMAIN conns = PortsOf(Atomic, "in")
        /\ \A i \in DOMAIN conns : conns[i] \in PortsOf(Atomic, "out") /\ conns[i].type = i.type
    BY DEF CompositeInv, ConnsInv
  <2>2. IsHierarchy(h) /\ FunctionalPortsOK
    BY HierarchiesAssumption DEF CompositeInv, CompositeTypeOK, ValidatedInv
  <2> DEFINE C(i) == Connection(conns[i].proc, conns[i].name, i.proc, i.name,
                                conns[i].type \in StreamTypes)
  <2>3. Flat.procs = Atomic /\ Flat.streaming = h.streaming
        /\ Flat.conns = {C(i) : i \in DOMAIN conns}
    BY DEF Flat
  <2>4. ASSUME NEW i \in DOMAIN conns
        PROVE  /\ C(i).up = conns[i].proc /\ C(i).out = conns[i].name
               /\ C(i).down = i.proc /\ C(i).in = i.name
               /\ C(i).stream = (conns[i].type \in StreamTypes)
    BY DEF Connection
  <2>5. ASSUME NEW i \in DOMAIN conns
        PROVE  /\ i \in h.ports /\ i.dir = "in" /\ i.proc \in Atomic
               /\ conns[i] \in h.ports /\ conns[i].dir = "out" /\ conns[i].proc \in Atomic
               /\ conns[i].type = i.type
    BY <2>1 DEF PortsOf
  <2>6. \A p \in h.ports : p.proc \in Atomic /\ p.type \in StreamTypes => p.proc \in h.streaming
    BY <2>2 DEF FunctionalPortsOK
  <2>7. Flat.streaming \subseteq Flat.procs
    BY <2>2, <2>3 DEF IsHierarchy, Atomic
  <2>8. ASSUME NEW c \in Flat.conns
        PROVE  /\ c.up \in Flat.procs /\ c.down \in Flat.procs
               /\ c.stream \in BOOLEAN
               /\ c.stream => c.up \in Flat.streaming /\ c.down \in Flat.streaming
    <3>1. PICK i \in DOMAIN conns : c = C(i)
      BY <2>3
    <3> HIDE DEF C
    <3>2. conns[i].proc \in Atomic /\ i.proc \in Atomic
      BY <2>5
    <3>3. conns[i].type \in StreamTypes => conns[i].proc \in h.streaming /\ i.proc \in h.streaming
      BY <2>5, <2>6
    <3>4. c.up = conns[i].proc /\ c.down = i.proc /\ c.stream = (conns[i].type \in StreamTypes)
      BY <2>4, <3>1
    <3>5. c.stream \in BOOLEAN
      BY <3>4
    <3>6. c.stream => c.up \in Flat.streaming /\ c.down \in Flat.streaming
      BY <2>3, <3>3, <3>4
    <3> QED  BY <2>3, <3>2, <3>4, <3>5, <3>6
  <2>9. ASSUME NEW c \in Flat.conns, NEW d \in Flat.conns
        PROVE  /\ InPort(c) = InPort(d) => c = d
               /\ OutPort(c) = OutPort(d) => c.stream = d.stream
    <3>1. PICK i \in DOMAIN conns : c = C(i)
      BY <2>3
    <3>2. PICK j \in DOMAIN conns : d = C(j)
      BY <2>3
    <3>3. \A p, q \in h.ports :
            p.proc = q.proc /\ p.dir = q.dir /\ p.name = q.name => p = q
      BY <2>2 DEF IsHierarchy
    <3> HIDE DEF C
    <3>4. InPort(c) = InPort(d) => i = j
      BY <2>4, <2>5, <3>1, <3>2, <3>3 DEF InPort
    <3>5. OutPort(c) = OutPort(d) => conns[i] = conns[j]
      BY <2>4, <2>5, <3>1, <3>2, <3>3 DEF OutPort
    <3>6. conns[i] = conns[j] => c.stream = d.stream
      BY <2>4, <3>1, <3>2
    <3> QED  BY <3>1, <3>2, <3>4, <3>5, <3>6
  <2> QED  BY <2>1, <2>7, <2>8, <2>9 DEF IsGraph
<1> QED  BY <1>1, CompositeInvariant, PTL

-----------------------------------------------------------------------------
(***************************************************************************)
(* Paths.  A port is downstream in one graph at most, so that the ports    *)
(* that one leads to form a tree, and everything about paths can be said   *)
(* with LeadsTo alone, a least set.                                        *)
(***************************************************************************)
LEMMA LeadsToIsClosed ==
  ASSUME NEW p \in h.ports
  PROVE  /\ p \in LeadsTo(p)
         /\ \A r \in h.ports : HasInput(r) /\ InputPort(r) \in LeadsTo(p) => r \in LeadsTo(p)
BY DEF LeadsTo

LEMMA LeadsToIsLeast ==
  ASSUME NEW p \in h.ports, NEW S, p \in S,
         \A r \in h.ports : HasInput(r) /\ InputPort(r) \in S => r \in S
  PROVE  LeadsTo(p) \subseteq S
<1> DEFINE T == S \cap h.ports
<1> SUFFICES ASSUME NEW q \in LeadsTo(p) PROVE q \in T
  OBVIOUS
<1>1. q \in h.ports /\ \A U \in SUBSET h.ports :
        p \in U /\ (\A r \in h.ports : HasInput(r) /\ InputPort(r) \in U => r \in U) => q \in U
  BY DEF LeadsTo
<1>2. \A r \in h.ports : HasInput(r) /\ InputPort(r) \in T => r \in T
  OBVIOUS
<1>3. T \in SUBSET h.ports /\ p \in T
  OBVIOUS
<1> QED
  BY <1>1, <1>2, <1>3

\* Only the port itself is reached without a last connection.
LEMMA LeadsToLast ==
  ASSUME NEW p \in h.ports, NEW q \in LeadsTo(p), q # p
  PROVE  HasInput(q) /\ InputPort(q) \in LeadsTo(p)
<1> DEFINE S == {p} \cup {r \in LeadsTo(p) : HasInput(r) /\ InputPort(r) \in LeadsTo(p)}
<1>1. p \in LeadsTo(p) /\ S \subseteq LeadsTo(p)
  BY LeadsToIsClosed
<1>2. \A r \in h.ports : HasInput(r) /\ InputPort(r) \in S => r \in S
  BY <1>1, LeadsToIsClosed
<1> HIDE DEF S
<1>3. LeadsTo(p) \subseteq S
  <2>1. p \in S
    BY DEF S
  <2> QED
    BY <1>2, <2>1, LeadsToIsLeast
<1> QED
  BY <1>3 DEF S

LEMMA LeadsOn ==
  ASSUME NEW p \in h.ports, NEW q \in LeadsTo(p)
  PROVE  LeadsTo(q) \subseteq LeadsTo(p)
<1>1. q \in h.ports
  BY DEF LeadsTo
<1> QED
  BY <1>1, LeadsToIsClosed, LeadsToIsLeast

\* No port is reached from two starts.
LEMMA OneStart ==
  ASSUME NEW o \in h.ports, NEW u \in h.ports, ~HasInput(o), ~HasInput(u),
         NEW i \in LeadsTo(o), i \in LeadsTo(u)
  PROVE  o = u
<1> SUFFICES ASSUME o # u PROVE FALSE
  OBVIOUS
<1> DEFINE S == LeadsTo(o) \ LeadsTo(u)
<1>1. o \in S
  BY LeadsToIsClosed, LeadsToLast
<1>2. ASSUME NEW r \in h.ports, HasInput(r), InputPort(r) \in S
      PROVE  r \in S
  <2>1. r \in LeadsTo(o)
    BY <1>2, LeadsToIsClosed
  <2>2. r \notin LeadsTo(u)
    BY <1>2, LeadsToLast
  <2> QED
    BY <2>1, <2>2
<1> HIDE DEF S
<1>3. LeadsTo(o) \subseteq S
  BY <1>1, <1>2, LeadsToIsLeast
<1> QED
  BY <1>3 DEF S

\* A port is downstream in one graph.
LEMMA OneGraph ==
  ASSUME CompositeInv, NEW g \in GraphsOf, NEW b \in DOMAIN inputs[g]
  PROVE  HasInput(b) /\ InputPort(b) = inputs[g][b] /\ b \in Sinks(g)
<1>1. \A k \in GraphsOf : b \in DOMAIN inputs[k] => b \in Sinks(k)
  BY DEF CompositeInv, CompositeTypeOK
<1>2. IsHierarchy(h)
  BY HierarchiesAssumption DEF CompositeInv, CompositeTypeOK
<1>3. ASSUME NEW k \in GraphsOf, b \in Sinks(k)
      PROVE  k = IF b.dir = "in" THEN h.owner[b.proc] ELSE b.proc
  BY <1>3 DEF Sinks, PortsOf, Registered
<1>4. \A k \in GraphsOf : b \in DOMAIN inputs[k] => k = g
  BY <1>1, <1>3
<1> QED
  BY <1>1, <1>4 DEF HasInput, InputPort

\* The inductive invariant behind FlattenFollowsPaths: a trace has come along a
\* path, and so has every connection made.
PathInv ==
  /\ phase = "trace" => port \in LeadsTo(upstream)
  /\ phase \in {"next", "trace", "flat"} => \A i \in DOMAIN conns : i \in LeadsTo(conns[i])

LEMMA PathStep ==
  ASSUME CompositeInv, CompositeInv', PathInv, [CompositeNext]_vars
  PROVE  PathInv'
<1>1. CASE phase' \notin {"next", "trace", "flat"}
  BY <1>1 DEF PathInv
<1>2. CASE Validate
  <2>1. conns' = <<>> /\ phase' # "trace"
    BY <1>2 DEF Validate, CompositeInv
  <2>2. DOMAIN conns' = {}
    BY <2>1
  <2> QED
    BY <2>1, <2>2 DEF PathInv
<1>3. CASE Flatten
  <2>1. h' = h /\ inputs' = inputs
    BY <1>3 DEF Flatten, StartTrace, Trace, EndTrace, EndFlatten, built
  <2>2. \A p : LeadsTo(p)' = LeadsTo(p)
    BY <2>1 DEF LeadsTo, HasInput, InputPort, GraphsOf
  <2>3. phase \in {"next", "trace"} /\ \A i \in DOMAIN conns : i \in LeadsTo(conns[i])
    BY <1>3 DEF Flatten, StartTrace, Trace, EndTrace, EndFlatten, PathInv
  <2>4. CASE StartTrace
    <3>1. PICK p \in todo : port' = p /\ upstream' = p
      BY <2>4 DEF StartTrace
    <3>2. p \in h.ports /\ conns' = conns
      BY <2>4 DEF StartTrace, CompositeInv, CompositeTypeOK, PortsOf
    <3>3. port' \in LeadsTo(upstream')
      BY <3>1, <3>2, LeadsToIsClosed
    <3> QED
      BY <2>2, <2>3, <3>2, <3>3 DEF PathInv
  <2>5. CASE Trace
    <3>1. /\ phase = "trace" /\ phase' = "trace" /\ conns' = conns /\ port' = port
          /\ HasInput(upstream) /\ upstream' = InputPort(upstream)
      BY <2>5 DEF Trace
    <3>2. upstream \in h.ports /\ upstream' \in h.ports
      BY <2>1, <3>1 DEF CompositeInv, CompositeTypeOK
    <3>3. upstream \in LeadsTo(upstream')
      BY <3>1, <3>2, LeadsToIsClosed
    <3>4. port \in LeadsTo(upstream)
      BY <3>1 DEF PathInv
    <3>5. port \in LeadsTo(upstream')
      BY <3>2, <3>3, <3>4, LeadsOn
    <3> QED
      BY <2>2, <2>3, <3>1, <3>5 DEF PathInv
  <2>6. CASE EndTrace
    <3>1. phase = "trace" /\ port \in LeadsTo(upstream)
      BY <2>6 DEF EndTrace, PathInv
    <3>2. phase' # "trace"
      BY <2>6 DEF EndTrace
    <3>3. conns' = conns \/ conns' = Emplace(conns, port, upstream)
      BY <2>6 DEF EndTrace
    <3>4. \A i \in DOMAIN conns' : i \in LeadsTo(conns'[i])
      BY <2>3, <3>1, <3>3 DEF Emplace
    <3> QED
      BY <2>2, <3>2, <3>4 DEF PathInv
  <2>7. CASE EndFlatten
    BY <2>2, <2>3, <2>7 DEF EndFlatten, PathInv
  <2> QED
    BY <1>3, <2>4, <2>5, <2>6, <2>7 DEF Flatten
<1>4. CASE UNCHANGED vars
  BY <1>4 DEF vars, PathInv, LeadsTo, HasInput, InputPort, GraphsOf
<1>5. ASSUME NEW g \in GraphsOf, NEW a \in h.ports, NEW b \in h.ports, Connect(g, a, b)
      PROVE  phase' \notin {"next", "trace", "flat"}
  BY <1>5 DEF Connect
<1> QED
  BY <1>1, <1>2, <1>3, <1>4, <1>5 DEF CompositeNext

LEMMA PathInvariant == CompositeSpec => []PathInv
<1>1. CompositeInit => PathInv
  BY DEF CompositeInit, PathInv
<1>2. CompositeInv /\ CompositeInv' /\ PathInv /\ [CompositeNext]_vars => PathInv'
  BY PathStep
<1> QED
  BY <1>1, <1>2, CompositeInvariant, PTL DEF CompositeSpec

\* An output of an atomic process is nothing's downstream.
LEMMA NothingBeforeOutput ==
  ASSUME CompositeInv, NEW o \in PortsOf(Atomic, "out")
  PROVE  ~HasInput(o)
<1>1. IsHierarchy(h)
  BY HierarchiesAssumption DEF CompositeInv, CompositeTypeOK
<1>2. o \in h.ports /\ o.dir = "out" /\ o.proc \in h.procs /\ o.proc \notin h.composites
      /\ o.proc # Root
  BY <1>1 DEF PortsOf, Atomic, IsHierarchy
<1>3. \A g \in GraphsOf : o \notin Sinks(g)
  BY <1>2 DEF GraphsOf, Sinks, PortsOf
<1> QED
  BY <1>3 DEF HasInput, CompositeInv, CompositeTypeOK

\* Whether two atomic processes are connected is a matter of paths alone: the
\* traces of do_flatten() find every path and invent none.
THEOREM FlatteningFollowsPaths == CompositeSpec => []FlattenFollowsPaths
<1>1. ASSUME CompositeInv, PathInv PROVE FlattenFollowsPaths
  <2> SUFFICES ASSUME phase = "flat",
                      NEW o \in PortsOf(Atomic, "out"), NEW i \in PortsOf(Atomic, "in")
               PROVE  conns[i] = o <=> i \in LeadsTo(o)
    BY DEF FlattenFollowsPaths
  <2>1. i \in DOMAIN conns /\ conns[i] \in PortsOf(Atomic, "out")
    BY <1>1 DEF CompositeInv, ConnsInv
  <2>2. i \in LeadsTo(conns[i])
    BY <1>1, <2>1 DEF PathInv
  <2>3. o \in h.ports /\ conns[i] \in h.ports
    BY <2>1 DEF PortsOf
  <2>4. ~HasInput(o) /\ ~HasInput(conns[i])
    BY <1>1, <2>1, NothingBeforeOutput
  <2>5. i \in LeadsTo(o) => conns[i] = o
    BY <2>2, <2>3, <2>4, OneStart
  <2> QED
    BY <2>2, <2>5
<1> QED
  BY <1>1, CompositeInvariant, PathInvariant, PTL

\* What leads from an output through composites cannot go round in a circle,
\* because the output itself has no upstream port; so it ends, and where it
\* ends is an input of an atomic process.
LEMMA SomeInputReached ==
  ASSUME CompositeInv, phase = "flat", NEW o \in PortsOf(Atomic, "out")
  PROVE  \E i \in PortsOf(Atomic, "in") : i \in LeadsTo(o)
<1> SUFFICES ASSUME \A i \in PortsOf(Atomic, "in") : i \notin LeadsTo(o) PROVE FALSE
  OBVIOUS
<1>1. IsHierarchy(h) /\ \A g \in GraphsOf : AllConnected(g)
  BY HierarchiesAssumption DEF CompositeInv, CompositeTypeOK, ValidatedInv
<1>2. o \in h.ports /\ o.dir = "out" /\ o.proc \in Atomic /\ ~HasInput(o)
  BY NothingBeforeOutput DEF PortsOf
<1> DEFINE R == LeadsTo(o)
<1>3. R \subseteq h.ports /\ o \in R
  BY <1>2, LeadsToIsClosed DEF LeadsTo
<1>4. ASSUME NEW m \in R PROVE \E g \in GraphsOf : m \in Sources(g)
  <2>1. m \in h.ports /\ m.proc \in h.procs /\ m.dir \in {"in", "out"}
        /\ h.owner[m.proc] \in GraphsOf
    BY <1>1, <1>3, WhereConnected DEF IsHierarchy
  <2>2. CASE m.dir = "out"
    BY <2>1, <2>2 DEF Sources, PortsOf, Registered
  <2>3. CASE m.dir = "in"
    <3>1. m.proc \in h.composites
      BY <2>1, <2>3, <1>4 DEF PortsOf, Atomic
    <3>2. m.proc \in GraphsOf /\ m \in Sources(m.proc)
      BY <2>1, <2>3, <3>1 DEF GraphsOf, Sources, PortsOf
    <3> QED
      BY <3>2
  <2> QED
    BY <2>1, <2>2, <2>3
<1>5. ASSUME NEW m \in R PROVE \E r \in R \ {o} : InputPort(r) = m
  <2>1. PICK g \in GraphsOf : m \in Sources(g)
    BY <1>4
  <2>2. PICK r \in DOMAIN inputs[g] : inputs[g][r] = m
    BY <1>1, <2>1 DEF AllConnected, Range
  <2>3. HasInput(r) /\ InputPort(r) = m /\ r \in h.ports
    BY <2>2, OneGraph DEF Sinks, PortsOf
  <2>4. r \in R
    BY <1>2, <2>3, LeadsToIsClosed
  <2> QED
    BY <1>2, <2>3, <2>4
<1>6. \A r \in R \ {o} : InputPort(r) \in R
  BY <1>2, LeadsToLast
<1> HIDE DEF R
<1> DEFINE f == [r \in R \ {o} |-> InputPort(r)]
<1>7. f \in Surjection(R \ {o}, R)
  BY <1>5, <1>6 DEF Surjection
<1>8. IsFiniteSet(R)
  BY <1>1, <1>3, FS_Subset DEF IsHierarchy
<1>9. /\ IsFiniteSet(R \ {o}) /\ Cardinality(R) \in Nat
      /\ Cardinality(R \ {o}) = Cardinality(R) - 1
  BY <1>3, <1>8, FS_RemoveElement, FS_CardinalityType
<1> HIDE DEF f
<1>10. Cardinality(R) <= Cardinality(R \ {o})
  BY <1>7, <1>9, FS_Surjection
<1> QED
  BY <1>9, <1>10

\* After validate(), which looks at one graph at a time, no output of an atomic
\* process is lost in a composite, however deeply nested.
THEOREM AllOutputsAreUsed == CompositeSpec => []OutputsAreUsed
<1>1. ASSUME CompositeInv, PathInv PROVE OutputsAreUsed
  <2> SUFFICES ASSUME phase = "flat", NEW o \in PortsOf(Atomic, "out")
               PROVE  o \in Range(conns)
    BY DEF OutputsAreUsed
  <2>1. PICK i \in PortsOf(Atomic, "in") : i \in LeadsTo(o)
    BY <1>1, SomeInputReached
  <2>2. i \in DOMAIN conns /\ conns[i] \in PortsOf(Atomic, "out") /\ i \in LeadsTo(conns[i])
    BY <1>1 DEF CompositeInv, ConnsInv, PathInv
  <2>3. o \in h.ports /\ conns[i] \in h.ports /\ ~HasInput(o) /\ ~HasInput(conns[i])
    BY <1>1, <2>2, NothingBeforeOutput DEF PortsOf
  <2>4. conns[i] = o
    BY <2>1, <2>2, <2>3, OneStart
  <2> QED
    BY <2>2, <2>4 DEF Range
<1> QED
  BY <1>1, CompositeInvariant, PathInvariant, PTL
=============================================================================
