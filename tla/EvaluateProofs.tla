--------------------------- MODULE EvaluateProofs ---------------------------
(***************************************************************************)
(* Theorems about Planner, and about Evaluate, which runs the plan: for    *)
(* every set of graphs, however many items are pushed, and whether or not  *)
(* processes throw.                                                        *)
(***************************************************************************)
EXTENDS Evaluate, SequenceLemmas, SequenceTheorems

-----------------------------------------------------------------------------
(***************************************************************************)
(* Graphs, and the operators of ProcessGraph.                              *)
(***************************************************************************)

\* A process found by runnable_streaming_processes() has its data inputs run
\* before the search, and its stream inputs run before or found as well.
LEMMA RunnableStreamingInputs ==
  ASSUME NEW g, NEW R, NEW T,
         NEW p \in RunnableStreaming(g, R, T),
         NEW c \in InputConns(g, p)
  PROVE  /\ p \in T /\ p \in g.streaming
         /\ ~c.stream => c.up \in R
         /\ c.stream => c.up \in R \cup RunnableStreaming(g, R, T)
<1> DEFINE ready == DataReady(g, R, T)
           found == RunnableStreaming(g, R, T)
           StreamInputsIn(q, Q) == \A d \in InputConns(g, q) : d.stream => d.up \in Q
           Closed(C) == \A q \in ready : StreamInputsIn(q, R \cup C) => q \in C
<1>1. found = {q \in ready : \A C \in SUBSET ready : Closed(C) => q \in C}
  BY DEF RunnableStreaming
<1>2. p \in found
  OBVIOUS
<1>3. p \in ready
  BY <1>1, <1>2
<1> HIDE DEF found, ready
<1>4. ASSUME c.stream, c.up \notin R \cup found
      PROVE  FALSE
  <2> DEFINE rest == found \ {p}
  <2>1. ASSUME NEW q \in ready, StreamInputsIn(q, R \cup rest)
        PROVE  q \in rest
    <3>1. q # p
      BY <1>4, <2>1
    <3>2. ASSUME NEW C \in SUBSET ready, Closed(C)
          PROVE  q \in C
      <4>1. found \subseteq C
        BY <1>1, <3>2
      <4>2. StreamInputsIn(q, R \cup C)
        BY <2>1, <4>1
      <4> QED
        BY <3>2, <4>2
    <3> QED
      BY <1>1, <3>1, <3>2
  <2>2. rest \in SUBSET ready /\ Closed(rest)
    BY <1>1, <2>1
  <2>3. p \in rest
    BY <1>1, <1>2, <2>2
  <2> QED
    BY <2>3
<1> QED
  BY <1>3, <1>4 DEF DataReady, found, ready

\* streaming_subgraphs_from_set() splits a set of processes where there are
\* no stream connections: no such connection joins two of its subgraphs.
LEMMA StreamingSubgraphsClosed ==
  ASSUME NEW g, NEW P, NEW S \in StreamingSubgraphs(g, P)
  PROVE  /\ S \subseteq P
         /\ S # {}
         /\ \A c \in g.conns :
              (c.stream /\ c.up \in P /\ c.down \in P) => (c.up \in S <=> c.down \in S)
BY DEF StreamingSubgraphs

\* The graph made by augment_subgraphs() is again one that Graph::connect()
\* accepts: no input port is connected twice, and the ports of a buffer are
\* all of one kind.
LEMMA AugmentIsGraph ==
  ASSUME NEW g, IsGraph(g), BuffersAreNew(g),
         NEW subs,
         ToSet(subs) \subseteq SUBSET g.procs,
         g.procs \subseteq UNION ToSet(subs)
  PROVE  IsGraph(Augment(g, subs))
<1> DEFINE cut   == Crossing(g, subs)
           W(c)  == Writer(OutPort(c))
           Target(c) == SubgraphOf(subs, c.down)
           Rd(c) == Reader(OutPort(c), Target(c))
           ToWriter(c)   == Connection(c.up, c.out, W(c), "in", TRUE)
           ToReader(c)   == Connection(W(c), "out", Rd(c), "in", FALSE)
           FromReader(c) == Connection(Rd(c), "out", c.down, c.in, TRUE)
           buffers == {W(c) : c \in cut} \cup {Rd(c) : c \in cut}
           kept    == g.conns \ cut
           aug     == Augment(g, subs)
<1>1. /\ aug.procs = g.procs \cup buffers
      /\ aug.streaming = g.streaming \cup buffers
      /\ aug.conns = kept \cup {ToWriter(c) : c \in cut}
                          \cup {ToReader(c) : c \in cut} \cup {FromReader(c) : c \in cut}
  BY DEF Augment, WithBuffers
<1>2. \A c \in cut : /\ c \in g.conns /\ c.stream
                     /\ c.up \in g.streaming /\ c.down \in g.streaming
                     /\ c.up \in g.procs /\ c.down \in g.procs
  BY DEF Crossing, IsGraph
<1>3. \A c \in cut : Target(c) \in SUBSET g.procs
  <2> TAKE c \in cut
  <2>1. \E S \in ToSet(subs) : c.down \in S
    BY <1>2
  <2> QED
    BY <2>1 DEF SubgraphOf
<1>4. \A c \in cut : W(c) \notin g.procs /\ Rd(c) \notin g.procs
  BY <1>2, <1>3 DEF BuffersAreNew
<1>5. \A c, d \in cut : /\ W(c) # Rd(d)
                        /\ W(c) = W(d) => OutPort(c) = OutPort(d)
                        /\ Rd(c) = Rd(d) => OutPort(c) = OutPort(d)
  BY DEF Writer, Reader
<1>6. \A c, d \in cut : OutPort(c) = OutPort(d) =>
        /\ W(c) = W(d)
        /\ c.up = d.up /\ c.out = d.out
        /\ ToWriter(c) = ToWriter(d)
  BY DEF OutPort, Connection
<1>7. \A c, d \in cut : Rd(c) = Rd(d) => ToReader(c) = ToReader(d)
  BY <1>5, <1>6 DEF Connection
<1>8. \A c : /\ ToWriter(c).up = c.up /\ ToWriter(c).out = c.out
             /\ ToWriter(c).down = W(c) /\ ToWriter(c).in = "in"
             /\ ToWriter(c).stream = TRUE
             /\ ToReader(c).up = W(c) /\ ToReader(c).out = "out"
             /\ ToReader(c).down = Rd(c) /\ ToReader(c).in = "in"
             /\ ToReader(c).stream = FALSE
             /\ FromReader(c).up = Rd(c) /\ FromReader(c).out = "out"
             /\ FromReader(c).down = c.down /\ FromReader(c).in = c.in
             /\ FromReader(c).stream = TRUE
  BY DEF Connection
<1>9. \A c \in g.conns : /\ c.up \in g.procs /\ c.down \in g.procs
                         /\ c.stream \in BOOLEAN
                         /\ c.stream => c.up \in g.streaming /\ c.down \in g.streaming
  BY DEF IsGraph
<1>10. aug.streaming \subseteq aug.procs
  BY <1>1 DEF IsGraph
<1> HIDE DEF cut, W, Rd, Target, ToWriter, ToReader, FromReader, aug
<1>11. \A c \in aug.conns :
         /\ c.up \in aug.procs /\ c.down \in aug.procs
         /\ c.stream \in BOOLEAN
         /\ c.stream => c.up \in aug.streaming /\ c.down \in aug.streaming
  <2> SUFFICES ASSUME NEW c \in aug.conns
               PROVE  /\ c.up \in aug.procs /\ c.down \in aug.procs
                      /\ c.stream \in BOOLEAN
                      /\ c.stream => c.up \in aug.streaming /\ c.down \in aug.streaming
    OBVIOUS
  <2>0. \A d \in cut : /\ W(d) \in aug.procs /\ W(d) \in aug.streaming
                       /\ Rd(d) \in aug.procs /\ Rd(d) \in aug.streaming
    BY <1>1
  <2>1. CASE c \in kept
    BY <2>1, <1>1, <1>9
  <2>2. CASE \E d \in cut : c = ToWriter(d)
    <3>1. PICK d \in cut : c = ToWriter(d)
      BY <2>2
    <3>2. d.up \in aug.procs /\ d.up \in aug.streaming
      BY <1>1, <1>2
    <3>3. c.up = d.up /\ c.down = W(d) /\ c.stream = TRUE
      BY <3>1, <1>8
    <3> QED
      BY <2>0, <3>2, <3>3
  <2>3. CASE \E d \in cut : c = ToReader(d)
    <3>1. PICK d \in cut : c = ToReader(d)
      BY <2>3
    <3>2. c.up = W(d) /\ c.down = Rd(d) /\ c.stream = FALSE
      BY <3>1, <1>8
    <3> QED
      BY <3>2, <2>0
  <2>4. CASE \E d \in cut : c = FromReader(d)
    <3>1. PICK d \in cut : c = FromReader(d)
      BY <2>4
    <3>2. d.down \in aug.procs /\ d.down \in aug.streaming
      BY <1>1, <1>2
    <3>3. c.up = Rd(d) /\ c.down = d.down /\ c.stream = TRUE
      BY <3>1, <1>8
    <3> QED
      BY <2>0, <3>2, <3>3
  <2> QED
    BY <1>1, <2>1, <2>2, <2>3, <2>4
<1>12. \A c, d \in aug.conns : InPort(c) = InPort(d) => c = d
  <2> SUFFICES ASSUME NEW c \in aug.conns, NEW d \in aug.conns, InPort(c) = InPort(d)
               PROVE  c = d
    OBVIOUS
  <2>1. c.down = d.down /\ c.in = d.in
    BY DEF InPort
  <2>2. \A x, y \in g.conns : InPort(x) = InPort(y) => x = y
    BY DEF IsGraph
  <2>3. CASE c \in kept \/ d \in kept
    <3>1. ASSUME NEW x \in kept, NEW y \in aug.conns, x.down = y.down, x.in = y.in
          PROVE  x = y
      <4>1. x.down \in g.procs
        BY <1>9
      <4>2. CASE y \in kept
        BY <3>1, <4>2, <2>2 DEF InPort
      <4>3. CASE \E z \in cut : y = ToWriter(z) \/ y = ToReader(z)
        BY <3>1, <4>1, <4>3, <1>4, <1>8
      <4>4. CASE \E z \in cut : y = FromReader(z)
        <5>1. PICK z \in cut : y = FromReader(z)
          BY <4>4
        <5>2. InPort(x) = InPort(z)
          BY <3>1, <5>1, <1>8 DEF InPort
        <5> QED
          BY <5>2, <1>2, <2>2
      <4> QED
        BY <1>1, <4>2, <4>3, <4>4
    <3> QED
      BY <2>1, <2>3, <3>1
  <2>4. CASE \E x \in cut : c = ToWriter(x) \/ d = ToWriter(x)
    <3>1. ASSUME NEW x \in cut, NEW y \in aug.conns \ kept, y.down = W(x)
          PROVE  y = ToWriter(x)
      <4>1. CASE \E z \in cut : y = ToWriter(z)
        BY <3>1, <4>1, <1>5, <1>6, <1>8
      <4>2. CASE \E z \in cut : y = ToReader(z)
        BY <3>1, <4>2, <1>5, <1>8
      <4>3. CASE \E z \in cut : y = FromReader(z)
        BY <3>1, <4>3, <1>2, <1>4, <1>8
      <4> QED
        BY <1>1, <4>1, <4>2, <4>3
    <3> QED
      BY <2>1, <2>3, <2>4, <3>1, <1>8
  <2>5. CASE \E x \in cut : c = ToReader(x) \/ d = ToReader(x)
    <3>1. ASSUME NEW x \in cut, NEW y \in aug.conns \ kept, y.down = Rd(x)
          PROVE  y = ToReader(x)
      <4>1. CASE \E z \in cut : y = ToWriter(z)
        BY <3>1, <4>1, <1>5, <1>8
      <4>2. CASE \E z \in cut : y = ToReader(z)
        BY <3>1, <4>2, <1>7, <1>8
      <4>3. CASE \E z \in cut : y = FromReader(z)
        BY <3>1, <4>3, <1>2, <1>4, <1>8
      <4> QED
        BY <1>1, <4>1, <4>2, <4>3
    <3> QED
      BY <2>1, <2>3, <2>5, <3>1, <1>8
  <2>6. CASE \E x, y \in cut : c = FromReader(x) /\ d = FromReader(y)
    <3>1. PICK x \in cut, y \in cut : c = FromReader(x) /\ d = FromReader(y)
      BY <2>6
    <3>2. InPort(x) = InPort(y)
      BY <2>1, <3>1, <1>8 DEF InPort
    <3> QED
      BY <3>1, <3>2, <1>2, <2>2
  <2> QED
    BY <1>1, <2>3, <2>4, <2>5, <2>6
<1>13. \A c, d \in aug.conns : OutPort(c) = OutPort(d) => c.stream = d.stream
  <2> SUFFICES ASSUME NEW c \in aug.conns, NEW d \in aug.conns,
                      c.up = d.up, c.out = d.out
               PROVE  c.stream = d.stream
    BY DEF OutPort
  <2> DEFINE Base(x) == x \in kept \/ \E y \in cut : x = ToWriter(y)
             Data(x) == \E y \in cut : x = ToReader(y)
             Read(x) == \E y \in cut : x = FromReader(y)
  <2>1. \A x \in aug.conns : Base(x) \/ Data(x) \/ Read(x)
    BY <1>1
  <2>2. \A x : Base(x) => \E y \in g.conns : y.up = x.up /\ y.out = x.out /\ y.stream = x.stream
    <3>1. \A y \in cut : y.stream = TRUE
      BY <1>2, <1>9
    <3>2. ASSUME NEW y \in cut
          PROVE  /\ y \in g.conns /\ y.up = ToWriter(y).up
                 /\ y.out = ToWriter(y).out /\ y.stream = ToWriter(y).stream
      BY <3>1, <1>2, <1>8
    <3> QED
      BY <3>2
  <2>3. \A x, y \in g.conns : x.up = y.up /\ x.out = y.out => x.stream = y.stream
    BY DEF IsGraph, OutPort
  <2>4. \A x : Data(x) => x.stream = FALSE /\ \E y \in cut : x.up = W(y)
    BY <1>8
  <2>5. \A x : Read(x) => x.stream = TRUE /\ \E y \in cut : x.up = Rd(y)
    BY <1>8
  <2> HIDE DEF Base, Data, Read
  <2>6. CASE Base(c) /\ Base(d)
    BY <2>6, <2>2, <2>3
  <2>7. ~(Base(c) /\ (Data(d) \/ Read(d))) /\ ~(Base(d) /\ (Data(c) \/ Read(c)))
    BY <2>2, <2>4, <2>5, <1>4, <1>9
  <2>8. ~(Data(c) /\ Read(d)) /\ ~(Data(d) /\ Read(c))
    BY <2>4, <2>5, <1>5
  <2> QED
    BY <2>1, <2>4, <2>5, <2>6, <2>7, <2>8
<1> QED
  BY <1>10, <1>11, <1>12, <1>13 DEF IsGraph, aug

-----------------------------------------------------------------------------
\* No cycle lies within Q.
AcyclicOn(g, Q) ==
  \A S \in SUBSET Q :
    S # {} => \E p \in S : \A c \in InputConns(g, p) : c.up \notin S

\* The processes found by runnable_streaming_processes() contain no cycle.
LEMMA RunnableStreamingAcyclic ==
  ASSUME NEW g, NEW R, NEW T, R \cap T = {}
  PROVE  AcyclicOn(g, RunnableStreaming(g, R, T))
<1> DEFINE ready == DataReady(g, R, T)
           found == RunnableStreaming(g, R, T)
           StreamInputsIn(q, Q) == \A d \in InputConns(g, q) : d.stream => d.up \in Q
           Closed(C) == \A q \in ready : StreamInputsIn(q, R \cup C) => q \in C
<1>1. found = {q \in ready : \A C \in SUBSET ready : Closed(C) => q \in C}
  BY DEF RunnableStreaming
<1>2. \A q \in ready : q \in T /\ \A c \in InputConns(g, q) : ~c.stream => c.up \in R
  BY DEF DataReady
<1> HIDE DEF found, ready
<1> SUFFICES ASSUME NEW S \in SUBSET found, S # {},
                    \A p \in S : \E c \in InputConns(g, p) : c.up \in S
             PROVE  FALSE
  BY DEF AcyclicOn, found
<1> DEFINE rest == found \ S
<1>3. S \cap R = {}
  BY <1>1, <1>2
<1>4. ASSUME NEW q \in ready, StreamInputsIn(q, R \cup rest)
      PROVE  q \in rest
  <2>1. q \notin S
    <3>1. ASSUME q \in S PROVE FALSE
      <4>1. PICK c \in InputConns(g, q) : c.up \in S
        BY <3>1
      <4>2. c.stream
        BY <4>1, <1>2, <1>3
      <4> QED
        BY <4>1, <4>2, <1>4, <1>3
    <3> QED
      BY <3>1
  <2>2. ASSUME NEW C \in SUBSET ready, Closed(C)
        PROVE  q \in C
    <3>1. found \subseteq C
      BY <1>1, <2>2
    <3>2. StreamInputsIn(q, R \cup C)
      BY <1>4, <3>1
    <3> QED
      BY <2>2, <3>2
  <2> QED
    BY <1>1, <2>1, <2>2
<1>5. rest \in SUBSET ready /\ Closed(rest)
  BY <1>1, <1>4
<1> QED
  BY <1>1, <1>5

\* A cycle cannot leave a set that nothing leads into.
LEMMA AcyclicExtends ==
  ASSUME NEW g, NEW Q, NEW U,
         AcyclicOn(g, Q), AcyclicOn(g, U),
         \A c \in g.conns : c.down \in Q => c.up \in Q
  PROVE  AcyclicOn(g, Q \cup U)
<1> SUFFICES ASSUME NEW S \in SUBSET (Q \cup U), S # {}
             PROVE  \E p \in S : \A c \in InputConns(g, p) : c.up \notin S
  BY DEF AcyclicOn
<1>1. CASE S \cap Q # {}
  <2>1. PICK p \in S \cap Q : \A c \in InputConns(g, p) : c.up \notin S \cap Q
    BY <1>1 DEF AcyclicOn
  <2>2. \A c \in InputConns(g, p) : c.up \in Q
    BY <2>1 DEF InputConns
  <2> QED
    BY <2>1, <2>2
<1>2. CASE S \cap Q = {}
  BY <1>2 DEF AcyclicOn
<1> QED
  BY <1>1, <1>2

\* A streaming process whose inputs have all run is among those that
\* runnable_streaming_processes() finds.
LEMMA RunnableIsFound ==
  ASSUME NEW g, NEW R, NEW T, NEW p \in T \cap g.streaming, InputsIn(g, p, R)
  PROVE  p \in RunnableStreaming(g, R, T)
BY DEF RunnableStreaming, DataReady, InputsIn

\* Every process of P is in a subgraph, and in no larger one than needed.
LEMMA SubgraphExists ==
  ASSUME NEW g, NEW P, NEW p \in P
  PROVE  \E S \in StreamingSubgraphs(g, P) :
           /\ p \in S
           /\ \A C \in SUBSET P :
                (/\ p \in C
                 /\ \A c \in g.conns : (c.stream /\ c.up \in P /\ c.down \in P)
                                         => (c.up \in C <=> c.down \in C))
                => S \subseteq C
<1> DEFINE inner  == {c \in g.conns : c.stream /\ c.up \in P /\ c.down \in P}
           closed == {C \in SUBSET P : \A c \in inner : c.up \in C <=> c.down \in C}
           S == {q \in P : \A C \in closed : p \in C => q \in C}
<1>1. S \in StreamingSubgraphs(g, P)
  BY DEF StreamingSubgraphs
<1>2. p \in S
  OBVIOUS
<1>3. ASSUME NEW C \in SUBSET P, p \in C,
             \A c \in g.conns : (c.stream /\ c.up \in P /\ c.down \in P)
                                  => (c.up \in C <=> c.down \in C)
      PROVE  S \subseteq C
  BY <1>3
<1> QED
  BY <1>1, <1>2, <1>3

-----------------------------------------------------------------------------
(***************************************************************************)
(* The graph that augment_subgraphs() makes: it has a cycle only if the    *)
(* graph it was made from has one, and the subgraphs of the first run,     *)
(* with the buffers attached to their ends, can be run in the same order   *)
(* without any of them being split.                                        *)
(***************************************************************************)
WriterFor(c) == Writer(OutPort(c))
ReaderFor(subs, c) == Reader(OutPort(c), SubgraphOf(subs, c.down))

\* subs covers the processes of g.
Covers(g, subs) ==
  /\ ToSet(subs) \subseteq SUBSET g.procs
  /\ g.procs \subseteq UNION ToSet(subs)

\* Every connection of the augmented graph is an old one, or one of the three
\* that take the place of a crossing one.
LEMMA AugmentedConns ==
  ASSUME NEW g, NEW subs, NEW e \in Augment(g, subs).conns
  PROVE  \/ e \in g.conns \ Crossing(g, subs)
         \/ \E c \in Crossing(g, subs) :
              \/ e.up = c.up /\ e.down = WriterFor(c) /\ e.stream = TRUE
              \/ e.up = WriterFor(c) /\ e.down = ReaderFor(subs, c) /\ e.stream = FALSE
              \/ e.up = ReaderFor(subs, c) /\ e.down = c.down /\ e.stream = TRUE
<1> DEFINE cut == Crossing(g, subs)
           W(c)  == Writer(OutPort(c))
           Rd(c) == Reader(OutPort(c), SubgraphOf(subs, c.down))
<1>1. \/ e \in g.conns \ cut
      \/ \E c \in cut : e = Connection(c.up, c.out, W(c), "in", TRUE)
      \/ \E c \in cut : e = Connection(W(c), "out", Rd(c), "in", FALSE)
      \/ \E c \in cut : e = Connection(Rd(c), "out", c.down, c.in, TRUE)
  BY DEF Augment, WithBuffers
<1>2. CASE e \in g.conns \ cut
  BY <1>2
<1>4. CASE \E c \in cut : e = Connection(c.up, c.out, W(c), "in", TRUE)
  <2>1. PICK c \in cut : e = Connection(c.up, c.out, W(c), "in", TRUE)
    BY <1>4
  <2>2. e.up = c.up /\ e.down = W(c) /\ e.stream = TRUE
    BY <2>1 DEF Connection
  <2> QED
    BY <2>1, <2>2 DEF WriterFor
<1>5. CASE \E c \in cut : e = Connection(W(c), "out", Rd(c), "in", FALSE)
  <2>1. PICK c \in cut : e = Connection(W(c), "out", Rd(c), "in", FALSE)
    BY <1>5
  <2>2. e.up = W(c) /\ e.down = Rd(c) /\ e.stream = FALSE
    BY <2>1 DEF Connection
  <2> QED
    BY <2>1, <2>2 DEF WriterFor, ReaderFor
<1>6. CASE \E c \in cut : e = Connection(Rd(c), "out", c.down, c.in, TRUE)
  <2>1. PICK c \in cut : e = Connection(Rd(c), "out", c.down, c.in, TRUE)
    BY <1>6
  <2>2. e.up = Rd(c) /\ e.down = c.down /\ e.stream = TRUE
    BY <2>1 DEF Connection
  <2> QED
    BY <2>1, <2>2 DEF ReaderFor
<1> QED
  BY <1>1, <1>2, <1>4, <1>5, <1>6

LEMMA AugmentedProcs ==
  ASSUME NEW g, NEW subs
  PROVE  Augment(g, subs).procs =
           g.procs \cup {WriterFor(c) : c \in Crossing(g, subs)}
                   \cup {ReaderFor(subs, c) : c \in Crossing(g, subs)}
BY DEF Augment, WithBuffers, WriterFor, ReaderFor

\* Buffers are told apart by what they are made for, and are not old.
LEMMA BuffersDiffer ==
  ASSUME NEW g, IsGraph(g), BuffersAreNew(g), NEW subs, Covers(g, subs)
  PROVE  /\ \A c \in Crossing(g, subs) :
              /\ c \in g.conns /\ c.stream
              /\ c.up \in g.procs /\ c.down \in g.procs
              /\ WriterFor(c) \notin g.procs
              /\ ReaderFor(subs, c) \notin g.procs
              /\ \A S \in SUBSET g.procs : Reader(OutPort(c), S) \notin g.procs
         /\ \A c, d : /\ WriterFor(c) # ReaderFor(subs, d)
                      /\ \A S : WriterFor(c) # Reader(OutPort(d), S)
                      /\ WriterFor(c) = WriterFor(d) => OutPort(c) = OutPort(d)
                      /\ \A S : Reader(OutPort(c), S) = ReaderFor(subs, d) =>
                                  OutPort(c) = OutPort(d) /\ S = SubgraphOf(subs, d.down)
                      /\ OutPort(c) = OutPort(d) => c.up = d.up
<1>1. \A c \in Crossing(g, subs) :
        c \in g.conns /\ c.stream /\ c.up \in g.procs /\ c.down \in g.procs
  BY DEF Crossing, IsGraph
<1>2. \A c \in Crossing(g, subs) : SubgraphOf(subs, c.down) \in SUBSET g.procs
  <2> TAKE c \in Crossing(g, subs)
  <2>1. \E S \in ToSet(subs) : c.down \in S
    BY <1>1 DEF Covers
  <2> QED
    BY <2>1 DEF SubgraphOf, Covers
<1>3. \A c \in Crossing(g, subs) :
        /\ WriterFor(c) \notin g.procs
        /\ \A S \in SUBSET g.procs : Reader(OutPort(c), S) \notin g.procs
  BY <1>1 DEF BuffersAreNew, WriterFor
<1>4. \A c \in Crossing(g, subs) : ReaderFor(subs, c) \notin g.procs
  BY <1>2, <1>3 DEF ReaderFor
<1>5. \A c, d : /\ WriterFor(c) # ReaderFor(subs, d)
                /\ \A S : WriterFor(c) # Reader(OutPort(d), S)
                /\ WriterFor(c) = WriterFor(d) => OutPort(c) = OutPort(d)
  BY DEF WriterFor, ReaderFor, Writer, Reader
<1>6. \A c, d : \A S : Reader(OutPort(c), S) = ReaderFor(subs, d) =>
                         OutPort(c) = OutPort(d) /\ S = SubgraphOf(subs, d.down)
  BY DEF ReaderFor, Reader
<1>7. \A c, d : OutPort(c) = OutPort(d) => c.up = d.up
  BY DEF OutPort
<1> QED
  BY <1>1, <1>3, <1>4, <1>5, <1>6, <1>7

\* Buffers do not close a cycle.
LEMMA AugmentAcyclic ==
  ASSUME NEW g, IsGraph(g), BuffersAreNew(g), NEW subs, Covers(g, subs), Acyclic(g)
  PROVE  Acyclic(Augment(g, subs))
<1> DEFINE f   == Augment(g, subs)
           cut == Crossing(g, subs)
           W(c) == WriterFor(c)
           Rd(c) == ReaderFor(subs, c)
<1>1. /\ \A c \in cut : /\ c \in g.conns /\ c.up \in g.procs /\ c.down \in g.procs
                        /\ W(c) \notin g.procs /\ Rd(c) \notin g.procs
      /\ \A c, d : /\ W(c) # Rd(d)
                   /\ W(c) = W(d) => c.up = d.up
                   /\ Rd(c) = Rd(d) => W(c) = W(d)
  BY BuffersDiffer DEF ReaderFor, WriterFor
<1>2. f.procs = g.procs \cup {W(c) : c \in cut} \cup {Rd(c) : c \in cut}
  BY AugmentedProcs
<1>3. \A e \in f.conns :
        \/ e \in g.conns
        \/ \E c \in cut : \/ e.up = c.up /\ e.down = W(c)
                          \/ e.up = W(c) /\ e.down = Rd(c)
                          \/ e.up = Rd(c) /\ e.down = c.down
  <2> TAKE e \in f.conns
  <2>1. \/ e \in g.conns \ cut
        \/ \E c \in cut :
             \/ e.up = c.up /\ e.down = W(c) /\ e.stream = TRUE
             \/ e.up = W(c) /\ e.down = Rd(c) /\ e.stream = FALSE
             \/ e.up = Rd(c) /\ e.down = c.down /\ e.stream = TRUE
    BY AugmentedConns
  <2> QED
    BY <2>1
<1>4. \A e \in g.conns : e.up \in g.procs /\ e.down \in g.procs
  BY DEF IsGraph
<1> HIDE DEF f, cut, W, Rd
<1> SUFFICES ASSUME NEW S \in SUBSET f.procs, S # {},
                    \A p \in S : \E e \in f.conns : e.down = p /\ e.up \in S
             PROVE  FALSE
  BY DEF Acyclic, InputConns, f
<1>5. \A c \in cut : W(c) \in S => c.up \in S
  <2> SUFFICES ASSUME NEW c \in cut, W(c) \in S PROVE c.up \in S
    OBVIOUS
  <2>1. PICK e \in f.conns : e.down = W(c) /\ e.up \in S
    OBVIOUS
  <2> QED
    BY <2>1, <1>1, <1>3, <1>4
<1>6. \A c \in cut : Rd(c) \in S => W(c) \in S
  <2> SUFFICES ASSUME NEW c \in cut, Rd(c) \in S PROVE W(c) \in S
    OBVIOUS
  <2>1. PICK e \in f.conns : e.down = Rd(c) /\ e.up \in S
    OBVIOUS
  <2> QED
    BY <2>1, <1>1, <1>3, <1>4
<1>7. S \cap g.procs # {}
  BY <1>1, <1>2, <1>5, <1>6
<1>8. PICK p \in S \cap g.procs : \A c \in InputConns(g, p) : c.up \notin S \cap g.procs
  BY <1>7 DEF Acyclic
<1>9. \A c \in g.conns : c.down = p => c.up \notin S
  BY <1>4, <1>8 DEF InputConns
<1>10. PICK e \in f.conns : e.down = p /\ e.up \in S
  BY <1>8
<1>11. e \notin g.conns
  BY <1>9, <1>10
<1>12. PICK c \in cut : e.up = Rd(c) /\ p = c.down
  BY <1>1, <1>3, <1>8, <1>10, <1>11
<1> QED
  BY <1>1, <1>5, <1>6, <1>9, <1>10, <1>12

-----------------------------------------------------------------------------
(***************************************************************************)
(* The subgraphs of an order, with the buffers that belong to them.        *)
(***************************************************************************)

\* An order of the processes of g that subgraphs_in_order() may return.
IsOrder(g, subs) ==
  /\ Covers(g, subs)
  /\ \A i, j \in DOMAIN subs : i # j => subs[i] \cap subs[j] = {}
  /\ \A j \in DOMAIN subs : \A c \in g.conns :
       c.down \in subs[j] =>
         \E i \in DOMAIN subs : /\ i <= j /\ c.up \in subs[i]
                                /\ ~c.stream => i < j

Block(g, subs, i) ==
  subs[i] \cup {WriterFor(c) : c \in {d \in Crossing(g, subs) : d.up \in subs[i]}}
          \cup {Reader(OutPort(c), subs[i]) :
                  c \in {d \in Crossing(g, subs) : d.down \in subs[i]}}

\* find_subgraph() finds the one subgraph that has the process.
LEMMA SubgraphOfIsUnique ==
  ASSUME NEW g, NEW subs, IsOrder(g, subs), NEW p
  PROVE  /\ p \in g.procs => \E i \in DOMAIN subs : p \in subs[i]
         /\ \A i \in DOMAIN subs : p \in subs[i] => SubgraphOf(subs, p) = subs[i]
<1>1. p \in g.procs => \E i \in DOMAIN subs : p \in subs[i]
  BY DEF IsOrder, Covers, ToSet
<1>2. ASSUME NEW i \in DOMAIN subs, p \in subs[i]
      PROVE  SubgraphOf(subs, p) = subs[i]
  <2>1. subs[i] \in ToSet(subs)
    BY DEF ToSet
  <2>2. SubgraphOf(subs, p) \in ToSet(subs) /\ p \in SubgraphOf(subs, p)
    BY <1>2, <2>1 DEF SubgraphOf
  <2>3. PICK k \in DOMAIN subs : SubgraphOf(subs, p) = subs[k]
    BY <2>2 DEF ToSet
  <2> QED
    BY <1>2, <2>2, <2>3 DEF IsOrder
<1> QED
  BY <1>1, <1>2

\* Which members of the augmented graph a block has.
LEMMA BlockMembers ==
  ASSUME NEW g, IsGraph(g), BuffersAreNew(g), NEW subs, IsOrder(g, subs),
         NEW i \in DOMAIN subs
  PROVE  /\ \A p \in g.procs : p \in Block(g, subs, i) <=> p \in subs[i]
         /\ \A c \in Crossing(g, subs) :
              /\ WriterFor(c) \in Block(g, subs, i) <=> c.up \in subs[i]
              /\ ReaderFor(subs, c) \in Block(g, subs, i) <=> c.down \in subs[i]
<1> DEFINE cut == Crossing(g, subs)
           B == Block(g, subs, i)
<1>0. Covers(g, subs)
  BY DEF IsOrder
<1>1. subs[i] \in SUBSET g.procs
  BY <1>0 DEF Covers, ToSet
<1>2. \A p : p \in B <=>
        \/ p \in subs[i]
        \/ \E d \in cut : d.up \in subs[i] /\ p = WriterFor(d)
        \/ \E d \in cut : d.down \in subs[i] /\ p = Reader(OutPort(d), subs[i])
  BY DEF Block
<1>3. \A d \in cut : /\ d.down \in g.procs
                     /\ WriterFor(d) \notin g.procs
                     /\ ReaderFor(subs, d) \notin g.procs
                     /\ Reader(OutPort(d), subs[i]) \notin g.procs
  BY <1>0, <1>1, BuffersDiffer
<1>4. \A c, d : /\ WriterFor(c) # ReaderFor(subs, d)
                /\ \A S : WriterFor(c) # Reader(OutPort(d), S)
                /\ WriterFor(c) = WriterFor(d) => c.up = d.up
                /\ \A S : Reader(OutPort(c), S) = ReaderFor(subs, d) =>
                            S = SubgraphOf(subs, d.down)
  <2>1. \A c, d : /\ WriterFor(c) # ReaderFor(subs, d)
                  /\ \A S : WriterFor(c) # Reader(OutPort(d), S)
    BY DEF WriterFor, ReaderFor, Writer, Reader
  <2>2. \A c, d : WriterFor(c) = WriterFor(d) => c.up = d.up
    BY DEF WriterFor, Writer, OutPort
  <2>3. \A c, d : \A S : Reader(OutPort(c), S) = ReaderFor(subs, d) =>
                            S = SubgraphOf(subs, d.down)
    BY DEF ReaderFor, Reader
  <2> QED
    BY <2>1, <2>2, <2>3
<1> HIDE DEF cut, B
<1>5. ASSUME NEW p \in g.procs PROVE p \in B <=> p \in subs[i]
  BY <1>2, <1>3
<1>6. ASSUME NEW c \in cut PROVE WriterFor(c) \in B <=> c.up \in subs[i]
  BY <1>1, <1>2, <1>3, <1>4
<1>7. ASSUME NEW c \in cut, c.down \in subs[i] PROVE ReaderFor(subs, c) \in B
  <2>1. SubgraphOf(subs, c.down) = subs[i]
    BY <1>7, SubgraphOfIsUnique
  <2>2. ReaderFor(subs, c) = Reader(OutPort(c), subs[i])
    BY <2>1 DEF ReaderFor
  <2> QED
    BY <1>2, <1>7, <2>2
<1>8. ASSUME NEW c \in cut, ReaderFor(subs, c) \in B PROVE c.down \in subs[i]
  <2>1. PICK d \in cut : ReaderFor(subs, c) = Reader(OutPort(d), subs[i])
    BY <1>1, <1>2, <1>3, <1>4, <1>8
  <2>2. subs[i] = SubgraphOf(subs, c.down)
    BY <2>1, <1>4
  <2>3. PICK k \in DOMAIN subs : c.down \in subs[k]
    BY <1>3, SubgraphOfIsUnique
  <2> QED
    BY <2>2, <2>3, SubgraphOfIsUnique
<1> QED
  BY <1>5, <1>6, <1>7, <1>8 DEF cut, B

\* The blocks make up the augmented graph.
LEMMA BlocksCover ==
  ASSUME NEW g, IsGraph(g), BuffersAreNew(g), NEW subs, IsOrder(g, subs),
         NEW p \in Augment(g, subs).procs
  PROVE  \E i \in DOMAIN subs : p \in Block(g, subs, i)
<1>1. \A c \in Crossing(g, subs) : c.up \in g.procs /\ c.down \in g.procs
  BY BuffersDiffer DEF IsOrder
<1>2. CASE p \in g.procs
  BY <1>2, SubgraphOfIsUnique, BlockMembers
<1>3. CASE \E c \in Crossing(g, subs) : p = WriterFor(c)
  <2>1. PICK c \in Crossing(g, subs) : p = WriterFor(c)
    BY <1>3
  <2>2. PICK i \in DOMAIN subs : c.up \in subs[i]
    BY <1>1, SubgraphOfIsUnique
  <2> QED
    BY <2>1, <2>2, BlockMembers
<1>4. CASE \E c \in Crossing(g, subs) : p = ReaderFor(subs, c)
  <2>1. PICK c \in Crossing(g, subs) : p = ReaderFor(subs, c)
    BY <1>4
  <2>2. PICK i \in DOMAIN subs : c.down \in subs[i]
    BY <1>1, SubgraphOfIsUnique
  <2> QED
    BY <2>1, <2>2, BlockMembers
<1> QED
  BY <1>2, <1>3, <1>4, AugmentedProcs

\* No stream connection leads out of a block or into it.
LEMMA BlocksComplete ==
  ASSUME NEW g, IsGraph(g), BuffersAreNew(g), NEW subs, IsOrder(g, subs),
         NEW i \in DOMAIN subs
  PROVE  CompleteSubgraph(Augment(g, subs), Block(g, subs, i))
<1> DEFINE cut == Crossing(g, subs)
           B == Block(g, subs, i)
<1>0. ASSUME NEW e \in Augment(g, subs).conns
      PROVE  \/ e \in g.conns \ cut
             \/ \E c \in cut :
                  \/ e.up = c.up /\ e.down = WriterFor(c) /\ e.stream = TRUE
                  \/ e.up = WriterFor(c) /\ e.down = ReaderFor(subs, c) /\ e.stream = FALSE
                  \/ e.up = ReaderFor(subs, c) /\ e.down = c.down /\ e.stream = TRUE
  BY AugmentedConns
<1> SUFFICES ASSUME NEW e \in Augment(g, subs).conns, e.stream
             PROVE  e.up \in B <=> e.down \in B
  BY DEF CompleteSubgraph
<1>1. CASE e \in g.conns \ cut
  <2>1. SubgraphOf(subs, e.up) = SubgraphOf(subs, e.down)
    BY <1>1 DEF Crossing
  <2>2. e.up \in g.procs /\ e.down \in g.procs
    BY <1>1 DEF IsGraph
  <2>3. PICK k \in DOMAIN subs : e.up \in subs[k]
    BY <2>2, SubgraphOfIsUnique
  <2>4. PICK l \in DOMAIN subs : e.down \in subs[l]
    BY <2>2, SubgraphOfIsUnique
  <2>5. subs[k] = subs[l]
    BY <2>1, <2>3, <2>4, SubgraphOfIsUnique
  <2>6. e.up \in subs[i] <=> e.down \in subs[i]
    BY <2>3, <2>4, <2>5, SubgraphOfIsUnique
  <2> QED
    BY <2>2, <2>6, BlockMembers
<1>2. CASE \E c \in cut : e.up = c.up /\ e.down = WriterFor(c)
  <2>1. PICK c \in cut : e.up = c.up /\ e.down = WriterFor(c)
    BY <1>2
  <2>2. c.up \in g.procs
    BY BuffersDiffer DEF IsOrder
  <2> QED
    BY <2>1, <2>2, BlockMembers
<1>3. CASE \E c \in cut : e.up = ReaderFor(subs, c) /\ e.down = c.down
  <2>1. PICK c \in cut : e.up = ReaderFor(subs, c) /\ e.down = c.down
    BY <1>3
  <2>2. c.down \in g.procs
    BY BuffersDiffer DEF IsOrder
  <2> QED
    BY <2>1, <2>2, BlockMembers
<1> QED
  BY <1>0, <1>1, <1>2, <1>3

\* A data connection leads to a later block.
LEMMA BlocksInOrder ==
  ASSUME NEW g, IsGraph(g), BuffersAreNew(g), NEW subs, IsOrder(g, subs),
         DOMAIN subs \subseteq Nat,
         NEW j \in DOMAIN subs,
         NEW e \in Augment(g, subs).conns, ~e.stream, e.down \in Block(g, subs, j)
  PROVE  \E i \in DOMAIN subs : i < j /\ e.up \in Block(g, subs, i)
<1> DEFINE cut == Crossing(g, subs)
<1>0. \/ e \in g.conns \ cut
      \/ \E c \in cut :
           \/ e.up = c.up /\ e.down = WriterFor(c) /\ e.stream = TRUE
           \/ e.up = WriterFor(c) /\ e.down = ReaderFor(subs, c) /\ e.stream = FALSE
           \/ e.up = ReaderFor(subs, c) /\ e.down = c.down /\ e.stream = TRUE
  BY AugmentedConns
<1>1. CASE e \in g.conns \ cut
  <2>1. e.up \in g.procs /\ e.down \in g.procs
    BY <1>1 DEF IsGraph
  <2>2. e.down \in subs[j]
    BY <2>1, BlockMembers
  <2>3. PICK i \in DOMAIN subs : i < j /\ e.up \in subs[i]
    BY <1>1, <2>2 DEF IsOrder
  <2> QED
    BY <2>1, <2>3, BlockMembers
<1>2. CASE \E c \in cut : e.up = WriterFor(c) /\ e.down = ReaderFor(subs, c)
  <2>1. PICK c \in cut : e.up = WriterFor(c) /\ e.down = ReaderFor(subs, c)
    BY <1>2
  <2>2. c.down \in subs[j]
    BY <2>1, BlockMembers
  <2>3. c \in g.conns /\ SubgraphOf(subs, c.up) # SubgraphOf(subs, c.down)
    BY DEF Crossing
  <2>4. PICK i \in DOMAIN subs : i <= j /\ c.up \in subs[i]
    BY <2>2, <2>3 DEF IsOrder
  <2>5. i # j
    BY <2>2, <2>3, <2>4, SubgraphOfIsUnique
  <2>6. i < j
    BY <2>4, <2>5
  <2> QED
    BY <2>1, <2>4, <2>6, BlockMembers
<1> QED
  BY <1>0, <1>1, <1>2

-----------------------------------------------------------------------------
\* A part of what is left that needs only data from what has run, and no
\* stream from elsewhere, has a complete subgraph among the candidates.
LEMMA CompleteCandidate ==
  ASSUME NEW g, IsGraph(g), Acyclic(g), NEW R, NEW T,
         NEW Q \in SUBSET (T \cap g.streaming), Q # {}, CompleteSubgraph(g, Q),
         \A c \in g.conns : c.down \in Q /\ ~c.stream => c.up \in R
  PROVE  \E S \in StreamingSubgraphs(g, RunnableStreaming(g, R, T)) :
           CompleteSubgraph(g, S)
<1> DEFINE ready == DataReady(g, R, T)
           found == RunnableStreaming(g, R, T)
           StreamInputsIn(q, P) == \A d \in InputConns(g, q) : d.stream => d.up \in P
           Closed(C) == \A q \in ready : StreamInputsIn(q, R \cup C) => q \in C
<1>1. found = {q \in ready : \A C \in SUBSET ready : Closed(C) => q \in C}
  BY DEF RunnableStreaming
<1>2. Q \subseteq ready
  BY DEF DataReady, InputConns
<1> HIDE DEF found, ready
<1>3. Q \subseteq found
  <2> SUFFICES ASSUME Q \ found # {} PROVE FALSE
    OBVIOUS
  <2>1. Q \ found \in SUBSET g.procs
    BY DEF IsGraph
  <2>2. PICK p \in Q \ found : \A c \in InputConns(g, p) : c.up \notin Q \ found
    BY <2>1 DEF Acyclic
  <2>3. StreamInputsIn(p, found)
    BY <2>2 DEF CompleteSubgraph, InputConns
  <2>4. ASSUME NEW C \in SUBSET ready, Closed(C) PROVE p \in C
    <3>1. found \subseteq C
      BY <1>1, <2>4
    <3> QED
      BY <3>1, <2>2, <2>3, <2>4, <1>2
  <2> QED
    BY <1>1, <1>2, <2>2, <2>4
<1>4. PICK p \in Q : TRUE
  OBVIOUS
<1>5. PICK S \in StreamingSubgraphs(g, found) :
        /\ p \in S
        /\ \A C \in SUBSET found :
             (/\ p \in C
              /\ \A c \in g.conns : (c.stream /\ c.up \in found /\ c.down \in found)
                                      => (c.up \in C <=> c.down \in C))
             => S \subseteq C
  BY <1>3, <1>4, SubgraphExists
<1>6. S \subseteq Q
  BY <1>3, <1>4, <1>5 DEF CompleteSubgraph
<1>7. \A c \in g.conns : (c.stream /\ c.up \in found /\ c.down \in found)
                            => (c.up \in S <=> c.down \in S)
  BY StreamingSubgraphsClosed
<1>8. CompleteSubgraph(g, S)
  BY <1>3, <1>6, <1>7 DEF CompleteSubgraph
<1> QED
  BY <1>5, <1>8 DEF found

-----------------------------------------------------------------------------
\* OrderInv is preserved by the tail of the loop of subgraphs_in_order() if
\* the subgraph taken has its data inputs among the processes that have run,
\* and its stream inputs among those or in itself.
LEMMA TakePreservesOrderInv ==
  ASSUME OrderInv, phase = "order", NEW S, Take(S), S \subseteq toRun,
         \A c \in flat.conns : c.down \in S =>
           (IF c.stream THEN c.up \in ran \cup S ELSE c.up \in ran)
  PROVE  OrderInv'
<1> USE DEF Take, orderVars, emitVars
<1> DEFINE n == Len(subgraphs)
<1>1. /\ IsGraph(flat) /\ subgraphs \in Seq(SUBSET flat.procs) /\ n \in Nat
      /\ toRun = flat.procs \ ran
      /\ ran = UNION ToSet(subgraphs)
      /\ emitted = 0
  BY DEF OrderInv, PlannerTypeOK
<1>2. subgraphs' \in Seq(SUBSET flat.procs) /\ Len(subgraphs') = n + 1
  BY <1>1
<1>3. \A i \in DOMAIN subgraphs' :
        IF i = n + 1 THEN subgraphs'[i] = S
        ELSE i \in DOMAIN subgraphs /\ subgraphs'[i] = subgraphs[i]
  BY <1>1
<1>4. PlannerTypeOK'
  BY <1>1, <1>2 DEF OrderInv, PlannerTypeOK
<1>5. toRun' = flat'.procs \ ran'
  BY <1>1
<1>6. ran' = UNION ToSet(subgraphs')
  BY <1>1, ToSetAppend
<1>7. \A i \in DOMAIN subgraphs : subgraphs[i] \subseteq ran
  BY <1>1 DEF ToSet
<1>8. \A i, j \in DOMAIN subgraphs' : i # j => subgraphs'[i] \cap subgraphs'[j] = {}
  BY <1>1, <1>3, <1>7 DEF OrderInv
<1>9. InputsFirst'
  <2> SUFFICES ASSUME NEW j \in DOMAIN subgraphs', NEW c \in flat.conns,
                      c.down \in subgraphs'[j]
               PROVE  \E i \in 1 .. j : c.up \in subgraphs'[i] /\ (~c.stream => i < j)
    BY DEF InputsFirst, InSubgraph
  <2>1. DOMAIN subgraphs = 1 .. n /\ DOMAIN subgraphs' = 1 .. (n + 1)
    BY <1>1, <1>2
  <2>2. CASE j = n + 1
    <3>1. c.down \in S
      BY <1>3, <2>2
    <3>2. CASE c.up \in ran
      <4>1. PICK i \in DOMAIN subgraphs : c.up \in subgraphs[i]
        BY <1>1, <3>2 DEF ToSet
      <4>2. i \in 1 .. j /\ i < j /\ c.up \in subgraphs'[i]
        BY <4>1, <2>1, <2>2, <1>1, <1>3
      <4> QED
        BY <4>2
    <3>3. CASE c.up \in S /\ c.stream
      BY <3>3, <2>1, <2>2, <1>1, <1>3
    <3> QED
      BY <3>1, <3>2, <3>3
  <2>3. CASE j # n + 1
    <3>1. j \in DOMAIN subgraphs /\ c.down \in subgraphs[j]
      BY <1>3, <2>3
    <3>2. PICK i \in 1 .. j : c.up \in subgraphs[i] /\ (~c.stream => i < j)
      BY <3>1 DEF OrderInv, InputsFirst, InSubgraph
    <3>3. i \in DOMAIN subgraphs' /\ i # n + 1
      BY <1>1, <2>1, <3>1
    <3> QED
      BY <1>3, <3>2, <3>3
  <2> QED
    BY <2>2, <2>3
<1> QED
  BY <1>4, <1>5, <1>6, <1>8, <1>9 DEF OrderInv

LEMMA InitOrderInv == PlannerInit => OrderInv
<1> SUFFICES ASSUME PlannerInit PROVE OrderInv
  OBVIOUS
<1>1. IsGraph(source) /\ BuffersAreNew(source)
  BY GraphsAssumption DEF PlannerInit
<1>2. DOMAIN subgraphs = {} /\ Len(subgraphs) = 0 /\ ToSet(subgraphs) = {}
  BY DEF PlannerInit, ToSet
<1>3. PlannerTypeOK
  BY <1>1, <1>2 DEF PlannerInit, PlannerTypeOK
<1> QED
  BY <1>1, <1>2, <1>3 DEF PlannerInit, OrderInv, InputsFirst

LEMMA NextOrderInv == OrderInv /\ [PlannerNext]_plannerVars => OrderInv'
<1> SUFFICES ASSUME OrderInv, [PlannerNext]_plannerVars
             PROVE  OrderInv'
  OBVIOUS
<1>0. /\ IsGraph(flat) /\ IsGraph(source)
      /\ subgraphs \in Seq(SUBSET flat.procs) /\ Len(subgraphs) \in Nat
      /\ toRun = flat.procs \ ran /\ ran = UNION ToSet(subgraphs)
      /\ order \in Seq(flat.streaming)
  BY DEF OrderInv, PlannerTypeOK
<1> DEFINE found == RunnableStreaming(flat, ran, toRun)
<1>1. ASSUME phase = "order", NEW S \in Candidates, Take(S)
      PROVE  OrderInv'
  <2>1. S \in StreamingSubgraphs(flat, found)
    BY <1>1 DEF Candidates
  <2>2. S \subseteq found
    BY <2>1, StreamingSubgraphsClosed
  <2>3. S \subseteq toRun
    BY <2>2 DEF RunnableStreaming, DataReady
  <2>4. ASSUME NEW c \in flat.conns, c.down \in S
        PROVE  IF c.stream THEN c.up \in ran \cup S ELSE c.up \in ran
    <3>1. c \in InputConns(flat, c.down) /\ c.down \in found
      BY <2>2, <2>4 DEF InputConns
    <3>2. /\ ~c.stream => c.up \in ran
          /\ c.stream => c.up \in ran \cup found
      BY <3>1, RunnableStreamingInputs
    <3>3. (c.stream /\ c.up \in found) => c.up \in S
      BY <2>1, <2>4, <3>1, StreamingSubgraphsClosed
    <3> QED
      BY <3>2, <3>3
  <2> QED
    BY <1>1, <2>3, <2>4, TakePreservesOrderInv
<1>2. CASE PickFunctional
  <2>1. PICK p \in RunnableNow \ flat.streaming : Take({p})
    BY <1>2 DEF PickFunctional
  <2>2. p \in toRun /\ \A c \in InputConns(flat, p) : c.up \in ran
    BY <2>1 DEF RunnableNow, Runnable, InputsIn
  <2>3. \A c \in flat.conns : c.down \in {p} => c.up \in ran
    BY <2>2 DEF InputConns
  <2> QED
    BY <1>2, <2>1, <2>2, <2>3, TakePreservesOrderInv DEF PickFunctional, Ordering
<1>3. CASE PickComplete
  BY <1>1, <1>3 DEF PickComplete, Ordering
<1>4. CASE PickIncomplete
  BY <1>1, <1>4 DEF PickIncomplete, Ordering
<1>5. CASE AugmentSubgraphs
  <2>0. /\ toRun = {} /\ allowSplit /\ phase = "order"
        /\ flat' = Augment(flat, subgraphs) /\ allowSplit' = FALSE
        /\ toRun' = flat'.procs /\ ran' = {}
        /\ split' = subgraphs /\ subgraphs' = <<>>
        /\ source' = source /\ phase' = phase
        /\ emitted' = emitted /\ todo' = todo /\ order' = order
    BY <1>5 DEF AugmentSubgraphs, emitVars
  <2>1. /\ flat = source /\ BuffersAreNew(flat)
        /\ emitted = 0 /\ todo = {} /\ order = <<>>
    BY <2>0 DEF OrderInv
  <2>2. ToSet(subgraphs) \subseteq SUBSET flat.procs
    BY <1>0 DEF ToSet
  <2>3. flat.procs \subseteq UNION ToSet(subgraphs)
    BY <1>0, <2>0
  <2>4. IsGraph(flat')
    BY <1>0, <2>0, <2>1, <2>2, <2>3, AugmentIsGraph
  <2>5. DOMAIN subgraphs' = {} /\ Len(subgraphs') = 0 /\ ToSet(subgraphs') = {}
    BY <2>0 DEF ToSet
  <2>6. PlannerTypeOK'
    <3>1. subgraphs' \in Seq(SUBSET flat'.procs) /\ order' \in Seq(flat'.streaming)
      BY <2>0, <2>1
    <3>2. split' \in Seq(SUBSET source'.procs)
      BY <1>0, <2>0, <2>1
    <3>3. emitted' \in 0 .. Len(subgraphs')
      BY <2>0, <2>1, <2>5
    <3>4. /\ toRun' \subseteq flat'.procs /\ ran' \subseteq flat'.procs
          /\ todo' \subseteq flat'.streaming
      BY <2>0, <2>1
    <3>5. IsGraph(source') /\ phase' \in {"order", "emit", "planned", "failed"}
      BY <1>0, <2>0
    <3>6. allowSplit' \in BOOLEAN
      BY <2>0
    <3> QED
      BY <2>4, <3>1, <3>2, <3>3, <3>4, <3>5, <3>6 DEF PlannerTypeOK
  <2> QED
    BY <2>0, <2>1, <2>5, <2>6 DEF OrderInv, InputsFirst
<1>6. CASE \/ OrderingFails \/ CheckSubgraphConnections \/ EmitFunctional
           \/ BeginStreaming \/ OrderStreaming \/ EndStreaming \/ EndPlan
  <2>1. UNCHANGED <<source, flat, allowSplit, toRun, ran, subgraphs, split>>
    BY <1>6 DEF OrderingFails, CheckSubgraphConnections, EmitFunctional,
         BeginStreaming, OrderStreaming, EndStreaming, EndPlan, orderVars, emitVars
  <2>2. phase' \in {"order", "emit", "planned", "failed"}
    BY <1>6 DEF OrderingFails, CheckSubgraphConnections, EmitFunctional,
         BeginStreaming, OrderStreaming, EndStreaming, EndPlan, OrderInv, PlannerTypeOK
  <2>3. phase' # "order" /\ (phase' \in {"emit", "planned"} => toRun = {})
    BY <1>6 DEF OrderingFails, CheckSubgraphConnections, EmitFunctional,
         BeginStreaming, OrderStreaming, EndStreaming, EndPlan, OrderInv, Emitting
  <2>4. /\ emitted' \in 0 .. Len(subgraphs)
        /\ todo' \subseteq flat.streaming
        /\ order' \in Seq(flat.streaming)
    <3>1. /\ emitted \in 0 .. Len(subgraphs)
          /\ todo \subseteq flat.streaming /\ order \in Seq(flat.streaming)
      BY DEF OrderInv, PlannerTypeOK
    <3>2. CASE OrderingFails \/ CheckSubgraphConnections \/ EndPlan
      BY <3>1, <3>2 DEF OrderingFails, CheckSubgraphConnections, EndPlan, emitVars
    <3>3. CASE EmitFunctional \/ EndStreaming
      <4>1. Emitting /\ emitted' = emitted + 1 /\ todo' = {} /\ order' = <<>>
        BY <3>3 DEF EmitFunctional, EndStreaming, Emit
      <4> QED
        BY <4>1, <3>1, <1>0 DEF Emitting
    <3>4. CASE BeginStreaming
      BY <3>1, <3>4 DEF BeginStreaming
    <3>5. CASE OrderStreaming
      BY <3>1, <3>5 DEF OrderStreaming, PickRunnable
    <3> QED
      BY <1>6, <3>2, <3>3, <3>4, <3>5
  <2>5. PlannerTypeOK'
    BY <2>1, <2>2, <2>4 DEF OrderInv, PlannerTypeOK
  <2>6. InputsFirst'
    BY <2>1 DEF OrderInv, InputsFirst, InSubgraph
  <2> QED
    BY <2>1, <2>3, <2>5, <2>6 DEF OrderInv
<1>7. CASE UNCHANGED plannerVars
  BY <1>7 DEF plannerVars, orderVars, emitVars, OrderInv, PlannerTypeOK,
       InputsFirst, InSubgraph
<1> QED
  BY <1>2, <1>3, <1>4, <1>5, <1>6, <1>7 DEF PlannerNext

THEOREM OrderInvariant == PlannerSpec => []OrderInv
BY InitOrderInv, NextOrderInv, PTL DEF PlannerSpec

\* The type invariant: in particular every graph the planner works on,
\* augmented or not, is one that Graph::connect() accepts.
THEOREM TypeCorrect == PlannerSpec => []PlannerTypeOK
<1>1. OrderInv => PlannerTypeOK
  BY DEF OrderInv
<1> QED
  BY <1>1, OrderInvariant, PTL

\* Both runs of subgraphs_in_order() respect the connections, whichever
\* candidate their pointer order makes them pick: upstream processes come
\* first, and no data connection lies inside a subgraph.
THEOREM InputsComeFirst == PlannerSpec => []InputsFirst
<1>1. OrderInv => InputsFirst
  BY DEF OrderInv
<1> QED
  BY <1>1, OrderInvariant, PTL

-----------------------------------------------------------------------------
(***************************************************************************)
(* Planning throws on the graphs that have a cycle and on no others: the   *)
(* asserts of the second run, of check_subgraph_connections() and of       *)
(* pick_runnable() never fire.                                             *)
(***************************************************************************)
\* What the first run leaves behind has no cycle, and it gets stuck only on
\* one.
FirstRun ==
  /\ AcyclicOn(source, ran)
  /\ phase \in {"order", "failed"}
  /\ phase = "failed" => ~Acyclic(source)

\* The second run works on the augmented graph, takes complete subgraphs only,
\* and the processes of the one that is emitted are in todo or order.
SecondRun ==
  /\ Acyclic(source) /\ BuffersAreNew(source) /\ IsOrder(source, split)
  /\ flat = Augment(source, split)
  /\ \A j \in DOMAIN subgraphs : CompleteSubgraph(flat, subgraphs[j])
  /\ phase # "failed"
  /\ (todo # {} \/ order # <<>>) =>
       emitted < Len(subgraphs) /\ Current = todo \cup ToSet(order)

SuccessInv ==
  /\ OrderInv
  /\ allowSplit => FirstRun
  /\ ~allowSplit => SecondRun

-----------------------------------------------------------------------------
\* Something can be taken from an acyclic graph in the first run ...
LEMMA FirstRunFindsOne ==
  ASSUME OrderInv, Acyclic(flat), toRun # {}, OnlyStreaming
  PROVE  Candidates # {}
<1>1. IsGraph(flat) /\ toRun = flat.procs \ ran
  BY DEF OrderInv, PlannerTypeOK
<1>2. toRun \in SUBSET flat.procs
  BY <1>1
<1>3. PICK p \in toRun : \A c \in InputConns(flat, p) : c.up \notin toRun
  BY <1>2 DEF Acyclic
<1>4. InputsIn(flat, p, ran)
  BY <1>1, <1>3 DEF InputsIn, InputConns, IsGraph
<1>5. p \in flat.streaming
  BY <1>4 DEF OnlyStreaming, RunnableNow, Runnable
<1>6. p \in RunnableStreaming(flat, ran, toRun)
  BY <1>4, <1>5, RunnableIsFound
<1> QED
  BY <1>6, SubgraphExists DEF Candidates

\* ... and a complete subgraph in the second: what is left of the first block
\* that has not run altogether.
LEMMA SecondRunFindsComplete ==
  ASSUME OrderInv, SecondRun, toRun # {}, OnlyStreaming
  PROVE  \E S \in Candidates : CompleteSubgraph(flat, S)
<1> DEFINE B(i) == Block(source, split, i)
           left == {i \in DOMAIN split : B(i) \cap toRun # {}}
<1>1. /\ IsGraph(source) /\ IsGraph(flat)
      /\ toRun = flat.procs \ ran /\ ran = UNION ToSet(subgraphs)
      /\ split \in Seq(SUBSET source.procs)
  BY DEF OrderInv, PlannerTypeOK
<1>2. DOMAIN split \subseteq Nat
  BY <1>1
<1>3. /\ IsOrder(source, split) /\ BuffersAreNew(source)
      /\ flat = Augment(source, split)
  BY DEF SecondRun
<1>4. Covers(source, split)
  BY <1>3 DEF IsOrder
<1>5. Acyclic(flat)
  BY <1>1, <1>3, <1>4, AugmentAcyclic DEF SecondRun
<1>6. left # {}
  BY <1>1, <1>3, BlocksCover
<1>7. PICK i \in left : \A k \in left : i <= k
  BY <1>2, <1>6, LeastNat
<1> DEFINE Q == B(i) \cap toRun
<1>8. CompleteSubgraph(flat, ran)
  <2> SUFFICES ASSUME NEW c \in flat.conns, c.stream
               PROVE  c.up \in ran <=> c.down \in ran
    BY DEF CompleteSubgraph
  <2>1. \A j \in DOMAIN subgraphs : c.up \in subgraphs[j] <=> c.down \in subgraphs[j]
    BY DEF SecondRun, CompleteSubgraph
  <2> QED
    BY <1>1, <2>1 DEF ToSet
<1>9. CompleteSubgraph(flat, B(i))
  BY <1>1, <1>3, BlocksComplete
<1>10. \A c \in flat.conns : c.up \in flat.procs /\ c.down \in flat.procs
                             /\ (c.stream => c.down \in flat.streaming)
  BY <1>1 DEF IsGraph
<1>11. CompleteSubgraph(flat, Q)
  BY <1>1, <1>8, <1>9, <1>10 DEF CompleteSubgraph
<1>12. ASSUME NEW c \in flat.conns, c.down \in Q, ~c.stream
       PROVE  c.up \in ran
  <2>1. PICK k \in DOMAIN split : k < i /\ c.up \in B(k)
    BY <1>1, <1>2, <1>3, <1>12, BlocksInOrder
  <2>2. k \notin left
    BY <1>2, <1>7, <2>1
  <2> QED
    BY <1>1, <1>10, <2>1, <2>2
<1>13. Q \subseteq flat.streaming
  <2> SUFFICES ASSUME NEW q \in Q, q \notin flat.streaming PROVE FALSE
    OBVIOUS
  <2>1. \A c \in InputConns(flat, q) : c.up \in ran
    BY <1>10, <1>12 DEF InputConns
  <2> QED
    BY <2>1 DEF OnlyStreaming, RunnableNow, Runnable, InputsIn
<1>14. Q \in SUBSET (toRun \cap flat.streaming) /\ Q # {}
  BY <1>7, <1>13
<1> HIDE DEF Q, left, B
<1> QED
  BY <1>1, <1>5, <1>11, <1>12, <1>14, CompleteCandidate DEF Candidates

\* The asserts of check_subgraph_connections() hold.
LEMMA ConnectionsAreOK ==
  ASSUME OrderInv, SecondRun
  PROVE  ConnectionsOK(flat, subgraphs)
<1>1. /\ subgraphs \in Seq(SUBSET flat.procs)
      /\ DOMAIN subgraphs = 1 .. Len(subgraphs) /\ Len(subgraphs) \in Nat
  BY DEF OrderInv, PlannerTypeOK
<1> SUFFICES ASSUME NEW i \in DOMAIN subgraphs, NEW c \in flat.conns,
                    c.up \in subgraphs[i]
             PROVE  c.stream <=> c.down \in subgraphs[i]
  BY DEF ConnectionsOK
<1>2. c.stream => c.down \in subgraphs[i]
  BY DEF SecondRun, CompleteSubgraph
<1>3. ASSUME ~c.stream, c.down \in subgraphs[i] PROVE FALSE
  <2>1. PICK k \in 1 .. i : c.up \in subgraphs[k] /\ k < i
    BY <1>3 DEF OrderInv, InputsFirst, InSubgraph
  <2>2. k \in DOMAIN subgraphs /\ k # i
    BY <1>1, <2>1
  <2> QED
    BY <2>1, <2>2 DEF OrderInv
<1> QED
  BY <1>2, <1>3

\* pick_runnable() finds a process as long as one is left.
LEMMA PickRunnableFinds ==
  ASSUME OrderInv, SecondRun, todo # {}
  PROVE  PickRunnable # {}
<1>1. /\ IsGraph(source) /\ IsGraph(flat) /\ todo \subseteq flat.streaming
      /\ emitted \in 0 .. Len(subgraphs)
      /\ subgraphs \in Seq(SUBSET flat.procs)
  BY DEF OrderInv, PlannerTypeOK
<1>2. Acyclic(flat)
  BY <1>1, AugmentAcyclic DEF SecondRun, IsOrder
<1>3. todo \in SUBSET flat.procs
  BY <1>1 DEF IsGraph
<1>4. PICK p \in todo : \A c \in InputConns(flat, p) : c.up \notin todo
  BY <1>2, <1>3 DEF Acyclic
<1>5. emitted < Len(subgraphs) /\ Current = todo \cup ToSet(order)
  BY DEF SecondRun
<1>6. emitted + 1 \in DOMAIN subgraphs
  BY <1>1, <1>5
<1>7. CompleteSubgraph(flat, Current)
  BY <1>6 DEF SecondRun, Current
<1>8. \A c \in InputConns(flat, p) : c.stream => c.up \in ToSet(order)
  BY <1>4, <1>5, <1>7 DEF CompleteSubgraph, InputConns
<1> QED
  BY <1>8 DEF PickRunnable

-----------------------------------------------------------------------------
\* A process or subgraph taken in the first run adds no cycle.
LEMMA TakeFirst ==
  ASSUME OrderInv, FirstRun, allowSplit, phase = "order",
         NEW S, Take(S), AcyclicOn(flat, S)
  PROVE  FirstRun'
<1>1. flat = source /\ ran = UNION ToSet(subgraphs) /\ IsGraph(flat)
  BY DEF OrderInv, PlannerTypeOK
<1>2. ASSUME NEW c \in flat.conns, c.down \in ran PROVE c.up \in ran
  <2>1. PICK j \in DOMAIN subgraphs : c.down \in subgraphs[j]
    BY <1>1, <1>2 DEF ToSet
  <2>2. PICK i \in 1 .. j : c.up \in subgraphs[i]
    BY <2>1 DEF OrderInv, InputsFirst, InSubgraph
  <2>3. i \in DOMAIN subgraphs
    BY <2>1, <2>2 DEF OrderInv, PlannerTypeOK
  <2> QED
    BY <1>1, <2>2, <2>3 DEF ToSet
<1>3. AcyclicOn(source, ran \cup S)
  BY <1>1, <1>2, AcyclicExtends DEF FirstRun
<1> QED
  BY <1>3 DEF FirstRun, Take

\* A complete subgraph taken in the second run keeps its invariant.
LEMMA TakeSecond ==
  ASSUME OrderInv, SecondRun, NEW S, Take(S), CompleteSubgraph(flat, S),
         phase = "order"
  PROVE  SecondRun'
<1>1. subgraphs \in Seq(SUBSET flat.procs) /\ todo = {} /\ order = <<>>
  BY DEF OrderInv, PlannerTypeOK
<1>2. UNCHANGED <<source, flat, split, phase, todo, order, emitted>>
      /\ subgraphs' = Append(subgraphs, S)
  BY DEF Take, emitVars
<1>3. \A j \in DOMAIN subgraphs' :
        IF j = Len(subgraphs) + 1 THEN subgraphs'[j] = S
        ELSE j \in DOMAIN subgraphs /\ subgraphs'[j] = subgraphs[j]
  BY <1>1, <1>2
<1>4. \A j \in DOMAIN subgraphs' : CompleteSubgraph(flat', subgraphs'[j])
  BY <1>2, <1>3 DEF SecondRun
<1> QED
  BY <1>1, <1>2, <1>4 DEF SecondRun

\* What is acyclic has acyclic parts.
LEMMA AcyclicParts ==
  ASSUME NEW g, NEW P, AcyclicOn(g, P), NEW Q \in SUBSET P
  PROVE  AcyclicOn(g, Q)
BY DEF AcyclicOn

\* The steps of subgraphs_in_order().
LEMMA OrderStepSucceeds ==
  ASSUME SuccessInv, PickFunctional \/ PickComplete \/ PickIncomplete \/ OrderingFails
  PROVE  SuccessInv'
<1>1. OrderInv'
  BY NextOrderInv DEF SuccessInv, PlannerNext
<1>2. OrderInv /\ phase = "order" /\ toRun # {} /\ allowSplit' = allowSplit
  BY DEF SuccessInv, PickFunctional, PickComplete, PickIncomplete, OrderingFails,
         Ordering, Take, orderVars
<1>3. /\ IsGraph(flat) /\ toRun = flat.procs \ ran
      /\ allowSplit \in BOOLEAN /\ (allowSplit => flat = source)
  BY <1>2 DEF OrderInv, PlannerTypeOK
<1>4. CASE PickFunctional
  <2>1. PICK p \in RunnableNow \ flat.streaming : Take({p})
    BY <1>4 DEF PickFunctional
  <2>2. p \in toRun /\ \A c \in InputConns(flat, p) : c.up \in ran
    BY <2>1 DEF RunnableNow, Runnable, InputsIn
  <2>3. AcyclicOn(flat, {p})
    BY <1>3, <2>2 DEF AcyclicOn
  <2>4. CompleteSubgraph(flat, {p})
    BY <1>3, <2>1 DEF CompleteSubgraph, IsGraph
  <2> QED
    BY <1>1, <1>2, <2>1, <2>3, <2>4, TakeFirst, TakeSecond DEF SuccessInv
<1>5. ASSUME NEW S \in Candidates, Take(S) PROVE AcyclicOn(flat, S)
  <2>1. S \subseteq RunnableStreaming(flat, ran, toRun)
    BY <1>5, StreamingSubgraphsClosed DEF Candidates
  <2>2. AcyclicOn(flat, RunnableStreaming(flat, ran, toRun))
    BY <1>3, RunnableStreamingAcyclic
  <2> QED
    BY <2>1, <2>2, AcyclicParts
<1>6. CASE PickComplete
  <2>1. PICK S \in Candidates : CompleteSubgraph(flat, S) /\ Take(S)
    BY <1>6 DEF PickComplete
  <2> QED
    BY <1>1, <1>2, <1>5, <2>1, TakeFirst, TakeSecond DEF SuccessInv
<1>7. CASE PickIncomplete
  <2>1. PICK S \in Candidates : Take(S)
    BY <1>7 DEF PickIncomplete
  <2>2. allowSplit
    BY <1>7 DEF PickIncomplete
  <2> QED
    BY <1>1, <1>2, <1>5, <2>1, <2>2, TakeFirst DEF SuccessInv
<1>8. CASE OrderingFails
  <2>1. OnlyStreaming /\ ~\E S \in Candidates : allowSplit \/ CompleteSubgraph(flat, S)
    BY <1>8 DEF OrderingFails
  <2>2. allowSplit
    BY <1>2, <2>1, SecondRunFindsComplete DEF SuccessInv
  <2>3. ~Acyclic(flat)
    BY <1>2, <2>1, <2>2, FirstRunFindsOne
  <2>4. phase' = "failed" /\ UNCHANGED <<source, ran>>
    BY <1>8 DEF OrderingFails, orderVars
  <2>5. FirstRun'
    BY <1>3, <2>2, <2>3, <2>4 DEF SuccessInv, FirstRun
  <2> QED
    BY <1>1, <1>2, <2>2, <2>5 DEF SuccessInv
<1> QED
  BY <1>4, <1>6, <1>7, <1>8

\* The start of the second run.
LEMMA AugmentStepSucceeds ==
  ASSUME SuccessInv, AugmentSubgraphs
  PROVE  SuccessInv'
<1>1. OrderInv'
  BY NextOrderInv DEF SuccessInv, PlannerNext
<1>2. /\ toRun = {} /\ allowSplit /\ phase = "order"
      /\ flat' = Augment(flat, subgraphs) /\ allowSplit' = FALSE
      /\ split' = subgraphs /\ subgraphs' = <<>>
      /\ source' = source /\ phase' = phase /\ todo' = todo /\ order' = order
  BY DEF AugmentSubgraphs, emitVars
<1>3. /\ flat = source /\ BuffersAreNew(source) /\ IsGraph(source)
      /\ toRun = flat.procs \ ran /\ ran = UNION ToSet(subgraphs) /\ ran \subseteq flat.procs
      /\ subgraphs \in Seq(SUBSET flat.procs)
      /\ todo = {} /\ order = <<>>
  BY <1>2 DEF SuccessInv, OrderInv, PlannerTypeOK
<1>4. DOMAIN subgraphs = 1 .. Len(subgraphs) /\ Len(subgraphs) \in Nat
  BY <1>3
<1>5. ran = source.procs
  BY <1>2, <1>3
<1>6. Acyclic(source)
  BY <1>2, <1>5 DEF SuccessInv, FirstRun, AcyclicOn, Acyclic
<1>7. Covers(source, subgraphs)
  BY <1>3, <1>5 DEF Covers, ToSet
<1>8. \A i, j \in DOMAIN subgraphs : i # j => subgraphs[i] \cap subgraphs[j] = {}
  BY DEF SuccessInv, OrderInv
<1>9. ASSUME NEW j \in DOMAIN subgraphs, NEW c \in source.conns, c.down \in subgraphs[j]
      PROVE  \E i \in DOMAIN subgraphs : /\ i <= j /\ c.up \in subgraphs[i]
                                         /\ ~c.stream => i < j
  <2>1. PICK i \in 1 .. j : c.up \in subgraphs[i] /\ (~c.stream => i < j)
    BY <1>3, <1>9 DEF SuccessInv, OrderInv, InputsFirst, InSubgraph
  <2> QED
    BY <1>4, <2>1
<1>10. IsOrder(source, subgraphs)
  BY <1>7, <1>8, <1>9 DEF IsOrder
<1>11. DOMAIN subgraphs' = {}
  BY <1>2
<1>12. SecondRun'
  BY <1>2, <1>3, <1>6, <1>10, <1>11 DEF SecondRun
<1> QED
  BY <1>1, <1>2, <1>12 DEF SuccessInv

\* The steps after the second run.
LEMMA EmitStepSucceeds ==
  ASSUME SuccessInv,
         \/ CheckSubgraphConnections \/ EmitFunctional \/ BeginStreaming
         \/ OrderStreaming \/ EndStreaming \/ EndPlan
  PROVE  SuccessInv'
<1>1. OrderInv'
  BY NextOrderInv DEF SuccessInv, PlannerNext
<1>2. UNCHANGED <<source, flat, allowSplit, subgraphs, split>>
  BY DEF CheckSubgraphConnections, EmitFunctional, BeginStreaming, OrderStreaming,
         EndStreaming, EndPlan, orderVars
<1>3. OrderInv /\ ~allowSplit /\ SecondRun
  BY DEF SuccessInv, FirstRun, CheckSubgraphConnections, EmitFunctional, BeginStreaming,
         OrderStreaming, EndStreaming, EndPlan, Emitting
<1>4. /\ order \in Seq(flat.streaming)
      /\ emitted \in 0 .. Len(subgraphs) /\ Len(subgraphs) \in Nat
  BY <1>3 DEF OrderInv, PlannerTypeOK, CheckSubgraphConnections, EmitFunctional,
       BeginStreaming, OrderStreaming, EndStreaming, EndPlan, emitVars, Emit
<1> DEFINE Parts == (todo # {} \/ order # <<>>) =>
             emitted < Len(subgraphs) /\ Current = todo \cup ToSet(order)
<1>5. Parts
  BY <1>3 DEF SecondRun
<1>6. phase' # "failed" /\ Parts'
  <2>1. CASE CheckSubgraphConnections
    BY <1>3, <1>5, <2>1, ConnectionsAreOK DEF CheckSubgraphConnections, emitVars, orderVars, Current
  <2>2. CASE EmitFunctional \/ EndStreaming
    BY <1>3, <2>2 DEF EmitFunctional, EndStreaming, Emit, SecondRun
  <2>3. CASE BeginStreaming
    <3>1. ToSet(order') = {}
      BY <2>3 DEF BeginStreaming, ToSet
    <3> QED
      BY <1>3, <2>3, <3>1 DEF BeginStreaming, SecondRun, Emitting, orderVars, Current
  <2>4. CASE OrderStreaming
    <3>1. PickRunnable # {}
      BY <1>3, <2>4, PickRunnableFinds DEF OrderStreaming
    <3>2. PICK p \in PickRunnable : todo' = todo \ {p} /\ order' = Append(order, p)
      BY <2>4, <3>1 DEF OrderStreaming
    <3>3. p \in todo
      BY <3>2 DEF PickRunnable
    <3>4. ToSet(order') = ToSet(order) \cup {p}
      BY <1>4, <3>2, ToSetAppend
    <3>5. phase' = phase /\ emitted' = emitted /\ Current' = Current
      BY <1>2, <2>4, <3>1 DEF OrderStreaming, Current
    <3> QED
      BY <1>2, <1>3, <1>5, <3>2, <3>3, <3>4, <3>5 DEF SecondRun
  <2>5. CASE EndPlan
    BY <1>3, <1>5, <2>5 DEF EndPlan, emitVars, orderVars, Current
  <2> QED
    BY <2>1, <2>2, <2>3, <2>4, <2>5
<1>7. SecondRun'
  BY <1>2, <1>3, <1>6 DEF SecondRun
<1> QED
  BY <1>1, <1>2, <1>3, <1>7 DEF SuccessInv

LEMMA InitSuccess == PlannerInit => SuccessInv
<1> SUFFICES ASSUME PlannerInit PROVE SuccessInv
  OBVIOUS
<1>1. allowSplit = TRUE /\ ran = {} /\ phase = "order"
  BY DEF PlannerInit
<1>2. AcyclicOn(source, {})
  BY DEF AcyclicOn
<1> QED
  BY <1>1, <1>2, InitOrderInv DEF SuccessInv, FirstRun

LEMMA NextSuccess == SuccessInv /\ [PlannerNext]_plannerVars => SuccessInv'
<1> SUFFICES ASSUME SuccessInv, [PlannerNext]_plannerVars
             PROVE  SuccessInv'
  OBVIOUS
<1>1. CASE PlannerNext
  BY <1>1, OrderStepSucceeds, AugmentStepSucceeds, EmitStepSucceeds DEF PlannerNext
<1>2. CASE UNCHANGED plannerVars
  <2>1. OrderInv'
    BY <1>2, NextOrderInv DEF SuccessInv
  <2>2. UNCHANGED <<source, flat, phase, allowSplit, ran, subgraphs, split, emitted, todo, order>>
    BY <1>2 DEF plannerVars, orderVars, emitVars
  <2> QED
    BY <2>1, <2>2 DEF SuccessInv, FirstRun, SecondRun, Current
<1> QED
  BY <1>1, <1>2

\* plan() throws on cyclic graphs only, and finishes its first run on acyclic
\* ones only: the buffers that augment_subgraphs() inserts are always enough.
THEOREM PlanningSucceeds == PlannerSpec => []FailsOnlyOnCycles
<1>1. SuccessInv => FailsOnlyOnCycles
  BY DEF SuccessInv, OrderInv, PlannerTypeOK, FirstRun, SecondRun, FailsOnlyOnCycles
<1> QED
  BY <1>1, InitSuccess, NextSuccess, PTL DEF PlannerSpec

-----------------------------------------------------------------------------
(***************************************************************************)
(* What plan() makes of the order it has found: the buffers it puts into   *)
(* the graph stand for the connections they replace, none is there without *)
(* need, and the finished plan respects every connection.                  *)
(***************************************************************************)
\* The three connections that take the place of c.
ToWriter(c)          == Connection(c.up, c.out, WriterFor(c), "in", TRUE)
ToReader(subs, c)    == Connection(WriterFor(c), "out", ReaderFor(subs, c), "in", FALSE)
FromReader(subs, c)  == Connection(ReaderFor(subs, c), "out", c.down, c.in, TRUE)

LEMMA AugmentedConnsAre ==
  ASSUME NEW g, NEW subs
  PROVE  /\ \A e \in Augment(g, subs).conns :
              \/ e \in g.conns \ Crossing(g, subs)
              \/ \E c \in Crossing(g, subs) :
                   e = ToWriter(c) \/ e = ToReader(subs, c) \/ e = FromReader(subs, c)
         /\ g.conns \ Crossing(g, subs) \subseteq Augment(g, subs).conns
         /\ \A c \in Crossing(g, subs) :
              {ToWriter(c), ToReader(subs, c), FromReader(subs, c)}
                \subseteq Augment(g, subs).conns
<1> DEFINE cut == Crossing(g, subs)
<1>1. Augment(g, subs).conns =
        (g.conns \ cut)
          \cup {ToWriter(c) : c \in cut}
          \cup {ToReader(subs, c) : c \in cut}
          \cup {FromReader(subs, c) : c \in cut}
  BY DEF Augment, WithBuffers, WriterFor, ReaderFor, ToWriter, ToReader, FromReader
<1> HIDE DEF cut
<1> QED
  BY <1>1 DEF cut

\* What is made for two connections is the same if it is made for the same
\* output port (and, for a reader, for the same subgraph).
LEMMA SameBuffers ==
  ASSUME NEW subs, NEW c, NEW d
  PROVE  /\ OutPort(c) = OutPort(d) => ToWriter(c) = ToWriter(d)
         /\ ReaderFor(subs, c) = ReaderFor(subs, d) =>
              ToReader(subs, c) = ToReader(subs, d) /\ OutPort(c) = OutPort(d)
         /\ ReaderFor(subs, c) = ReaderFor(subs, d) /\ InPort(c) = InPort(d) =>
              FromReader(subs, c) = FromReader(subs, d)
<1>1. OutPort(c) = OutPort(d) => c.up = d.up /\ c.out = d.out
  BY DEF OutPort
<1>2. InPort(c) = InPort(d) => c.down = d.down /\ c.in = d.in
  BY DEF InPort
<1>3. ReaderFor(subs, c) = ReaderFor(subs, d) => OutPort(c) = OutPort(d)
  BY DEF ReaderFor, Reader
<1> QED
  BY <1>1, <1>2, <1>3 DEF ToWriter, ToReader, FromReader, WriterFor

\* Each connection of the augmented graph is told by one of its ends: what
\* leads to a buffer, and what leads to an input port that was cut off.
LEMMA BufferConns ==
  ASSUME NEW g, IsGraph(g), BuffersAreNew(g), NEW subs, Covers(g, subs),
         NEW c \in Crossing(g, subs), NEW e \in Augment(g, subs).conns
  PROVE  /\ e.down = WriterFor(c) => e = ToWriter(c)
         /\ e.down = ReaderFor(subs, c) => e = ToReader(subs, c)
         /\ InPort(e) = InPort(c) => e = FromReader(subs, c)
         /\ e # c
<1> DEFINE cut == Crossing(g, subs)
<1>1. \/ e \in g.conns \ cut
      \/ \E d \in cut : e = ToWriter(d) \/ e = ToReader(subs, d) \/ e = FromReader(subs, d)
  BY AugmentedConnsAre
<1>2. \A d \in cut : /\ d \in g.conns /\ d.up \in g.procs /\ d.down \in g.procs
                     /\ WriterFor(d) \notin g.procs
                     /\ ReaderFor(subs, d) \notin g.procs
                     /\ WriterFor(d) # ReaderFor(subs, c)
                     /\ WriterFor(c) # ReaderFor(subs, d)
                     /\ WriterFor(c) = WriterFor(d) => OutPort(c) = OutPort(d)
  BY BuffersDiffer
<1>3. CASE e \in g.conns \ cut
  <2>1. e.up \in g.procs /\ e.down \in g.procs
    BY <1>3 DEF IsGraph
  <2>2. InPort(e) # InPort(c) /\ e # c
    BY <1>2, <1>3 DEF IsGraph
  <2> QED
    BY <1>2, <2>1, <2>2
<1>4. ASSUME NEW d \in cut, e = ToWriter(d)
      PROVE  /\ e.down = WriterFor(c) => e = ToWriter(c)
             /\ e.down # ReaderFor(subs, c) /\ e.down # c.down
  <2>1. e.down = WriterFor(d)
    BY <1>4 DEF ToWriter, Connection
  <2> QED
    BY <1>2, <1>4, <2>1, SameBuffers
<1>5. ASSUME NEW d \in cut, e = ToReader(subs, d)
      PROVE  /\ e.down = ReaderFor(subs, c) => e = ToReader(subs, c)
             /\ e.down # WriterFor(c) /\ e.down # c.down
  <2>1. e.down = ReaderFor(subs, d)
    BY <1>5 DEF ToReader, Connection
  <2> QED
    BY <1>2, <1>5, <2>1, SameBuffers
<1>6. ASSUME NEW d \in cut, e = FromReader(subs, d)
      PROVE  /\ e.down # WriterFor(c) /\ e.down # ReaderFor(subs, c)
             /\ InPort(e) = InPort(c) => e = FromReader(subs, c)
             /\ e # c
  <2>1. e.down = d.down /\ e.in = d.in /\ e.up = ReaderFor(subs, d)
    BY <1>6 DEF FromReader, Connection
  <2>2. InPort(e) = InPort(c) => d = c
    BY <1>2, <2>1 DEF IsGraph, InPort
  <2> QED
    BY <1>2, <1>6, <2>1, <2>2
<1>7. InPort(e) = InPort(c) => e.down = c.down
  BY DEF InPort
<1> QED
  BY <1>1, <1>3, <1>4, <1>5, <1>6, <1>7

\* The chain of three connections that goes through the buffers for c is the
\* only one between its ports.
LEMMA OneChain ==
  ASSUME NEW g, IsGraph(g), BuffersAreNew(g), NEW subs, Covers(g, subs),
         NEW c \in Crossing(g, subs),
         NEW t1 \in Augment(g, subs).conns, t1.stream,
         NEW t2 \in Augment(g, subs).conns, ~t2.stream,
         NEW t3 \in Augment(g, subs).conns, InPort(t3) = InPort(c)
  PROVE  t1.down = t2.up /\ t2.down = t3.up <=>
           t1 = ToWriter(c) /\ t2 = ToReader(subs, c) /\ t3 = FromReader(subs, c)
<1>1. t3 = FromReader(subs, c)
  BY BufferConns
<1>2. t3.up = ReaderFor(subs, c)
  BY <1>1 DEF FromReader, Connection
<1>3. /\ ToWriter(c).down = WriterFor(c) /\ ToReader(subs, c).up = WriterFor(c)
      /\ ToReader(subs, c).down = ReaderFor(subs, c)
  BY DEF ToWriter, ToReader, Connection
<1>4. t2.down = ReaderFor(subs, c) => t2 = ToReader(subs, c)
  BY BufferConns
<1>5. t1.down = WriterFor(c) => t1 = ToWriter(c)
  BY BufferConns
<1> QED
  BY <1>1, <1>2, <1>3, <1>4, <1>5

LEMMA AugmentBridges ==
  ASSUME NEW g, IsGraph(g), BuffersAreNew(g), NEW subs, Covers(g, subs),
         NEW c \in Crossing(g, subs)
  PROVE  LET conns == Augment(g, subs).conns
             From == {a \in conns : OutPort(a) = OutPort(c) /\ a.stream}
             Into == {d \in conns : InPort(d) = InPort(c) /\ d.stream}
             Data == {b \in conns : ~b.stream}
         IN  {t \in From \X Data \X Into : t[1].down = t[2].up /\ t[2].down = t[3].up}
               = {<<ToWriter(c), ToReader(subs, c), FromReader(subs, c)>>}
<1> DEFINE conns == Augment(g, subs).conns
           From == {a \in conns : OutPort(a) = OutPort(c) /\ a.stream}
           Into == {d \in conns : InPort(d) = InPort(c) /\ d.stream}
           Data == {b \in conns : ~b.stream}
           chain == <<ToWriter(c), ToReader(subs, c), FromReader(subs, c)>>
<1>1. ToWriter(c) \in From
  <2>1. ToWriter(c) \in conns
    BY AugmentedConnsAre
  <2>2. ToWriter(c).stream /\ OutPort(ToWriter(c)) = OutPort(c)
    BY DEF ToWriter, Connection, OutPort
  <2> QED
    BY <2>1, <2>2
<1>2. ToReader(subs, c) \in Data
  <2>1. ToReader(subs, c) \in conns
    BY AugmentedConnsAre
  <2>2. ~ToReader(subs, c).stream
    BY DEF ToReader, Connection
  <2> QED
    BY <2>1, <2>2
<1>3. FromReader(subs, c) \in Into
  <2>1. FromReader(subs, c) \in conns
    BY AugmentedConnsAre
  <2>2. FromReader(subs, c).stream /\ InPort(FromReader(subs, c)) = InPort(c)
    BY DEF FromReader, Connection, InPort
  <2> QED
    BY <2>1, <2>2
<1>4. ASSUME NEW t1 \in From, NEW t2 \in Data, NEW t3 \in Into
      PROVE  t1.down = t2.up /\ t2.down = t3.up <=> <<t1, t2, t3>> = chain
  <2>1. t1.down = t2.up /\ t2.down = t3.up <=>
           t1 = ToWriter(c) /\ t2 = ToReader(subs, c) /\ t3 = FromReader(subs, c)
    BY OneChain
  <2> QED
    BY <2>1
<1> HIDE DEF conns, From, Into, Data, chain
<1>5. chain \in From \X Data \X Into
  BY <1>1, <1>2, <1>3 DEF chain
<1>6. ASSUME NEW t \in From \X Data \X Into
      PROVE  t[1].down = t[2].up /\ t[2].down = t[3].up <=> t = chain
  <2>1. t[1] \in From /\ t[2] \in Data /\ t[3] \in Into /\ t = <<t[1], t[2], t[3]>>
    OBVIOUS
  <2> QED
    BY <2>1, <1>4
<1>7. {t \in From \X Data \X Into : t[1].down = t[2].up /\ t[2].down = t[3].up} = {chain}
  BY <1>5, <1>6
<1> QED
  BY <1>7 DEF conns, From, Into, Data, chain

\* augment_subgraphs() puts one writer and one reader in the place of each
\* stream connection between two subgraphs, and touches nothing else.
THEOREM BuffersAreBridges == PlannerSpec => []BuffersBridge
<1>1. SuccessInv => BuffersBridge
  <2> SUFFICES ASSUME SuccessInv, ~allowSplit
               PROVE  BuffersBridge
    BY DEF BuffersBridge
  <2> DEFINE cut == Crossing(source, split)
             Kept == {c \in source.conns : c \in flat.conns}
             From(c) == {a \in flat.conns : OutPort(a) = OutPort(c) /\ a.stream}
             Into(c) == {d \in flat.conns : InPort(d) = InPort(c) /\ d.stream}
             Data == {b \in flat.conns : ~b.stream}
             Chain(c) == {t \in From(c) \X Data \X Into(c) :
                            t[1].down = t[2].up /\ t[2].down = t[3].up}
             Bridge(c) == <<ToWriter(c), ToReader(split, c), FromReader(split, c)>>
  <2>1. /\ IsGraph(source) /\ BuffersAreNew(source) /\ Covers(source, split)
        /\ flat = Augment(source, split)
    BY DEF SuccessInv, OrderInv, PlannerTypeOK, SecondRun, IsOrder
  <2>2. \A c \in cut : c \in source.conns /\ c.stream /\ c \notin flat.conns
    <3> TAKE c \in cut
    <3>1. c \in source.conns /\ c.stream
      BY DEF Crossing
    <3> QED
      BY <2>1, <3>1, BufferConns
  <2>3. source.conns \ Kept = cut
    <3>1. source.conns \ cut \subseteq flat.conns
      BY <2>1, AugmentedConnsAre
    <3> QED
      BY <2>2, <3>1
  <2>4. \A c \in cut : Chain(c) = {Bridge(c)}
    BY <2>1, AugmentBridges
  <2> HIDE DEF Chain
  <2>5. \A c \in cut : c.stream /\ Cardinality(Chain(c)) = 1
    BY <2>2, <2>4, FS_Singleton
  <2>6. flat.conns = Kept \cup UNION {UNION {{t[1], t[2], t[3]} : t \in Chain(c)} : c \in cut}
    <3>1. \A c \in cut : UNION {{t[1], t[2], t[3]} : t \in Chain(c)} =
                           {ToWriter(c), ToReader(split, c), FromReader(split, c)}
      <4> TAKE c \in cut
      <4> DEFINE b == Bridge(c)
      <4>1. b[1] = ToWriter(c) /\ b[2] = ToReader(split, c) /\ b[3] = FromReader(split, c)
        OBVIOUS
      <4>2. Chain(c) = {b}
        BY <2>4
      <4> HIDE DEF b
      <4> QED
        BY <4>1, <4>2
    <3>2. \A e \in flat.conns :
            \/ e \in source.conns \ cut
            \/ \E c \in cut : e \in {ToWriter(c), ToReader(split, c), FromReader(split, c)}
      BY <2>1, AugmentedConnsAre
    <3>3. /\ source.conns \ cut \subseteq flat.conns
          /\ \A c \in cut : {ToWriter(c), ToReader(split, c), FromReader(split, c)}
                              \subseteq flat.conns
      BY <2>1, AugmentedConnsAre
    <3>4. Kept = source.conns \ cut
      BY <2>2, <2>3
    <3> DEFINE Parts(c) == UNION {{t[1], t[2], t[3]} : t \in Chain(c)}
               Three(c) == {ToWriter(c), ToReader(split, c), FromReader(split, c)}
    <3>5. \A c \in cut : Parts(c) = Three(c)
      BY <3>1
    <3>6. /\ \A e \in flat.conns : e \in Kept \/ \E c \in cut : e \in Three(c)
          /\ Kept \subseteq flat.conns /\ \A c \in cut : Three(c) \subseteq flat.conns
      BY <3>2, <3>3, <3>4
    <3> HIDE DEF cut, Kept, Parts, Three
    <3>7. flat.conns = Kept \cup UNION {Parts(c) : c \in cut}
      BY <3>5, <3>6
    <3> QED
      BY <3>7 DEF Parts
  <2>7. ASSUME NEW c \in cut, NEW d \in cut, Chain(c) \cap Chain(d) # {} PROVE c = d
    <3>1. FromReader(split, c) = FromReader(split, d)
      BY <2>4, <2>7
    <3>2. c.down = d.down /\ c.in = d.in
      BY <3>1 DEF FromReader, Connection
    <3> QED
      BY <2>1, <2>2, <3>2 DEF IsGraph, InPort
  <2> HIDE DEF cut, Kept
  <2> DEFINE gone == source.conns \ Kept
  <2>8. /\ \A c \in gone : c.stream /\ Cardinality(Chain(c)) = 1
        /\ flat.conns = Kept \cup
             UNION {UNION {{t[1], t[2], t[3]} : t \in Chain(c)} : c \in gone}
        /\ \A c, d \in gone : Chain(c) \cap Chain(d) # {} => c = d
    <3>1. gone = cut
      BY <2>3
    <3> HIDE DEF gone
    <3> QED
      BY <3>1, <2>5, <2>6, <2>7
  <2> QED
    BY <2>8 DEF BuffersBridge, Chain, Kept
<1> QED
  BY <1>1, InitSuccess, NextSuccess, PTL DEF PlannerSpec

-----------------------------------------------------------------------------
\* The inductive invariant behind NoNeedlessBuffers: a graph that can be
\* ordered without splitting is ordered without splitting.
NothingSplit ==
  Acyclic(source) /\ NeedsNoBuffers(source) =>
    /\ allowSplit => \A j \in DOMAIN subgraphs : CompleteSubgraph(source, subgraphs[j])
    /\ ~allowSplit => flat = source

\* A stream connection between subgraphs would leave one that is complete.
LEMMA CompleteNeedNoBuffers ==
  ASSUME NEW g \in Graphs, NEW subs, IsOrder(g, subs),
         \A j \in DOMAIN subs : CompleteSubgraph(g, subs[j])
  PROVE  Augment(g, subs) = g
<1>0. /\ g = [procs |-> g.procs, streaming |-> g.streaming, conns |-> g.conns]
      /\ IsGraph(g)
  BY GraphsAssumption
<1>1. ASSUME NEW c \in g.conns, c.stream
      PROVE  SubgraphOf(subs, c.up) = SubgraphOf(subs, c.down)
  <2>1. c.up \in g.procs
    BY <1>0 DEF IsGraph
  <2>2. PICK i \in DOMAIN subs : c.up \in subs[i]
    BY <2>1, SubgraphOfIsUnique
  <2>3. c.down \in subs[i]
    BY <1>1, <2>2 DEF CompleteSubgraph
  <2> QED
    BY <2>2, <2>3, SubgraphOfIsUnique
<1>2. Crossing(g, subs) = {}
  BY <1>1 DEF Crossing
<1>3. Augment(g, subs) = [procs |-> g.procs, streaming |-> g.streaming, conns |-> g.conns]
  BY <1>2 DEF Augment, WithBuffers
<1> QED
  BY <1>0, <1>3

\* As long as nothing was split, there is something that need not be.
LEMMA CompleteIsThere ==
  ASSUME OrderInv, allowSplit, phase = "order", toRun # {}, OnlyStreaming,
         Acyclic(source), NeedsNoBuffers(source),
         \A j \in DOMAIN subgraphs : CompleteSubgraph(source, subgraphs[j])
  PROVE  \E S \in Candidates : CompleteSubgraph(flat, S)
<1>1. /\ flat = source /\ IsGraph(source)
      /\ toRun = source.procs \ ran /\ ran = UNION ToSet(subgraphs)
  BY DEF OrderInv, PlannerTypeOK
<1>2. \A c \in source.conns : c.up \in source.procs /\ c.down \in source.procs
  BY <1>1 DEF IsGraph
<1>3. CompleteSubgraph(source, toRun)
  <2> SUFFICES ASSUME NEW c \in source.conns, c.stream
               PROVE  c.up \in ran <=> c.down \in ran
    BY <1>1, <1>2 DEF CompleteSubgraph
  <2>1. \A j \in DOMAIN subgraphs : c.up \in subgraphs[j] <=> c.down \in subgraphs[j]
    BY DEF CompleteSubgraph
  <2> QED
    BY <1>1, <2>1 DEF ToSet
<1>4. toRun \in (SUBSET source.procs) \ {{}}
  BY <1>1
<1>5. PICK T \in (SUBSET toRun) \ {{}} :
        /\ CompleteSubgraph(source, T)
        /\ \A c \in source.conns : c.down \in T /\ ~c.stream => c.up \notin toRun
  BY <1>3, <1>4 DEF NeedsNoBuffers
<1>6. \A c \in source.conns : c.down \in T /\ ~c.stream => c.up \in ran
  BY <1>1, <1>2, <1>5
<1>7. T \subseteq source.streaming
  <2> SUFFICES ASSUME NEW p \in T, p \notin source.streaming PROVE FALSE
    OBVIOUS
  <2>1. \A c \in InputConns(source, p) : c.up \in ran
    BY <1>1, <1>6 DEF InputConns, IsGraph
  <2> QED
    BY <1>1, <1>5, <2>1 DEF OnlyStreaming, RunnableNow, Runnable, InputsIn
<1>8. T \in SUBSET (toRun \cap source.streaming) /\ T # {}
  BY <1>5, <1>7
<1> QED
  BY <1>1, <1>5, <1>6, <1>8, CompleteCandidate DEF Candidates

\* A complete subgraph taken keeps NothingSplit.
LEMMA TakeSplitsNothing ==
  ASSUME OrderInv, NothingSplit, NEW S, Take(S),
         allowSplit /\ Acyclic(source) /\ NeedsNoBuffers(source) =>
           CompleteSubgraph(source, S)
  PROVE  NothingSplit'
<1>1. subgraphs \in Seq(SUBSET flat.procs)
  BY DEF OrderInv, PlannerTypeOK
<1>2. UNCHANGED <<source, flat, allowSplit>> /\ subgraphs' = Append(subgraphs, S)
  BY DEF Take
<1>3. \A j \in DOMAIN subgraphs' :
        \/ subgraphs'[j] = S
        \/ j \in DOMAIN subgraphs /\ subgraphs'[j] = subgraphs[j]
  BY <1>1, <1>2
<1> QED
  BY <1>2, <1>3 DEF NothingSplit

LEMMA NextSplitsNothing ==
  SuccessInv /\ source \in Graphs /\ NothingSplit /\ [PlannerNext]_plannerVars
    => NothingSplit'
<1> SUFFICES ASSUME SuccessInv, source \in Graphs, NothingSplit, [PlannerNext]_plannerVars
             PROVE  NothingSplit'
  OBVIOUS
<1>1. OrderInv
  BY DEF SuccessInv
<1>2. IsGraph(flat) /\ IsGraph(source) /\ (allowSplit => flat = source)
  BY <1>1 DEF OrderInv, PlannerTypeOK
<1>3. CASE PickFunctional
  <2>1. PICK p \in RunnableNow \ flat.streaming : Take({p})
    BY <1>3 DEF PickFunctional
  <2>2. CompleteSubgraph(flat, {p})
    BY <1>2, <2>1 DEF CompleteSubgraph, IsGraph
  <2> QED
    BY <1>1, <1>2, <2>1, <2>2, TakeSplitsNothing
<1>4. CASE PickComplete
  <2>1. PICK S \in Candidates : CompleteSubgraph(flat, S) /\ Take(S)
    BY <1>4 DEF PickComplete
  <2> QED
    BY <1>1, <1>2, <2>1, TakeSplitsNothing
<1>5. CASE PickIncomplete
  <2>1. PICK S \in Candidates : Take(S)
    BY <1>5 DEF PickIncomplete
  <2>2. ~(Acyclic(source) /\ NeedsNoBuffers(source))
    BY <1>1, <1>5, CompleteIsThere DEF PickIncomplete, Ordering, NothingSplit
  <2> QED
    BY <1>1, <2>1, <2>2, TakeSplitsNothing
<1>6. CASE AugmentSubgraphs
  <2>1. SuccessInv'
    BY <1>6, AugmentStepSucceeds
  <2>2. /\ allowSplit /\ flat = source /\ ~allowSplit'
        /\ flat' = Augment(source, subgraphs) /\ source' = source /\ split' = subgraphs
    BY <1>2, <1>6 DEF AugmentSubgraphs
  <2>3. IsOrder(source, subgraphs)
    BY <2>1, <2>2 DEF SuccessInv, SecondRun
  <2>4. ASSUME Acyclic(source), NeedsNoBuffers(source) PROVE flat' = source
    <3>1. \A j \in DOMAIN subgraphs : CompleteSubgraph(source, subgraphs[j])
      BY <2>2, <2>4 DEF NothingSplit
    <3> QED
      BY <2>2, <2>3, <3>1, CompleteNeedNoBuffers
  <2> QED
    BY <2>2, <2>4 DEF NothingSplit
<1>7. CASE UNCHANGED <<source, flat, allowSplit, subgraphs>>
  BY <1>7 DEF NothingSplit
<1>8. \/ PickFunctional \/ PickComplete \/ PickIncomplete \/ AugmentSubgraphs
      \/ UNCHANGED <<source, flat, allowSplit, subgraphs>>
  BY DEF PlannerNext, plannerVars, orderVars, OrderingFails, CheckSubgraphConnections,
         EmitFunctional, BeginStreaming, OrderStreaming, EndStreaming, EndPlan
<1> QED
  BY <1>3, <1>4, <1>5, <1>6, <1>7, <1>8

\* plan() never changes the graph it was given.
LEMMA SourceStays ==
  ASSUME [PlannerNext]_plannerVars
  PROVE  source' = source
BY DEF PlannerNext, plannerVars, PickFunctional, PickComplete, PickIncomplete, Take,
       OrderingFails, AugmentSubgraphs, CheckSubgraphConnections, EmitFunctional,
       BeginStreaming, OrderStreaming, EndStreaming, EndPlan

\* Buffers are inserted only where docs/framework.rst says they are needed.
THEOREM BuffersAreNeeded == PlannerSpec => []NoNeedlessBuffers
<1> DEFINE Inv == SuccessInv /\ source \in Graphs /\ NothingSplit
<1>1. PlannerInit => Inv
  <2> SUFFICES ASSUME PlannerInit PROVE Inv
    OBVIOUS
  <2>1. source \in Graphs /\ DOMAIN subgraphs = {} /\ allowSplit
    BY DEF PlannerInit
  <2> QED
    BY <2>1, InitSuccess DEF NothingSplit
<1>2. Inv /\ [PlannerNext]_plannerVars => Inv'
  BY NextSuccess, NextSplitsNothing, SourceStays
<1>3. Inv => NoNeedlessBuffers
  BY DEF SuccessInv, SecondRun, NothingSplit, NoNeedlessBuffers
<1> QED
  BY <1>1, <1>2, <1>3, PTL DEF PlannerSpec

-----------------------------------------------------------------------------
(***************************************************************************)
(* The steps.                                                              *)
(***************************************************************************)

\* What the steps of a plan for g may be.
IsStep(g, s) ==
  \/ \E p \in g.procs \ g.streaming : s = ExecFunctional(p)
  \/ \E ps \in Seq(g.streaming) : ps # <<>> /\ s = ExecStreaming(ps)
  \/ \E p \in g.procs : \E o \in DataOutPorts(g, p) :
       /\ s.kind = "copy" /\ s.from = o
       /\ s.to \in Seq(ConnectedPorts(g, o)) /\ ToSet(s.to) = ConnectedPorts(g, o)

\* pl is a sequence of steps that call the processes in done once each, in an
\* order that respects the connections of g, and copy every data output of
\* theirs once, after it was set and before it is used.
PlanFor(g, done, pl) ==
  /\ pl \in Seq(ToSet(pl))
  /\ \A n \in DOMAIN pl : IsStep(g, pl[n])
  /\ \A p : p \in done <=> CalledAt(pl, p) # {}
  /\ \A p : \A a, b \in CalledAt(pl, p) : a = b
  /\ \A c \in g.conns : \A u \in CalledAt(pl, c.up), d \in CalledAt(pl, c.down) :
       c.stream => u[1] = d[1] /\ u[2] < d[2]
  /\ \A c \in g.conns : c.stream => (c.up \in done <=> c.down \in done)
  /\ \A c \in g.conns : ~c.stream =>
       /\ c.down \in done => c.up \in done
       /\ \A u \in CalledAt(pl, c.up) : \E n \in DOMAIN pl : u[1] < n /\ CopiesAt(pl, c, n)
       /\ \A d \in CalledAt(pl, c.down) : \A n \in DOMAIN pl : CopiesAt(pl, c, n) => n < d[1]
  /\ \A n \in DOMAIN pl : pl[n].kind = "copy" =>
       \E u \in CalledAt(pl, pl[n].from[1]) : u[1] < n
  /\ \A n, m \in DOMAIN pl :
       pl[n].kind = "copy" /\ pl[m].kind = "copy" /\ pl[n].from = pl[m].from => n = m

\* The copies that follow the step for S.
CopiesFor(g, S, D) ==
  /\ D \in Seq(ToSet(D))
  /\ \A k \in DOMAIN D : /\ IsStep(g, D[k]) /\ D[k].kind = "copy"
                         /\ \E p \in S : D[k].from \in DataOutPorts(g, p)
  /\ \A p \in S : \A o \in DataOutPorts(g, p) : \E k \in DOMAIN D : D[k].from = o
  /\ \A k, l \in DOMAIN D : D[k].from = D[l].from => k = l

\* What a sequence looks like to which an element and another sequence are
\* appended.
LEMMA Extended ==
  ASSUME NEW s, s \in Seq(ToSet(s)), NEW e, NEW t, t \in Seq(ToSet(t))
  PROVE  LET u == Append(s, e) \o t
         IN  /\ u \in Seq(ToSet(u))
             /\ Len(s) \in Nat /\ Len(t) \in Nat
             /\ DOMAIN s = 1 .. Len(s) /\ DOMAIN t = 1 .. Len(t)
             /\ DOMAIN u = 1 .. (Len(s) + 1 + Len(t))
             /\ \A n \in DOMAIN s : u[n] = s[n]
             /\ u[Len(s) + 1] = e
             /\ \A k \in DOMAIN t : u[Len(s) + 1 + k] = t[k]
<1> DEFINE T == ToSet(s) \cup {e} \cup ToSet(t)
           a == Append(s, e)
           u == a \o t
<1>1. /\ s \in Seq(T) /\ t \in Seq(T) /\ e \in T
      /\ Len(s) \in Nat /\ Len(t) \in Nat
      /\ DOMAIN s = 1 .. Len(s) /\ DOMAIN t = 1 .. Len(t)
  BY SeqMonotonic
<1> HIDE DEF T
<1>2. /\ a \in Seq(T) /\ Len(a) = Len(s) + 1
      /\ \A n \in 1 .. Len(s) : a[n] = s[n]
      /\ a[Len(s) + 1] = e
  BY <1>1, AppendProperties
<1> HIDE DEF a
<1>3. /\ u \in Seq(T) /\ Len(u) = Len(a) + Len(t)
      /\ \A i \in 1 .. Len(a) + Len(t) : u[i] = IF i <= Len(a) THEN a[i] ELSE t[i - Len(a)]
  BY <1>1, <1>2, ConcatProperties
<1>4. u \in Seq(ToSet(u)) /\ DOMAIN u = 1 .. Len(u)
  BY <1>3, SeqOfItsElements, LenProperties
<1> HIDE DEF u
<1>5. \A n \in DOMAIN s : u[n] = s[n]
  BY <1>1, <1>2, <1>3
<1>6. u[Len(s) + 1] = e
  BY <1>1, <1>2, <1>3
<1>7. \A k \in DOMAIN t : u[Len(s) + 1 + k] = t[k]
  BY <1>1, <1>2, <1>3
<1> QED
  BY <1>1, <1>2, <1>3, <1>4, <1>5, <1>6, <1>7 DEF u, a

LEMMA CalledAtIs ==
  ASSUME NEW pl, NEW p
  PROVE  \A a : a \in CalledAt(pl, p) <=>
           \E n \in DOMAIN pl : \E k \in DOMAIN Calls(pl[n]) :
             a = <<n, k>> /\ Calls(pl[n])[k] = p
BY DEF CalledAt

LEMMA DataOutPortOwner ==
  ASSUME NEW g, NEW p, NEW o \in DataOutPorts(g, p)
  PROVE  o[1] = p
BY DEF DataOutPorts, OutputConns, OutPort

\* A copy reaches whatever is connected to the port.
LEMMA CopyStepCopies ==
  ASSUME NEW g, NEW s, IsStep(g, s), s.kind = "copy"
  PROVE  /\ ToSet(s.to) = ConnectedPorts(g, s.from)
         /\ \A c \in g.conns : OutPort(c) = s.from => InPort(c) \in ToSet(s.to)
<1>1. \A p : ExecFunctional(p).kind # "copy"
  BY DEF ExecFunctional
<1>2. \A ps : ExecStreaming(ps).kind # "copy"
  BY DEF ExecStreaming
<1>3. ToSet(s.to) = ConnectedPorts(g, s.from)
  BY <1>1, <1>2 DEF IsStep
<1> QED
  BY <1>3 DEF ConnectedPorts

\* A step for S and the copies that follow it extend a plan for what was there
\* before S to one for S as well.
LEMMA StepExtends ==
  ASSUME NEW g, IsGraph(g), NEW done, NEW pl, PlanFor(g, done, pl),
         NEW S \in SUBSET g.procs, S \cap done = {}, CompleteSubgraph(g, S),
         \A c \in g.conns : ~c.stream /\ c.down \in S => c.up \in done,
         NEW s, IsStep(g, s), s.kind # "copy", ToSet(Calls(s)) = S,
         \A i, j \in DOMAIN Calls(s) : Calls(s)[i] = Calls(s)[j] => i = j,
         \A c \in g.conns : c.stream =>
           \A i, j \in DOMAIN Calls(s) : Calls(s)[i] = c.up /\ Calls(s)[j] = c.down => i < j,
         NEW D, CopiesFor(g, S, D)
  PROVE  PlanFor(g, done \cup S, Append(pl, s) \o D)
<1> DEFINE L == Len(pl)
           new == Append(pl, s) \o D
           cs == Calls(s)
<1>1. /\ new \in Seq(ToSet(new))
      /\ L \in Nat /\ Len(D) \in Nat
      /\ DOMAIN pl = 1 .. L /\ DOMAIN D = 1 .. Len(D)
      /\ DOMAIN new = 1 .. (L + 1 + Len(D))
      /\ \A n \in DOMAIN pl : new[n] = pl[n]
      /\ new[L + 1] = s
      /\ \A k \in DOMAIN D : new[L + 1 + k] = D[k]
  BY Extended DEF PlanFor, CopiesFor
<1> HIDE DEF new, L
<1>2. \A n \in DOMAIN new :
        \/ n \in DOMAIN pl /\ new[n] = pl[n] /\ n <= L
        \/ n = L + 1 /\ new[n] = s
        \/ n > L + 1 /\ n - (L + 1) \in DOMAIN D /\ new[n] = D[n - (L + 1)]
  <2> TAKE n \in DOMAIN new
  <2>1. CASE n > L + 1
    <3>1. n - (L + 1) \in DOMAIN D /\ n = L + 1 + (n - (L + 1))
      BY <1>1, <2>1
    <3> QED
      BY <1>1, <2>1, <3>1
  <2> QED
    BY <1>1, <2>1
<1>3. \A k \in DOMAIN D : D[k].kind = "copy" /\ Calls(D[k]) = <<>>
  BY DEF CopiesFor, Calls
<1>4. ASSUME NEW p, NEW a
      PROVE  a \in CalledAt(new, p) <=>
               \/ a \in CalledAt(pl, p)
               \/ \E k \in DOMAIN cs : a = <<L + 1, k>> /\ cs[k] = p
  <2> HIDE DEF cs
  <2>1. ASSUME a \in CalledAt(new, p)
        PROVE  a \in CalledAt(pl, p) \/ \E k \in DOMAIN cs : a = <<L + 1, k>> /\ cs[k] = p
    <3>0. PICK n \in DOMAIN new : \E k \in DOMAIN Calls(new[n]) :
                 a = <<n, k>> /\ Calls(new[n])[k] = p
      BY <2>1, CalledAtIs
    <3>1. PICK k \in DOMAIN Calls(new[n]) : a = <<n, k>> /\ Calls(new[n])[k] = p
      BY <3>0
    <3>2. CASE n \in DOMAIN pl /\ new[n] = pl[n]
      BY <3>1, <3>2, CalledAtIs
    <3>3. CASE n = L + 1 /\ new[n] = s
      BY <3>1, <3>3 DEF cs
    <3>4. CASE n - (L + 1) \in DOMAIN D /\ new[n] = D[n - (L + 1)]
      BY <1>3, <3>1, <3>4
    <3> QED
      BY <1>2, <3>2, <3>3, <3>4
  <2>2. ASSUME a \in CalledAt(pl, p) PROVE a \in CalledAt(new, p)
    <3>0. PICK n \in DOMAIN pl : \E k \in DOMAIN Calls(pl[n]) :
                 a = <<n, k>> /\ Calls(pl[n])[k] = p
      BY <2>2, CalledAtIs
    <3>1. PICK k \in DOMAIN Calls(pl[n]) : a = <<n, k>> /\ Calls(pl[n])[k] = p
      BY <3>0
    <3>2. n \in DOMAIN new /\ new[n] = pl[n]
      BY <1>1
    <3> QED
      BY <3>1, <3>2, CalledAtIs
  <2>3. ASSUME NEW k \in DOMAIN cs, a = <<L + 1, k>>, cs[k] = p PROVE a \in CalledAt(new, p)
    <3>1. L + 1 \in DOMAIN new
      BY <1>1
    <3> QED
      BY <1>1, <2>3, <3>1, CalledAtIs DEF cs
  <2> QED
    BY <2>1, <2>2, <2>3
<1>5. \A p : \A a \in CalledAt(pl, p) : p \in done /\ a[1] \in 1 .. L
  <2> TAKE p
  <2> TAKE a \in CalledAt(pl, p)
  <2>1. p \in done
    BY DEF PlanFor
  <2>2. PICK n \in DOMAIN pl : \E k : a = <<n, k>>
    BY CalledAtIs
  <2> QED
    BY <1>1, <2>1, <2>2
<1>6. \A k \in DOMAIN cs : cs[k] \in S
  BY DEF ToSet
<1>7. \A p \in S : \E k \in DOMAIN cs : cs[k] = p
  BY DEF ToSet
<1>8. \A k \in DOMAIN D : D[k].from[1] \in S /\ D[k].from[1] \notin done
  <2> TAKE k \in DOMAIN D
  <2>1. PICK p \in S : D[k].from \in DataOutPorts(g, p)
    BY DEF CopiesFor
  <2> QED
    BY <2>1, DataOutPortOwner
<1>9. \A n \in DOMAIN pl : pl[n].kind = "copy" => pl[n].from[1] \in done
  BY <1>5 DEF PlanFor
<1>10. \A c \in g.conns : \A n \in DOMAIN new :
         CopiesAt(new, c, n) =>
           \/ n \in 1 .. L /\ n \in DOMAIN pl /\ CopiesAt(pl, c, n)
           \/ c.up \in S
  <2> SUFFICES ASSUME NEW c \in g.conns, NEW n \in DOMAIN new, CopiesAt(new, c, n)
               PROVE  \/ n \in 1 .. L /\ n \in DOMAIN pl /\ CopiesAt(pl, c, n)
                      \/ c.up \in S
    OBVIOUS
  <2>1. new[n].kind = "copy" /\ new[n].from = OutPort(c) /\ new[n].from[1] = c.up
    BY DEF CopiesAt, OutPort
  <2> QED
    BY <1>1, <1>2, <1>8, <2>1 DEF CopiesAt
<1>11. \A n \in DOMAIN new : IsStep(g, new[n])
  BY <1>2 DEF PlanFor, CopiesFor
<1>12. \A p : p \in done \cup S <=> CalledAt(new, p) # {}
  <2> TAKE p
  <2>1. p \in done <=> \E a : a \in CalledAt(pl, p)
    BY DEF PlanFor
  <2>2. p \in S <=> \E a : \E k \in DOMAIN cs : a = <<L + 1, k>> /\ cs[k] = p
    <3> HIDE DEF cs
    <3>1. ASSUME p \in S
          PROVE  \E a : \E k \in DOMAIN cs : a = <<L + 1, k>> /\ cs[k] = p
      <4>1. PICK k \in DOMAIN cs : cs[k] = p
        BY <1>7, <3>1
      <4> WITNESS <<L + 1, k>>
      <4> QED
        BY <4>1
    <3>2. ASSUME NEW k \in DOMAIN cs, cs[k] = p PROVE p \in S
      BY <1>6, <3>2
    <3> QED
      BY <3>1, <3>2
  <2> QED
    BY <1>4, <2>1, <2>2
<1>13. ASSUME NEW p, NEW a \in CalledAt(new, p), NEW b \in CalledAt(new, p)
       PROVE  a = b
  <2>1. CASE a \in CalledAt(pl, p) /\ b \in CalledAt(pl, p)
    BY <2>1 DEF PlanFor
  <2>2. CASE p \in S
    <3>1. p \notin done
      BY <2>2
    <3> QED
      BY <1>4, <1>5, <3>1
  <2> QED
    BY <1>4, <1>6, <2>1, <2>2
<1>14. ASSUME NEW c \in g.conns, c.stream,
              NEW u \in CalledAt(new, c.up), NEW d \in CalledAt(new, c.down)
       PROVE  u[1] = d[1] /\ u[2] < d[2]
  <2>1. c.up \in S <=> c.down \in S
    BY <1>14 DEF CompleteSubgraph
  <2>2. CASE c.up \in S
    <3>1. PICK i \in DOMAIN cs : u = <<L + 1, i>> /\ cs[i] = c.up
      BY <1>4, <1>5, <2>2
    <3>2. PICK j \in DOMAIN cs : d = <<L + 1, j>> /\ cs[j] = c.down
      BY <1>4, <1>5, <2>1, <2>2
    <3> QED
      BY <1>14, <3>1, <3>2
  <2>3. CASE c.up \notin S
    <3>1. u \in CalledAt(pl, c.up) /\ d \in CalledAt(pl, c.down)
      BY <1>4, <1>6, <2>1, <2>3
    <3> QED
      BY <1>14, <3>1 DEF PlanFor
  <2> QED
    BY <2>2, <2>3
<1>15. \A c \in g.conns : c.stream => (c.up \in done \cup S <=> c.down \in done \cup S)
  BY DEF CompleteSubgraph, PlanFor
<1>16. ASSUME NEW c \in g.conns, ~c.stream
       PROVE  /\ c.down \in done \cup S => c.up \in done
              /\ \A u \in CalledAt(new, c.up) :
                   \E n \in DOMAIN new : u[1] < n /\ CopiesAt(new, c, n)
              /\ \A d \in CalledAt(new, c.down) :
                   \A n \in DOMAIN new : CopiesAt(new, c, n) => n < d[1]
  <2>1. c.down \in done \cup S => c.up \in done
    BY <1>16 DEF PlanFor
  <2>2. ASSUME NEW u \in CalledAt(pl, c.up)
        PROVE  \E n \in DOMAIN new : u[1] < n /\ CopiesAt(new, c, n)
    <3>1. PICK n \in DOMAIN pl : u[1] < n /\ CopiesAt(pl, c, n)
      BY <1>16 DEF PlanFor
    <3>2. n \in DOMAIN new /\ CopiesAt(new, c, n)
      BY <1>1, <3>1 DEF CopiesAt
    <3> QED
      BY <3>1, <3>2
  <2>3. ASSUME NEW i \in DOMAIN cs, cs[i] = c.up
        PROVE  \E n \in DOMAIN new : L + 1 < n /\ CopiesAt(new, c, n)
    <3>1. OutPort(c) \in DataOutPorts(g, c.up)
      BY <1>16 DEF DataOutPorts, OutputConns
    <3>2. PICK k \in DOMAIN D : D[k].from = OutPort(c)
      BY <1>6, <2>3, <3>1 DEF CopiesFor
    <3>3. IsStep(g, D[k]) /\ D[k].kind = "copy"
      BY DEF CopiesFor
    <3>4. InPort(c) \in ToSet(D[k].to)
      BY <3>2, <3>3, CopyStepCopies
    <3>5. L + 1 + k \in DOMAIN new /\ L + 1 < L + 1 + k /\ new[L + 1 + k] = D[k]
      BY <1>1
    <3> QED
      BY <3>2, <3>3, <3>4, <3>5 DEF CopiesAt
  <2>4. \A u \in CalledAt(new, c.up) :
          \E n \in DOMAIN new : u[1] < n /\ CopiesAt(new, c, n)
    BY <1>4, <2>2, <2>3
  <2>5. ASSUME NEW d \in CalledAt(new, c.down), NEW n \in DOMAIN new, CopiesAt(new, c, n)
        PROVE  n < d[1]
    <3>1. c.up \notin S
      BY <1>12, <2>1
    <3>2. n \in 1 .. L /\ n \in DOMAIN pl /\ CopiesAt(pl, c, n)
      BY <1>10, <2>5, <3>1
    <3>3. CASE d \in CalledAt(pl, c.down)
      BY <1>16, <3>2, <3>3 DEF PlanFor
    <3>4. CASE d[1] = L + 1
      BY <1>1, <3>2, <3>4
    <3> QED
      BY <1>4, <3>3, <3>4
  <2> QED
    BY <2>1, <2>4, <2>5
<1>17. ASSUME NEW n \in DOMAIN new, new[n].kind = "copy"
       PROVE  \E u \in CalledAt(new, new[n].from[1]) : u[1] < n
  <2>1. CASE n \in DOMAIN pl /\ new[n] = pl[n]
    <3>1. PICK u \in CalledAt(pl, pl[n].from[1]) : u[1] < n
      BY <1>17, <2>1 DEF PlanFor
    <3> QED
      BY <1>4, <2>1, <3>1
  <2>2. CASE n > L + 1 /\ n - (L + 1) \in DOMAIN D /\ new[n] = D[n - (L + 1)]
    <3>1. PICK k \in DOMAIN cs : cs[k] = new[n].from[1]
      BY <1>7, <1>8, <2>2
    <3>2. <<L + 1, k>> \in CalledAt(new, new[n].from[1])
      BY <1>4, <3>1
    <3> QED
      BY <1>1, <2>2, <3>2
  <2> QED
    BY <1>2, <1>17, <2>1, <2>2
<1>18. ASSUME NEW n \in DOMAIN new, NEW m \in DOMAIN new,
              new[n].kind = "copy", new[m].kind = "copy", new[n].from = new[m].from
       PROVE  n = m
  <2>1. CASE n \in DOMAIN pl /\ m \in DOMAIN pl /\ new[n] = pl[n] /\ new[m] = pl[m]
    BY <1>18, <2>1 DEF PlanFor
  <2>2. CASE /\ n - (L + 1) \in DOMAIN D /\ new[n] = D[n - (L + 1)]
             /\ m - (L + 1) \in DOMAIN D /\ new[m] = D[m - (L + 1)]
    <3>1. n - (L + 1) = m - (L + 1)
      BY <1>18, <2>2 DEF CopiesFor
    <3> QED
      BY <1>1, <3>1
  <2> QED
    BY <1>2, <1>8, <1>9, <1>18, <2>1, <2>2
<1>19. PlanFor(g, done \cup S, new)
  BY <1>1, <1>11, <1>12, <1>13, <1>14, <1>15, <1>16, <1>17, <1>18 DEF PlanFor
<1> QED
  BY <1>19 DEF new

-----------------------------------------------------------------------------

\* What the source's plan() appends after the step for S is CopiesFor(S).
LEMMA DataCopiesAreCopies ==
  ASSUME IsGraph(flat), IsFiniteSet(flat.conns), NEW S \in SUBSET flat.procs
  PROVE  CopiesFor(flat, S, DataCopies(S))
<1> DEFINE ports == UNION {DataOutPorts(flat, p) : p \in S}
           seq == SetToSeq(ports)
           to(o) == ConnectedPorts(flat, o)
           D == DataCopies(S)
<1>1. IsFiniteSet(ports)
  <2> DEFINE T == {c \in flat.conns : ~c.stream /\ c.up \in S}
             f == [c \in T |-> OutPort(c)]
  <2>1. IsFiniteSet(T)
    BY FS_Subset
  <2>2. IsFiniteSet({f[c] : c \in T})
    BY <2>1, FiniteImage
  <2>3. ports = {OutPort(c) : c \in T}
    BY DEF DataOutPorts, OutputConns
  <2>4. {OutPort(c) : c \in T} = {f[c] : c \in T}
    OBVIOUS
  <2> QED
    BY <2>2, <2>3, <2>4
<1>2. \A o : IsFiniteSet(to(o))
  <2> TAKE o
  <2> DEFINE T == {d \in flat.conns : OutPort(d) = o}
             f == [c \in T |-> InPort(c)]
  <2>1. IsFiniteSet(T)
    BY FS_Subset
  <2>2. IsFiniteSet({f[c] : c \in T})
    BY <2>1, FiniteImage
  <2>3. to(o) = {f[c] : c \in T}
    BY DEF ConnectedPorts
  <2> QED
    BY <2>2, <2>3
<1>3. D = [i \in DOMAIN seq |-> ExecCopyData(seq[i], SetToSeq(to(seq[i])))]
  BY DEF DataCopies
<1>4. seq \in Seq(ports) /\ ToSet(seq) = ports /\ IsInjective(seq)
  BY <1>1, SetToSeqLists
<1>5. DOMAIN seq = 1 .. Len(seq) /\ Len(seq) \in Nat
  BY <1>4
<1> HIDE DEF seq, D
<1>6. DOMAIN D = 1 .. Len(seq)
  BY <1>3, <1>5
<1>7. \A k \in DOMAIN D : /\ D[k] = ExecCopyData(seq[k], SetToSeq(to(seq[k])))
                          /\ k \in DOMAIN seq /\ seq[k] \in ports
  BY <1>3, <1>4, <1>5, <1>6
<1>8. D \in [1 .. Len(seq) -> ToSet(D)]
  BY <1>3, <1>6 DEF ToSet
<1>9. D \in Seq(ToSet(D))
  BY <1>5, <1>8
<1>10. ASSUME NEW k \in DOMAIN D
       PROVE  /\ D[k].kind = "copy" /\ D[k].from = seq[k]
              /\ D[k].to \in Seq(to(seq[k])) /\ ToSet(D[k].to) = to(seq[k])
              /\ \E p \in S : seq[k] \in DataOutPorts(flat, p)
  <2>1. /\ D[k].kind = "copy" /\ D[k].from = seq[k]
        /\ D[k].to = SetToSeq(to(seq[k]))
    BY <1>7 DEF ExecCopyData
  <2>2. SetToSeq(to(seq[k])) \in Seq(to(seq[k])) /\ ToSet(SetToSeq(to(seq[k]))) = to(seq[k])
    BY <1>2, SetToSeqLists
  <2>3. \E p \in S : seq[k] \in DataOutPorts(flat, p)
    BY <1>7
  <2> QED
    BY <2>1, <2>2, <2>3
<1>11. \A k \in DOMAIN D : IsStep(flat, D[k])
  BY <1>10 DEF IsStep
<1>12. \A p \in S : \A o \in DataOutPorts(flat, p) : \E k \in DOMAIN D : D[k].from = o
  <2> SUFFICES ASSUME NEW p \in S, NEW o \in DataOutPorts(flat, p)
               PROVE  \E k \in DOMAIN D : D[k].from = o
    OBVIOUS
  <2>1. o \in ToSet(seq)
    BY <1>4
  <2>2. PICK k \in DOMAIN seq : seq[k] = o
    BY <2>1 DEF ToSet
  <2> QED
    BY <1>5, <1>6, <1>10, <2>2
<1>13. \A k, l \in DOMAIN D : D[k].from = D[l].from => k = l
  BY <1>4, <1>7, <1>10 DEF IsInjective
<1> QED
  BY <1>9, <1>10, <1>11, <1>12, <1>13 DEF CopiesFor, D

-----------------------------------------------------------------------------
\* Buffers are finitely many.
LEMMA AugmentFinite ==
  ASSUME NEW g, IsFiniteSet(g.conns), NEW subs
  PROVE  IsFiniteSet(Augment(g, subs).conns)
<1> DEFINE cut == Crossing(g, subs)
           f1 == [c \in cut |-> ToWriter(c)]
           f2 == [c \in cut |-> ToReader(subs, c)]
           f3 == [c \in cut |-> FromReader(subs, c)]
           all == (g.conns \ cut) \cup {f1[c] : c \in cut} \cup {f2[c] : c \in cut}
                                  \cup {f3[c] : c \in cut}
<1>1. IsFiniteSet(cut) /\ IsFiniteSet(g.conns \ cut)
  BY FS_Subset DEF Crossing
<1>2. /\ IsFiniteSet({f1[c] : c \in cut})
      /\ IsFiniteSet({f2[c] : c \in cut})
      /\ IsFiniteSet({f3[c] : c \in cut})
  BY <1>1, FiniteImage
<1> HIDE DEF f1, f2, f3, cut
<1>3. IsFiniteSet(all)
  BY <1>1, <1>2, FS_Union
<1>4. Augment(g, subs).conns \subseteq all
  <2>1. \A c \in cut : f1[c] = ToWriter(c) /\ f2[c] = ToReader(subs, c)
                       /\ f3[c] = FromReader(subs, c)
    BY DEF f1, f2, f3
  <2>2. \A e \in Augment(g, subs).conns :
          \/ e \in g.conns \ cut
          \/ \E c \in cut : e = ToWriter(c) \/ e = ToReader(subs, c) \/ e = FromReader(subs, c)
    BY AugmentedConnsAre DEF cut
  <2> QED
    BY <2>1, <2>2
<1> HIDE DEF all
<1> QED
  BY <1>3, <1>4, FS_Subset

LEMMA FlatIsFinite ==
  ASSUME SuccessInv, source \in Graphs
  PROVE  IsFiniteSet(flat.conns) /\ IsGraph(flat)
<1>1. IsFiniteSet(source.conns)
  BY GraphsAssumption
<1>2. IsGraph(flat) /\ allowSplit \in BOOLEAN
  BY DEF SuccessInv, OrderInv, PlannerTypeOK
<1>3. flat = source \/ flat = Augment(source, split)
  BY <1>2 DEF SuccessInv, OrderInv, SecondRun
<1> QED
  BY <1>1, <1>2, <1>3, AugmentFinite

\* The processes of the subgraphs for which there are steps.
Emitted == UNION {subgraphs[j] : j \in 1 .. emitted}

\* ExecStreamingSubgraph lists processes once, and after those they read from.
OrderGood ==
  /\ \A i, j \in DOMAIN order : order[i] = order[j] => i = j
  /\ \A i \in DOMAIN order : order[i] \notin todo
  /\ \A c \in flat.conns : c.stream =>
       \A j \in DOMAIN order : order[j] = c.down =>
         \E i \in DOMAIN order : i < j /\ order[i] = c.up

\* The inductive invariant behind PlanRespectsConnections.  Functional
\* processes are alone in their subgraphs; the plan made so far is one for the
\* subgraphs that were turned into steps.
PlanInv ==
  /\ SuccessInv
  /\ source \in Graphs
  /\ \A j \in DOMAIN subgraphs :
       subgraphs[j] \subseteq flat.streaming \/ \E p : subgraphs[j] = {p}
  /\ phase = "order" => plan = <<>>
  /\ PlanFor(flat, Emitted, plan)
  /\ OrderGood
  /\ phase = "planned" => emitted = Len(subgraphs)

LEMMA EmptyPlan ==
  ASSUME NEW g
  PROVE  PlanFor(g, {}, <<>>)
<1>1. DOMAIN <<>> = {} /\ <<>> \in Seq(ToSet(<<>>))
  BY DEF ToSet
<1>2. \A p : CalledAt(<<>>, p) = {}
  BY <1>1 DEF CalledAt
<1> QED
  BY <1>1, <1>2 DEF PlanFor

\* Emitting a subgraph extends the plan.
LEMMA EmitExtends ==
  ASSUME PlanInv, Emitting, NEW s, Emit(s), UNCHANGED <<flat, subgraphs>>,
         IsStep(flat, s), s.kind # "copy", ToSet(Calls(s)) = Current,
         \A i, j \in DOMAIN Calls(s) : Calls(s)[i] = Calls(s)[j] => i = j,
         \A c \in flat.conns : c.stream =>
           \A i, j \in DOMAIN Calls(s) : Calls(s)[i] = c.up /\ Calls(s)[j] = c.down => i < j
  PROVE  PlanFor(flat, Emitted, plan)'
<1> DEFINE D == DataCopies(Current)
<1>1. /\ OrderInv /\ ~allowSplit /\ SecondRun
      /\ subgraphs \in Seq(SUBSET flat.procs)
      /\ DOMAIN subgraphs = 1 .. Len(subgraphs) /\ Len(subgraphs) \in Nat
      /\ emitted \in 0 .. Len(subgraphs) /\ emitted < Len(subgraphs)
  BY DEF PlanInv, SuccessInv, OrderInv, PlannerTypeOK, FirstRun, Emitting
<1>2. IsFiniteSet(flat.conns) /\ IsGraph(flat)
  BY FlatIsFinite DEF PlanInv
<1>3. emitted + 1 \in DOMAIN subgraphs /\ Current \in SUBSET flat.procs
  BY <1>1 DEF Current
<1>4. CopiesFor(flat, Current, D)
  BY <1>2, <1>3, DataCopiesAreCopies
<1>5. Current \cap Emitted = {}
  <2>1. \A j \in 1 .. emitted : subgraphs[j] \cap Current = {}
    BY <1>1, <1>3 DEF OrderInv, Current
  <2> QED
    BY <2>1 DEF Emitted
<1>6. CompleteSubgraph(flat, Current)
  BY <1>1, <1>3 DEF SecondRun, Current
<1>7. ASSUME NEW c \in flat.conns, ~c.stream, c.down \in Current
      PROVE  c.up \in Emitted
  <2>1. PICK i \in 1 .. (emitted + 1) : c.up \in subgraphs[i] /\ i < emitted + 1
    BY <1>1, <1>3, <1>7 DEF OrderInv, InputsFirst, InSubgraph, Current
  <2>2. i \in 1 .. emitted
    BY <1>1, <2>1
  <2> QED
    BY <2>1, <2>2 DEF Emitted
<1>8. PlanFor(flat, Emitted, plan)
  BY DEF PlanInv
<1> HIDE DEF D
<1>9. PlanFor(flat, Emitted \cup Current, Append(plan, s) \o D)
  BY <1>2, <1>3, <1>4, <1>5, <1>6, <1>7, <1>8, StepExtends
<1>10. Emitted' = Emitted \cup Current
  <2>1. emitted' = emitted + 1 /\ subgraphs' = subgraphs
    BY DEF Emit
  <2>2. 1 .. (emitted + 1) = (1 .. emitted) \cup {emitted + 1}
    BY <1>1
  <2>3. Emitted' = UNION {subgraphs[j] : j \in 1 .. (emitted + 1)}
    BY <2>1 DEF Emitted
  <2> QED
    BY <2>2, <2>3 DEF Emitted, Current
<1>11. plan' = Append(plan, s) \o D /\ flat' = flat
  BY DEF Emit, D
<1> QED
  BY <1>9, <1>10, <1>11

LEMMA InitPlanInv == PlannerInit => PlanInv
<1> SUFFICES ASSUME PlannerInit PROVE PlanInv
  OBVIOUS
<1>1. /\ source \in Graphs /\ DOMAIN subgraphs = {} /\ plan = <<>> /\ emitted = 0
      /\ DOMAIN order = {} /\ phase = "order"
  BY DEF PlannerInit
<1>2. Emitted = {}
  BY <1>1 DEF Emitted
<1> QED
  BY <1>1, <1>2, InitSuccess, EmptyPlan DEF PlanInv, OrderGood

\* The steps of subgraphs_in_order() and augment_subgraphs().
LEMMA OrderStepPlans ==
  ASSUME PlanInv,
         \/ PickFunctional \/ PickComplete \/ PickIncomplete \/ OrderingFails
         \/ AugmentSubgraphs
  PROVE  PlanInv'
<1>1. SuccessInv'
  BY NextSuccess DEF PlanInv, PlannerNext
<1>2. source' \in Graphs
  BY SourceStays DEF PlanInv, PlannerNext
<1>3. phase = "order" /\ UNCHANGED emitVars
  BY DEF PickFunctional, PickComplete, PickIncomplete, OrderingFails, AugmentSubgraphs,
         Ordering, Take
<1>4. emitted = 0 /\ order = <<>> /\ plan = <<>>
  BY <1>3 DEF PlanInv, SuccessInv, OrderInv
<1>5. DOMAIN order' = {} /\ emitted' = 0 /\ plan' = <<>>
  BY <1>3, <1>4 DEF emitVars
<1>6. Emitted' = {}
  BY <1>5 DEF Emitted
<1>7. PlanFor(flat, Emitted, plan)'
  BY <1>5, <1>6, EmptyPlan
<1>8. phase' # "planned"
  BY <1>3 DEF PickFunctional, PickComplete, PickIncomplete, OrderingFails, AugmentSubgraphs, Take
<1>9. \A j \in DOMAIN subgraphs' :
        subgraphs'[j] \subseteq flat'.streaming \/ \E p : subgraphs'[j] = {p}
  <2>0. subgraphs \in Seq(SUBSET flat.procs)
    BY DEF PlanInv, SuccessInv, OrderInv, PlannerTypeOK
  <2>1. ASSUME NEW S, Take(S), S \subseteq flat.streaming \/ \E p : S = {p}
        PROVE  \A j \in DOMAIN subgraphs' :
                 subgraphs'[j] \subseteq flat'.streaming \/ \E p : subgraphs'[j] = {p}
    <3>1. subgraphs' = Append(subgraphs, S) /\ flat' = flat
      BY <2>1 DEF Take
    <3>2. \A j \in DOMAIN subgraphs' :
            \/ subgraphs'[j] = S
            \/ j \in DOMAIN subgraphs /\ subgraphs'[j] = subgraphs[j]
      BY <2>0, <3>1
    <3> QED
      BY <2>1, <3>1, <3>2, ZenonT(60) DEF PlanInv
  <2>2. CASE PickFunctional
    BY <2>1, <2>2 DEF PickFunctional
  <2>3. CASE PickComplete \/ PickIncomplete
    <3>1. PICK S \in Candidates : Take(S)
      BY <2>3 DEF PickComplete, PickIncomplete
    <3>2. S \subseteq RunnableStreaming(flat, ran, toRun)
      BY StreamingSubgraphsClosed DEF Candidates
    <3>3. S \subseteq flat.streaming
      BY <3>2 DEF RunnableStreaming, DataReady
    <3> QED
      BY <2>1, <3>1, <3>3
  <2>4. CASE OrderingFails
    BY <2>4 DEF OrderingFails, orderVars, PlanInv
  <2>5. CASE AugmentSubgraphs
    <3>1. DOMAIN subgraphs' = {}
      BY <2>5 DEF AugmentSubgraphs
    <3> QED
      BY <3>1
  <2> QED
    BY <2>2, <2>3, <2>4, <2>5
<1> QED
  BY <1>1, <1>2, <1>5, <1>7, <1>8, <1>9 DEF PlanInv, OrderGood

\* One more process in an ExecStreamingSubgraph.
LEMMA OrderStreamingGood ==
  ASSUME PlanInv, OrderStreaming
  PROVE  OrderGood'
<1>1. order \in Seq(flat.streaming) /\ OrderGood /\ flat' = flat
  BY DEF PlanInv, SuccessInv, OrderInv, PlannerTypeOK, OrderStreaming
<1>2. CASE UNCHANGED <<todo, order>>
  BY <1>1, <1>2 DEF OrderGood
<1>3. CASE \E p \in PickRunnable : todo' = todo \ {p} /\ order' = Append(order, p)
  <2>1. PICK p \in PickRunnable : todo' = todo \ {p} /\ order' = Append(order, p)
    BY <1>3
  <2>2. /\ p \in todo
        /\ \A c \in flat.conns : c.stream /\ c.down = p => c.up \in ToSet(order)
    BY <2>1 DEF PickRunnable, InputConns
  <2> DEFINE n == Len(order)
  <2>3. /\ n \in Nat /\ DOMAIN order = 1 .. n /\ DOMAIN order' = 1 .. (n + 1)
        /\ \A i \in 1 .. n : order'[i] = order[i]
        /\ order'[n + 1] = p
    BY <1>1, <2>1
  <2> HIDE DEF n
  <2>4. \A i, j \in DOMAIN order' : order'[i] = order'[j] => i = j
    BY <1>1, <2>2, <2>3 DEF OrderGood
  <2>5. \A i \in DOMAIN order' : order'[i] \notin todo'
    BY <1>1, <2>1, <2>2, <2>3 DEF OrderGood
  <2>6. ASSUME NEW c \in flat.conns, c.stream, NEW j \in DOMAIN order', order'[j] = c.down
        PROVE  \E i \in DOMAIN order' : i < j /\ order'[i] = c.up
    <3>1. CASE j = n + 1
      <4>1. PICK i \in DOMAIN order : order[i] = c.up
        BY <2>2, <2>3, <2>6, <3>1 DEF ToSet
      <4> QED
        BY <2>3, <3>1, <4>1
    <3>2. CASE j \in DOMAIN order
      <4>1. PICK i \in DOMAIN order : i < j /\ order[i] = c.up
        BY <1>1, <2>3, <2>6, <3>2 DEF OrderGood
      <4> QED
        BY <2>3, <4>1
    <3> QED
      BY <2>3, <3>1, <3>2
  <2> QED
    BY <1>1, <2>4, <2>5, <2>6 DEF OrderGood
<1> QED
  BY <1>2, <1>3 DEF OrderStreaming

\* The steps that emit.
LEMMA EmitStepPlans ==
  ASSUME PlanInv,
         \/ CheckSubgraphConnections \/ EmitFunctional \/ BeginStreaming
         \/ OrderStreaming \/ EndStreaming \/ EndPlan
  PROVE  PlanInv'
<1>1. SuccessInv'
  BY NextSuccess DEF PlanInv, PlannerNext
<1>2. source' \in Graphs
  BY SourceStays DEF PlanInv, PlannerNext
<1>3. UNCHANGED <<source, flat, subgraphs>> /\ phase' # "order"
  BY DEF CheckSubgraphConnections, EmitFunctional, BeginStreaming, OrderStreaming,
         EndStreaming, EndPlan, orderVars, Emitting
<1>4. \A j \in DOMAIN subgraphs' :
        subgraphs'[j] \subseteq flat'.streaming \/ \E p : subgraphs'[j] = {p}
  BY <1>3 DEF PlanInv
<1>5. /\ subgraphs \in Seq(SUBSET flat.procs) /\ Len(subgraphs) \in Nat
      /\ DOMAIN subgraphs = 1 .. Len(subgraphs)
      /\ emitted \in 0 .. Len(subgraphs) /\ order \in Seq(flat.streaming)
      /\ IsGraph(flat)
  BY DEF PlanInv, SuccessInv, OrderInv, PlannerTypeOK
<1>6. CASE EmitFunctional
  <2>1. PICK p \in Current \ flat.streaming : Emit(ExecFunctional(p))
    BY <1>6 DEF EmitFunctional
  <2>2. emitted + 1 \in DOMAIN subgraphs
    BY <1>5, <1>6 DEF EmitFunctional, Emitting
  <2>3. Current = {p} /\ p \in flat.procs
    <3>1. Current = subgraphs[emitted + 1] /\ p \in Current /\ p \notin flat.streaming
      BY <2>1 DEF Current
    <3>2. Current \in SUBSET flat.procs
      BY <1>5, <2>2, <3>1
    <3>3. Current \subseteq flat.streaming \/ \E q : Current = {q}
      BY <2>2, <3>1 DEF PlanInv
    <3> QED
      BY <3>1, <3>2, <3>3
  <2> DEFINE s == ExecFunctional(p)
  <2>4. s.kind = "functional" /\ s.process = p
    BY DEF ExecFunctional
  <2>5. IsStep(flat, s)
    BY <2>1, <2>3 DEF IsStep
  <2> HIDE DEF s
  <2>6. Calls(s) = <<p>>
    BY <2>4 DEF Calls
  <2>7. DOMAIN Calls(s) = {1} /\ Calls(s)[1] = p
    BY <2>6
  <2>8. ToSet(Calls(s)) = Current
    BY <2>3, <2>7 DEF ToSet
  <2>9. \A c \in flat.conns : ~(c.stream /\ c.up = p)
    BY <1>5, <2>1 DEF IsGraph
  <2>10. PlanFor(flat, Emitted, plan)'
    BY <1>3, <1>6, <2>1, <2>4, <2>5, <2>7, <2>8, <2>9, EmitExtends DEF EmitFunctional, s
  <2>11. DOMAIN order' = {} /\ phase' # "planned"
    BY <1>6, <2>1 DEF Emit, EmitFunctional, Emitting
  <2> QED
    BY <1>1, <1>2, <1>3, <1>4, <2>10, <2>11 DEF PlanInv, OrderGood
<1>7. CASE EndStreaming
  <2> DEFINE s == ExecStreaming(order)
  <2>1. Emitting /\ todo = {} /\ order # <<>> /\ Emit(s) /\ phase' = phase
    BY <1>7 DEF EndStreaming
  <2>2. s.kind = "streaming" /\ s.processes = order
    BY DEF ExecStreaming
  <2>3. IsStep(flat, s)
    BY <1>5, <2>1 DEF IsStep
  <2> HIDE DEF s
  <2>4. Calls(s) = order
    BY <2>2 DEF Calls
  <2>5. ToSet(Calls(s)) = Current
    BY <2>1, <2>4 DEF PlanInv, SuccessInv, SecondRun, FirstRun, Emitting
  <2>6. OrderGood /\ DOMAIN order = 1 .. Len(order) /\ Len(order) \in Nat
    <3>1. OrderGood
      BY DEF PlanInv
    <3> QED
      BY <1>5, <3>1
  <2>7. ASSUME NEW c \in flat.conns, c.stream, NEW i \in DOMAIN order, NEW j \in DOMAIN order,
               order[i] = c.up, order[j] = c.down
        PROVE  i < j
    BY <2>6, <2>7 DEF OrderGood
  <2>8. PlanFor(flat, Emitted, plan)'
    BY <1>3, <2>1, <2>2, <2>3, <2>4, <2>5, <2>6, <2>7, EmitExtends DEF OrderGood
  <2>9. DOMAIN order' = {} /\ phase' # "planned"
    BY <2>1 DEF Emit, Emitting
  <2> QED
    BY <1>1, <1>2, <1>3, <1>4, <2>8, <2>9 DEF PlanInv, OrderGood
<1>8. CASE CheckSubgraphConnections \/ BeginStreaming \/ OrderStreaming \/ EndPlan
  <2>1. UNCHANGED <<emitted, plan>>
    BY <1>8 DEF CheckSubgraphConnections, BeginStreaming, OrderStreaming, EndPlan, emitVars
  <2>2. PlanFor(flat, Emitted, plan)'
    BY <1>3, <2>1 DEF PlanInv, Emitted
  <2>3. phase' = "planned" => emitted' = Len(subgraphs')
    BY <1>3, <1>8 DEF CheckSubgraphConnections, BeginStreaming, OrderStreaming, EndPlan,
         Emitting, emitVars
  <2>4. OrderGood'
    <3>1. CASE CheckSubgraphConnections \/ EndPlan
      BY <1>3, <3>1 DEF CheckSubgraphConnections, EndPlan, emitVars, PlanInv, OrderGood
    <3>2. CASE BeginStreaming
      <4>1. DOMAIN order' = {}
        BY <3>2 DEF BeginStreaming
      <4> QED
        BY <4>1 DEF OrderGood
    <3> QED
      BY <1>8, <3>1, <3>2, OrderStreamingGood
  <2> QED
    BY <1>1, <1>2, <1>3, <1>4, <2>2, <2>3, <2>4 DEF PlanInv
<1> QED
  BY <1>6, <1>7, <1>8

LEMMA NextPlanInv == PlanInv /\ [PlannerNext]_plannerVars => PlanInv'
<1> SUFFICES ASSUME PlanInv, [PlannerNext]_plannerVars PROVE PlanInv'
  OBVIOUS
<1>1. CASE PlannerNext
  BY <1>1, OrderStepPlans, EmitStepPlans DEF PlannerNext
<1>2. CASE UNCHANGED plannerVars
  <2>1. SuccessInv'
    BY <1>2, NextSuccess DEF PlanInv
  <2>2. UNCHANGED <<source, flat, phase, subgraphs, emitted, plan, order, todo>>
    BY <1>2 DEF plannerVars, orderVars, emitVars
  <2> QED
    BY <2>1, <2>2 DEF PlanInv, OrderGood, Emitted
<1> QED
  BY <1>1, <1>2

\* The finished plan is one for all processes of the graph.
LEMMA PlannedIsPlanForAll ==
  ASSUME PlanInv, phase = "planned"
  PROVE  PlanFor(flat, flat.procs, plan)
<1>1. /\ OrderInv /\ toRun = {} /\ toRun = flat.procs \ ran /\ ran \subseteq flat.procs
      /\ ran = UNION ToSet(subgraphs)
      /\ subgraphs \in Seq(SUBSET flat.procs)
      /\ emitted = Len(subgraphs)
  BY DEF PlanInv, SuccessInv, OrderInv, PlannerTypeOK
<1>2. Emitted = flat.procs
  BY <1>1 DEF Emitted, ToSet
<1> QED
  BY <1>2 DEF PlanInv

\* The plan calls every process once, after everything upstream of it; what a
\* stream connection joins is in one step, and a data connection has its copy
\* between its two ends.
THEOREM PlansRespectConnections == PlannerSpec => []PlanRespectsConnections
<1>1. PlanInv => PlanRespectsConnections
  <2> SUFFICES ASSUME PlanInv, phase = "planned"
               PROVE  PlanRespectsConnections
    BY DEF PlanRespectsConnections
  <2>1. PlanFor(flat, flat.procs, plan) /\ IsGraph(flat)
    BY PlannedIsPlanForAll, FlatIsFinite DEF PlanInv
  <2>2. ASSUME NEW p \in flat.procs PROVE Cardinality(CalledAt(plan, p)) = 1
    <3>1. /\ CalledAt(plan, p) # {}
          /\ \A a, b \in CalledAt(plan, p) : a = b
      BY <2>1 DEF PlanFor
    <3>2. PICK a : a \in CalledAt(plan, p)
      BY <3>1
    <3>3. CalledAt(plan, p) = {a}
      BY <3>1, <3>2
    <3> QED
      BY <3>3, FS_Singleton
  <2>3. ASSUME NEW c \in flat.conns, NEW u \in CalledAt(plan, c.up),
               NEW d \in CalledAt(plan, c.down), ~c.stream
        PROVE  \E n \in u[1] + 1 .. d[1] - 1 : CopiesAt(plan, c, n)
    <3>1. PICK n \in DOMAIN plan : u[1] < n /\ CopiesAt(plan, c, n)
      BY <2>1, <2>3 DEF PlanFor
    <3>2. n < d[1]
      BY <2>1, <2>3, <3>1 DEF PlanFor
    <3>3. DOMAIN plan \subseteq Nat
      BY <2>1 DEF PlanFor
    <3>4. u[1] \in DOMAIN plan /\ d[1] \in DOMAIN plan
      BY CalledAtIs
    <3> QED
      BY <3>1, <3>2, <3>3, <3>4
  <2>4. ASSUME NEW c \in flat.conns, NEW u \in CalledAt(plan, c.up),
               NEW d \in CalledAt(plan, c.down), c.stream
        PROVE  u[1] = d[1] /\ u[2] < d[2]
    BY <2>1, <2>4 DEF PlanFor
  <2> QED
    BY <2>2, <2>3, <2>4 DEF PlanRespectsConnections
<1> QED
  BY <1>1, InitPlanInv, NextPlanInv, PTL DEF PlannerSpec

-----------------------------------------------------------------------------
(***************************************************************************)
(* Ports.                                                                  *)
(***************************************************************************)

\* A port belongs to one process, and a connection leads from a port of one
\* end to a port of the other.
LEMMA PortOwners ==
  ASSUME NEW g, NEW p
  PROVE  /\ \A o \in StreamOutPorts(g, p) \cup DataOutPorts(g, p) : o[1] = p
         /\ \A i \in StreamInPorts(g, p) \cup DataInPorts(g, p) : i[1] = p
         /\ \A c \in g.conns : c.stream =>
              /\ OutPort(c) \in StreamOutPorts(g, p) <=> c.up = p
              /\ InPort(c) \in StreamInPorts(g, p) <=> c.down = p
         /\ \A c \in g.conns : ~c.stream =>
              /\ OutPort(c) \in DataOutPorts(g, p) <=> c.up = p
              /\ InPort(c) \in DataInPorts(g, p) <=> c.down = p
<1>1. \A c : OutPort(c)[1] = c.up /\ InPort(c)[1] = c.down
  BY DEF OutPort, InPort
<1>2. \A o \in StreamOutPorts(g, p) \cup DataOutPorts(g, p) : o[1] = p
  BY <1>1 DEF StreamOutPorts, DataOutPorts, OutputConns
<1>3. \A i \in StreamInPorts(g, p) \cup DataInPorts(g, p) : i[1] = p
  BY <1>1 DEF StreamInPorts, DataInPorts, InputConns
<1>4. \A c \in g.conns : c.stream =>
        /\ c.up = p => OutPort(c) \in StreamOutPorts(g, p)
        /\ c.down = p => InPort(c) \in StreamInPorts(g, p)
  BY DEF StreamOutPorts, OutputConns, StreamInPorts, InputConns
<1>5. \A c \in g.conns : ~c.stream =>
        /\ c.up = p => OutPort(c) \in DataOutPorts(g, p)
        /\ c.down = p => InPort(c) \in DataInPorts(g, p)
  BY DEF DataOutPorts, OutputConns, DataInPorts, InputConns
<1> QED
  BY <1>1, <1>2, <1>3, <1>4, <1>5

\* A port of a graph is the end of a connection.
LEMMA PortEnds ==
  ASSUME NEW g, NEW p
  PROVE  /\ \A o \in StreamOutPorts(g, p) :
              \E c \in g.conns : c.stream /\ c.up = p /\ o = OutPort(c)
         /\ \A o \in DataOutPorts(g, p) :
              \E c \in g.conns : ~c.stream /\ c.up = p /\ o = OutPort(c)
         /\ \A i \in StreamInPorts(g, p) :
              \E c \in g.conns : c.stream /\ c.down = p /\ i = InPort(c)
         /\ \A i \in DataInPorts(g, p) :
              \E c \in g.conns : ~c.stream /\ c.down = p /\ i = InPort(c)
BY DEF StreamOutPorts, DataOutPorts, OutputConns, StreamInPorts, DataInPorts, InputConns

LEMMA PortsOfGraph ==
  ASSUME NEW g, IsGraph(g)
  PROVE  /\ \A o : o \in PortsOf(StreamOutPorts, g) <=>
                    \E c \in g.conns : c.stream /\ o = OutPort(c)
         /\ \A o : o \in PortsOf(DataOutPorts, g) <=>
                    \E c \in g.conns : ~c.stream /\ o = OutPort(c)
         /\ \A i : i \in PortsOf(StreamInPorts, g) <=>
                    \E c \in g.conns : c.stream /\ i = InPort(c)
         /\ \A i : i \in PortsOf(DataInPorts, g) <=>
                    \E c \in g.conns : ~c.stream /\ i = InPort(c)
<1>1. \A c \in g.conns : c.up \in g.procs /\ c.down \in g.procs
  BY DEF IsGraph
<1>2. \A c \in g.conns :
        /\ c.stream => /\ OutPort(c) \in StreamOutPorts(g, c.up)
                       /\ InPort(c) \in StreamInPorts(g, c.down)
        /\ ~c.stream => /\ OutPort(c) \in DataOutPorts(g, c.up)
                        /\ InPort(c) \in DataInPorts(g, c.down)
  BY PortOwners
<1>3. \A o : o \in PortsOf(StreamOutPorts, g) <=>
             \E c \in g.conns : c.stream /\ o = OutPort(c)
  BY <1>1, <1>2, PortEnds DEF PortsOf
<1>4. \A o : o \in PortsOf(DataOutPorts, g) <=>
             \E c \in g.conns : ~c.stream /\ o = OutPort(c)
  BY <1>1, <1>2, PortEnds DEF PortsOf
<1>5. \A i : i \in PortsOf(StreamInPorts, g) <=>
             \E c \in g.conns : c.stream /\ i = InPort(c)
  BY <1>1, <1>2, PortEnds DEF PortsOf
<1>6. \A i : i \in PortsOf(DataInPorts, g) <=>
             \E c \in g.conns : ~c.stream /\ i = InPort(c)
  BY <1>1, <1>2, PortEnds DEF PortsOf
<1> QED
  BY <1>3, <1>4, <1>5, <1>6

\* A buffer has one input and one output: a writer reads a stream, a reader
\* makes one of the data of a writer.
WriterShape(g, p) ==
  /\ StreamInPorts(g, p) = {<<p, "in">>} /\ StreamOutPorts(g, p) = {}
  /\ DataInPorts(g, p) = {}

ReaderShape(g, p) ==
  /\ StreamInPorts(g, p) = {} /\ StreamOutPorts(g, p) = {<<p, "out">>}
  /\ DataInPorts(g, p) = {<<p, "in">>} /\ DataOutPorts(g, p) = {}
  /\ \A c \in InputConns(g, p) : c.up \notin source.procs /\ WriterShape(g, c.up)

LEMMA BufferShapes ==
  ASSUME PlanInv, ~allowSplit, NEW p \in flat.procs \ source.procs
  PROVE  /\ WriterShape(flat, p) \/ ReaderShape(flat, p)
         /\ IsWriter(p) <=> WriterShape(flat, p)
         /\ IsReader(p) <=> ReaderShape(flat, p)
<1> DEFINE cut == Crossing(source, split)
<1>1. /\ IsGraph(source) /\ BuffersAreNew(source) /\ Covers(source, split)
      /\ flat = Augment(source, split)
  BY DEF PlanInv, SuccessInv, OrderInv, PlannerTypeOK, SecondRun, IsOrder
<1>2. \A e \in flat.conns :
        \/ e \in source.conns
        \/ \E d \in cut : e = ToWriter(d) \/ e = ToReader(split, d) \/ e = FromReader(split, d)
  BY <1>1, AugmentedConnsAre
<1>3. \A d \in cut : /\ ToWriter(d) \in flat.conns
                     /\ ToReader(split, d) \in flat.conns
                     /\ FromReader(split, d) \in flat.conns
  BY <1>1, AugmentedConnsAre
<1>4. \A d : /\ ToWriter(d).up = d.up /\ ToWriter(d).down = WriterFor(d)
             /\ ToWriter(d).in = "in" /\ ToWriter(d).stream
             /\ ToReader(split, d).up = WriterFor(d) /\ ToReader(split, d).out = "out"
             /\ ToReader(split, d).down = ReaderFor(split, d)
             /\ ToReader(split, d).in = "in" /\ ~ToReader(split, d).stream
             /\ FromReader(split, d).up = ReaderFor(split, d)
             /\ FromReader(split, d).out = "out"
             /\ FromReader(split, d).down = d.down /\ FromReader(split, d).stream
  BY DEF ToWriter, ToReader, FromReader, Connection
<1>5. \A c \in source.conns : c.up \in source.procs /\ c.down \in source.procs
  BY <1>1 DEF IsGraph
<1>6. \A d \in cut : d \in source.conns
  BY DEF Crossing
<1>7. \A c, d \in cut : /\ WriterFor(c) # ReaderFor(split, d)
                        /\ WriterFor(c) \notin source.procs
                        /\ ReaderFor(split, c) \notin source.procs
  BY <1>1, BuffersDiffer
<1> HIDE DEF cut
<1>8. ASSUME NEW d \in cut
      PROVE  WriterShape(flat, WriterFor(d))
  <2> DEFINE w == WriterFor(d)
  <2>1. \A e \in flat.conns : e.down = w => e.stream /\ e.in = "in"
    BY <1>2, <1>4, <1>5, <1>6, <1>7
  <2>2. \A e \in flat.conns : e.up = w => ~e.stream
    BY <1>2, <1>4, <1>5, <1>6, <1>7
  <2>3. \E e \in flat.conns : e.down = w
    BY <1>3, <1>4
  <2> HIDE DEF w
  <2>4. StreamInPorts(flat, w) = {<<w, "in">>}
    BY <2>1, <2>3 DEF StreamInPorts, InputConns, InPort
  <2>5. StreamOutPorts(flat, w) = {}
    BY <2>2 DEF StreamOutPorts, OutputConns
  <2>6. DataInPorts(flat, w) = {}
    BY <2>1 DEF DataInPorts, InputConns
  <2> QED
    BY <2>4, <2>5, <2>6 DEF WriterShape, w
<1>9. ASSUME NEW d \in cut
      PROVE  ReaderShape(flat, ReaderFor(split, d))
  <2> DEFINE r == ReaderFor(split, d)
  <2>1. \A e \in flat.conns : e.down = r =>
          ~e.stream /\ e.in = "in" /\ \E c \in cut : e.up = WriterFor(c)
    BY <1>2, <1>4, <1>5, <1>6, <1>7
  <2>2. \A e \in flat.conns : e.up = r => e.stream /\ e.out = "out"
    BY <1>2, <1>4, <1>5, <1>6, <1>7
  <2>3. (\E e \in flat.conns : e.down = r) /\ (\E e \in flat.conns : e.up = r)
    BY <1>3, <1>4
  <2> HIDE DEF r
  <2>4. StreamInPorts(flat, r) = {}
    BY <2>1 DEF StreamInPorts, InputConns
  <2>5. StreamOutPorts(flat, r) = {<<r, "out">>}
    BY <2>2, <2>3 DEF StreamOutPorts, OutputConns, OutPort
  <2>6. DataInPorts(flat, r) = {<<r, "in">>}
    BY <2>1, <2>3 DEF DataInPorts, InputConns, InPort
  <2>7. DataOutPorts(flat, r) = {}
    BY <2>2 DEF DataOutPorts, OutputConns
  <2>8. \A c \in InputConns(flat, r) : c.up \notin source.procs /\ WriterShape(flat, c.up)
    BY <1>7, <1>8, <2>1 DEF InputConns
  <2> QED
    BY <2>4, <2>5, <2>6, <2>7, <2>8 DEF ReaderShape, r
<1>10. \E d \in cut : p = WriterFor(d) \/ p = ReaderFor(split, d)
  BY <1>1, AugmentedProcs DEF cut
<1>11. WriterShape(flat, p) \/ ReaderShape(flat, p)
  BY <1>8, <1>9, <1>10
<1> QED
  BY <1>11 DEF IsWriter, IsReader, IsUser, WriterShape, ReaderShape

-----------------------------------------------------------------------------
(***************************************************************************)
(* The inductive invariant: once the plan is being run,                    *)
(***************************************************************************)
StreamOuts == PortsOf(StreamOutPorts, flat)
StreamIns  == PortsOf(StreamInPorts, flat)
DataOuts   == PortsOf(DataOutPorts, flat)
DataIns    == PortsOf(DataInPorts, flat)

StreamPort == [queue : Seq(Nat), eof : BOOLEAN]

\* ports and processes are those of the planned graph,
ExecTypeOK ==
  /\ life \in [flat.procs -> {"idle", "running", "done"}]
  /\ streamOut \in [StreamOuts -> StreamPort]
  /\ streamIn \in [StreamIns -> StreamPort]
  /\ sent \in [StreamOuts -> Seq(Nat)]
  /\ got \in [StreamIns -> Seq(Nat)]
  /\ buf \in [flat.procs \ source.procs -> Seq(Nat)]
  /\ DOMAIN dataOut = DataOuts /\ DOMAIN dataIn = DataIns
  /\ \A o \in DataOuts : dataOut[o].items \in Seq(Nat)
  /\ \A i \in DataIns : dataIn[i].items \in Seq(Nat)

\* there is something to do where step, mode and at point to,
InStreaming == step \in DOMAIN plan /\ plan[step].kind = "streaming"

ControlOK ==
  /\ step \in 1 .. Len(plan) + 1
  /\ status # "done" => step \in DOMAIN plan
  /\ status = "done" => step = Len(plan) + 1
  /\ mode \in {"initialise", "run", "check", "finalise"}
  /\ ~InStreaming => mode = "initialise" /\ at = 1
  /\ InStreaming =>
       /\ mode \in {"initialise", "finalise"} => at \in 1 .. Len(Processes)
       /\ mode = "run" => at \in 1 .. Len(InnerPlan)
       /\ mode = "check" => at = 1

\* how far a process is follows from where the plan calls it,
LifeAt(a) ==
  IF a[1] < step THEN "done"
  ELSE IF a[1] > step THEN "idle"
  ELSE IF mode = "initialise" THEN IF a[2] < at THEN "running" ELSE "idle"
  ELSE IF mode = "finalise" THEN IF a[2] < at THEN "done" ELSE "running"
  ELSE "running"

LifeFollowsPlan ==
  \A p \in flat.procs : \A a \in CalledAt(plan, p) : life[p] = LifeAt(a)

\* an input ends after the output it is connected to has been emptied,
EndsInOrder ==
  \A c \in StreamConns : streamIn[InPort(c)].eof =>
    streamOut[OutPort(c)].eof /\ streamOut[OutPort(c)].queue = <<>>

\* an output is closed only by a process that has nothing left to read,
ClosedAtTheEnd ==
  \A p \in flat.procs : \A o \in StreamOutPorts(flat, p) : streamOut[o].eof =>
    /\ life[p] # "idle"
    /\ IsUser(p) => \A i \in StreamInPorts(flat, p) : Eof(streamIn[i])
    /\ IsReader(p) => buf[p] = <<>>

\* a streaming step does not come to its end before its streams,
StepOver(n) == n < step \/ (n = step /\ mode = "finalise")

StreamsOver ==
  \A p \in flat.procs : \A a \in CalledAt(plan, p) :
    StepOver(a[1]) =>
      /\ \A i \in StreamInPorts(flat, p) : Eof(streamIn[i])
      /\ \A o \in StreamOutPorts(flat, p) : Eof(streamOut[o])

\* a writer keeps what it reads, and a reader gives out what it was given,
WritersKeep ==
  \A p \in flat.procs : IsWriter(p) => buf[p] = got[<<p, "in">>]

ReadersReplay ==
  \A p \in flat.procs : IsReader(p) =>
    /\ life[p] = "idle" => sent[<<p, "out">>] = <<>>
    /\ life[p] # "idle" =>
         sent[<<p, "out">>] \o buf[p] = dataIn[<<p, "in">>].items

\* and the value of a data output is in the port from the end of its process
\* to the step that copies it, and from then on in the connected ports.
Produced(o) == Value(o, IF IsUser(o[1]) THEN <<>> ELSE buf[o[1]])

ValuesAwaitCopy ==
  \A p \in flat.procs : \A o \in DataOutPorts(flat, p) :
    life[p] = "done" /\ (\A n \in DOMAIN plan : plan[n].kind = "copy" /\ plan[n].from = o => step <= n)
      => dataOut[o] = Produced(o)

ValuesCopied ==
  \A c \in flat.conns : \A n \in DOMAIN plan :
    n < step /\ CopiesAt(plan, c, n) => dataIn[InPort(c)] = Produced(OutPort(c))

RunInv ==
  /\ ExecTypeOK /\ ControlOK /\ LifeFollowsPlan
  /\ StreamIntegrity /\ EndsInOrder /\ ClosedAtTheEnd /\ StreamsOver
  /\ WritersKeep /\ ReadersReplay
  /\ ValuesAwaitCopy /\ ValuesCopied

ExecInv ==
  /\ PlanInv
  /\ status \in {"planning", "running", "done", "thrown"}
  /\ Started => phase = "planned" /\ RunInv

-----------------------------------------------------------------------------
(***************************************************************************)
(* What is known of the finished plan.                                     *)
(***************************************************************************)
LEMMA PlanFacts ==
  ASSUME PlanInv, phase = "planned"
  PROVE  /\ IsGraph(flat) /\ IsFiniteSet(flat.conns) /\ ~allowSplit
         /\ flat.streaming \subseteq flat.procs /\ source.procs \subseteq flat.procs
         /\ PlanFor(flat, flat.procs, plan)
         /\ Len(plan) \in Nat /\ DOMAIN plan = 1 .. Len(plan)
<1>1. IsGraph(flat) /\ IsFiniteSet(flat.conns)
  BY FlatIsFinite DEF PlanInv
<1>2. PlanFor(flat, flat.procs, plan)
  BY PlannedIsPlanForAll
<1>3. ~allowSplit
  BY DEF PlanInv, SuccessInv, FirstRun
<1>4. flat = Augment(source, split)
  BY <1>3 DEF PlanInv, SuccessInv, SecondRun
<1>5. source.procs \subseteq flat.procs
  BY <1>4, AugmentedProcs
<1>6. Len(plan) \in Nat /\ DOMAIN plan = 1 .. Len(plan)
  BY <1>2 DEF PlanFor
<1> QED
  BY <1>1, <1>2, <1>3, <1>5, <1>6 DEF IsGraph

\* The three kinds of steps.
LEMMA StepKinds ==
  ASSUME PlanInv, phase = "planned", NEW n \in DOMAIN plan
  PROVE  /\ plan[n].kind \in {"functional", "streaming", "copy"}
         /\ plan[n].kind = "functional" =>
              /\ plan[n].process \in flat.procs /\ plan[n].process \notin flat.streaming
              /\ Calls(plan[n]) = <<plan[n].process>>
         /\ plan[n].kind = "streaming" =>
              /\ plan[n].processes \in Seq(flat.streaming)
              /\ plan[n].processes # <<>>
              /\ Calls(plan[n]) = plan[n].processes
         /\ plan[n].kind = "copy" =>
              /\ \E p \in flat.procs : plan[n].from \in DataOutPorts(flat, p)
              /\ ToSet(plan[n].to) = ConnectedPorts(flat, plan[n].from)
              /\ Calls(plan[n]) = <<>>
<1> DEFINE s == plan[n]
<1>1. IsStep(flat, s)
  BY PlanFacts DEF PlanFor
<1> HIDE DEF s
<1>2. CASE \E p \in flat.procs \ flat.streaming : s = ExecFunctional(p)
  BY <1>2 DEF ExecFunctional, Calls, s
<1>3. CASE \E ps \in Seq(flat.streaming) : ps # <<>> /\ s = ExecStreaming(ps)
  <2>1. PICK ps \in Seq(flat.streaming) : ps # <<>> /\ s = ExecStreaming(ps)
    BY <1>3
  <2>2. s.kind = "streaming" /\ s.processes = ps
    BY <2>1 DEF ExecStreaming
  <2> QED
    BY <2>1, <2>2 DEF Calls, s
<1>4. CASE \E p \in flat.procs : \E o \in DataOutPorts(flat, p) :
             /\ s.kind = "copy" /\ s.from = o
             /\ s.to \in Seq(ConnectedPorts(flat, o)) /\ ToSet(s.to) = ConnectedPorts(flat, o)
  BY <1>4 DEF Calls, s
<1> QED
  BY <1>1, <1>2, <1>3, <1>4 DEF IsStep

\* A process has one place in the plan.
LEMMA Places ==
  ASSUME PlanInv, phase = "planned"
  PROVE  /\ \A p \in flat.procs : CalledAt(plan, p) # {}
         /\ \A p \in flat.procs : \A a \in CalledAt(plan, p) :
              /\ a = <<a[1], a[2]>> /\ a[1] \in DOMAIN plan
              /\ a[2] \in DOMAIN Calls(plan[a[1]]) /\ a[2] \in Nat \ {0}
              /\ Calls(plan[a[1]])[a[2]] = p
         /\ \A p : \A a, b \in CalledAt(plan, p) : a = b
         /\ \A n \in DOMAIN plan : \A k \in DOMAIN Calls(plan[n]) :
              /\ Calls(plan[n])[k] \in flat.procs
              /\ <<n, k>> \in CalledAt(plan, Calls(plan[n])[k])
<1>1. PlanFor(flat, flat.procs, plan)
  BY PlanFacts
<1>2. /\ \A p \in flat.procs : CalledAt(plan, p) # {}
      /\ \A p : \A a, b \in CalledAt(plan, p) : a = b
      /\ \A p : CalledAt(plan, p) # {} => p \in flat.procs
  BY <1>1 DEF PlanFor
<1>3. \A n \in DOMAIN plan : DOMAIN Calls(plan[n]) \subseteq Nat \ {0}
  <2> TAKE n \in DOMAIN plan
  <2>1. \/ \E p : Calls(plan[n]) = <<p>>
        \/ Calls(plan[n]) \in Seq(flat.streaming)
        \/ Calls(plan[n]) = <<>>
    BY StepKinds
  <2> QED
    BY <2>1
<1>4. ASSUME NEW p, NEW a \in CalledAt(plan, p)
      PROVE  /\ a = <<a[1], a[2]>> /\ a[1] \in DOMAIN plan
             /\ a[2] \in DOMAIN Calls(plan[a[1]]) /\ a[2] \in Nat \ {0}
             /\ Calls(plan[a[1]])[a[2]] = p
  <2>1. PICK n \in DOMAIN plan : \E k \in DOMAIN Calls(plan[n]) :
          a = <<n, k>> /\ Calls(plan[n])[k] = p
    BY CalledAtIs
  <2>2. PICK k \in DOMAIN Calls(plan[n]) : a = <<n, k>> /\ Calls(plan[n])[k] = p
    BY <2>1
  <2> QED
    BY <1>3, <2>2
<1>5. ASSUME NEW n \in DOMAIN plan, NEW k \in DOMAIN Calls(plan[n])
      PROVE  <<n, k>> \in CalledAt(plan, Calls(plan[n])[k])
  BY CalledAtIs
<1> QED
  BY <1>2, <1>4, <1>5

\* A streaming step has processes, and a plan of its own that calls them and
\* copies their stream outputs.
LEMMA InnerPlanIs ==
  ASSUME PlanInv, phase = "planned", InStreaming
  PROVE  /\ Processes \in Seq(flat.streaming) /\ Calls(plan[step]) = Processes
         /\ Len(Processes) \in Nat \ {0} /\ DOMAIN Processes = 1 .. Len(Processes)
         /\ Len(InnerPlan) \in Nat \ {0}
         /\ \A k \in 1 .. Len(InnerPlan) :
              \E p \in ToSet(Processes) :
                \/ InnerPlan[k] = CallProcess(p)
                \/ \E o \in StreamOutPorts(flat, p) : InnerPlan[k] = CopyStream(o)
<1> DEFINE P == Processes
           Tasks(p) == {CallProcess(p)} \cup {CopyStream(o) : o \in StreamOutPorts(flat, p)}
           T == UNION {Tasks(p) : p \in ToSet(P)}
           ports(p) == SetToSeq(StreamOutPorts(flat, p))
           copies(p) == [k \in DOMAIN ports(p) |-> CopyStream(ports(p)[k])]
           cc(p) == <<CallProcess(p)>> \o copies(p)
           s == [k \in DOMAIN P |-> cc(P[k])]
<1>1. P \in Seq(flat.streaming) /\ Calls(plan[step]) = P /\ P # <<>>
  BY StepKinds DEF InStreaming, Processes
<1>2. Len(P) \in Nat \ {0} /\ DOMAIN P = 1 .. Len(P)
  BY <1>1
<1>3. IsFiniteSet(flat.conns)
  BY PlanFacts
<1>4. InnerPlan = FlattenSeq(s)
  BY DEF InnerPlan
<1> HIDE DEF P
<1>5. ASSUME NEW p \in ToSet(P)
      PROVE  cc(p) \in Seq(T) \ {<<>>}
  <2>1. IsFiniteSet(StreamOutPorts(flat, p))
    <3> DEFINE S == {d \in flat.conns : d.up = p /\ d.stream}
               f == [c \in S |-> OutPort(c)]
    <3>1. IsFiniteSet(S)
      BY <1>3, FS_Subset
    <3>2. IsFiniteSet({f[c] : c \in S})
      BY <3>1, FiniteImage
    <3>3. {f[c] : c \in S} = StreamOutPorts(flat, p)
      BY DEF StreamOutPorts, OutputConns
    <3> QED
      BY <3>2, <3>3
  <2>2. ports(p) \in Seq(StreamOutPorts(flat, p))
    BY <2>1, SetToSeqLists
  <2>3. \A o \in StreamOutPorts(flat, p) : CopyStream(o) \in T
    OBVIOUS
  <2>4. CallProcess(p) \in T
    OBVIOUS
  <2> HIDE DEF T
  <2>5. copies(p) \in Seq(T)
    <3> DEFINE q == ports(p)
    <3>1. q \in Seq(StreamOutPorts(flat, p))
      BY <2>2
    <3> HIDE DEF q
    <3>2. Len(q) \in Nat /\ DOMAIN q = 1 .. Len(q)
          /\ \A k \in 1 .. Len(q) : q[k] \in StreamOutPorts(flat, p)
      BY <3>1
    <3>3. [k \in DOMAIN q |-> CopyStream(q[k])] \in [1 .. Len(q) -> T]
      BY <2>3, <3>2
    <3>4. [k \in DOMAIN q |-> CopyStream(q[k])] \in Seq(T)
      BY <3>2, <3>3
    <3> QED
      BY <3>4 DEF q
  <2> HIDE DEF copies
  <2> QED
    BY <2>4, <2>5
<1>6. \A k \in DOMAIN P : P[k] \in ToSet(P)
  BY DEF ToSet
<1> HIDE DEF cc, T
<1>7. s \in Seq(Seq(T) \ {<<>>}) /\ s # <<>>
  <2>1. s \in [1 .. Len(P) -> Seq(T) \ {<<>>}]
    BY <1>2, <1>5, <1>6
  <2>2. s \in Seq(Seq(T) \ {<<>>})
    BY <1>2, <2>1
  <2>3. Len(s) = Len(P)
    BY <1>2, <2>1, <2>2
  <2> QED
    BY <1>2, <2>2, <2>3
<1> HIDE DEF s
<1>8. InnerPlan \in Seq(T) \ {<<>>}
  BY <1>4, <1>7, FlattenInSeq
<1>9. Len(InnerPlan) \in Nat \ {0} /\ \A k \in 1 .. Len(InnerPlan) : InnerPlan[k] \in T
  BY <1>8
<1>10. \A x \in T : \E p \in ToSet(P) :
         x = CallProcess(p) \/ \E o \in StreamOutPorts(flat, p) : x = CopyStream(o)
  BY DEF T
<1> QED
  BY <1>1, <1>2, <1>9, <1>10 DEF P

-----------------------------------------------------------------------------
(***************************************************************************)
(* Where the run is, and how far each process is.                          *)
(***************************************************************************)
Frame == UNCHANGED plannerVars

LEMMA FrameIs ==
  ASSUME Frame
  PROVE  /\ UNCHANGED <<source, flat, phase, allowSplit, plan>>
         /\ \A p : CalledAt(plan, p)' = CalledAt(plan, p)
<1>1. UNCHANGED <<source, flat, phase, allowSplit, plan>>
  BY DEF Frame, plannerVars, orderVars, emitVars
<1> QED
  BY <1>1 DEF CalledAt

LEMMA GoToOK ==
  ASSUME PlanInv, phase = "planned", Frame, NEW n \in 1 .. Len(plan) + 1, GoTo(n)
  PROVE  ControlOK' /\ status' \in {"running", "done"}
<1>1. UNCHANGED <<source, flat, phase, allowSplit, plan>>
  BY FrameIs
<1>2. step' = n /\ mode' = "initialise" /\ at' = 1
      /\ status' = IF n > Len(plan) THEN "done" ELSE "running"
  BY DEF GoTo
<1>3. Len(plan) \in Nat /\ DOMAIN plan = 1 .. Len(plan)
  BY PlanFacts
<1>4. InStreaming' => at' \in 1 .. Len(Processes')
  <2> SUFFICES ASSUME InStreaming' PROVE 1 \in 1 .. Len(Processes')
    BY <1>2
  <2>1. n \in DOMAIN plan /\ plan[n].kind = "streaming" /\ Processes' = plan[n].processes
    BY <1>1, <1>2 DEF InStreaming, Processes
  <2>2. plan[n].processes \in Seq(flat.streaming) /\ plan[n].processes # <<>>
    BY <2>1, StepKinds
  <2> QED
    BY <2>1, <2>2
<1>5. status' # "done" => n \in DOMAIN plan
  BY <1>2, <1>3
<1> QED
  BY <1>1, <1>2, <1>3, <1>4, <1>5 DEF ControlOK

\* Every process of the step is done, and on it goes to the next.
LEMMA StepDone ==
  ASSUME PlanInv, phase = "planned", Frame, LifeFollowsPlan,
         step \in DOMAIN plan, GoTo(step + 1),
         \A q \in flat.procs : \A a \in CalledAt(plan, q) :
           life'[q] = IF a[1] = step THEN "done" ELSE life[q]
  PROVE  LifeFollowsPlan'
<1>1. UNCHANGED <<flat, plan>> /\ \A p : CalledAt(plan, p)' = CalledAt(plan, p)
  BY FrameIs
<1>2. step' = step + 1 /\ mode' = "initialise" /\ at' = 1
  BY DEF GoTo
<1>3. DOMAIN plan \subseteq Nat
  BY PlanFacts
<1>4. ASSUME NEW q \in flat.procs, NEW a \in CalledAt(plan, q)
      PROVE  life'[q] = LifeAt(a)'
  <2>1. a[1] \in Nat /\ a[2] \in Nat \ {0} /\ step \in Nat
    BY <1>3, Places
  <2>2. life[q] = LifeAt(a)
    BY DEF LifeFollowsPlan
  <2>3. life'[q] = IF a[1] = step THEN "done" ELSE life[q]
    OBVIOUS
  <2>4. LifeAt(a)' = IF a[1] < step + 1 THEN "done" ELSE "idle"
    BY <1>2, <2>1 DEF LifeAt
  <2>5. a[1] # step => life[q] = IF a[1] < step THEN "done" ELSE "idle"
    BY <2>1, <2>2 DEF LifeAt
  <2> QED
    BY <2>1, <2>3, <2>4, <2>5
<1> QED
  BY <1>1, <1>4 DEF LifeFollowsPlan

\* The process at a place is the one the step calls there.
LEMMA CallsOfStep ==
  ASSUME PlanInv, phase = "planned", step \in DOMAIN plan,
         NEW k \in DOMAIN Calls(plan[step])
  PROVE  LET p == Calls(plan[step])[k]
         IN  /\ p \in flat.procs
             /\ \A a \in CalledAt(plan, p) : a[1] = step /\ a[2] = k
             /\ \A q \in flat.procs : \A a \in CalledAt(plan, q) :
                  a[1] = step /\ a[2] = k => q = p
<1> DEFINE p == Calls(plan[step])[k]
<1>1. p \in flat.procs /\ <<step, k>> \in CalledAt(plan, p)
  BY Places
<1>2. \A a \in CalledAt(plan, p) : a = <<step, k>>
  BY <1>1, Places
<1>3. \A q \in flat.procs : \A a \in CalledAt(plan, q) : a[1] = step /\ a[2] = k => q = p
  BY Places
<1> QED
  BY <1>1, <1>2, <1>3

LEMMA RunFunctionalLife ==
  ASSUME ExecInv, Started, RunFunctional
  PROVE  ControlOK' /\ LifeFollowsPlan' /\ status' \in {"running", "done"}
<1>1. /\ PlanInv /\ phase = "planned" /\ Frame /\ LifeFollowsPlan /\ ControlOK
      /\ status = "running" /\ plan[step].kind = "functional" /\ GoTo(step + 1)
      /\ life' = [life EXCEPT ![plan[step].process] = "done"]
      /\ life \in [flat.procs -> {"idle", "running", "done"}]
  BY DEF ExecInv, RunInv, ExecTypeOK, RunFunctional, Running, Frame
<1>2. step \in DOMAIN plan /\ step + 1 \in 1 .. Len(plan) + 1
  BY <1>1, PlanFacts DEF ControlOK
<1>3. ControlOK' /\ status' \in {"running", "done"}
  BY <1>1, <1>2, GoToOK
<1> DEFINE p == plan[step].process
<1>4. Calls(plan[step]) = <<p>>
  BY <1>1, <1>2, StepKinds
<1>5. ASSUME NEW q \in flat.procs, NEW a \in CalledAt(plan, q)
      PROVE  life'[q] = IF a[1] = step THEN "done" ELSE life[q]
  <2>1. a[1] = step <=> q = p
    <3>1. 1 \in DOMAIN Calls(plan[step]) /\ Calls(plan[step])[1] = p
      BY <1>4
    <3>2. q = p => a[1] = step
      BY <1>1, <1>2, <3>1, CallsOfStep
    <3>3. a[1] = step => a[2] \in DOMAIN <<p>>
      BY <1>1, <1>4, Places
    <3>4. a[1] = step => q = p
      BY <1>1, <1>4, <3>3, Places
    <3> QED
      BY <3>2, <3>4
  <2> QED
    BY <1>1, <2>1
<1> QED
  BY <1>1, <1>2, <1>3, <1>5, StepDone

LEMMA RunCopyDataLife ==
  ASSUME ExecInv, Started, RunCopyData
  PROVE  ControlOK' /\ LifeFollowsPlan' /\ status' \in {"running", "done"}
<1>1. /\ PlanInv /\ phase = "planned" /\ Frame /\ LifeFollowsPlan /\ ControlOK
      /\ status = "running" /\ plan[step].kind = "copy" /\ GoTo(step + 1)
      /\ life' = life
  BY DEF ExecInv, RunInv, RunCopyData, Running, Frame
<1>2. step \in DOMAIN plan /\ step + 1 \in 1 .. Len(plan) + 1
  BY <1>1, PlanFacts DEF ControlOK
<1>3. ControlOK' /\ status' \in {"running", "done"}
  BY <1>1, <1>2, GoToOK
<1>4. Calls(plan[step]) = <<>>
  BY <1>1, <1>2, StepKinds
<1>5. \A q \in flat.procs : \A a \in CalledAt(plan, q) : a[1] # step
  BY <1>1, <1>4, Places
<1> QED
  BY <1>1, <1>2, <1>3, <1>5, StepDone

LEMMA InModeIs ==
  ASSUME ExecInv, Started, NEW m, InMode(m)
  PROVE  /\ PlanInv /\ phase = "planned" /\ RunInv
         /\ status = "running" /\ mode = m
         /\ InStreaming /\ step \in DOMAIN plan /\ step \in Nat \ {0}
         /\ Processes \in Seq(flat.streaming) /\ Calls(plan[step]) = Processes
         /\ Len(Processes) \in Nat \ {0} /\ DOMAIN Processes = 1 .. Len(Processes)
         /\ m \in {"initialise", "finalise"} => at \in 1 .. Len(Processes)
         /\ m = "run" => at \in 1 .. Len(InnerPlan)
         /\ m = "check" => at = 1
         /\ Len(InnerPlan) \in Nat \ {0}
<1>1. /\ PlanInv /\ phase = "planned" /\ RunInv /\ ControlOK
      /\ status = "running" /\ mode = m /\ plan[step].kind = "streaming"
  BY DEF ExecInv, RunInv, InMode, Running
<1>2. step \in DOMAIN plan /\ step \in Nat \ {0} /\ InStreaming
  BY <1>1, PlanFacts DEF ControlOK, InStreaming
<1> QED
  BY <1>1, <1>2, InnerPlanIs DEF ControlOK

LEMMA SameStep ==
  ASSUME Frame, step' = step
  PROVE  /\ InnerPlan' = InnerPlan /\ Processes' = Processes
         /\ InStreaming' = InStreaming
         /\ \A a : a[1] \in Nat /\ step \in Nat /\ a[1] # step => LifeAt(a)' = LifeAt(a)
<1>1. UNCHANGED <<flat, plan, step>>
  BY FrameIs
<1>2. Processes' = Processes /\ InStreaming' = InStreaming
  BY <1>1 DEF Processes, InStreaming
<1>3. InnerPlan' = InnerPlan
  BY <1>1, <1>2 DEF InnerPlan
<1> QED
  BY <1>1, <1>2, <1>3 DEF LifeAt

LEMMA InitialiseLife ==
  ASSUME ExecInv, Started, Initialise
  PROVE  ControlOK' /\ LifeFollowsPlan' /\ status' = "running"
<1> DEFINE N == Len(Processes)
           p == Processes[at]
<1>1. /\ InMode("initialise") /\ Frame /\ life' = [life EXCEPT ![p] = "running"]
      /\ Advance(N, "run")
  BY DEF Initialise, Frame
<1>2. /\ PlanInv /\ phase = "planned" /\ RunInv /\ status = "running"
      /\ mode = "initialise" /\ InStreaming /\ step \in DOMAIN plan /\ step \in Nat
      /\ Calls(plan[step]) = Processes /\ DOMAIN Processes = 1 .. N
      /\ N \in Nat \ {0} /\ at \in 1 .. N
      /\ Len(InnerPlan) \in Nat \ {0}
  BY <1>1, InModeIs
<1> HIDE DEF N
<1>3. /\ status' = status /\ step' = step
      /\ \/ at < N /\ at' = at + 1 /\ mode' = "initialise"
         \/ at = N /\ at' = 1 /\ mode' = "run"
  BY <1>1, <1>2 DEF Advance
<1>4. /\ InnerPlan' = InnerPlan /\ Processes' = Processes /\ InStreaming' = InStreaming
      /\ UNCHANGED <<flat, plan>>
      /\ \A q : CalledAt(plan, q)' = CalledAt(plan, q)
  BY <1>1, <1>3, SameStep, FrameIs
<1>5. ControlOK'
  <2>1. at < N => at + 1 \in 1 .. N
    BY <1>2
  <2>2. 1 \in 1 .. Len(InnerPlan)
    BY <1>2
  <2>3. ControlOK
    BY <1>2 DEF RunInv
  <2> QED
    BY <1>2, <1>3, <1>4, <2>1, <2>2, <2>3 DEF ControlOK, N
<1>6. /\ life \in [flat.procs -> {"idle", "running", "done"}]
      /\ \A q \in flat.procs : \A a \in CalledAt(plan, q) : life[q] = LifeAt(a)
  BY <1>2 DEF RunInv, ExecTypeOK, LifeFollowsPlan
<1>7. ASSUME NEW q \in flat.procs, NEW a \in CalledAt(plan, q)
      PROVE  life'[q] = LifeAt(a)'
  <2>1. /\ a[1] \in Nat /\ a[2] \in Nat \ {0}
        /\ a[1] = step => a[2] \in 1 .. N
        /\ q = p <=> a[1] = step /\ a[2] = at
    <3>1. /\ a[1] \in DOMAIN plan /\ a[2] \in Nat \ {0}
          /\ a[2] \in DOMAIN Calls(plan[a[1]])
      BY <1>2, Places
    <3>2. q = p <=> a[1] = step /\ a[2] = at
      BY <1>2, CallsOfStep
    <3> QED
      BY <1>2, <3>1, <3>2, PlanFacts
  <2>2. CASE a[1] # step
    BY <1>1, <1>2, <1>3, <1>6, <2>1, <2>2, SameStep
  <2>3. CASE a[1] = step
    <3>1. life'[q] = IF a[2] = at THEN "running" ELSE life[q]
      BY <1>1, <1>6, <2>1, <2>3
    <3>2. LifeAt(a) = IF a[2] < at THEN "running" ELSE "idle"
      BY <1>2, <2>1, <2>3 DEF LifeAt
    <3>3. LifeAt(a)' = IF a[2] < at + 1 THEN "running" ELSE "idle"
      BY <1>2, <1>3, <2>1, <2>3 DEF LifeAt
    <3> QED
      BY <1>2, <1>6, <2>1, <3>1, <3>2, <3>3
  <2> QED
    BY <2>2, <2>3
<1>8. LifeFollowsPlan'
  BY <1>4, <1>7 DEF LifeFollowsPlan
<1> QED
  BY <1>2, <1>3, <1>5, <1>8

\* While a streaming step goes on, its processes are running.
LEMMA StillRunningLife ==
  ASSUME ExecInv, Started, NEW m \in {"run", "check"}, InMode(m),
         Frame, life' = life, step' = step, status' = status,
         \/ mode' = "run" /\ at' \in 1 .. Len(InnerPlan)
         \/ mode' \in {"check", "finalise"} /\ at' = 1
  PROVE  ControlOK' /\ LifeFollowsPlan'
<1>2. /\ PlanInv /\ phase = "planned" /\ RunInv /\ status = "running"
      /\ mode = m /\ InStreaming /\ step \in DOMAIN plan /\ step \in Nat
      /\ Len(Processes) \in Nat \ {0} /\ Len(InnerPlan) \in Nat \ {0}
  BY InModeIs
<1>4. /\ InnerPlan' = InnerPlan /\ Processes' = Processes /\ InStreaming' = InStreaming
      /\ UNCHANGED <<flat, plan>>
      /\ \A q : CalledAt(plan, q)' = CalledAt(plan, q)
  BY SameStep, FrameIs
<1>5. ControlOK'
  BY <1>2, <1>4 DEF ControlOK, RunInv
<1>6. \A q \in flat.procs : \A a \in CalledAt(plan, q) : life[q] = LifeAt(a)
  BY <1>2 DEF RunInv, LifeFollowsPlan
<1>7. ASSUME NEW q \in flat.procs, NEW a \in CalledAt(plan, q)
      PROVE  life'[q] = LifeAt(a)'
  <2>1. a[1] \in Nat /\ a[2] \in Nat \ {0}
    BY <1>2, Places, PlanFacts
  <2>2. CASE a[1] # step
    BY <1>2, <1>6, <2>1, <2>2, SameStep
  <2>3. CASE a[1] = step
    <3>1. LifeAt(a) = "running"
      BY <1>2, <2>1, <2>3 DEF LifeAt
    <3>2. LifeAt(a)' = "running"
      BY <1>2, <2>1, <2>3 DEF LifeAt
    <3> QED
      BY <1>6, <3>1, <3>2
  <2> QED
    BY <2>2, <2>3
<1>8. LifeFollowsPlan'
  BY <1>4, <1>7 DEF LifeFollowsPlan
<1> QED
  BY <1>5, <1>8

LEMMA FinaliseLife ==
  ASSUME ExecInv, Started, Finalise
  PROVE  ControlOK' /\ LifeFollowsPlan' /\ status' \in {"running", "done"}
<1> DEFINE N == Len(Processes)
           p == Processes[at]
<1>1. /\ InMode("finalise") /\ Frame /\ life' = [life EXCEPT ![p] = "done"]
      /\ IF at < N THEN at' = at + 1 /\ UNCHANGED <<status, step, mode>>
         ELSE GoTo(step + 1)
  BY DEF Finalise, Frame
<1>2. /\ PlanInv /\ phase = "planned" /\ RunInv /\ status = "running"
      /\ mode = "finalise" /\ InStreaming /\ step \in DOMAIN plan /\ step \in Nat
      /\ Calls(plan[step]) = Processes /\ DOMAIN Processes = 1 .. N
      /\ N \in Nat \ {0} /\ at \in 1 .. N
      /\ Len(InnerPlan) \in Nat \ {0}
  BY <1>1, InModeIs
<1> HIDE DEF N
<1>6. /\ life \in [flat.procs -> {"idle", "running", "done"}]
      /\ \A q \in flat.procs : \A a \in CalledAt(plan, q) : life[q] = LifeAt(a)
  BY <1>2 DEF RunInv, ExecTypeOK, LifeFollowsPlan
<1>7. ASSUME NEW q \in flat.procs, NEW a \in CalledAt(plan, q)
      PROVE  /\ a[1] \in Nat /\ a[2] \in Nat \ {0}
             /\ a[1] = step => a[2] \in 1 .. N
             /\ q = p <=> a[1] = step /\ a[2] = at
             /\ a[1] # step => life'[q] = life[q]
             /\ a[1] = step => life'[q] = IF a[2] < at + 1 THEN "done" ELSE "running"
  <2>1. /\ a[1] \in DOMAIN plan /\ a[2] \in Nat \ {0}
        /\ a[2] \in DOMAIN Calls(plan[a[1]])
    BY <1>2, Places
  <2>2. q = p <=> a[1] = step /\ a[2] = at
    BY <1>2, CallsOfStep
  <2>3. a[1] \in Nat /\ (a[1] = step => a[2] \in 1 .. N)
    BY <1>2, <2>1, PlanFacts
  <2>4. a[1] # step => life'[q] = life[q]
    BY <1>1, <1>6, <2>2
  <2>5. CASE a[1] = step
    <3>1. life'[q] = IF a[2] = at THEN "done" ELSE life[q]
      BY <1>1, <1>6, <2>2, <2>5
    <3>2. LifeAt(a) = IF a[2] < at THEN "done" ELSE "running"
      BY <1>2, <2>3, <2>5 DEF LifeAt
    <3> QED
      BY <1>2, <1>6, <2>1, <2>2, <2>3, <2>4, <3>1, <3>2
  <2> QED
    BY <2>1, <2>2, <2>3, <2>4, <2>5
<1>8. CASE at < N
  <2>1. step' = step /\ at' = at + 1 /\ mode' = "finalise" /\ status' = "running"
    BY <1>1, <1>2, <1>8
  <2>2. /\ InnerPlan' = InnerPlan /\ Processes' = Processes /\ InStreaming' = InStreaming
        /\ UNCHANGED <<flat, plan>>
        /\ \A q : CalledAt(plan, q)' = CalledAt(plan, q)
    BY <1>1, <2>1, SameStep, FrameIs
  <2>3. ControlOK'
    BY <1>2, <1>8, <2>1, <2>2 DEF ControlOK, RunInv, N
  <2>4. ASSUME NEW q \in flat.procs, NEW a \in CalledAt(plan, q)
        PROVE  life'[q] = LifeAt(a)'
    <3>1. CASE a[1] # step
      BY <1>1, <1>2, <1>6, <1>7, <2>1, <3>1, SameStep
    <3>2. CASE a[1] = step
      BY <1>2, <1>7, <2>1, <3>2 DEF LifeAt
    <3> QED
      BY <3>1, <3>2
  <2>5. LifeFollowsPlan'
    BY <2>2, <2>4 DEF LifeFollowsPlan
  <2> QED
    BY <2>1, <2>3, <2>5
<1>9. CASE at = N
  <2>1. GoTo(step + 1) /\ step + 1 \in 1 .. Len(plan) + 1
    BY <1>1, <1>2, <1>9, PlanFacts
  <2>2. ControlOK' /\ status' \in {"running", "done"}
    BY <1>1, <1>2, <2>1, GoToOK
  <2>3. \A q \in flat.procs : \A a \in CalledAt(plan, q) :
          life'[q] = IF a[1] = step THEN "done" ELSE life[q]
    <3> TAKE q \in flat.procs
    <3> TAKE a \in CalledAt(plan, q)
    <3> QED
      BY <1>2, <1>7, <1>9
  <2>4. LifeFollowsPlan'
    BY <1>1, <1>2, <2>1, <2>3, StepDone DEF RunInv
  <2> QED
    BY <2>2, <2>4
<1> QED
  BY <1>2, <1>8, <1>9

-----------------------------------------------------------------------------
(***************************************************************************)
(* What one call of process() does to the ports.                           *)
(***************************************************************************)
LEMMA MaxOfNats ==
  ASSUME NEW S \in SUBSET Nat, IsFiniteSet(S), S # {}
  PROVE  Max(S) \in S /\ \A y \in S : y <= Max(S)
<1> DEFINE HasMax(T) == \E x \in T : \A y \in T : x >= y
           Good(n) == \A T \in SUBSET Nat :
                        IsFiniteSet(T) /\ T # {} /\ Cardinality(T) = n => HasMax(T)
           Ns == {n \in Nat : Good(n)}
<1>1. 0 \in Ns
  <2>1. \A T : IsFiniteSet(T) /\ Cardinality(T) = 0 => T = {}
    BY FS_EmptySet
  <2> QED
    BY <2>1
<1>2. ASSUME NEW n \in Nat, n \in Ns PROVE n + 1 \in Ns
  <2> SUFFICES ASSUME NEW T \in SUBSET Nat, IsFiniteSet(T), T # {}, Cardinality(T) = n + 1
               PROVE  HasMax(T)
    OBVIOUS
  <2>1. PICK x \in T : TRUE
    OBVIOUS
  <2> DEFINE R == T \ {x}
  <2>2. IsFiniteSet(R) /\ Cardinality(R) = n
    <3>1. IsFiniteSet(R) /\ Cardinality(R) = Cardinality(T) - 1
      BY <2>1, FS_RemoveElement
    <3> QED
      BY <3>1
  <2>3. CASE R = {}
    BY <2>1, <2>3
  <2>4. CASE R # {}
    <3>1. HasMax(R)
      BY <1>2, <2>2, <2>4
    <3>2. PICK m \in R : \A y \in R : m >= y
      BY <3>1
    <3>3. CASE m >= x
      BY <3>2, <3>3
    <3>4. CASE ~(m >= x)
      BY <2>1, <3>2, <3>4
    <3> QED
      BY <3>3, <3>4
  <2> QED
    BY <2>3, <2>4
<1>3. Cardinality(S) \in Nat
  BY FS_CardinalityType
<1> HIDE DEF Ns
<1>4. Nat \subseteq Ns
  BY <1>1, <1>2, InductionOverNat
<1>5. HasMax(S)
  BY <1>3, <1>4 DEF Ns
<1>6. \A x, y \in S : x >= y <=> y <= x
  OBVIOUS
<1> QED
  BY <1>5, <1>6 DEF Max

\* Sequences of items.
LEMMA ItemSeqs ==
  /\ <<>> \in Seq(Nat)
  /\ \A a \in Seq(Nat) : a \o <<>> = a /\ <<>> \o a = a
  /\ \A a, b \in Seq(Nat) : a \o b \in Seq(Nat)
  /\ \A a, b, c \in Seq(Nat) : (a \o b) \o c = a \o (b \o c)
  /\ \A a, b \in Seq(Nat) : a \o b = <<>> => a = <<>> /\ b = <<>>
<1>1. \A a, b, c \in Seq(Nat) : (a \o b) \o c = a \o (b \o c)
  BY ConcatAssociative, SMTT(30)
<1>2. \A a \in Seq(Nat) : a \o <<>> = a /\ <<>> \o a = a
  BY ConcatEmptySeq
<1>3. \A a, b \in Seq(Nat) : a \o b = <<>> => a = <<>> /\ b = <<>>
  BY ConcatEqualIffEmpty
<1> QED
  BY <1>1, <1>2, <1>3

\* The first n items of a queue, and the rest.
LEMMA PopSplits ==
  ASSUME NEW q \in Seq(Nat), NEW n \in 0 .. Len(q)
  PROVE  /\ SubSeq(q, 1, n) \in Seq(Nat) /\ SubSeq(q, n + 1, Len(q)) \in Seq(Nat)
         /\ SubSeq(q, 1, n) \o SubSeq(q, n + 1, Len(q)) = q
<1>1. Len(q) \in Nat /\ \A i \in 1 .. Len(q) : q[i] \in Nat
  OBVIOUS
<1>2. SubSeq(q, 1, n) \in Seq(Nat) /\ SubSeq(q, n + 1, Len(q)) \in Seq(Nat)
  BY <1>1
<1>3. 1 \in 1 .. Len(q) + 1 /\ n \in 1 - 1 .. Len(q) /\ Len(q) \in n .. Len(q)
  BY <1>1
<1>4. SubSeq(q, 1, n) \o SubSeq(q, n + 1, Len(q)) = SubSeq(q, 1, Len(q))
  BY <1>3, ConcatAdjacentSubSeq
<1>5. SubSeq(q, 1, Len(q)) = q
  BY SubSeqFull
<1> QED
  BY <1>2, <1>4, <1>5

\* What is known of a port after it was popped from, pushed to or closed.
LEMMA PortOps ==
  ASSUME NEW port \in StreamPort
  PROVE  /\ port.queue \in Seq(Nat) /\ port.eof \in BOOLEAN
         /\ \A n \in 0 .. Len(port.queue) :
              /\ Pop(port, n) \in StreamPort /\ Popped(port, n) \in Seq(Nat)
              /\ Pop(port, n).queue = SubSeq(port.queue, n + 1, Len(port.queue))
              /\ Pop(port, n).eof = port.eof
              /\ Popped(port, n) = SubSeq(port.queue, 1, n)
         /\ \A x \in Seq(Nat) :
              /\ Push(port, x) \in StreamPort /\ Close(Push(port, x)) \in StreamPort
              /\ Push(port, x).queue = port.queue \o x
              /\ Push(port, x).eof = port.eof
              /\ Close(Push(port, x)).queue = port.queue \o x
              /\ Close(Push(port, x)).eof = TRUE
<1>1. port.queue \in Seq(Nat) /\ port.eof \in BOOLEAN
  BY DEF StreamPort
<1>2. ASSUME NEW n \in 0 .. Len(port.queue)
      PROVE  /\ Pop(port, n) \in StreamPort /\ Popped(port, n) \in Seq(Nat)
             /\ Pop(port, n).queue = SubSeq(port.queue, n + 1, Len(port.queue))
             /\ Pop(port, n).eof = port.eof
             /\ Popped(port, n) = SubSeq(port.queue, 1, n)
  <2>1. /\ SubSeq(port.queue, n + 1, Len(port.queue)) \in Seq(Nat)
        /\ SubSeq(port.queue, 1, n) \in Seq(Nat)
    BY <1>1, PopSplits
  <2> QED
    BY <1>1, <2>1 DEF Pop, Popped, StreamPort
<1>3. ASSUME NEW x \in Seq(Nat)
      PROVE  /\ Push(port, x) \in StreamPort /\ Close(Push(port, x)) \in StreamPort
             /\ Push(port, x).queue = port.queue \o x
             /\ Push(port, x).eof = port.eof
             /\ Close(Push(port, x)).queue = port.queue \o x
             /\ Close(Push(port, x)).eof = TRUE
  <2>1. port.queue \o x \in Seq(Nat)
    BY <1>1
  <2> QED
    BY <1>1, <2>1 DEF Push, Close, StreamPort
<1> QED
  BY <1>1, <1>2, <1>3

\* What Stream() does to each port.
StreamsBy(p, take, give, ends) ==
  /\ streamIn' \in [StreamIns -> StreamPort] /\ got' \in [StreamIns -> Seq(Nat)]
  /\ streamOut' \in [StreamOuts -> StreamPort] /\ sent' \in [StreamOuts -> Seq(Nat)]
  /\ \A i \in StreamInPorts(flat, p) :
       /\ i \in StreamIns
       /\ streamIn'[i] = Pop(streamIn[i], take[i])
       /\ streamIn'[i].queue = SubSeq(streamIn[i].queue, take[i] + 1, Len(streamIn[i].queue))
       /\ streamIn'[i].eof = streamIn[i].eof
       /\ got'[i] = got[i] \o SubSeq(streamIn[i].queue, 1, take[i])
  /\ \A i \in StreamIns \ StreamInPorts(flat, p) :
       streamIn'[i] = streamIn[i] /\ got'[i] = got[i]
  /\ \A o \in StreamOutPorts(flat, p) :
       /\ o \in StreamOuts
       /\ streamOut'[o].queue = streamOut[o].queue \o give[o]
       /\ streamOut'[o].eof <=> streamOut[o].eof \/ o \in ends
       /\ sent'[o] = sent[o] \o give[o]
  /\ \A o \in StreamOuts \ StreamOutPorts(flat, p) :
       streamOut'[o] = streamOut[o] /\ sent'[o] = sent[o]

LEMMA StreamEffect ==
  ASSUME ExecTypeOK, IsGraph(flat), NEW p \in flat.procs, Frame,
         NEW take, NEW give, NEW ends, Stream(p, take, give, ends),
         \A i \in StreamInPorts(flat, p) : take[i] \in 0 .. Len(streamIn[i].queue),
         \A o \in StreamOutPorts(flat, p) : give[o] \in Seq(Nat)
  PROVE  StreamsBy(p, take, give, ends)
<1> DEFINE ins == StreamInPorts(flat, p)
           outs == StreamOutPorts(flat, p)
           Given(o) == LET pushed == Push(streamOut[o], give[o])
                       IN  IF o \in ends THEN Close(pushed) ELSE pushed
<1>1. ins \subseteq StreamIns /\ outs \subseteq StreamOuts
  BY DEF StreamIns, StreamOuts, PortsOf
<1>2. /\ streamOut \in [StreamOuts -> StreamPort] /\ streamIn \in [StreamIns -> StreamPort]
      /\ sent \in [StreamOuts -> Seq(Nat)] /\ got \in [StreamIns -> Seq(Nat)]
  BY DEF ExecTypeOK
<1>3. /\ streamIn' = [i \in StreamIns |->
                        IF i \in ins THEN Pop(streamIn[i], take[i]) ELSE streamIn[i]]
      /\ got' = [i \in StreamIns |->
                   IF i \in ins THEN got[i] \o Popped(streamIn[i], take[i]) ELSE got[i]]
      /\ streamOut' = [o \in StreamOuts |-> IF o \in outs THEN Given(o) ELSE streamOut[o]]
      /\ sent' = [o \in StreamOuts |-> IF o \in outs THEN sent[o] \o give[o] ELSE sent[o]]
  BY <1>2 DEF Stream, Updated
<1> HIDE DEF ins, outs
<1>4. ASSUME NEW port \in StreamPort
      PROVE  /\ port.queue \in Seq(Nat) /\ port.eof \in BOOLEAN
             /\ \A n \in 0 .. Len(port.queue) :
                  /\ Pop(port, n) \in StreamPort /\ Popped(port, n) \in Seq(Nat)
                  /\ Pop(port, n).queue = SubSeq(port.queue, n + 1, Len(port.queue))
                  /\ Pop(port, n).eof = port.eof
                  /\ Popped(port, n) = SubSeq(port.queue, 1, n)
             /\ \A x \in Seq(Nat) :
                  /\ Push(port, x) \in StreamPort /\ Close(Push(port, x)) \in StreamPort
                  /\ Push(port, x).queue = port.queue \o x
                  /\ Push(port, x).eof = port.eof
                  /\ Close(Push(port, x)).queue = port.queue \o x
                  /\ Close(Push(port, x)).eof = TRUE
  BY PortOps
<1>5. \A i \in ins : /\ take[i] \in 0 .. Len(streamIn[i].queue)
                     /\ streamIn[i] \in StreamPort /\ got[i] \in Seq(Nat)
  BY <1>1, <1>2 DEF ins
<1>6. \A o \in outs : /\ give[o] \in Seq(Nat) /\ streamOut[o] \in StreamPort
                      /\ sent[o] \in Seq(Nat)
  BY <1>1, <1>2 DEF outs
<1>7. \A i \in ins :
        /\ streamIn'[i] = Pop(streamIn[i], take[i]) /\ streamIn'[i] \in StreamPort
        /\ got'[i] = got[i] \o Popped(streamIn[i], take[i]) /\ got'[i] \in Seq(Nat)
  <2> TAKE i \in ins
  <2>1. streamIn'[i] = Pop(streamIn[i], take[i]) /\ got'[i] = got[i] \o Popped(streamIn[i], take[i])
    BY <1>1, <1>3
  <2>2. Pop(streamIn[i], take[i]) \in StreamPort /\ Popped(streamIn[i], take[i]) \in Seq(Nat)
    BY <1>4, <1>5
  <2> QED
    BY <1>5, <2>1, <2>2
<1>8. \A o \in outs :
        /\ streamOut'[o] = Given(o) /\ streamOut'[o] \in StreamPort
        /\ sent'[o] = sent[o] \o give[o] /\ sent'[o] \in Seq(Nat)
  <2> TAKE o \in outs
  <2>1. streamOut'[o] = Given(o) /\ sent'[o] = sent[o] \o give[o]
    BY <1>1, <1>3
  <2>2. Given(o) \in StreamPort
    BY <1>4, <1>6
  <2> QED
    BY <1>6, <2>1, <2>2
<1>9. \A i \in StreamIns \ ins : streamIn'[i] = streamIn[i] /\ got'[i] = got[i]
  BY <1>3
<1>10. \A o \in StreamOuts \ outs : streamOut'[o] = streamOut[o] /\ sent'[o] = sent[o]
  BY <1>3
<1>11. /\ streamIn' \in [StreamIns -> StreamPort] /\ got' \in [StreamIns -> Seq(Nat)]
       /\ streamOut' \in [StreamOuts -> StreamPort] /\ sent' \in [StreamOuts -> Seq(Nat)]
  <2>1. \A i \in StreamIns : streamIn'[i] \in StreamPort /\ got'[i] \in Seq(Nat)
    BY <1>2, <1>7, <1>9
  <2>2. \A o \in StreamOuts : streamOut'[o] \in StreamPort /\ sent'[o] \in Seq(Nat)
    BY <1>2, <1>8, <1>10
  <2>3. /\ streamIn' = [i \in StreamIns |-> streamIn'[i]]
        /\ got' = [i \in StreamIns |-> got'[i]]
        /\ streamOut' = [o \in StreamOuts |-> streamOut'[o]]
        /\ sent' = [o \in StreamOuts |-> sent'[o]]
    BY <1>3
  <2> QED
    BY <2>1, <2>2, <2>3
<1>12. \A i \in ins :
         /\ streamIn'[i].queue = SubSeq(streamIn[i].queue, take[i] + 1, Len(streamIn[i].queue))
         /\ streamIn'[i].eof = streamIn[i].eof
         /\ got'[i] = got[i] \o SubSeq(streamIn[i].queue, 1, take[i])
  <2> TAKE i \in ins
  <2> DEFINE port == streamIn[i]
             n == take[i]
  <2>1. port \in StreamPort /\ n \in 0 .. Len(port.queue)
    BY <1>5
  <2>2. streamIn'[i] = Pop(port, n) /\ got'[i] = got[i] \o Popped(port, n)
    BY <1>7
  <2> HIDE DEF port, n
  <2>3. /\ Pop(port, n).queue = SubSeq(port.queue, n + 1, Len(port.queue))
        /\ Pop(port, n).eof = port.eof
        /\ Popped(port, n) = SubSeq(port.queue, 1, n)
    BY <1>4, <2>1
  <2> QED
    BY <2>2, <2>3 DEF port, n
<1>13. \A o \in outs :
         /\ streamOut'[o].queue = streamOut[o].queue \o give[o]
         /\ streamOut'[o].eof <=> streamOut[o].eof \/ o \in ends
         /\ sent'[o] = sent[o] \o give[o]
  <2> TAKE o \in outs
  <2> DEFINE port == streamOut[o]
             x == give[o]
  <2>1. port \in StreamPort /\ x \in Seq(Nat)
    BY <1>6
  <2>2. /\ streamOut'[o] = IF o \in ends THEN Close(Push(port, x)) ELSE Push(port, x)
        /\ sent'[o] = sent[o] \o give[o]
    BY <1>8
  <2> HIDE DEF port, x
  <2>3. /\ Push(port, x).queue = port.queue \o x /\ Push(port, x).eof = port.eof
        /\ Close(Push(port, x)).queue = port.queue \o x /\ Close(Push(port, x)).eof = TRUE
    BY <1>4, <2>1, ZenonT(60)
  <2>4. /\ streamOut'[o].queue = port.queue \o x
        /\ streamOut'[o].eof = IF o \in ends THEN TRUE ELSE port.eof
    BY <2>2, <2>3
  <2>5. port.eof \in BOOLEAN
    BY <2>1 DEF StreamPort
  <2> QED
    BY <2>2, <2>4, <2>5 DEF port, x
<1> QED
  BY <1>1, <1>7, <1>9, <1>10, <1>11, <1>12, <1>13 DEF ins, outs, StreamsBy

\* Items move on along the connections of p, and nothing is pushed to a port
\* that was closed.
Flows(p) ==
  /\ streamIn' \in [StreamIns -> StreamPort] /\ got' \in [StreamIns -> Seq(Nat)]
  /\ streamOut' \in [StreamOuts -> StreamPort] /\ sent' \in [StreamOuts -> Seq(Nat)]
  /\ \A i \in StreamIns :
       /\ got'[i] \o streamIn'[i].queue = got[i] \o streamIn[i].queue
       /\ \E x \in Seq(Nat) : got'[i] = got[i] \o x
       /\ streamIn'[i].eof = streamIn[i].eof
       /\ Eof(streamIn[i]) => Eof(streamIn'[i])
       /\ i \notin StreamInPorts(flat, p) => streamIn'[i] = streamIn[i] /\ got'[i] = got[i]
  /\ \A o \in StreamOuts :
       /\ \E x \in Seq(Nat) : /\ sent'[o] = sent[o] \o x
                              /\ streamOut'[o].queue = streamOut[o].queue \o x
       /\ streamOut[o].eof => /\ streamOut'[o].eof /\ sent'[o] = sent[o]
                              /\ streamOut'[o].queue = streamOut[o].queue
       /\ o \notin StreamOutPorts(flat, p) => streamOut'[o] = streamOut[o] /\ sent'[o] = sent[o]

\* What a call of process() of p keeps to.
CallOK(p) ==
  /\ Flows(p)
  /\ buf' \in [flat.procs \ source.procs -> Seq(Nat)]
  /\ \A q \in flat.procs \ source.procs : q # p => buf'[q] = buf[q]
  /\ \A o \in StreamOutPorts(flat, p) : streamOut'[o].eof =>
       /\ IsUser(p) => \A i \in StreamInPorts(flat, p) : Eof(streamIn'[i])
       /\ IsReader(p) => buf'[p] = <<>>
  /\ IsWriter(p) => buf'[p] = got'[<<p, "in">>]
  /\ IsReader(p) => sent'[<<p, "out">>] \o buf'[p] = sent[<<p, "out">>] \o buf[p]

LEMMA PopKeepsAll ==
  ASSUME NEW r \in Seq(Nat), NEW q \in Seq(Nat), NEW n \in 0 .. Len(q)
  PROVE  /\ SubSeq(q, 1, n) \in Seq(Nat)
         /\ (r \o SubSeq(q, 1, n)) \o SubSeq(q, n + 1, Len(q)) = r \o q
         /\ q = <<>> => SubSeq(q, n + 1, Len(q)) = <<>>
<1>1. \A x, y \in Seq(Nat) : (r \o x) \o y = r \o (x \o y)
  BY ItemSeqs
<1>2. /\ SubSeq(q, 1, n) \in Seq(Nat) /\ SubSeq(q, n + 1, Len(q)) \in Seq(Nat)
      /\ SubSeq(q, 1, n) \o SubSeq(q, n + 1, Len(q)) = q
  BY PopSplits
<1>3. q = <<>> => SubSeq(q, n + 1, Len(q)) = <<>>
  BY <1>2, ItemSeqs
<1>4. PICK x \in Seq(Nat), y \in Seq(Nat) :
        x = SubSeq(q, 1, n) /\ y = SubSeq(q, n + 1, Len(q)) /\ x \o y = q
  BY <1>2
<1>5. (r \o x) \o y = r \o q
  <2>1. (r \o x) \o y = r \o (x \o y)
    BY <1>1, Zenon
  <2>2. x \o y = q
    BY <1>4, Zenon
  <2> QED
    BY <2>1, <2>2, Zenon
<1>6. (r \o SubSeq(q, 1, n)) \o SubSeq(q, n + 1, Len(q)) = r \o q
  BY <1>4, <1>5, Zenon
<1> QED
  BY <1>2, <1>3, <1>6

LEMMA StreamFlows ==
  ASSUME ExecTypeOK, IsGraph(flat), NEW p \in flat.procs, Frame,
         NEW take, NEW give, NEW ends, Stream(p, take, give, ends),
         \A i \in StreamInPorts(flat, p) : take[i] \in 0 .. Len(streamIn[i].queue),
         \A o \in StreamOutPorts(flat, p) : give[o] \in Seq(Nat),
         \A o \in StreamOutPorts(flat, p) : streamOut[o].eof => give[o] = <<>>
  PROVE  Flows(p)
<1> DEFINE ins == StreamInPorts(flat, p)
           outs == StreamOutPorts(flat, p)
<1>1. /\ streamIn' \in [StreamIns -> StreamPort] /\ got' \in [StreamIns -> Seq(Nat)]
      /\ streamOut' \in [StreamOuts -> StreamPort] /\ sent' \in [StreamOuts -> Seq(Nat)]
      /\ \A i \in ins :
           /\ i \in StreamIns
           /\ streamIn'[i] = Pop(streamIn[i], take[i])
           /\ streamIn'[i].queue = SubSeq(streamIn[i].queue, take[i] + 1, Len(streamIn[i].queue))
           /\ streamIn'[i].eof = streamIn[i].eof
           /\ got'[i] = got[i] \o SubSeq(streamIn[i].queue, 1, take[i])
      /\ \A i \in StreamIns \ ins : streamIn'[i] = streamIn[i] /\ got'[i] = got[i]
      /\ \A o \in outs :
           /\ o \in StreamOuts
           /\ streamOut'[o].queue = streamOut[o].queue \o give[o]
           /\ streamOut'[o].eof <=> streamOut[o].eof \/ o \in ends
           /\ sent'[o] = sent[o] \o give[o]
      /\ \A o \in StreamOuts \ outs : streamOut'[o] = streamOut[o] /\ sent'[o] = sent[o]
  BY StreamEffect DEF StreamsBy
<1>2. /\ \A i \in StreamIns : streamIn[i].queue \in Seq(Nat) /\ got[i] \in Seq(Nat)
      /\ \A o \in StreamOuts : streamOut[o].queue \in Seq(Nat) /\ sent[o] \in Seq(Nat)
  BY DEF ExecTypeOK, StreamPort
<1>3. ASSUME NEW i \in ins
      PROVE  /\ got'[i] \o streamIn'[i].queue = got[i] \o streamIn[i].queue
             /\ \E x \in Seq(Nat) : got'[i] = got[i] \o x
             /\ Eof(streamIn[i]) => Eof(streamIn'[i])
  <2> DEFINE q == streamIn[i].queue
             n == take[i]
  <2>1. q \in Seq(Nat) /\ got[i] \in Seq(Nat) /\ n \in 0 .. Len(q)
    BY <1>1, <1>2
  <2>2. /\ SubSeq(q, 1, n) \in Seq(Nat)
        /\ (got[i] \o SubSeq(q, 1, n)) \o SubSeq(q, n + 1, Len(q)) = got[i] \o q
        /\ q = <<>> => SubSeq(q, n + 1, Len(q)) = <<>>
    BY <2>1, PopKeepsAll
  <2>3. /\ got'[i] = got[i] \o SubSeq(q, 1, n)
        /\ streamIn'[i].queue = SubSeq(q, n + 1, Len(q))
        /\ streamIn'[i].eof = streamIn[i].eof
    BY <1>1
  <2> QED
    BY <2>2, <2>3 DEF Eof
<1>4. ASSUME NEW i \in StreamIns \ ins
      PROVE  \E x \in Seq(Nat) : got'[i] = got[i] \o x
  <2>1. got'[i] = got[i] \o <<>> /\ <<>> \in Seq(Nat)
    BY <1>1, <1>2, ItemSeqs
  <2> QED
    BY <2>1
<1>5. ASSUME NEW o \in outs
      PROVE  /\ \E x \in Seq(Nat) : /\ sent'[o] = sent[o] \o x
                                    /\ streamOut'[o].queue = streamOut[o].queue \o x
             /\ streamOut[o].eof => /\ streamOut'[o].eof /\ sent'[o] = sent[o]
                                    /\ streamOut'[o].queue = streamOut[o].queue
  <2>1. streamOut[o].eof => give[o] = <<>>
    OBVIOUS
  <2>2. streamOut[o].queue \o <<>> = streamOut[o].queue /\ sent[o] \o <<>> = sent[o]
    BY <1>1, <1>2, ItemSeqs
  <2> QED
    BY <1>1, <2>1, <2>2, ZenonT(60)
<1>6. ASSUME NEW o \in StreamOuts \ outs
      PROVE  \E x \in Seq(Nat) : /\ sent'[o] = sent[o] \o x
                                 /\ streamOut'[o].queue = streamOut[o].queue \o x
  <2>1. /\ sent'[o] = sent[o] \o <<>> /\ streamOut'[o].queue = streamOut[o].queue \o <<>>
        /\ <<>> \in Seq(Nat)
    BY <1>1, <1>2, ItemSeqs
  <2> QED
    BY <2>1
<1>7. \A i \in StreamIns :
        /\ got'[i] \o streamIn'[i].queue = got[i] \o streamIn[i].queue
        /\ \E x \in Seq(Nat) : got'[i] = got[i] \o x
        /\ streamIn'[i].eof = streamIn[i].eof
        /\ Eof(streamIn[i]) => Eof(streamIn'[i])
        /\ i \notin ins => streamIn'[i] = streamIn[i] /\ got'[i] = got[i]
  BY <1>1, <1>3, <1>4
<1>8. \A o \in StreamOuts :
        /\ \E x \in Seq(Nat) : /\ sent'[o] = sent[o] \o x
                               /\ streamOut'[o].queue = streamOut[o].queue \o x
        /\ streamOut[o].eof => /\ streamOut'[o].eof /\ sent'[o] = sent[o]
                               /\ streamOut'[o].queue = streamOut[o].queue
        /\ o \notin outs => streamOut'[o] = streamOut[o] /\ sent'[o] = sent[o]
  BY <1>1, <1>5, <1>6
<1> QED
  BY <1>1, <1>7, <1>8 DEF Flows

LEMMA PortsFinite ==
  ASSUME NEW g, IsFiniteSet(g.conns), NEW p
  PROVE  IsFiniteSet(StreamInPorts(g, p))
<1> DEFINE S == {d \in g.conns : d.down = p /\ d.stream}
           f == [c \in S |-> InPort(c)]
<1>1. IsFiniteSet(S)
  BY FS_Subset
<1>2. IsFiniteSet({f[c] : c \in S})
  BY <1>1, FiniteImage
<1>3. {f[c] : c \in S} = StreamInPorts(g, p)
  BY DEF StreamInPorts, InputConns
<1> QED
  BY <1>2, <1>3

\* The greatest of finitely many numbers.
LEMMA MaxOfImage ==
  ASSUME NEW S, IsFiniteSet(S), S # {}, NEW f, DOMAIN f = S, \A x \in S : f[x] \in Nat
  PROVE  /\ Max({f[x] : x \in S}) \in Nat
         /\ (\A x \in S : f[x] = 0) => Max({f[x] : x \in S}) = 0
<1> DEFINE T == {f[x] : x \in S}
<1>1. IsFiniteSet(T)
  BY FiniteImage
<1>2. T \in SUBSET Nat /\ T # {}
  OBVIOUS
<1>3. Max(T) \in T
  BY <1>1, <1>2, MaxOfNats
<1> QED
  BY <1>2, <1>3

LEMMA FreshItems ==
  ASSUME ExecTypeOK, NEW o \in StreamOuts, NEW n \in Nat
  PROVE  Fresh(o, n) \in Seq(Nat) /\ (n = 0 => Fresh(o, n) = <<>>)
<1>1. Len(sent[o]) \in Nat
  BY DEF ExecTypeOK
<1>2. Fresh(o, n) \in [1 .. n -> Nat]
  BY <1>1 DEF Fresh
<1>3. Fresh(o, n) \in Seq(Nat) /\ Len(Fresh(o, n)) = n
  BY <1>2
<1> QED
  BY <1>3

LEMMA TransformOK ==
  ASSUME ExecInv, Started, NEW p \in flat.procs, IsUser(p), Frame, UserTransform(p)
  PROVE  /\ Flows(p)
         /\ \A o \in StreamOutPorts(flat, p) : streamOut'[o].eof =>
              \A i \in StreamInPorts(flat, p) : Eof(streamIn'[i])
<1> DEFINE ins == StreamInPorts(flat, p)
           outs == StreamOutPorts(flat, p)
           lens == [i \in ins |-> Len(streamIn[i].queue)]
           longest == Max({lens[i] : i \in ins})
<1>1. /\ ExecTypeOK /\ IsGraph(flat) /\ IsFiniteSet(flat.conns) /\ ClosedAtTheEnd
  BY PlanFacts DEF ExecInv, RunInv
<1>2. ins \subseteq StreamIns /\ outs \subseteq StreamOuts
  BY DEF StreamIns, StreamOuts, PortsOf
<1>3. IsFiniteSet(ins)
  BY <1>1, PortsFinite
<1>4. \A i \in ins : streamIn[i].queue \in Seq(Nat)
  BY <1>1, <1>2 DEF ExecTypeOK, StreamPort
<1>5. {lens[i] : i \in ins} = {Len(streamIn[i].queue) : i \in ins}
  OBVIOUS
<1>6. ins # {} /\ \E take \in [ins -> 0 .. longest] :
        /\ \A i \in ins : /\ take[i] <= Len(streamIn[i].queue)
                          /\ take[i] = 0 => streamIn[i].queue = <<>>
        /\ LET ended == \A i \in ins : Eof(Pop(streamIn[i], take[i]))
           IN  \E n \in [outs -> 0 .. MaxItems] :
                 /\ \A o \in outs : n[o] <= Room(o)
                 /\ Stream(p, take, [o \in outs |-> Fresh(o, n[o])],
                           IF ended THEN outs ELSE {})
  BY <1>5 DEF UserTransform
<1>7. longest \in Nat
  <2>1. DOMAIN lens = ins /\ ins # {} /\ \A i \in ins : lens[i] \in Nat
    BY <1>4, <1>6
  <2> HIDE DEF lens, ins
  <2> QED
    BY <1>3, <2>1, MaxOfImage
<1> HIDE DEF ins, outs, longest
<1>8. PICK take \in [ins -> 0 .. longest] :
        /\ \A i \in ins : take[i] <= Len(streamIn[i].queue)
        /\ LET ended == \A i \in ins : Eof(Pop(streamIn[i], take[i]))
           IN  \E n \in [outs -> 0 .. MaxItems] :
                 /\ \A o \in outs : n[o] <= Room(o)
                 /\ Stream(p, take, [o \in outs |-> Fresh(o, n[o])],
                           IF ended THEN outs ELSE {})
  BY <1>6
<1> DEFINE ended == \A i \in ins : Eof(Pop(streamIn[i], take[i]))
           ends == IF ended THEN outs ELSE {}
<1>9. PICK n \in [outs -> 0 .. MaxItems] :
        /\ \A o \in outs : n[o] <= Room(o)
        /\ Stream(p, take, [o \in outs |-> Fresh(o, n[o])], ends)
  BY <1>8
<1> DEFINE give == [o \in outs |-> Fresh(o, n[o])]
<1>10. \A i \in ins : take[i] \in Nat /\ take[i] \in 0 .. Len(streamIn[i].queue)
  <2> TAKE i \in ins
  <2>1. take[i] \in 0 .. longest /\ take[i] <= Len(streamIn[i].queue) /\ Len(streamIn[i].queue) \in Nat
    BY <1>4, <1>8
  <2> QED
    BY <1>7, <2>1
<1> HIDE DEF ended, ends
<1>11. \A o \in outs : n[o] \in Nat /\ (streamOut[o].eof => n[o] = 0)
  <2> TAKE o \in outs
  <2>1. n[o] \in 0 .. MaxItems /\ n[o] <= Room(o)
    BY <1>9
  <2>2. streamOut[o].eof => Room(o) = 0
    BY DEF Room
  <2> QED
    BY <2>1, <2>2, EvaluateAssumption
<1>12. \A o \in outs : give[o] \in Seq(Nat) /\ (n[o] = 0 => give[o] = <<>>)
  BY <1>1, <1>2, <1>11, FreshItems
<1>13. \A o \in outs : streamOut[o].eof => give[o] = <<>>
  BY <1>11, <1>12
<1>14. \A o \in outs : streamOut[o].eof => \A i \in ins : Eof(streamIn[i])
  BY <1>1 DEF ClosedAtTheEnd, ins, outs
<1>15. /\ \A i \in StreamInPorts(flat, p) : take[i] \in 0 .. Len(streamIn[i].queue)
       /\ \A o \in StreamOutPorts(flat, p) : give[o] \in Seq(Nat)
       /\ \A o \in StreamOutPorts(flat, p) : streamOut[o].eof => give[o] = <<>>
       /\ Stream(p, take, give, ends)
  BY <1>9, <1>10, <1>12, <1>13 DEF ins, outs
<1> HIDE DEF give
<1>16. Flows(p)
  BY <1>1, <1>15, StreamFlows
<1>17. /\ \A i \in ins : i \in StreamIns /\ streamIn'[i] = Pop(streamIn[i], take[i])
       /\ \A o \in outs : streamOut'[o].eof <=> streamOut[o].eof \/ o \in ends
  BY <1>1, <1>15, StreamEffect DEF ins, outs, StreamsBy
<1>18. \A i \in StreamIns : Eof(streamIn[i]) => Eof(streamIn'[i])
  BY <1>16 DEF Flows
<1>19. ASSUME NEW o \in outs, streamOut'[o].eof PROVE \A i \in ins : Eof(streamIn'[i])
  <2>1. CASE streamOut[o].eof
    BY <1>14, <1>17, <1>18, <2>1
  <2>2. CASE o \in ends
    BY <1>17, <2>2 DEF ends, ended
  <2> QED
    BY <1>17, <1>19, <2>1, <2>2
<1> QED
  BY <1>16, <1>19 DEF ins, outs

LEMMA SourceOK ==
  ASSUME ExecInv, Started, NEW p \in flat.procs, Frame, UserSource(p)
  PROVE  Flows(p) /\ StreamInPorts(flat, p) = {}
<1> DEFINE outs == StreamOutPorts(flat, p)
           open == {o \in outs : ~streamOut[o].eof}
<1>1. ExecTypeOK /\ IsGraph(flat)
  BY PlanFacts DEF ExecInv, RunInv
<1>2. outs \subseteq StreamOuts
  BY DEF StreamOuts, PortsOf
<1>3. StreamInPorts(flat, p) = {}
  BY DEF UserSource
<1>4. PICK n \in [outs -> 0 .. MaxItems], ends \in SUBSET open :
        /\ \A o \in outs : n[o] <= Room(o)
        /\ Stream(p, <<>>, [o \in outs |-> Fresh(o, n[o])], ends)
  BY DEF UserSource
<1> DEFINE give == [o \in outs |-> Fresh(o, n[o])]
<1> HIDE DEF outs
<1>5. \A o \in outs : n[o] \in Nat /\ (streamOut[o].eof => n[o] = 0)
  <2> TAKE o \in outs
  <2>1. n[o] \in 0 .. MaxItems /\ n[o] <= Room(o)
    BY <1>4
  <2>2. streamOut[o].eof => Room(o) = 0
    BY DEF Room
  <2> QED
    BY <2>1, <2>2, EvaluateAssumption
<1>6. \A o \in outs : give[o] \in Seq(Nat) /\ (streamOut[o].eof => give[o] = <<>>)
  BY <1>1, <1>2, <1>5, FreshItems
<1>7. Stream(p, <<>>, give, ends)
  BY <1>4
<1> HIDE DEF give
<1>8. Flows(p)
  BY <1>1, <1>3, <1>6, <1>7, StreamFlows DEF outs
<1> QED
  BY <1>3, <1>8

LEMMA UserCall ==
  ASSUME ExecInv, Started, NEW p \in flat.procs, Frame, UserProcess(p)
  PROVE  CallOK(p)
<1>1. IsUser(p) /\ buf' = buf /\ ~IsWriter(p) /\ ~IsReader(p)
  BY DEF UserProcess, IsWriter, IsReader
<1>2. /\ Flows(p)
      /\ \A o \in StreamOutPorts(flat, p) : streamOut'[o].eof =>
           \A i \in StreamInPorts(flat, p) : Eof(streamIn'[i])
  <2>1. CASE UserTransform(p)
    BY <1>1, <2>1, TransformOK
  <2>2. CASE UserSource(p)
    BY <2>2, SourceOK
  <2> QED
    BY <2>1, <2>2 DEF UserProcess
<1>3. buf \in [flat.procs \ source.procs -> Seq(Nat)]
  BY DEF ExecInv, RunInv, ExecTypeOK
<1> QED
  BY <1>1, <1>2, <1>3 DEF CallOK

LEMMA WriterCall ==
  ASSUME ExecInv, Started, NEW p \in flat.procs, Frame, WriterProcess(p)
  PROVE  CallOK(p)
<1> DEFINE i == <<p, "in">>
           all == Len(streamIn[i].queue)
           take == [j \in {i} |-> all]
           give == <<>>
           ends == {}
<1>1. /\ PlanInv /\ phase = "planned" /\ ExecTypeOK /\ WritersKeep
      /\ IsWriter(p) /\ ~IsUser(p) /\ p \in flat.procs \ source.procs
      /\ Stream(p, take, give, ends)
      /\ buf' = [buf EXCEPT ![p] = @ \o Popped(streamIn[i], all)]
  BY DEF ExecInv, RunInv, WriterProcess, IsWriter, IsUser
<1>2. IsGraph(flat) /\ ~allowSplit
  BY <1>1, PlanFacts
<1>3. WriterShape(flat, p) /\ ~IsReader(p)
  BY <1>1, <1>2, BufferShapes DEF WriterShape, IsReader
<1>4. StreamInPorts(flat, p) = {i} /\ StreamOutPorts(flat, p) = {}
  BY <1>3 DEF WriterShape
<1>5. i \in StreamIns
  BY <1>4 DEF StreamIns, PortsOf
<1>6. streamIn[i].queue \in Seq(Nat) /\ all \in 0 .. Len(streamIn[i].queue)
  BY <1>1, <1>5 DEF ExecTypeOK, StreamPort
<1>7. \A j \in StreamInPorts(flat, p) : take[j] \in 0 .. Len(streamIn[j].queue)
  BY <1>4, <1>6
<1>8. take[i] = all
  OBVIOUS
<1> HIDE DEF take, all, give, ends
<1>9. Flows(p)
  BY <1>1, <1>2, <1>4, <1>7, StreamFlows
<1>10. got'[i] = got[i] \o SubSeq(streamIn[i].queue, 1, all)
  <2>1. \A z \in StreamOutPorts(flat, p) : give[z] \in Seq(Nat)
    BY <1>4
  <2>2. Stream(p, take, give, ends)
    BY <1>1
  <2>3. ExecTypeOK /\ IsGraph(flat)
    BY <1>1, <1>2
  <2>4. StreamsBy(p, take, give, ends)
    BY <1>7, <2>1, <2>2, <2>3, StreamEffect
  <2>5. got'[i] = got[i] \o SubSeq(streamIn[i].queue, 1, take[i])
    BY <1>4, <2>4 DEF StreamsBy
  <2> QED
    BY <1>8, <2>5, Zenon
<1>11. /\ buf \in [flat.procs \ source.procs -> Seq(Nat)]
       /\ buf'[p] = buf[p] \o SubSeq(streamIn[i].queue, 1, all)
  BY <1>1 DEF ExecTypeOK, Popped
<1>12. SubSeq(streamIn[i].queue, 1, all) \in Seq(Nat)
  BY <1>6, PopSplits
<1>13. buf'[p] \in Seq(Nat)
  BY <1>1, <1>11, <1>12, ItemSeqs
<1>14. buf' \in [flat.procs \ source.procs -> Seq(Nat)]
  BY <1>1, <1>11, <1>13
<1>15. \A q \in flat.procs \ source.procs : q # p => buf'[q] = buf[q]
  BY <1>1, <1>11
<1>16. buf'[p] = got'[i]
  BY <1>1, <1>10, <1>11, Zenon DEF WritersKeep
<1> QED
  BY <1>1, <1>3, <1>4, <1>9, <1>14, <1>15, <1>16 DEF CallOK

LEMMA ReaderCall ==
  ASSUME ExecInv, Started, NEW p \in flat.procs, Frame, ReaderProcess(p)
  PROVE  CallOK(p)
<1> DEFINE o == <<p, "out">>
           b == buf[p]
           n == IF b # <<>> THEN 1 ELSE 0
           ends == IF b # <<>> THEN {} ELSE {o}
           x == SubSeq(b, 1, n)
           y == SubSeq(b, n + 1, Len(b))
           take == <<>>
           give == [z \in {o} |-> x]
<1>1. /\ PlanInv /\ phase = "planned" /\ ExecTypeOK /\ ClosedAtTheEnd
      /\ IsReader(p) /\ ~IsUser(p) /\ p \in flat.procs \ source.procs
      /\ buf \in [flat.procs \ source.procs -> Seq(Nat)]
  BY DEF ExecInv, RunInv, ExecTypeOK, ReaderProcess, IsReader, IsUser
<1>2. IsGraph(flat) /\ ~allowSplit
  BY <1>1, PlanFacts
<1>3. ReaderShape(flat, p) /\ ~IsWriter(p)
  BY <1>1, <1>2, BufferShapes DEF ReaderShape, IsWriter
<1>4. StreamInPorts(flat, p) = {} /\ StreamOutPorts(flat, p) = {o}
  BY <1>3 DEF ReaderShape
<1>5. o \in StreamOuts
  BY <1>4 DEF StreamOuts, PortsOf
<1>6. b \in Seq(Nat) /\ Len(b) \in Nat /\ (b # <<>> => Len(b) >= 1)
  BY <1>1
<1>7. /\ Stream(p, take, give, ends)
      /\ buf' = [buf EXCEPT ![p] = y]
  <2>1. CASE b # <<>>
    BY <2>1 DEF ReaderProcess, ReadOn
  <2>2. CASE b = <<>>
    BY <2>2 DEF ReaderProcess, ReadOn
  <2> QED
    BY <2>1, <2>2
<1>8. n \in 0 .. Len(b) /\ n \in Nat
  BY <1>6
<1>9. /\ x \in Seq(Nat) /\ y \in Seq(Nat) /\ x \o y = b
      /\ \A r \in Seq(Nat) : (r \o x) \o y = r \o b
  BY <1>6, <1>8, PopSplits, PopKeepsAll
<1>10. b = <<>> => x = <<>> /\ y = <<>>
  BY <1>9, ItemSeqs
<1>11. give[o] = x
  OBVIOUS
<1>12. b # <<>> => o \notin ends
  OBVIOUS
<1> HIDE DEF b, n, x, y, take, give, ends
<1>13. streamOut[o].eof => b = <<>>
  BY <1>1, <1>4 DEF ClosedAtTheEnd, b
<1>14. \A z \in StreamOutPorts(flat, p) :
         give[z] \in Seq(Nat) /\ (streamOut[z].eof => give[z] = <<>>)
  BY <1>4, <1>9, <1>10, <1>11, <1>13
<1>15. Flows(p)
  BY <1>1, <1>2, <1>4, <1>7, <1>14, StreamFlows
<1>16. /\ streamOut'[o].eof <=> streamOut[o].eof \/ o \in ends
       /\ sent'[o] = sent[o] \o give[o]
  <2>1. \A i \in StreamInPorts(flat, p) : take[i] \in 0 .. Len(streamIn[i].queue)
    BY <1>4
  <2>2. \A z \in StreamOutPorts(flat, p) : give[z] \in Seq(Nat)
    BY <1>14
  <2>3. Stream(p, take, give, ends)
    BY <1>7
  <2>4. ExecTypeOK /\ IsGraph(flat)
    BY <1>1, <1>2
  <2>5. StreamsBy(p, take, give, ends)
    BY <2>1, <2>2, <2>3, <2>4, StreamEffect
  <2> QED
    BY <1>4, <2>5 DEF StreamsBy
<1>17. buf'[p] = y /\ buf' \in [flat.procs \ source.procs -> Seq(Nat)]
       /\ \A q \in flat.procs \ source.procs : q # p => buf'[q] = buf[q]
  BY <1>1, <1>7, <1>9
<1>18. streamOut'[o].eof => buf'[p] = <<>>
  BY <1>10, <1>12, <1>13, <1>16, <1>17
<1>19. sent'[o] \o buf'[p] = sent[o] \o buf[p]
  <2>1. sent[o] \in Seq(Nat)
    BY <1>1, <1>5 DEF ExecTypeOK
  <2>2. (sent[o] \o x) \o y = sent[o] \o b
    BY <1>9, <2>1, Zenon
  <2>3. sent'[o] = sent[o] \o x
    BY <1>11, <1>16, Zenon
  <2> QED
    BY <1>17, <2>2, <2>3, Zenon DEF b
<1> QED
  BY <1>1, <1>3, <1>4, <1>15, <1>17, <1>18, <1>19 DEF CallOK

\* RunProcess calls a process of the step, which has been initialised.
LEMMA RunProcessCalls ==
  ASSUME ExecInv, Started, RunProcess
  PROVE  \E p \in flat.procs :
           /\ CallOK(p)
           /\ \A a \in CalledAt(plan, p) : a[1] = step
           /\ life[p] = "running"
           /\ p = InnerPlan[at].process /\ p \in ToSet(Processes)
           /\ IsUser(p) => UserProcess(p)
<1> DEFINE p == InnerPlan[at].process
<1>1. /\ InMode("run") /\ Frame /\ InnerPlan[at].kind = "process"
      /\ UserProcess(p) \/ WriterProcess(p) \/ ReaderProcess(p)
  BY DEF RunProcess, Frame
<1>2. /\ PlanInv /\ phase = "planned" /\ mode = "run" /\ step \in DOMAIN plan
      /\ Calls(plan[step]) = Processes /\ InStreaming /\ at \in 1 .. Len(InnerPlan)
      /\ LifeFollowsPlan
  BY <1>1, InModeIs DEF RunInv
<1>3. \E q \in ToSet(Processes) :
        \/ InnerPlan[at] = CallProcess(q)
        \/ \E o \in StreamOutPorts(flat, q) : InnerPlan[at] = CopyStream(o)
  BY <1>2, InnerPlanIs
<1>4. p \in ToSet(Processes)
  <2>1. PICK q \in ToSet(Processes) :
          \/ InnerPlan[at] = CallProcess(q)
          \/ \E o \in StreamOutPorts(flat, q) : InnerPlan[at] = CopyStream(o)
    BY <1>3
  <2>2. InnerPlan[at] = CallProcess(q) => p = q
    BY DEF CallProcess
  <2>3. \A o : CopyStream(o).kind = "copy"
    BY DEF CopyStream
  <2> QED
    BY <1>1, <2>1, <2>2, <2>3
<1>5. PICK k \in DOMAIN Processes : p = Processes[k]
  BY <1>4 DEF ToSet
<1> HIDE DEF p
<1>6. p \in flat.procs /\ \A a \in CalledAt(plan, p) : a[1] = step
  BY <1>2, <1>5, CallsOfStep
<1>7. PICK a \in CalledAt(plan, p) : TRUE
  BY <1>2, <1>6, Places
<1>8. life[p] = "running"
  <2>1. a[1] = step /\ step \in Nat /\ life[p] = LifeAt(a)
    BY <1>2, <1>6, <1>7, PlanFacts DEF LifeFollowsPlan
  <2> QED
    BY <1>2, <2>1 DEF LifeAt
<1>9. CallOK(p)
  BY <1>1, <1>6, UserCall, WriterCall, ReaderCall DEF p
<1>10. IsUser(p) => UserProcess(p)
  BY <1>1 DEF p, WriterProcess, ReaderProcess, IsWriter, IsReader
<1> QED
  BY <1>4, <1>6, <1>8, <1>9, <1>10 DEF p

-----------------------------------------------------------------------------
(***************************************************************************)
(* What the plan says of connections, and what stays as it is.             *)
(***************************************************************************)
LEMMA ConnPlaces ==
  ASSUME PlanInv, phase = "planned"
  PROVE  /\ \A c \in flat.conns : c.up \in flat.procs /\ c.down \in flat.procs
         /\ \A c, d \in flat.conns : InPort(c) = InPort(d) => c = d
         /\ \A c \in StreamConns :
              \A u \in CalledAt(plan, c.up), d \in CalledAt(plan, c.down) : u[1] = d[1]
         /\ \A c \in flat.conns : ~c.stream =>
              \A u \in CalledAt(plan, c.up) :
                \E n \in DOMAIN plan : u[1] < n /\ CopiesAt(plan, c, n)
         /\ \A n \in DOMAIN plan : \A c \in flat.conns : CopiesAt(plan, c, n) =>
              /\ ~c.stream
              /\ \E u \in CalledAt(plan, c.up) : u[1] < n
              /\ \A d \in CalledAt(plan, c.down) : n < d[1]
              /\ \A m \in DOMAIN plan :
                   plan[m].kind = "copy" /\ plan[m].from = OutPort(c) => m = n
         /\ \A n \in DOMAIN plan : \A c \in flat.conns :
              plan[n].kind = "copy" /\ InPort(c) \in ToSet(plan[n].to) => CopiesAt(plan, c, n)
<1>1. PlanFor(flat, flat.procs, plan) /\ IsGraph(flat)
  BY PlanFacts
<1>2. /\ \A c \in flat.conns : c.up \in flat.procs /\ c.down \in flat.procs
      /\ \A c, d \in flat.conns : InPort(c) = InPort(d) => c = d
      /\ \A c, d \in flat.conns : OutPort(c) = OutPort(d) => c.stream = d.stream
  BY <1>1 DEF IsGraph
<1>3. \A c \in StreamConns :
        \A u \in CalledAt(plan, c.up), d \in CalledAt(plan, c.down) : u[1] = d[1]
  BY <1>1 DEF PlanFor, StreamConns
<1>4. \A c \in flat.conns : ~c.stream =>
        /\ \A u \in CalledAt(plan, c.up) :
             \E n \in DOMAIN plan : u[1] < n /\ CopiesAt(plan, c, n)
        /\ \A d \in CalledAt(plan, c.down) : \A n \in DOMAIN plan :
             CopiesAt(plan, c, n) => n < d[1]
  BY <1>1 DEF PlanFor
<1>5. /\ \A n \in DOMAIN plan : plan[n].kind = "copy" =>
           \E u \in CalledAt(plan, plan[n].from[1]) : u[1] < n
      /\ \A n, m \in DOMAIN plan :
           plan[n].kind = "copy" /\ plan[m].kind = "copy" /\ plan[n].from = plan[m].from => n = m
  BY <1>1 DEF PlanFor
<1>6. ASSUME NEW n \in DOMAIN plan, plan[n].kind = "copy"
      PROVE  /\ \A c \in flat.conns : OutPort(c) = plan[n].from => ~c.stream
             /\ ToSet(plan[n].to) = ConnectedPorts(flat, plan[n].from)
  <2>1. /\ \E p \in flat.procs : plan[n].from \in DataOutPorts(flat, p)
        /\ ToSet(plan[n].to) = ConnectedPorts(flat, plan[n].from)
    BY <1>6, StepKinds
  <2>2. \E d \in flat.conns : ~d.stream /\ plan[n].from = OutPort(d)
    BY <2>1, PortEnds
  <2> QED
    BY <1>2, <2>1, <2>2
<1>7. \A c : OutPort(c)[1] = c.up
  BY DEF OutPort
<1>8. ASSUME NEW n \in DOMAIN plan, NEW c \in flat.conns, CopiesAt(plan, c, n)
      PROVE  /\ ~c.stream
             /\ \E u \in CalledAt(plan, c.up) : u[1] < n
             /\ \A d \in CalledAt(plan, c.down) : n < d[1]
             /\ \A m \in DOMAIN plan :
                  plan[m].kind = "copy" /\ plan[m].from = OutPort(c) => m = n
  <2>1. plan[n].kind = "copy" /\ plan[n].from = OutPort(c)
    BY <1>8 DEF CopiesAt
  <2>2. ~c.stream
    BY <1>6, <2>1
  <2> QED
    BY <1>4, <1>5, <1>7, <1>8, <2>1, <2>2
<1>9. ASSUME NEW n \in DOMAIN plan, NEW c \in flat.conns,
             plan[n].kind = "copy", InPort(c) \in ToSet(plan[n].to)
      PROVE  CopiesAt(plan, c, n)
  <2>1. \E d \in flat.conns : OutPort(d) = plan[n].from /\ InPort(c) = InPort(d)
    BY <1>6, <1>9 DEF ConnectedPorts
  <2> QED
    BY <1>2, <1>9, <2>1 DEF CopiesAt
<1> QED
  BY <1>2, <1>3, <1>4, <1>8, <1>9

LEMMA FramePorts ==
  ASSUME Frame
  PROVE  /\ UNCHANGED <<StreamOuts, StreamIns, DataOuts, DataIns, StreamConns>>
         /\ \A p : /\ IsUser(p)' <=> IsUser(p)
                   /\ IsWriter(p)' <=> IsWriter(p)
                   /\ IsReader(p)' <=> IsReader(p)
<1>1. flat' = flat /\ source' = source
  BY FrameIs
<1>2. UNCHANGED <<StreamOuts, StreamIns, DataOuts, DataIns, StreamConns>>
  BY <1>1 DEF StreamOuts, StreamIns, DataOuts, DataIns, StreamConns
<1>3. \A p : /\ IsUser(p)' <=> IsUser(p)
             /\ IsWriter(p)' <=> IsWriter(p)
             /\ IsReader(p)' <=> IsReader(p)
  BY <1>1 DEF IsUser, IsWriter, IsReader
<1> QED
  BY <1>2, <1>3

\* A reader is not a writer, and neither is a user's process.
LEMMA BufferKinds ==
  ASSUME PlanInv, phase = "planned", NEW p \in flat.procs
  PROVE  /\ IsWriter(p) => /\ p \in flat.procs \ source.procs /\ ~IsReader(p) /\ ~IsUser(p)
                           /\ StreamInPorts(flat, p) = {<<p, "in">>}
                           /\ <<p, "in">> \in StreamIns
         /\ IsReader(p) => /\ p \in flat.procs \ source.procs /\ ~IsWriter(p) /\ ~IsUser(p)
                           /\ StreamOutPorts(flat, p) = {<<p, "out">>}
                           /\ <<p, "out">> \in StreamOuts
                           /\ DataInPorts(flat, p) = {<<p, "in">>}
                           /\ <<p, "in">> \in DataIns
                           /\ DataOutPorts(flat, p) = {} /\ p \in flat.streaming
<1>1. ~allowSplit /\ IsGraph(flat)
  BY PlanFacts
<1>2. IsWriter(p) \/ IsReader(p) => p \in flat.procs \ source.procs /\ ~IsUser(p)
  BY DEF IsWriter, IsReader, IsUser
<1>3. IsWriter(p) => WriterShape(flat, p)
  BY <1>1, <1>2, BufferShapes
<1>4. IsReader(p) => ReaderShape(flat, p)
  BY <1>1, <1>2, BufferShapes
<1>5. ASSUME IsReader(p) PROVE p \in flat.streaming
  <2>1. <<p, "out">> \in StreamOutPorts(flat, p)
    BY <1>4, <1>5 DEF ReaderShape
  <2>2. \E c \in flat.conns : c.stream /\ c.up = p
    BY <2>1, PortEnds
  <2> QED
    BY <1>1, <2>2 DEF IsGraph
<1>6. /\ StreamInPorts(flat, p) \subseteq StreamIns /\ StreamOutPorts(flat, p) \subseteq StreamOuts
      /\ DataInPorts(flat, p) \subseteq DataIns
  BY DEF StreamIns, StreamOuts, DataIns, PortsOf
<1>7. ~(IsWriter(p) /\ IsReader(p))
  BY <1>3, <1>4 DEF WriterShape, ReaderShape
<1>8. IsWriter(p) => StreamInPorts(flat, p) = {<<p, "in">>}
  BY <1>3 DEF WriterShape
<1>9. IsReader(p) => /\ StreamOutPorts(flat, p) = {<<p, "out">>}
                     /\ DataInPorts(flat, p) = {<<p, "in">>} /\ DataOutPorts(flat, p) = {}
  BY <1>4 DEF ReaderShape
<1> QED
  BY <1>2, <1>5, <1>6, <1>7, <1>8, <1>9

QuietStreams == UNCHANGED <<streamOut, streamIn, sent, got>>

\* A step that leaves the streams alone keeps what is known of them.
LEMMA QuietStep ==
  ASSUME ExecInv, Started, Frame, QuietStreams,
         \A p \in flat.procs : life[p] # "idle" => life'[p] # "idle",
         \A p \in flat.procs : IsWriter(p) \/ life[p] # "idle" => buf'[p] = buf[p]
  PROVE  StreamIntegrity' /\ EndsInOrder' /\ ClosedAtTheEnd' /\ WritersKeep'
<1>1. /\ StreamIntegrity /\ EndsInOrder /\ ClosedAtTheEnd /\ WritersKeep
      /\ PlanInv /\ phase = "planned"
  BY DEF ExecInv, RunInv
<1>2. /\ UNCHANGED <<flat, source, StreamConns>>
      /\ \A p : /\ IsUser(p)' <=> IsUser(p)
                /\ IsWriter(p)' <=> IsWriter(p)
                /\ IsReader(p)' <=> IsReader(p)
  BY FrameIs, FramePorts
<1>3. streamOut' = streamOut /\ streamIn' = streamIn /\ sent' = sent /\ got' = got
  BY DEF QuietStreams
<1>4. StreamIntegrity'
  BY <1>1, <1>2, <1>3 DEF StreamIntegrity
<1>5. EndsInOrder'
  BY <1>1, <1>2, <1>3 DEF EndsInOrder
<1>6. ClosedAtTheEnd'
  BY <1>1, <1>2, <1>3 DEF ClosedAtTheEnd
<1>7. WritersKeep'
  BY <1>1, <1>2, <1>3 DEF WritersKeep
<1> QED
  BY <1>4, <1>5, <1>6, <1>7

LEMMA QuietStreamsOver ==
  ASSUME ExecInv, Started, Frame, UNCHANGED <<streamOut, streamIn>>,
         \A p \in flat.procs : \A a \in CalledAt(plan, p) :
           StepOver(a[1])' => \/ StepOver(a[1])
                              \/ StreamInPorts(flat, p) = {} /\ StreamOutPorts(flat, p) = {}
  PROVE  StreamsOver'
<1>1. StreamsOver
  BY DEF ExecInv, RunInv
<1>2. /\ UNCHANGED <<flat, plan>> /\ \A p : CalledAt(plan, p)' = CalledAt(plan, p)
      /\ streamOut' = streamOut /\ streamIn' = streamIn
  BY FrameIs
<1>3. ASSUME NEW p \in flat.procs, NEW a \in CalledAt(plan, p), StepOver(a[1])'
      PROVE  /\ \A i \in StreamInPorts(flat, p) : Eof(streamIn[i])
             /\ \A o \in StreamOutPorts(flat, p) : Eof(streamOut[o])
  BY <1>1, <1>3 DEF StreamsOver
<1> QED
  BY <1>2, <1>3 DEF StreamsOver

\* The process sets its data outputs, and no others.
LEMMA DataOutputsSet ==
  ASSUME ExecInv, Started, NEW p \in flat.procs, SetDataOutputs(p)
  PROVE  /\ DOMAIN dataOut' = DataOuts
         /\ \A o \in DataOuts : dataOut'[o].items \in Seq(Nat)
         /\ \A o \in DataOutPorts(flat, p) : dataOut'[o] = Produced(o)
         /\ \A o \in DataOuts \ DataOutPorts(flat, p) : dataOut'[o] = dataOut[o]
<1> DEFINE outs == DataOutPorts(flat, p)
           items == IF IsUser(p) THEN <<>> ELSE buf[p]
<1>1. /\ DOMAIN dataOut = DataOuts /\ \A o \in DataOuts : dataOut[o].items \in Seq(Nat)
      /\ buf \in [flat.procs \ source.procs -> Seq(Nat)]
  BY DEF ExecInv, RunInv, ExecTypeOK
<1>2. outs \subseteq DataOuts
  BY DEF DataOuts, PortsOf
<1>3. \A o \in outs : o[1] = p
  BY DataOutPortOwner
<1>4. items \in Seq(Nat)
  BY <1>1 DEF IsUser
<1>5. dataOut' = [o \in DataOuts |-> IF o \in outs THEN Value(o, items) ELSE dataOut[o]]
  BY <1>1 DEF SetDataOutputs, Updated
<1>6. \A o \in outs : Produced(o) = Value(o, items)
  BY <1>3 DEF Produced
<1> HIDE DEF items, outs
<1>7. \A o : Value(o, items).items = items
  BY DEF Value
<1>8. \A o \in DataOuts : dataOut'[o] = IF o \in outs THEN Value(o, items) ELSE dataOut[o]
  BY <1>5
<1>9. \A o \in DataOuts : dataOut'[o].items \in Seq(Nat)
  BY <1>1, <1>4, <1>7, <1>8
<1> QED
  BY <1>2, <1>5, <1>6, <1>8, <1>9 DEF outs

\* The contents of a buffer are final once its process is done.
LEMMA DoneStaysProduced ==
  ASSUME ExecInv, Started, Frame, NEW p \in flat.procs,
         ~IsUser(p) => buf'[p] = buf[p]
  PROVE  \A o \in DataOutPorts(flat, p) : Produced(o)' = Produced(o)
<1>1. \A o \in DataOutPorts(flat, p) : o[1] = p
  BY DataOutPortOwner
<1>2. IsUser(p)' <=> IsUser(p)
  BY FramePorts
<1> QED
  BY <1>1, <1>2 DEF Produced

\* Values not yet copied: those of a process that ends now are set now.
LEMMA AwaitKept ==
  ASSUME ExecInv, Started, Frame, step' \in {step, step + 1},
         \A p \in flat.procs : life'[p] = "done" =>
           /\ ~IsUser(p) => buf'[p] = buf[p]
           /\ \/ \A o \in DataOutPorts(flat, p) : dataOut'[o] = Produced(o)
              \/ /\ life[p] = "done"
                 /\ \A o \in DataOutPorts(flat, p) :
                      \/ dataOut'[o] = dataOut[o]
                      \/ \E n \in DOMAIN plan :
                           plan[n].kind = "copy" /\ plan[n].from = o /\ n < step'
  PROVE  ValuesAwaitCopy'
<1>1. ValuesAwaitCopy /\ PlanInv /\ phase = "planned" /\ step \in Nat
  BY PlanFacts DEF ExecInv, RunInv, ControlOK
<1>2. UNCHANGED <<flat, plan>> /\ DOMAIN plan \subseteq Nat
  BY <1>1, FrameIs, PlanFacts
<1>3. ASSUME NEW p \in flat.procs, NEW o \in DataOutPorts(flat, p), life'[p] = "done",
             \A n \in DOMAIN plan : plan[n].kind = "copy" /\ plan[n].from = o => step' <= n
      PROVE  dataOut'[o] = Produced(o)'
  <2>1. Produced(o)' = Produced(o)
    BY <1>3, DoneStaysProduced
  <2>2. CASE dataOut'[o] = Produced(o)
    BY <2>1, <2>2
  <2>3. CASE life[p] = "done" /\ dataOut'[o] = dataOut[o]
    <3>1. \A n \in DOMAIN plan : plan[n].kind = "copy" /\ plan[n].from = o => step <= n
      BY <1>1, <1>2, <1>3
    <3>2. dataOut[o] = Produced(o)
      BY <1>1, <2>3, <3>1 DEF ValuesAwaitCopy
    <3> QED
      BY <2>1, <2>3, <3>2
  <2>4. CASE \E n \in DOMAIN plan : plan[n].kind = "copy" /\ plan[n].from = o /\ n < step'
    BY <1>1, <1>2, <1>3, <2>4
  <2> QED
    BY <1>3, <2>2, <2>3, <2>4
<1> QED
  BY <1>2, <1>3 DEF ValuesAwaitCopy

\* Values that were copied stay where they are.
LEMMA CopiedKept ==
  ASSUME ExecInv, Started, Frame, step' \in {step, step + 1}, step \in DOMAIN plan,
         plan[step].kind # "copy" \/ step' = step, dataIn' = dataIn,
         \A p \in flat.procs : life[p] = "done" /\ ~IsUser(p) => buf'[p] = buf[p]
  PROVE  ValuesCopied'
<1>1. ValuesCopied /\ LifeFollowsPlan /\ PlanInv /\ phase = "planned"
  BY DEF ExecInv, RunInv
<1>2. UNCHANGED <<flat, plan>> /\ DOMAIN plan \subseteq Nat
  BY <1>1, FrameIs, PlanFacts
<1>3. ASSUME NEW c \in flat.conns, NEW n \in DOMAIN plan, n < step', CopiesAt(plan, c, n)
      PROVE  dataIn'[InPort(c)] = Produced(OutPort(c))'
  <2>1. n < step
    BY <1>2, <1>3 DEF CopiesAt
  <2>2. ~c.stream /\ c.up \in flat.procs /\ \E u \in CalledAt(plan, c.up) : u[1] < n
    BY <1>1, <1>3, ConnPlaces
  <2>3. life[c.up] = "done"
    <3>1. PICK u \in CalledAt(plan, c.up) : u[1] < n
      BY <2>2
    <3>2. u[1] < step
      BY <1>1, <1>2, <2>1, <2>2, <3>1, Places
    <3> QED
      BY <1>1, <2>2, <3>2 DEF LifeFollowsPlan, LifeAt
  <2>4. OutPort(c) \in DataOutPorts(flat, c.up)
    BY <2>2, PortOwners
  <2>5. Produced(OutPort(c))' = Produced(OutPort(c))
    BY <2>2, <2>3, <2>4, DoneStaysProduced
  <2>6. dataIn[InPort(c)] = Produced(OutPort(c))
    BY <1>1, <1>3, <2>1 DEF ValuesCopied
  <2> QED
    BY <2>5, <2>6
<1>4. \A c, n : CopiesAt(plan, c, n)' <=> CopiesAt(plan, c, n)
  BY <1>2 DEF CopiesAt
<1> QED
  BY <1>2, <1>3, <1>4 DEF ValuesCopied

\* Readers that neither start nor read.
LEMMA ReadersKept ==
  ASSUME ExecInv, Started, Frame, sent' = sent, dataIn' = dataIn,
         \A p \in flat.procs : IsReader(p) =>
           buf'[p] = buf[p] /\ (life'[p] = "idle" <=> life[p] = "idle")
  PROVE  ReadersReplay'
<1>1. ReadersReplay
  BY DEF ExecInv, RunInv
<1>2. flat' = flat /\ \A p : IsReader(p)' <=> IsReader(p)
  BY FrameIs, FramePorts
<1>3. ASSUME NEW p \in flat.procs, IsReader(p)
      PROVE  /\ life'[p] = "idle" => sent'[<<p, "out">>] = <<>>
             /\ life'[p] # "idle" =>
                  sent'[<<p, "out">>] \o buf'[p] = dataIn'[<<p, "in">>].items
  <2>1. /\ life[p] = "idle" => sent[<<p, "out">>] = <<>>
        /\ life[p] # "idle" =>
             sent[<<p, "out">>] \o buf[p] = dataIn[<<p, "in">>].items
    BY <1>1, <1>3 DEF ReadersReplay
  <2> QED
    BY <1>3, <2>1
<1> QED
  BY <1>2, <1>3, Zenon DEF ReadersReplay

-----------------------------------------------------------------------------
(***************************************************************************)
(* Each step keeps the invariant.                                          *)
(***************************************************************************)
LEMMA RunFunctionalInv ==
  ASSUME ExecInv, Started, RunFunctional
  PROVE  RunInv' /\ status' \in {"running", "done"}
<1> DEFINE p == plan[step].process
<1>1. /\ PlanInv /\ phase = "planned" /\ Frame /\ ControlOK /\ ExecTypeOK
      /\ status = "running" /\ plan[step].kind = "functional"
      /\ step' = step + 1 /\ mode' = "initialise"
      /\ life' = [life EXCEPT ![p] = "done"] /\ SetDataOutputs(p)
      /\ UNCHANGED <<dataIn, streamOut, streamIn, buf, sent, got>>
  BY DEF ExecInv, RunInv, RunFunctional, Running, Frame, GoTo
<1>2. step \in DOMAIN plan /\ step \in Nat /\ IsGraph(flat)
      /\ \A a : a \in DOMAIN plan => a \in Nat
  BY <1>1, PlanFacts DEF ControlOK
<1>3. p \in flat.procs /\ p \notin flat.streaming
  BY <1>1, <1>2, StepKinds
<1> HIDE DEF p
<1>4. ControlOK' /\ LifeFollowsPlan' /\ status' \in {"running", "done"}
  BY RunFunctionalLife
<1>5. /\ life \in [flat.procs -> {"idle", "running", "done"}]
      /\ life' \in [flat.procs -> {"idle", "running", "done"}]
      /\ life'[p] = "done"
      /\ \A q \in flat.procs : q # p => life'[q] = life[q]
  BY <1>1, <1>3 DEF ExecTypeOK
<1>6. /\ DOMAIN dataOut' = DataOuts
      /\ \A o \in DataOuts : dataOut'[o].items \in Seq(Nat)
      /\ \A o \in DataOutPorts(flat, p) : dataOut'[o] = Produced(o)
      /\ \A o \in DataOuts \ DataOutPorts(flat, p) : dataOut'[o] = dataOut[o]
  BY <1>1, <1>3, DataOutputsSet
<1>7. ExecTypeOK'
  <2>1. UNCHANGED <<flat, source, StreamOuts, StreamIns, DataOuts, DataIns>>
    BY <1>1, FrameIs, FramePorts
  <2> QED
    BY <1>1, <1>5, <1>6, <2>1 DEF ExecTypeOK
<1>8. StreamIntegrity' /\ EndsInOrder' /\ ClosedAtTheEnd' /\ WritersKeep'
  BY <1>1, <1>5, QuietStep DEF QuietStreams
<1>9. StreamsOver'
  <2>1. StreamInPorts(flat, p) = {} /\ StreamOutPorts(flat, p) = {}
    BY <1>2, <1>3, PortEnds DEF IsGraph
  <2>2. ASSUME NEW q \in flat.procs, NEW a \in CalledAt(plan, q), StepOver(a[1])'
        PROVE  StepOver(a[1]) \/ q = p
    <3>1. a[1] \in Nat /\ a[2] \in DOMAIN Calls(plan[a[1]]) /\ Calls(plan[a[1]])[a[2]] = q
      BY <1>1, <1>2, Places
    <3>2. a[1] < step + 1
      BY <1>1, <1>2, <2>2, <3>1 DEF StepOver
    <3>3. CASE a[1] < step
      BY <3>3 DEF StepOver
    <3>4. CASE a[1] = step
      <4>1. Calls(plan[step]) = <<p>>
        BY <1>1, <1>2, StepKinds DEF p
      <4> QED
        BY <3>1, <3>4, <4>1
    <3> QED
      BY <1>2, <3>1, <3>2, <3>3, <3>4
  <2> QED
    BY <1>1, <2>1, <2>2, QuietStreamsOver
<1>10. ReadersReplay'
  <2>1. \A q \in flat.procs : IsReader(q) => q # p
    BY <1>1, <1>3, BufferKinds
  <2> QED
    BY <1>1, <1>5, <2>1, ReadersKept
<1>11. ValuesAwaitCopy'
  <2>1. ASSUME NEW q \in flat.procs, q # p, NEW o \in DataOutPorts(flat, q)
        PROVE  dataOut'[o] = dataOut[o]
    <3>1. o \in DataOuts /\ o \notin DataOutPorts(flat, p)
      BY <2>1, DataOutPortOwner DEF DataOuts, PortsOf
    <3> QED
      BY <1>6, <3>1
  <2> QED
    BY <1>1, <1>5, <1>6, <2>1, AwaitKept
<1>12. ValuesCopied'
  BY <1>1, <1>2, CopiedKept
<1> QED
  BY <1>4, <1>7, <1>8, <1>9, <1>10, <1>11, <1>12 DEF RunInv

LEMMA RunCopyDataInv ==
  ASSUME ExecInv, Started, RunCopyData
  PROVE  RunInv' /\ status' \in {"running", "done"}
<1> DEFINE from == plan[step].from
           to == ToSet(plan[step].to)
<1>1. /\ PlanInv /\ phase = "planned" /\ Frame /\ ControlOK /\ ExecTypeOK /\ LifeFollowsPlan
      /\ ReadersReplay /\ ValuesAwaitCopy /\ ValuesCopied
      /\ status = "running" /\ plan[step].kind = "copy"
      /\ step' = step + 1 /\ mode' = "initialise"
      /\ dataIn' = [i \in DOMAIN dataIn |-> IF i \in to THEN dataOut[from] ELSE dataIn[i]]
      /\ dataOut' = [dataOut EXCEPT ![from] = MovedOut]
      /\ UNCHANGED <<life, streamOut, streamIn, buf, sent, got>>
  BY DEF ExecInv, RunInv, RunCopyData, Running, Frame, GoTo, Updated
<1>2. step \in DOMAIN plan /\ step \in Nat /\ IsGraph(flat)
      /\ \A a : a \in DOMAIN plan => a \in Nat
  BY <1>1, PlanFacts DEF ControlOK
<1>3. \E p \in flat.procs : from \in DataOutPorts(flat, p)
  BY <1>1, <1>2, StepKinds
<1>4. from \in DataOuts
  BY <1>3 DEF DataOuts, PortsOf
<1>5. \A c \in flat.conns : InPort(c) \in to =>
        /\ CopiesAt(plan, c, step) /\ OutPort(c) = from /\ ~c.stream
        /\ \E u \in CalledAt(plan, c.up) : u[1] < step
        /\ \A d \in CalledAt(plan, c.down) : step < d[1]
        /\ \A m \in DOMAIN plan : plan[m].kind = "copy" /\ plan[m].from = from => m = step
  BY <1>1, <1>2, ConnPlaces DEF CopiesAt
<1> HIDE DEF from, to
<1>6. ControlOK' /\ LifeFollowsPlan' /\ status' \in {"running", "done"}
  BY RunCopyDataLife
<1>7. ExecTypeOK'
  <2>1. UNCHANGED <<flat, source, StreamOuts, StreamIns, DataOuts, DataIns>>
    BY <1>1, FrameIs, FramePorts
  <2>2. /\ DOMAIN dataOut = DataOuts /\ DOMAIN dataIn = DataIns
        /\ \A o \in DataOuts : dataOut[o].items \in Seq(Nat)
        /\ \A i \in DataIns : dataIn[i].items \in Seq(Nat)
    BY <1>1 DEF ExecTypeOK
  <2>3. MovedOut.items \in Seq(Nat)
    BY DEF MovedOut
  <2>4. /\ DOMAIN dataOut' = DataOuts /\ DOMAIN dataIn' = DataIns
        /\ \A o \in DataOuts : dataOut'[o] = IF o = from THEN MovedOut ELSE dataOut[o]
        /\ \A i \in DataIns : dataIn'[i] = IF i \in to THEN dataOut[from] ELSE dataIn[i]
    BY <1>1, <2>2
  <2>5. /\ \A o \in DataOuts : dataOut'[o].items \in Seq(Nat)
        /\ \A i \in DataIns : dataIn'[i].items \in Seq(Nat)
    BY <1>4, <2>2, <2>3, <2>4
  <2> QED
    BY <1>1, <2>1, <2>4, <2>5 DEF ExecTypeOK
<1>8. StreamIntegrity' /\ EndsInOrder' /\ ClosedAtTheEnd' /\ WritersKeep'
  BY <1>1, QuietStep DEF QuietStreams
<1>9. StreamsOver'
  <2>1. ASSUME NEW q \in flat.procs, NEW a \in CalledAt(plan, q), StepOver(a[1])'
        PROVE  StepOver(a[1])
    <3>1. a[1] \in Nat /\ a[2] \in DOMAIN Calls(plan[a[1]])
      BY <1>1, <1>2, Places
    <3>2. a[1] < step + 1
      BY <1>1, <1>2, <2>1, <3>1 DEF StepOver
    <3>3. a[1] # step
      BY <1>1, <1>2, <3>1, StepKinds
    <3> QED
      BY <1>2, <3>1, <3>2, <3>3 DEF StepOver
  <2> QED
    BY <1>1, <2>1, QuietStreamsOver
<1>10. ASSUME NEW q \in flat.procs, IsReader(q), life[q] # "idle"
       PROVE  dataIn'[<<q, "in">>] = dataIn[<<q, "in">>]
  <2>1. <<q, "in">> \in DataIns /\ <<q, "in">> \in DataInPorts(flat, q)
    BY <1>1, <1>10, BufferKinds
  <2>2. PICK c \in flat.conns : c.down = q /\ InPort(c) = <<q, "in">>
    BY <2>1, PortEnds
  <2>3. PICK a \in CalledAt(plan, q) : TRUE
    BY <1>1, Places
  <2>4. InPort(c) \in to => step < a[1]
    BY <1>5, <2>2, <2>3
  <2>5. step < a[1] => life[q] = "idle"
    BY <1>1, <1>2, <2>3, Places DEF LifeFollowsPlan, LifeAt
  <2> QED
    BY <1>1, <1>10, <2>1, <2>2, <2>4, <2>5 DEF ExecTypeOK
<1>11. ReadersReplay'
  <2>1. flat' = flat /\ \A q : IsReader(q)' <=> IsReader(q)
    BY <1>1, FrameIs, FramePorts
  <2>2. ASSUME NEW q \in flat.procs, IsReader(q)
        PROVE  /\ life'[q] = "idle" => sent'[<<q, "out">>] = <<>>
               /\ life'[q] # "idle" =>
                    sent'[<<q, "out">>] \o buf'[q] = dataIn'[<<q, "in">>].items
    <3>1. /\ life[q] = "idle" => sent[<<q, "out">>] = <<>>
          /\ life[q] # "idle" =>
               sent[<<q, "out">>] \o buf[q] = dataIn[<<q, "in">>].items
      BY <1>1, <2>2 DEF ReadersReplay
    <3> QED
      BY <1>1, <1>10, <2>2, <3>1
  <2> QED
    BY <2>1, <2>2, Zenon DEF ReadersReplay
<1>12. ValuesAwaitCopy'
  <2>1. ASSUME NEW q \in flat.procs, NEW o \in DataOutPorts(flat, q)
        PROVE  dataOut'[o] = dataOut[o]
               \/ \E n \in DOMAIN plan : plan[n].kind = "copy" /\ plan[n].from = o /\ n < step'
    <3>1. o \in DataOuts
      BY <2>1 DEF DataOuts, PortsOf
    <3>2. CASE o = from
      BY <1>1, <1>2, <3>2 DEF from
    <3>3. CASE o # from
      BY <1>1, <3>1, <3>3 DEF ExecTypeOK
    <3> QED
      BY <3>2, <3>3
  <2> QED
    BY <1>1, <2>1, AwaitKept
<1>13. ValuesCopied'
  <2>1. ASSUME NEW c \in flat.conns, NEW n \in DOMAIN plan, n < step', CopiesAt(plan, c, n)
        PROVE  dataIn'[InPort(c)] = Produced(OutPort(c))
    <3>1. ~c.stream /\ c.up \in flat.procs /\ \E u \in CalledAt(plan, c.up) : u[1] < n
      BY <1>1, <2>1, ConnPlaces
    <3>2. InPort(c) \in DataIns
      BY <1>2, <2>1, <3>1, PortsOfGraph DEF DataIns
    <3>3. OutPort(c) \in DataOutPorts(flat, c.up)
      BY <3>1, PortOwners
    <3>4. CASE n = step
      <4>1. plan[n].from = OutPort(c) /\ InPort(c) \in to
        BY <2>1, <3>4 DEF CopiesAt, to
      <4>2. OutPort(c) = from
            /\ \A m \in DOMAIN plan : plan[m].kind = "copy" /\ plan[m].from = OutPort(c) => m = step
        BY <1>5, <4>1
      <4>3. life[c.up] = "done"
        <5>1. PICK u \in CalledAt(plan, c.up) : u[1] < n
          BY <3>1
        <5> QED
          BY <1>1, <3>1, <3>4, <5>1 DEF LifeFollowsPlan, LifeAt
      <4>4. \A m \in DOMAIN plan : plan[m].kind = "copy" /\ plan[m].from = OutPort(c) => step <= m
        BY <1>2, <4>2
      <4>5. dataOut[OutPort(c)] = Produced(OutPort(c))
        BY <1>1, <3>1, <3>3, <4>3, <4>4 DEF ValuesAwaitCopy
      <4> QED
        BY <1>1, <3>2, <4>1, <4>2, <4>5 DEF ExecTypeOK
    <3>5. CASE n < step
      <4>1. InPort(c) \notin to
        <5> SUFFICES ASSUME InPort(c) \in to PROVE FALSE
          OBVIOUS
        <5>1. OutPort(c) = from
          BY <1>5
        <5>2. plan[n].kind = "copy" /\ plan[n].from = from
          BY <2>1, <5>1 DEF CopiesAt
        <5>3. n = step
          BY <1>5, <5>2
        <5> QED
          BY <1>2, <3>5, <5>3
      <4>2. dataIn[InPort(c)] = Produced(OutPort(c))
        BY <1>1, <2>1, <3>5 DEF ValuesCopied
      <4> QED
        BY <1>1, <3>2, <4>1, <4>2 DEF ExecTypeOK
    <3> QED
      BY <1>1, <1>2, <2>1, <3>4, <3>5
  <2>2. \A o : Produced(o)' = Produced(o)
    BY <1>1, FramePorts DEF Produced
  <2>3. flat' = flat /\ plan' = plan /\ \A c, n : CopiesAt(plan, c, n)' <=> CopiesAt(plan, c, n)
    BY <1>1, FrameIs DEF CopiesAt
  <2> QED
    BY <2>1, <2>2, <2>3 DEF ValuesCopied
<1> QED
  BY <1>6, <1>7, <1>8, <1>9, <1>11, <1>12, <1>13 DEF RunInv

LEMMA InitialiseInv ==
  ASSUME ExecInv, Started, Initialise
  PROVE  RunInv' /\ status' = "running"
<1> DEFINE p == Processes[at]
           given == IF IsReader(p) THEN [buf EXCEPT ![p] = dataIn[<<p, "in">>].items] ELSE buf
<1>1. /\ InMode("initialise") /\ Frame /\ step' = step
      /\ mode' \in {"initialise", "run"}
      /\ life' = [life EXCEPT ![p] = "running"] /\ buf' = given
      /\ UNCHANGED <<dataOut, dataIn, streamOut, streamIn, sent, got>>
  BY DEF Initialise, InMode, Running, Frame, Advance
<1>2. /\ PlanInv /\ phase = "planned" /\ ExecTypeOK /\ LifeFollowsPlan /\ ReadersReplay
      /\ mode = "initialise" /\ step \in DOMAIN plan /\ step \in Nat
      /\ plan[step].kind = "streaming" /\ Calls(plan[step]) = Processes
      /\ at \in DOMAIN Processes /\ at \in Nat
  BY <1>1, InModeIs DEF RunInv, InMode, Running
<1>3. p \in flat.procs /\ \A a \in CalledAt(plan, p) : a[1] = step /\ a[2] = at
  BY <1>2, CallsOfStep
<1>4. IsReader(p) => p \in flat.procs \ source.procs /\ <<p, "in">> \in DataIns
  BY <1>2, <1>3, BufferKinds
<1> HIDE DEF p
<1>5. life[p] = "idle"
  <2>1. PICK a \in CalledAt(plan, p) : TRUE
    BY <1>2, <1>3, Places
  <2> QED
    BY <1>2, <1>3, <2>1 DEF LifeFollowsPlan, LifeAt
<1>6. /\ life' \in [flat.procs -> {"idle", "running", "done"}]
      /\ life'[p] = "running"
      /\ \A q \in flat.procs : q # p => life'[q] = life[q]
  BY <1>1, <1>2, <1>3 DEF ExecTypeOK
<1>7. /\ buf' \in [flat.procs \ source.procs -> Seq(Nat)]
      /\ \A q \in flat.procs : q # p => buf'[q] = buf[q]
      /\ IF IsReader(p) THEN buf'[p] = dataIn[<<p, "in">>].items ELSE buf' = buf
  <2>1. buf \in [flat.procs \ source.procs -> Seq(Nat)]
        /\ \A i \in DataIns : dataIn[i].items \in Seq(Nat)
    BY <1>2 DEF ExecTypeOK
  <2>2. CASE IsReader(p)
    BY <1>1, <1>4, <2>1, <2>2
  <2>3. CASE ~IsReader(p)
    BY <1>1, <2>1, <2>3
  <2> QED
    BY <2>2, <2>3
<1> HIDE DEF given
<1>8. ControlOK' /\ LifeFollowsPlan' /\ status' = "running"
  BY InitialiseLife
<1>9. ExecTypeOK'
  <2>1. UNCHANGED <<flat, source, StreamOuts, StreamIns, DataOuts, DataIns>>
    BY <1>1, FrameIs, FramePorts
  <2> QED
    BY <1>1, <1>2, <1>6, <1>7, <2>1 DEF ExecTypeOK
<1>10. StreamIntegrity' /\ EndsInOrder' /\ ClosedAtTheEnd' /\ WritersKeep'
  <2>1. \A q \in flat.procs : life[q] # "idle" => life'[q] # "idle"
    BY <1>5, <1>6
  <2>2. \A q \in flat.procs : IsWriter(q) \/ life[q] # "idle" => buf'[q] = buf[q]
    BY <1>2, <1>5, <1>7, BufferKinds
  <2> QED
    BY <1>1, <2>1, <2>2, QuietStep DEF QuietStreams
<1>11. StreamsOver'
  <2>1. \A n : StepOver(n)' => StepOver(n)
    BY <1>1 DEF StepOver
  <2> QED
    BY <1>1, <2>1, QuietStreamsOver
<1>12. ReadersReplay'
  <2>1. flat' = flat /\ \A q : IsReader(q)' <=> IsReader(q)
    BY <1>1, FrameIs, FramePorts
  <2>2. ASSUME NEW q \in flat.procs, IsReader(q)
        PROVE  /\ life'[q] = "idle" => sent'[<<q, "out">>] = <<>>
               /\ life'[q] # "idle" =>
                    sent'[<<q, "out">>] \o buf'[q] = dataIn'[<<q, "in">>].items
    <3>1. /\ life[q] = "idle" => sent[<<q, "out">>] = <<>>
          /\ life[q] # "idle" =>
               sent[<<q, "out">>] \o buf[q] = dataIn[<<q, "in">>].items
      BY <1>2, <2>2 DEF ReadersReplay
    <3>2. CASE q = p
      <4>1. dataIn[<<q, "in">>].items \in Seq(Nat)
        BY <1>2, <1>4, <2>2, <3>2 DEF ExecTypeOK
      <4>2. <<>> \o dataIn[<<q, "in">>].items = dataIn[<<q, "in">>].items
        BY <4>1, ItemSeqs
      <4>3. sent'[<<q, "out">>] = <<>> /\ buf'[q] = dataIn[<<q, "in">>].items
        BY <1>1, <1>5, <1>7, <2>2, <3>1, <3>2
      <4> QED
        BY <1>1, <1>6, <3>2, <4>2, <4>3
    <3>3. CASE q # p
      BY <1>1, <1>6, <1>7, <3>1, <3>3
    <3> QED
      BY <3>2, <3>3
  <2> QED
    BY <2>1, <2>2, Zenon DEF ReadersReplay
<1>13. ValuesAwaitCopy'
  BY <1>1, <1>6, <1>7, AwaitKept
<1>14. ValuesCopied'
  BY <1>1, <1>2, <1>5, <1>7, CopiedKept
<1> QED
  BY <1>8, <1>9, <1>10, <1>11, <1>12, <1>13, <1>14 DEF RunInv

LEMMA CheckRunnableInv ==
  ASSUME ExecInv, Started, CheckRunnable
  PROVE  RunInv' /\ status' = "running"
<1>1. /\ InMode("check") /\ Frame /\ step' = step /\ at' = at
      /\ mode' = IF StillRunnable THEN "run" ELSE "finalise"
      /\ UNCHANGED <<status, life, dataOut, dataIn, streamOut, streamIn, buf, sent, got>>
  BY DEF CheckRunnable, Frame, portVars
<1>2. /\ PlanInv /\ phase = "planned" /\ ExecTypeOK /\ status = "running" /\ at = 1
      /\ mode = "check" /\ step \in DOMAIN plan /\ step \in Nat
      /\ Calls(plan[step]) = Processes /\ Len(InnerPlan) \in Nat \ {0}
  BY <1>1, InModeIs DEF RunInv
<1>3. /\ mode' \in {"run", "finalise"} /\ (mode' = "finalise" => ~StillRunnable)
      /\ 1 \in 1 .. Len(InnerPlan)
  BY <1>1, <1>2
<1>4. ControlOK' /\ LifeFollowsPlan'
  BY <1>1, <1>2, <1>3, StillRunningLife
<1>5. ExecTypeOK'
  <2>1. UNCHANGED <<flat, source, StreamOuts, StreamIns, DataOuts, DataIns>>
    BY <1>1, FrameIs, FramePorts
  <2> QED
    BY <1>1, <1>2, <2>1 DEF ExecTypeOK
<1>6. StreamIntegrity' /\ EndsInOrder' /\ ClosedAtTheEnd' /\ WritersKeep'
  BY <1>1, QuietStep DEF QuietStreams
<1>7. StreamsOver'
  <2>1. ASSUME NEW q \in flat.procs, NEW a \in CalledAt(plan, q), StepOver(a[1])', ~StepOver(a[1])
        PROVE  /\ \A i \in StreamInPorts(flat, q) : Eof(streamIn[i])
               /\ \A o \in StreamOutPorts(flat, q) : Eof(streamOut[o])
    <3>1. a[1] = step /\ ~StillRunnable
      BY <1>1, <1>3, <2>1 DEF StepOver
    <3>2. q \in ToSet(Processes)
      BY <1>2, <3>1, Places DEF ToSet
    <3> QED
      BY <3>1, <3>2 DEF StillRunnable
  <2>2. StreamsOver
    BY DEF ExecInv, RunInv
  <2>3. /\ UNCHANGED <<flat, plan>> /\ \A q : CalledAt(plan, q)' = CalledAt(plan, q)
    BY <1>1, FrameIs
  <2>4. ASSUME NEW q \in flat.procs, NEW a \in CalledAt(plan, q), StepOver(a[1])'
        PROVE  /\ \A i \in StreamInPorts(flat, q) : Eof(streamIn[i])
               /\ \A o \in StreamOutPorts(flat, q) : Eof(streamOut[o])
    BY <2>1, <2>2, <2>4 DEF StreamsOver
  <2> QED
    BY <1>1, <2>3, <2>4 DEF StreamsOver
<1>8. ReadersReplay'
  BY <1>1, ReadersKept
<1>9. ValuesAwaitCopy'
  BY <1>1, AwaitKept
<1>10. ValuesCopied'
  BY <1>1, <1>2, CopiedKept
<1> QED
  BY <1>1, <1>2, <1>4, <1>5, <1>6, <1>7, <1>8, <1>9, <1>10 DEF RunInv

LEMMA FinaliseInv ==
  ASSUME ExecInv, Started, Finalise
  PROVE  RunInv' /\ status' \in {"running", "done"}
<1> DEFINE p == Processes[at]
<1>1. /\ InMode("finalise") /\ Frame
      /\ \/ step' = step /\ mode' = "finalise"
         \/ step' = step + 1 /\ mode' = "initialise"
      /\ life' = [life EXCEPT ![p] = "done"] /\ SetDataOutputs(p)
      /\ UNCHANGED <<dataIn, streamOut, streamIn, buf, sent, got>>
  BY DEF Finalise, InMode, Running, Frame, GoTo
<1>2. /\ PlanInv /\ phase = "planned" /\ ExecTypeOK /\ LifeFollowsPlan
      /\ mode = "finalise" /\ step \in DOMAIN plan /\ step \in Nat
      /\ plan[step].kind = "streaming" /\ Calls(plan[step]) = Processes
      /\ at \in DOMAIN Processes /\ at \in Nat
      /\ \A a : a \in DOMAIN plan => a \in Nat
  BY <1>1, InModeIs, PlanFacts DEF RunInv, InMode, Running
<1>3. p \in flat.procs /\ \A a \in CalledAt(plan, p) : a[1] = step /\ a[2] = at
  BY <1>2, CallsOfStep
<1> HIDE DEF p
<1>4. ControlOK' /\ LifeFollowsPlan' /\ status' \in {"running", "done"}
  BY FinaliseLife
<1>5. /\ life' \in [flat.procs -> {"idle", "running", "done"}]
      /\ life[p] = "running" /\ life'[p] = "done"
      /\ \A q \in flat.procs : q # p => life'[q] = life[q]
  <2>1. PICK a \in CalledAt(plan, p) : TRUE
    BY <1>2, <1>3, Places
  <2>2. life[p] = "running"
    BY <1>2, <1>3, <2>1 DEF LifeFollowsPlan, LifeAt
  <2> QED
    BY <1>1, <1>2, <1>3, <2>2 DEF ExecTypeOK
<1>6. /\ DOMAIN dataOut' = DataOuts
      /\ \A o \in DataOuts : dataOut'[o].items \in Seq(Nat)
      /\ \A o \in DataOutPorts(flat, p) : dataOut'[o] = Produced(o)
      /\ \A o \in DataOuts \ DataOutPorts(flat, p) : dataOut'[o] = dataOut[o]
  BY <1>1, <1>3, DataOutputsSet
<1>7. ExecTypeOK'
  <2>1. UNCHANGED <<flat, source, StreamOuts, StreamIns, DataOuts, DataIns>>
    BY <1>1, FrameIs, FramePorts
  <2> QED
    BY <1>1, <1>2, <1>5, <1>6, <2>1 DEF ExecTypeOK
<1>8. StreamIntegrity' /\ EndsInOrder' /\ ClosedAtTheEnd' /\ WritersKeep'
  BY <1>1, <1>5, QuietStep DEF QuietStreams
<1>9. StreamsOver'
  <2>1. ASSUME NEW q \in flat.procs, NEW a \in CalledAt(plan, q), StepOver(a[1])'
        PROVE  StepOver(a[1])
    <3>1. a[1] \in Nat
      BY <1>2, Places
    <3> QED
      BY <1>1, <1>2, <2>1, <3>1 DEF StepOver
  <2> QED
    BY <1>1, <2>1, QuietStreamsOver
<1>10. ReadersReplay'
  BY <1>1, <1>5, ReadersKept
<1>11. ValuesAwaitCopy'
  <2>1. ASSUME NEW q \in flat.procs, q # p, NEW o \in DataOutPorts(flat, q)
        PROVE  dataOut'[o] = dataOut[o]
    <3>1. o \in DataOuts /\ o \notin DataOutPorts(flat, p)
      BY <2>1, DataOutPortOwner DEF DataOuts, PortsOf
    <3> QED
      BY <1>6, <3>1
  <2> QED
    BY <1>1, <1>5, <1>6, <2>1, AwaitKept
<1>12. ValuesCopied'
  BY <1>1, <1>2, CopiedKept
<1> QED
  BY <1>4, <1>7, <1>8, <1>9, <1>10, <1>11, <1>12 DEF RunInv

\* On to the next of a turn, or to its end.
LEMMA TurnGoesOn ==
  ASSUME ExecInv, Started, InMode("run"), Advance(Len(InnerPlan), "check")
  PROVE  /\ status' = status /\ step' = step /\ mode' \in {"run", "check"}
         /\ \/ mode' = "run" /\ at' \in 1 .. Len(InnerPlan)
            \/ mode' \in {"check", "finalise"} /\ at' = 1
<1>1. at \in 1 .. Len(InnerPlan) /\ Len(InnerPlan) \in Nat /\ mode = "run"
  BY InModeIs
<1>2. /\ status' = status /\ step' = step
      /\ \/ at < Len(InnerPlan) /\ at' = at + 1 /\ mode' = mode
         \/ at' = 1 /\ mode' = "check"
  BY DEF Advance
<1> HIDE DEF InnerPlan
<1> QED
  BY <1>1, <1>2

\* A call that keeps to what process() may do, in the step the process is in.
LEMMA CallInv ==
  ASSUME ExecInv, Started, status = "running", InStreaming, Frame,
         UNCHANGED <<status, step, life, dataOut, dataIn>>,
         mode' \in {"run", "check"}, ControlOK', LifeFollowsPlan',
         NEW p \in flat.procs, CallOK(p), life[p] = "running",
         \A a \in CalledAt(plan, p) : a[1] = step
  PROVE  RunInv'
<1>1. Frame /\ UNCHANGED <<life, dataOut, dataIn>>
  OBVIOUS
<1>2. CallOK(p) /\ life[p] = "running" /\ \A a \in CalledAt(plan, p) : a[1] = step
  OBVIOUS
<1>3. /\ PlanInv /\ phase = "planned" /\ RunInv /\ status = "running"
      /\ step \in DOMAIN plan /\ step \in Nat
      /\ \A a : a \in DOMAIN plan => a \in Nat
  BY PlanFacts DEF ExecInv, InStreaming
<1>4. /\ status' = status /\ step' = step /\ mode' \in {"run", "check"}
      /\ ControlOK' /\ LifeFollowsPlan'
  OBVIOUS
<1>5. /\ Flows(p) /\ buf' \in [flat.procs \ source.procs -> Seq(Nat)]
      /\ \A q \in flat.procs \ source.procs : q # p => buf'[q] = buf[q]
  BY <1>2 DEF CallOK
<1>6. /\ UNCHANGED <<flat, source, plan, StreamOuts, StreamIns, DataOuts, DataIns, StreamConns>>
      /\ \A q : CalledAt(plan, q)' = CalledAt(plan, q)
      /\ \A q : /\ IsUser(q)' <=> IsUser(q)
                /\ IsWriter(q)' <=> IsWriter(q)
                /\ IsReader(q)' <=> IsReader(q)
  BY <1>1, FrameIs, FramePorts
<1>7. IsGraph(flat) /\ ExecTypeOK
  BY <1>3, PlanFacts DEF RunInv
<1>8. ExecTypeOK'
  BY <1>1, <1>5, <1>6, <1>7 DEF ExecTypeOK, Flows
<1>9. \A q \in flat.procs : q # p =>
        /\ \A i \in StreamInPorts(flat, q) : streamIn'[i] = streamIn[i] /\ got'[i] = got[i]
        /\ \A o \in StreamOutPorts(flat, q) : streamOut'[o] = streamOut[o] /\ sent'[o] = sent[o]
  <2> SUFFICES ASSUME NEW q \in flat.procs, q # p
               PROVE  /\ \A i \in StreamInPorts(flat, q) : streamIn'[i] = streamIn[i] /\ got'[i] = got[i]
                      /\ \A o \in StreamOutPorts(flat, q) : streamOut'[o] = streamOut[o] /\ sent'[o] = sent[o]
    OBVIOUS
  <2>1. /\ \A i \in StreamInPorts(flat, q) : i \in StreamIns /\ i \notin StreamInPorts(flat, p)
        /\ \A o \in StreamOutPorts(flat, q) : o \in StreamOuts /\ o \notin StreamOutPorts(flat, p)
    BY PortOwners DEF StreamIns, StreamOuts, PortsOf
  <2> QED
    BY <1>5, <2>1 DEF Flows
<1>10. StreamIntegrity'
  <2>1. ASSUME NEW c \in StreamConns
        PROVE  sent'[OutPort(c)] =
                 got'[InPort(c)] \o streamIn'[InPort(c)].queue \o streamOut'[OutPort(c)].queue
    <3> DEFINE o == OutPort(c)
               i == InPort(c)
               a == got[i] \o streamIn[i].queue
               b == streamOut[o].queue
    <3>1. o \in StreamOuts /\ i \in StreamIns
      BY <1>7, <2>1, PortsOfGraph DEF StreamOuts, StreamIns, StreamConns
    <3>2. a \in Seq(Nat) /\ b \in Seq(Nat)
      <4>1. got[i] \in Seq(Nat) /\ streamIn[i].queue \in Seq(Nat) /\ b \in Seq(Nat)
        BY <1>7, <3>1 DEF ExecTypeOK, StreamPort
      <4> QED
        BY <4>1, ItemSeqs
    <3>3. sent[o] = a \o b
      BY <1>3, <2>1 DEF RunInv, StreamIntegrity
    <3>4. PICK x \in Seq(Nat) : sent'[o] = sent[o] \o x /\ streamOut'[o].queue = b \o x
      BY <1>5, <3>1 DEF Flows
    <3>5. got'[i] \o streamIn'[i].queue = a
      BY <1>5, <3>1 DEF Flows
    <3> HIDE DEF a, b
    <3>6. (a \o b) \o x = a \o (b \o x)
      BY <3>2, ItemSeqs, SMTT(30)
    <3> HIDE DEF o, i
    <3>7. sent'[o] = got'[i] \o streamIn'[i].queue \o streamOut'[o].queue
      BY <3>3, <3>4, <3>5, <3>6, Zenon
    <3> QED
      BY <3>7 DEF o, i
  <2> QED
    BY <1>6, <2>1, Zenon DEF StreamIntegrity
<1>11. EndsInOrder'
  <2>1. ASSUME NEW c \in StreamConns, streamIn'[InPort(c)].eof
        PROVE  streamOut'[OutPort(c)].eof /\ streamOut'[OutPort(c)].queue = <<>>
    <3>1. OutPort(c) \in StreamOuts /\ InPort(c) \in StreamIns
      BY <1>7, <2>1, PortsOfGraph DEF StreamOuts, StreamIns, StreamConns
    <3>2. streamIn[InPort(c)].eof
      BY <1>5, <2>1, <3>1 DEF Flows
    <3>3. streamOut[OutPort(c)].eof /\ streamOut[OutPort(c)].queue = <<>>
      BY <1>3, <3>2 DEF RunInv, EndsInOrder
    <3> QED
      BY <1>5, <3>1, <3>3 DEF Flows
  <2> QED
    BY <1>6, <2>1 DEF EndsInOrder
<1>12. ClosedAtTheEnd'
  <2>1. ASSUME NEW q \in flat.procs, NEW o \in StreamOutPorts(flat, q), streamOut'[o].eof
        PROVE  /\ life'[q] # "idle"
               /\ IsUser(q) => \A i \in StreamInPorts(flat, q) : Eof(streamIn'[i])
               /\ IsReader(q) => buf'[q] = <<>>
    <3>1. CASE q = p
      BY <1>1, <1>2, <2>1, <3>1 DEF CallOK
    <3>2. CASE q # p
      <4>1. /\ life[q] # "idle"
            /\ IsUser(q) => \A i \in StreamInPorts(flat, q) : Eof(streamIn[i])
            /\ IsReader(q) => buf[q] = <<>>
        BY <1>3, <1>9, <2>1, <3>2 DEF RunInv, ClosedAtTheEnd
      <4>2. IsReader(q) => buf'[q] = buf[q]
        BY <1>3, <1>5, <3>2, BufferKinds
      <4> QED
        BY <1>1, <1>9, <3>2, <4>1, <4>2
    <3> QED
      BY <3>1, <3>2
  <2> QED
    BY <1>6, <2>1 DEF ClosedAtTheEnd
<1>13. StreamsOver'
  <2>1. ASSUME NEW q \in flat.procs, NEW a \in CalledAt(plan, q), StepOver(a[1])'
        PROVE  /\ \A i \in StreamInPorts(flat, q) : Eof(streamIn'[i])
               /\ \A o \in StreamOutPorts(flat, q) : Eof(streamOut'[o])
    <3>1. a[1] < step /\ a[1] \in Nat
      BY <1>3, <1>4, <2>1, Places DEF StepOver
    <3>2. q # p /\ StepOver(a[1])
      BY <1>2, <1>3, <3>1 DEF StepOver
    <3>3. /\ \A i \in StreamInPorts(flat, q) : Eof(streamIn[i])
          /\ \A o \in StreamOutPorts(flat, q) : Eof(streamOut[o])
      BY <1>3, <3>2 DEF RunInv, StreamsOver
    <3> QED
      BY <1>9, <3>2, <3>3
  <2> QED
    BY <1>6, <2>1 DEF StreamsOver
<1>14. WritersKeep'
  <2>1. ASSUME NEW q \in flat.procs, IsWriter(q)
        PROVE  buf'[q] = got'[<<q, "in">>]
    <3>1. CASE q = p
      BY <1>2, <2>1, <3>1 DEF CallOK
    <3>2. CASE q # p
      <4>1. q \in flat.procs \ source.procs /\ <<q, "in">> \in StreamInPorts(flat, q)
        BY <1>3, <2>1, BufferKinds
      <4> QED
        BY <1>3, <1>5, <1>9, <2>1, <3>2, <4>1 DEF RunInv, WritersKeep
    <3> QED
      BY <3>1, <3>2
  <2> QED
    BY <1>6, <2>1 DEF WritersKeep
<1>15. ReadersReplay'
  <2>1. ASSUME NEW q \in flat.procs, IsReader(q)
        PROVE  /\ life'[q] = "idle" => sent'[<<q, "out">>] = <<>>
               /\ life'[q] # "idle" =>
                    sent'[<<q, "out">>] \o buf'[q] = dataIn'[<<q, "in">>].items
    <3>1. /\ life[q] = "idle" => sent[<<q, "out">>] = <<>>
          /\ life[q] # "idle" =>
               sent[<<q, "out">>] \o buf[q] = dataIn[<<q, "in">>].items
      BY <1>3, <2>1 DEF RunInv, ReadersReplay
    <3>2. CASE q = p
      <4>1. sent'[<<q, "out">>] \o buf'[q] = sent[<<q, "out">>] \o buf[q]
        BY <1>2, <2>1, <3>2 DEF CallOK
      <4>2. life'[q] = "running" /\ life[q] = "running" /\ dataIn' = dataIn
        BY <1>1, <1>2, <3>2
      <4> QED
        BY <3>1, <4>1, <4>2
    <3>3. CASE q # p
      <4>1. /\ q \in flat.procs \ source.procs
            /\ <<q, "out">> \in StreamOutPorts(flat, q)
        BY <1>3, <2>1, BufferKinds
      <4>2. sent'[<<q, "out">>] = sent[<<q, "out">>] /\ buf'[q] = buf[q]
        BY <1>5, <1>9, <3>3, <4>1
      <4> QED
        BY <1>1, <3>1, <4>2
    <3> QED
      BY <3>2, <3>3
  <2> QED
    BY <1>6, <2>1, Zenon DEF ReadersReplay
<1>16. \A q \in flat.procs : life[q] = "done" /\ ~IsUser(q) => buf'[q] = buf[q]
  BY <1>2, <1>5 DEF IsUser
<1>17. ValuesAwaitCopy'
  BY <1>1, <1>4, <1>16, AwaitKept
<1>18. ValuesCopied'
  BY <1>1, <1>3, <1>4, <1>16, CopiedKept
<1> QED
  BY <1>3, <1>4, <1>8, <1>10, <1>11, <1>12, <1>13, <1>14, <1>15, <1>17, <1>18 DEF RunInv

LEMMA RunProcessInv ==
  ASSUME ExecInv, Started, RunProcess
  PROVE  RunInv' /\ status' = "running"
<1>1. /\ InMode("run") /\ Frame /\ Advance(Len(InnerPlan), "check")
      /\ UNCHANGED <<life, dataOut, dataIn>>
  BY DEF RunProcess, Frame
<1>2. PICK p \in flat.procs : /\ CallOK(p) /\ life[p] = "running"
                              /\ \A a \in CalledAt(plan, p) : a[1] = step
  BY RunProcessCalls
<1>3. status = "running" /\ InStreaming
  BY <1>1, InModeIs
<1>4. /\ status' = status /\ step' = step /\ mode' \in {"run", "check"}
      /\ ControlOK' /\ LifeFollowsPlan'
  BY <1>1, TurnGoesOn, StillRunningLife
<1> QED
  BY <1>1, <1>2, <1>3, <1>4, CallInv

\* What a copied port does to the port at the other end.
LEMMA ReceivedIs ==
  ASSUME NEW port \in StreamPort, NEW other \in StreamPort
  PROVE  /\ Received(port, other) \in StreamPort
         /\ Received(port, other).queue = other.queue \o port.queue
         /\ Received(port, other).eof <=> other.eof \/ port.eof
         /\ Clear(port) \in StreamPort /\ Clear(port).queue = <<>>
         /\ Clear(port).eof = port.eof
<1>1. /\ port = [queue |-> port.queue, eof |-> port.eof]
      /\ port.queue \in Seq(Nat) /\ other.queue \in Seq(Nat)
      /\ port.eof \in BOOLEAN /\ other.eof \in BOOLEAN
  BY DEF StreamPort
<1>2. /\ Push(other, port.queue) \in StreamPort
      /\ Close(Push(other, port.queue)) \in StreamPort
      /\ Push(other, port.queue).queue = other.queue \o port.queue
      /\ Push(other, port.queue).eof = other.eof
      /\ Close(Push(other, port.queue)).queue = other.queue \o port.queue
      /\ Close(Push(other, port.queue)).eof = TRUE
  BY <1>1, PortOps, Zenon
<1>3. Received(port, other) = IF port.eof THEN Close(Push(other, port.queue))
                              ELSE Push(other, port.queue)
  BY DEF Received
<1>4. /\ Received(port, other) \in StreamPort
      /\ Received(port, other).queue = other.queue \o port.queue
      /\ Received(port, other).eof <=> other.eof \/ port.eof
  BY <1>2, <1>3
<1>5. Clear(port) = [queue |-> <<>>, eof |-> port.eof]
  BY <1>1 DEF Clear
<1>6. Clear(port) \in StreamPort /\ Clear(port).queue = <<>> /\ Clear(port).eof = port.eof
  BY <1>1, <1>5 DEF StreamPort
<1> QED
  BY <1>4, <1>6

\* The copy goes from a port of a process of the step to all ports connected
\* to it, none of which was closed before it.
LEMMA CopyStreamEffect ==
  ASSUME ExecInv, Started, RunCopyStream
  PROVE  \E p \in flat.procs : \E o \in StreamOutPorts(flat, p) :
           /\ \A a \in CalledAt(plan, p) : a[1] = step
           /\ Advance(Len(InnerPlan), "check")
           /\ streamIn' \in [StreamIns -> StreamPort] /\ streamOut' \in [StreamOuts -> StreamPort]
           /\ streamOut'[o].queue = <<>>
           /\ \A x \in StreamOuts : /\ streamOut'[x].eof <=> streamOut[x].eof
                                    /\ x # o => streamOut'[x] = streamOut[x]
           /\ \A c \in StreamConns :
                IF OutPort(c) = o
                THEN /\ streamIn'[InPort(c)].queue = streamIn[InPort(c)].queue \o streamOut[o].queue
                     /\ streamIn'[InPort(c)].eof <=> streamIn[InPort(c)].eof \/ streamOut[o].eof
                ELSE streamIn'[InPort(c)] = streamIn[InPort(c)]
<1> DEFINE o == InnerPlan[at].from
           to == ConnectedPorts(flat, o)
<1>1. InMode("run") /\ InnerPlan[at].kind = "copy"
  BY DEF RunCopyStream
<1>2. /\ PlanInv /\ phase = "planned" /\ ExecTypeOK /\ EndsInOrder
      /\ InStreaming /\ step \in DOMAIN plan
      /\ Calls(plan[step]) = Processes /\ at \in 1 .. Len(InnerPlan)
  BY <1>1, InModeIs DEF RunInv
<1>3. IsGraph(flat)
  BY <1>2, PlanFacts
<1>4. PICK p \in ToSet(Processes) : o \in StreamOutPorts(flat, p)
  <2>1. PICK q \in ToSet(Processes) :
          \/ InnerPlan[at] = CallProcess(q)
          \/ \E x \in StreamOutPorts(flat, q) : InnerPlan[at] = CopyStream(x)
    BY <1>2, InnerPlanIs
  <2>2. CallProcess(q).kind = "process"
    BY DEF CallProcess
  <2>3. \A x : CopyStream(x).from = x
    BY DEF CopyStream
  <2> QED
    BY <1>1, <2>1, <2>2, <2>3
<1>5. p \in flat.procs /\ \A a \in CalledAt(plan, p) : a[1] = step
  <2>1. PICK k \in DOMAIN Processes : p = Processes[k]
    BY DEF ToSet
  <2> QED
    BY <1>2, <2>1, CallsOfStep
<1>6. o \in StreamOuts
  BY <1>4, <1>5 DEF StreamOuts, PortsOf
<1>7. /\ streamOut \in [StreamOuts -> StreamPort] /\ streamIn \in [StreamIns -> StreamPort]
  BY <1>2 DEF ExecTypeOK
<1>8. \A i : i \in to <=> \E c \in flat.conns : OutPort(c) = o /\ i = InPort(c)
  BY DEF ConnectedPorts
<1>9. \A c \in flat.conns : OutPort(c) = o => c.stream
  BY <1>3, <1>4, PortEnds DEF IsGraph
<1>10. \A c \in StreamConns : /\ OutPort(c) \in StreamOuts /\ InPort(c) \in StreamIns
                              /\ InPort(c) \in to <=> OutPort(c) = o
  <2>1. \A c, d \in flat.conns : InPort(c) = InPort(d) => c = d
    BY <1>3 DEF IsGraph
  <2> QED
    BY <1>3, <1>8, <2>1, PortsOfGraph DEF StreamOuts, StreamIns, StreamConns
<1>11. \A i \in to : /\ i \in StreamIns
                     /\ streamIn[i].eof => streamOut[o].queue = <<>>
  BY <1>2, <1>8, <1>9, <1>10 DEF EndsInOrder, StreamConns
<1>12. \A i \in to : CanPush(streamIn[i], streamOut[o].queue)
  BY <1>11 DEF CanPush
<1>13. /\ streamIn' = [i \in StreamIns |->
                         IF i \in to THEN Received(streamOut[o], streamIn[i]) ELSE streamIn[i]]
       /\ streamOut' = [streamOut EXCEPT ![o] = Clear(streamOut[o])]
       /\ Advance(Len(InnerPlan), "check")
  BY <1>7, <1>12 DEF RunCopyStream, Updated
<1> HIDE DEF o, to
<1>14. ASSUME NEW i \in StreamIns
       PROVE  /\ Received(streamOut[o], streamIn[i]) \in StreamPort
              /\ Received(streamOut[o], streamIn[i]).queue = streamIn[i].queue \o streamOut[o].queue
              /\ Received(streamOut[o], streamIn[i]).eof <=> streamIn[i].eof \/ streamOut[o].eof
  <2>1. streamOut[o] \in StreamPort /\ streamIn[i] \in StreamPort
    BY <1>6, <1>7
  <2> QED
    BY <2>1, ReceivedIs
<1>15. /\ Clear(streamOut[o]) \in StreamPort /\ Clear(streamOut[o]).queue = <<>>
       /\ Clear(streamOut[o]).eof = streamOut[o].eof
  <2>1. streamOut[o] \in StreamPort
    BY <1>6, <1>7
  <2> QED
    BY <2>1, ReceivedIs
<1>16. \A i \in StreamIns :
         streamIn'[i] = IF i \in to THEN Received(streamOut[o], streamIn[i]) ELSE streamIn[i]
  BY <1>13
<1>17. streamIn' \in [StreamIns -> StreamPort]
  BY <1>7, <1>13, <1>14
<1>18. /\ streamOut' \in [StreamOuts -> StreamPort] /\ streamOut'[o].queue = <<>>
       /\ \A x \in StreamOuts : /\ streamOut'[x].eof <=> streamOut[x].eof
                                /\ x # o => streamOut'[x] = streamOut[x]
  BY <1>6, <1>7, <1>13, <1>15
<1>19. ASSUME NEW c \in StreamConns
       PROVE  IF OutPort(c) = o
              THEN /\ streamIn'[InPort(c)].queue = streamIn[InPort(c)].queue \o streamOut[o].queue
                   /\ streamIn'[InPort(c)].eof <=> streamIn[InPort(c)].eof \/ streamOut[o].eof
              ELSE streamIn'[InPort(c)] = streamIn[InPort(c)]
  <2>1. InPort(c) \in StreamIns /\ (InPort(c) \in to <=> OutPort(c) = o)
    BY <1>10
  <2>2. CASE OutPort(c) = o
    BY <1>14, <1>16, <2>1, <2>2
  <2>3. CASE OutPort(c) # o
    BY <1>16, <2>1, <2>3
  <2> QED
    BY <2>2, <2>3
<1> QED
  BY <1>4, <1>5, <1>13, <1>17, <1>18, <1>19 DEF o

LEMMA RunCopyStreamInv ==
  ASSUME ExecInv, Started, RunCopyStream
  PROVE  RunInv' /\ status' = "running"
<1>1. /\ InMode("run") /\ Frame
      /\ UNCHANGED <<life, dataOut, dataIn, buf, sent, got>>
  BY DEF RunCopyStream, Frame
<1>2. PICK p \in flat.procs : \E o \in StreamOutPorts(flat, p) :
        /\ \A a \in CalledAt(plan, p) : a[1] = step
        /\ Advance(Len(InnerPlan), "check")
        /\ streamIn' \in [StreamIns -> StreamPort] /\ streamOut' \in [StreamOuts -> StreamPort]
        /\ streamOut'[o].queue = <<>>
        /\ \A x \in StreamOuts : /\ streamOut'[x].eof <=> streamOut[x].eof
                                 /\ x # o => streamOut'[x] = streamOut[x]
        /\ \A c \in StreamConns :
             IF OutPort(c) = o
             THEN /\ streamIn'[InPort(c)].queue = streamIn[InPort(c)].queue \o streamOut[o].queue
                  /\ streamIn'[InPort(c)].eof <=> streamIn[InPort(c)].eof \/ streamOut[o].eof
             ELSE streamIn'[InPort(c)] = streamIn[InPort(c)]
  BY CopyStreamEffect
<1>3. PICK o \in StreamOutPorts(flat, p) :
        /\ \A a \in CalledAt(plan, p) : a[1] = step
        /\ Advance(Len(InnerPlan), "check")
        /\ streamIn' \in [StreamIns -> StreamPort] /\ streamOut' \in [StreamOuts -> StreamPort]
        /\ streamOut'[o].queue = <<>>
        /\ \A x \in StreamOuts : /\ streamOut'[x].eof <=> streamOut[x].eof
                                 /\ x # o => streamOut'[x] = streamOut[x]
        /\ \A c \in StreamConns :
             IF OutPort(c) = o
             THEN /\ streamIn'[InPort(c)].queue = streamIn[InPort(c)].queue \o streamOut[o].queue
                  /\ streamIn'[InPort(c)].eof <=> streamIn[InPort(c)].eof \/ streamOut[o].eof
             ELSE streamIn'[InPort(c)] = streamIn[InPort(c)]
  BY <1>2
<1>4. /\ PlanInv /\ phase = "planned" /\ RunInv /\ ExecTypeOK /\ status = "running"
      /\ step \in DOMAIN plan /\ step \in Nat /\ IsGraph(flat)
      /\ \A a : a \in DOMAIN plan => a \in Nat
  BY <1>1, InModeIs, PlanFacts DEF RunInv
<1>5. /\ status' = status /\ step' = step /\ mode' \in {"run", "check"}
      /\ ControlOK' /\ LifeFollowsPlan'
  BY <1>1, <1>3, TurnGoesOn, StillRunningLife
<1>6. /\ UNCHANGED <<flat, source, plan, StreamOuts, StreamIns, DataOuts, DataIns, StreamConns>>
      /\ \A q : CalledAt(plan, q)' = CalledAt(plan, q)
      /\ \A q : /\ IsUser(q)' <=> IsUser(q)
                /\ IsWriter(q)' <=> IsWriter(q)
                /\ IsReader(q)' <=> IsReader(q)
  BY <1>1, FrameIs, FramePorts
<1>7. ExecTypeOK'
  BY <1>1, <1>3, <1>4, <1>6 DEF ExecTypeOK
<1>8. \A c \in StreamConns : OutPort(c) \in StreamOuts /\ InPort(c) \in StreamIns
  BY <1>4, PortsOfGraph DEF StreamOuts, StreamIns, StreamConns
<1>9. StreamIntegrity'
  <2>1. ASSUME NEW c \in StreamConns
        PROVE  sent[OutPort(c)] =
                 got[InPort(c)] \o streamIn'[InPort(c)].queue \o streamOut'[OutPort(c)].queue
    <3> DEFINE x == OutPort(c)
               i == InPort(c)
               g == got[i]
               q == streamIn[i].queue
               b == streamOut[x].queue
    <3>1. sent[x] = g \o q \o b
      BY <1>4, <2>1 DEF RunInv, StreamIntegrity
    <3>2. g \in Seq(Nat) /\ q \in Seq(Nat) /\ b \in Seq(Nat)
      BY <1>4, <1>8 DEF ExecTypeOK, StreamPort
    <3>3. CASE x = o
      <4>1. streamIn'[i].queue = q \o b /\ streamOut'[x].queue = <<>>
        BY <1>3, <3>3
      <4> HIDE DEF x, i, g, q, b
      <4>2. /\ (g \o q) \o b = g \o (q \o b)
            /\ (g \o (q \o b)) \o <<>> = g \o (q \o b)
        BY <3>2, ItemSeqs, SMTT(30)
      <4>3. sent[x] = g \o streamIn'[i].queue \o streamOut'[x].queue
        BY <3>1, <4>1, <4>2, Zenon
      <4> QED
        BY <4>3, Zenon DEF x, i, g
    <3>4. CASE x # o
      <4>1. streamIn'[i] = streamIn[i] /\ streamOut'[x] = streamOut[x]
        BY <1>3, <1>8, <3>4
      <4> QED
        BY <3>1, <4>1
    <3> QED
      BY <3>3, <3>4
  <2> QED
    BY <1>1, <1>6, <2>1, Zenon DEF StreamIntegrity
<1>10. EndsInOrder'
  <2>1. ASSUME NEW c \in StreamConns, streamIn'[InPort(c)].eof
        PROVE  streamOut'[OutPort(c)].eof /\ streamOut'[OutPort(c)].queue = <<>>
    <3>1. streamIn[InPort(c)].eof =>
            streamOut[OutPort(c)].eof /\ streamOut[OutPort(c)].queue = <<>>
      BY <1>4 DEF RunInv, EndsInOrder
    <3>2. CASE OutPort(c) = o
      BY <1>3, <1>8, <2>1, <3>1, <3>2
    <3>3. CASE OutPort(c) # o
      BY <1>3, <1>8, <2>1, <3>1, <3>3
    <3> QED
      BY <3>2, <3>3
  <2> QED
    BY <1>6, <2>1 DEF EndsInOrder
<1>11. ASSUME NEW i \in StreamIns, Eof(streamIn[i])
       PROVE  Eof(streamIn'[i])
  <2>1. PICK c \in StreamConns : i = InPort(c)
    BY <1>4, PortsOfGraph DEF StreamIns, StreamConns
  <2>2. CASE OutPort(c) = o
    <3>1. streamOut[o].queue = <<>> /\ streamIn[i].queue = <<>> /\ streamIn[i].eof
      BY <1>4, <1>11, <2>1, <2>2 DEF RunInv, EndsInOrder, Eof
    <3>2. streamIn'[i].queue = streamIn[i].queue \o streamOut[o].queue /\ streamIn'[i].eof
      BY <1>3, <2>1, <2>2, <3>1
    <3>3. <<>> \o <<>> = <<>>
      BY ItemSeqs
    <3>4. streamIn'[i].queue = <<>>
      BY <3>1, <3>2, <3>3
    <3> QED
      BY <3>2, <3>4 DEF Eof
  <2>3. CASE OutPort(c) # o
    BY <1>3, <1>11, <2>1, <2>3
  <2> QED
    BY <2>2, <2>3
<1>12. ClosedAtTheEnd'
  <2>1. ASSUME NEW q \in flat.procs, NEW x \in StreamOutPorts(flat, q), streamOut'[x].eof
        PROVE  /\ life'[q] # "idle"
               /\ IsUser(q) => \A i \in StreamInPorts(flat, q) : Eof(streamIn'[i])
               /\ IsReader(q) => buf'[q] = <<>>
    <3>1. x \in StreamOuts /\ \A i \in StreamInPorts(flat, q) : i \in StreamIns
      BY <2>1 DEF StreamOuts, StreamIns, PortsOf
    <3>2. /\ life[q] # "idle"
          /\ IsUser(q) => \A i \in StreamInPorts(flat, q) : Eof(streamIn[i])
          /\ IsReader(q) => buf[q] = <<>>
      BY <1>3, <1>4, <2>1, <3>1 DEF RunInv, ClosedAtTheEnd
    <3> QED
      BY <1>1, <1>11, <3>1, <3>2
  <2> QED
    BY <1>6, <2>1 DEF ClosedAtTheEnd
<1>13. StreamsOver'
  <2>1. ASSUME NEW q \in flat.procs, NEW a \in CalledAt(plan, q), StepOver(a[1])'
        PROVE  /\ \A i \in StreamInPorts(flat, q) : Eof(streamIn'[i])
               /\ \A x \in StreamOutPorts(flat, q) : Eof(streamOut'[x])
    <3>1. a[1] < step /\ a[1] \in Nat
      BY <1>4, <1>5, <2>1, Places DEF StepOver
    <3>2. /\ \A i \in StreamInPorts(flat, q) : Eof(streamIn[i])
          /\ \A x \in StreamOutPorts(flat, q) : Eof(streamOut[x])
      BY <1>4, <3>1 DEF RunInv, StreamsOver, StepOver
    <3>3. q # p
      BY <1>3, <1>4, <3>1
    <3>4. \A x \in StreamOutPorts(flat, q) : x \in StreamOuts /\ x # o
      BY <3>3, PortOwners DEF StreamOuts, PortsOf
    <3>5. \A i \in StreamInPorts(flat, q) : i \in StreamIns
      BY <2>1 DEF StreamIns, PortsOf
    <3> QED
      BY <1>3, <1>11, <3>2, <3>4, <3>5
  <2> QED
    BY <1>6, <2>1 DEF StreamsOver
<1>14. WritersKeep'
  BY <1>1, <1>4, <1>6 DEF RunInv, WritersKeep
<1>15. ReadersReplay'
  BY <1>1, ReadersKept
<1>16. ValuesAwaitCopy'
  BY <1>1, <1>5, AwaitKept
<1>17. ValuesCopied'
  BY <1>1, <1>4, <1>5, CopiedKept
<1> QED
  BY <1>4, <1>5, <1>7, <1>9, <1>10, <1>12, <1>13, <1>14, <1>15, <1>16, <1>17 DEF RunInv

LEMMA ProcessThrowsInv ==
  ASSUME ExecInv, Started, ProcessThrows
  PROVE  RunInv' /\ status' = "thrown"
<1>1. /\ Frame /\ status' = "thrown" /\ status = "running"
      /\ UNCHANGED <<step, mode, at, life, dataOut, dataIn, streamOut, streamIn, buf, sent, got>>
  BY DEF ProcessThrows, Callee, Running, InMode, Frame, portVars
<1>2. /\ PlanInv /\ phase = "planned" /\ ControlOK /\ LifeFollowsPlan /\ ExecTypeOK
      /\ StreamsOver
  BY DEF ExecInv, RunInv
<1>3. /\ UNCHANGED <<flat, source, plan, StreamOuts, StreamIns, DataOuts, DataIns>>
      /\ \A q : CalledAt(plan, q)' = CalledAt(plan, q)
      /\ InnerPlan' = InnerPlan /\ Processes' = Processes /\ InStreaming' = InStreaming
  BY <1>1, FrameIs, FramePorts, SameStep
<1>4. ControlOK'
  BY <1>1, <1>2, <1>3 DEF ControlOK
<1>5. LifeFollowsPlan'
  BY <1>1, <1>2, <1>3 DEF LifeFollowsPlan, LifeAt
<1>6. ExecTypeOK'
  BY <1>1, <1>2, <1>3 DEF ExecTypeOK
<1>7. StreamIntegrity' /\ EndsInOrder' /\ ClosedAtTheEnd' /\ WritersKeep'
  BY <1>1, QuietStep DEF QuietStreams
<1>8. StreamsOver'
  BY <1>1, QuietStreamsOver DEF StepOver
<1>9. ReadersReplay'
  BY <1>1, ReadersKept
<1>10. ValuesAwaitCopy'
  BY <1>1, AwaitKept
<1>11. ValuesCopied'
  BY <1>1, <1>2, CopiedKept DEF ControlOK
<1> QED
  BY <1>1, <1>4, <1>5, <1>6, <1>7, <1>8, <1>9, <1>10, <1>11 DEF RunInv

LEMMA StartRunInv ==
  ASSUME ExecInv, StartRun
  PROVE  RunInv' /\ status' \in {"running", "done"}
<1>1. /\ PlanInv /\ phase = "planned" /\ Frame /\ GoTo(1)
      /\ step' = 1 /\ mode' = "initialise" /\ at' = 1
      /\ life' = [p \in flat.procs |-> "idle"]
      /\ dataOut' = [o \in DataOuts |-> Unset] /\ dataIn' = [i \in DataIns |-> Unset]
      /\ streamOut' = [o \in StreamOuts |-> OpenPort] /\ streamIn' = [i \in StreamIns |-> OpenPort]
      /\ buf' = [p \in flat.procs \ source.procs |-> <<>>]
      /\ sent' = [o \in StreamOuts |-> <<>>] /\ got' = [i \in StreamIns |-> <<>>]
  BY DEF ExecInv, StartRun, Frame, GoTo, DataOuts, DataIns, StreamOuts, StreamIns
<1>2. /\ UNCHANGED <<flat, source, plan, StreamOuts, StreamIns, DataOuts, DataIns, StreamConns>>
      /\ \A q : CalledAt(plan, q)' = CalledAt(plan, q)
      /\ \A q : /\ IsUser(q)' <=> IsUser(q)
                /\ IsWriter(q)' <=> IsWriter(q)
                /\ IsReader(q)' <=> IsReader(q)
  BY <1>1, FrameIs, FramePorts
<1>3. ControlOK' /\ status' \in {"running", "done"}
  <2>1. 1 \in 1 .. Len(plan) + 1
    BY <1>1, PlanFacts
  <2> QED
    BY <1>1, <2>1, GoToOK
<1>4. \A q \in flat.procs : \A a \in CalledAt(plan, q) : a[1] \in Nat \ {0} /\ a[2] \in Nat \ {0}
  BY <1>1, Places, PlanFacts
<1>5. LifeFollowsPlan'
  <2>1. ASSUME NEW q \in flat.procs, NEW a \in CalledAt(plan, q)
        PROVE  life'[q] = LifeAt(a)'
    BY <1>1, <1>4 DEF LifeAt
  <2> QED
    BY <1>2, <2>1 DEF LifeFollowsPlan
<1>6. /\ OpenPort \in StreamPort /\ ~OpenPort.eof /\ OpenPort.queue = <<>>
      /\ Unset.items \in Seq(Nat) /\ <<>> \in Seq(Nat) /\ <<>> \o <<>> \o <<>> = <<>>
  BY DEF OpenPort, StreamPort, Unset
<1>7. ExecTypeOK'
  BY <1>1, <1>2, <1>6 DEF ExecTypeOK
<1>8. \A c \in StreamConns : OutPort(c) \in StreamOuts /\ InPort(c) \in StreamIns
  BY <1>1, PlanFacts, PortsOfGraph DEF StreamOuts, StreamIns, StreamConns
<1>9. StreamIntegrity'
  <2>1. ASSUME NEW c \in StreamConns
        PROVE  sent'[OutPort(c)] =
                 got'[InPort(c)] \o streamIn'[InPort(c)].queue \o streamOut'[OutPort(c)].queue
    <3>1. /\ sent'[OutPort(c)] = <<>> /\ got'[InPort(c)] = <<>>
          /\ streamIn'[InPort(c)].queue = <<>> /\ streamOut'[OutPort(c)].queue = <<>>
      BY <1>1, <1>6, <1>8
    <3> QED
      BY <1>6, <3>1, Zenon
  <2> QED
    BY <1>2, <2>1, Zenon DEF StreamIntegrity
<1>10. EndsInOrder'
  BY <1>1, <1>2, <1>6, <1>8 DEF EndsInOrder
<1>11. ClosedAtTheEnd'
  BY <1>1, <1>2, <1>6 DEF ClosedAtTheEnd, StreamOuts, PortsOf
<1>12. StreamsOver'
  BY <1>1, <1>2, <1>4 DEF StreamsOver, StepOver
<1>13. WritersKeep'
  <2>1. ASSUME NEW q \in flat.procs, IsWriter(q)
        PROVE  buf'[q] = got'[<<q, "in">>]
    BY <1>1, <2>1, BufferKinds
  <2> QED
    BY <1>2, <2>1 DEF WritersKeep
<1>14. ReadersReplay'
  <2>1. ASSUME NEW q \in flat.procs, IsReader(q)
        PROVE  /\ life'[q] = "idle" => sent'[<<q, "out">>] = <<>>
               /\ life'[q] # "idle" =>
                    sent'[<<q, "out">>] \o buf'[q] = dataIn'[<<q, "in">>].items
    BY <1>1, <2>1, BufferKinds
  <2> QED
    BY <1>2, <2>1, Zenon DEF ReadersReplay
<1>15. ValuesAwaitCopy'
  BY <1>1, <1>2 DEF ValuesAwaitCopy
<1>16. ValuesCopied'
  <2>1. \A n \in DOMAIN plan : ~(n < 1)
    BY <1>1, PlanFacts
  <2> QED
    BY <1>1, <1>2, <2>1 DEF ValuesCopied
<1> QED
  BY <1>3, <1>5, <1>7, <1>9, <1>10, <1>11, <1>12, <1>13, <1>14, <1>15, <1>16 DEF RunInv

\* A finished plan is final.
LEMMA PlannedIsFinal ==
  ASSUME PlannerNext, phase = "planned"
  PROVE  FALSE
BY DEF PlannerNext, PickFunctional, PickComplete, PickIncomplete, OrderingFails, Ordering,
       AugmentSubgraphs, CheckSubgraphConnections, EmitFunctional, BeginStreaming,
       OrderStreaming, EndStreaming, EndPlan, Emitting

LEMMA InitExecInv == EvaluateInit => ExecInv
BY InitPlanInv DEF EvaluateInit, ExecInv, Started

LEMMA NextExecInv == ExecInv /\ [EvaluateNext]_vars => ExecInv'
<1> SUFFICES ASSUME ExecInv, [EvaluateNext]_vars PROVE ExecInv'
  OBVIOUS
<1>1. CASE PlannerNext /\ UNCHANGED execVars
  <2>1. PlanInv' /\ status' = status
    BY <1>1, NextPlanInv DEF ExecInv, execVars
  <2>2. ~Started
    BY <1>1, PlannedIsFinal DEF ExecInv
  <2> QED
    BY <2>1, <2>2 DEF ExecInv, Started
<1>2. ASSUME Frame PROVE PlanInv' /\ phase' = phase
  BY <1>2, NextPlanInv, FrameIs DEF ExecInv, Frame
<1>3. CASE StartRun
  <2>1. RunInv' /\ status' \in {"running", "done"} /\ phase = "planned" /\ Frame
    BY <1>3, StartRunInv DEF StartRun, Frame
  <2> QED
    BY <1>2, <2>1 DEF ExecInv
<1>4. ASSUME Started, Frame, RunInv', status' \in {"running", "done", "thrown"}
      PROVE  ExecInv'
  BY <1>2, <1>4 DEF ExecInv
<1>5. \A kind : Running(kind) => Started
  BY DEF Running, Started
<1>6. \A m : InMode(m) => Started
  BY <1>5 DEF InMode
<1>7. CASE RunFunctional
  <2>1. Started /\ Frame
    BY <1>5, <1>7 DEF RunFunctional, Frame
  <2> QED
    BY <1>4, <1>7, <2>1, RunFunctionalInv
<1>8. CASE RunCopyData
  <2>1. Started /\ Frame
    BY <1>5, <1>8 DEF RunCopyData, Frame
  <2> QED
    BY <1>4, <1>8, <2>1, RunCopyDataInv
<1>9. CASE Initialise
  <2>1. Started /\ Frame
    BY <1>6, <1>9 DEF Initialise, Frame
  <2> QED
    BY <1>4, <1>9, <2>1, InitialiseInv
<1>10. CASE RunProcess
  <2>1. Started /\ Frame
    BY <1>6, <1>10 DEF RunProcess, Frame
  <2> QED
    BY <1>4, <1>10, <2>1, RunProcessInv
<1>11. CASE RunCopyStream
  <2>1. Started /\ Frame
    BY <1>6, <1>11 DEF RunCopyStream, Frame
  <2> QED
    BY <1>4, <1>11, <2>1, RunCopyStreamInv
<1>12. CASE CheckRunnable
  <2>1. Started /\ Frame
    BY <1>6, <1>12 DEF CheckRunnable, Frame
  <2> QED
    BY <1>4, <1>12, <2>1, CheckRunnableInv
<1>13. CASE Finalise
  <2>1. Started /\ Frame
    BY <1>6, <1>13 DEF Finalise, Frame
  <2> QED
    BY <1>4, <1>13, <2>1, FinaliseInv
<1>14. CASE ProcessThrows
  <2>1. Started /\ Frame
    BY <1>14 DEF ProcessThrows, Callee, InMode, Running, Started, Frame
  <2> QED
    BY <1>4, <1>14, <2>1, ProcessThrowsInv
<1>15. CASE UNCHANGED vars
  <2>1. /\ Frame
        /\ UNCHANGED <<status, step, mode, at, life, dataOut, dataIn, streamOut, streamIn, buf, sent, got>>
    BY <1>15 DEF vars, execVars, portVars, Frame
  <2>2. ~Started => ~Started'
    BY <2>1 DEF Started
  <2>3. ASSUME Started PROVE RunInv'
    <3>1. /\ UNCHANGED <<flat, source, plan, StreamOuts, StreamIns, DataOuts, DataIns, StreamConns>>
          /\ \A q : CalledAt(plan, q)' = CalledAt(plan, q)
          /\ InnerPlan' = InnerPlan /\ Processes' = Processes /\ InStreaming' = InStreaming
      BY <2>1, FrameIs, FramePorts, SameStep
    <3>2. /\ RunInv /\ step \in Nat
      BY <2>3, PlanFacts DEF ExecInv, RunInv, ControlOK
    <3>3. StreamIntegrity' /\ EndsInOrder' /\ ClosedAtTheEnd' /\ WritersKeep'
      BY <2>1, <2>3, QuietStep DEF QuietStreams
    <3>4. ReadersReplay'
      BY <2>1, <2>3, ReadersKept
    <3>5. ExecTypeOK' /\ ControlOK'
      BY <2>1, <3>1, <3>2 DEF RunInv, ExecTypeOK, ControlOK
    <3>6. LifeFollowsPlan' /\ StreamsOver'
      BY <2>1, <3>1, <3>2 DEF RunInv, LifeFollowsPlan, LifeAt, StreamsOver, StepOver
    <3>7. ValuesAwaitCopy'
      BY <2>1, <2>3, AwaitKept
    <3>8. ValuesCopied'
      <4>1. /\ \A o : Produced(o)' = Produced(o)
            /\ \A c, n : CopiesAt(plan, c, n)' <=> CopiesAt(plan, c, n)
        BY <2>1, <3>1, FramePorts DEF Produced, CopiesAt
      <4> QED
        BY <2>1, <3>1, <3>2, <4>1 DEF RunInv, ValuesCopied
    <3> QED
      BY <3>3, <3>4, <3>5, <3>6, <3>7, <3>8 DEF RunInv
  <2> QED
    BY <1>2, <2>1, <2>2, <2>3 DEF ExecInv
<1> QED
  BY <1>1, <1>3, <1>7, <1>8, <1>9, <1>10, <1>11, <1>12, <1>13, <1>14, <1>15 DEF EvaluateNext

LEMMA Evaluated == EvaluateSpec => []ExecInv
BY InitExecInv, NextExecInv, PTL DEF EvaluateSpec

-----------------------------------------------------------------------------
(***************************************************************************)
(* What the invariant says of connections.                                 *)
(***************************************************************************)

\* To the processes of the source the planned graph looks like the source.
LEMMA UserPorts ==
  ASSUME PlanInv, phase = "planned"
  PROVE  /\ IsGraph(source) /\ source.procs \subseteq flat.procs
         /\ \A c \in source.conns :
              /\ c.up \in source.procs /\ c.down \in source.procs /\ c.up # c.down
              /\ ~c.stream => c \in flat.conns
              /\ c.stream => /\ OutPort(c) \in StreamOutPorts(flat, c.up)
                             /\ InPort(c) \in StreamInPorts(flat, c.down)
         /\ \A p \in source.procs :
              /\ p \in source.streaming <=> p \in flat.streaming
              /\ StreamOutPorts(flat, p) = StreamOutPorts(source, p)
              /\ StreamInPorts(flat, p) = StreamInPorts(source, p)
<1> DEFINE cut == Crossing(source, split)
<1>1. /\ IsGraph(source) /\ BuffersAreNew(source) /\ Covers(source, split)
      /\ flat = Augment(source, split)
      /\ PlanInv /\ phase = "planned" /\ source.procs \subseteq flat.procs /\ IsGraph(flat)
  BY PlanFacts DEF PlanInv, SuccessInv, OrderInv, PlannerTypeOK, SecondRun, IsOrder
<1>2. \A e \in flat.conns :
        \/ e \in source.conns
        \/ \E d \in cut : e = ToWriter(d) \/ e = ToReader(split, d) \/ e = FromReader(split, d)
  BY <1>1, AugmentedConnsAre
<1>3. \A d \in cut : /\ ToWriter(d) \in flat.conns /\ FromReader(split, d) \in flat.conns
                     /\ d \in source.conns /\ d.stream
                     /\ SubgraphOf(split, d.up) # SubgraphOf(split, d.down)
  BY <1>1, AugmentedConnsAre DEF Crossing
<1>4. \A d : /\ ToWriter(d).stream /\ OutPort(ToWriter(d)) = OutPort(d)
             /\ ToWriter(d).down = WriterFor(d)
             /\ ~ToReader(split, d).stream
             /\ FromReader(split, d).stream /\ InPort(FromReader(split, d)) = InPort(d)
             /\ FromReader(split, d).up = ReaderFor(split, d)
  BY DEF ToWriter, ToReader, FromReader, Connection, OutPort, InPort
<1>5. \A d \in cut : WriterFor(d) \notin source.procs /\ ReaderFor(split, d) \notin source.procs
  BY <1>1, BuffersDiffer
<1>6. \A c \in source.conns : c \in flat.conns \/ c \in cut
  BY <1>1, AugmentedConnsAre
<1>7. \A c \in source.conns : c.up \in source.procs /\ c.down \in source.procs
  BY <1>1 DEF IsGraph
<1>8. \A c : OutPort(c)[1] = c.up /\ InPort(c)[1] = c.down
  BY DEF OutPort, InPort
<1> HIDE DEF cut
<1>9. \A c \in source.conns : c.stream =>
        /\ \E e \in flat.conns : e.stream /\ OutPort(e) = OutPort(c)
        /\ \E e \in flat.conns : e.stream /\ InPort(e) = InPort(c)
  BY <1>3, <1>4, <1>6
<1>10. \A c \in source.conns : c.stream =>
         /\ OutPort(c) \in StreamOutPorts(flat, c.up)
         /\ InPort(c) \in StreamInPorts(flat, c.down)
  <2> SUFFICES ASSUME NEW c \in source.conns, c.stream
               PROVE  /\ OutPort(c) \in StreamOutPorts(flat, c.up)
                      /\ InPort(c) \in StreamInPorts(flat, c.down)
    OBVIOUS
  <2>1. PICK e \in flat.conns : e.stream /\ OutPort(e) = OutPort(c)
    BY <1>9
  <2>2. PICK d \in flat.conns : d.stream /\ InPort(d) = InPort(c)
    BY <1>9
  <2>3. e.up = c.up /\ d.down = c.down
    BY <1>8, <2>1, <2>2
  <2> QED
    BY <2>1, <2>2, <2>3, PortOwners
<1>11. \A e \in flat.conns : e.stream =>
         /\ e.up \in source.procs => \E c \in source.conns : c.stream /\ OutPort(c) = OutPort(e)
         /\ e.down \in source.procs => \E c \in source.conns : c.stream /\ InPort(c) = InPort(e)
  BY <1>2, <1>3, <1>4, <1>5
<1>12. ASSUME NEW p \in source.procs
       PROVE  /\ StreamOutPorts(flat, p) = StreamOutPorts(source, p)
              /\ StreamInPorts(flat, p) = StreamInPorts(source, p)
  <2>1. StreamOutPorts(source, p) \subseteq StreamOutPorts(flat, p)
    BY <1>10, PortEnds
  <2>2. StreamInPorts(source, p) \subseteq StreamInPorts(flat, p)
    BY <1>10, PortEnds
  <2>3. StreamOutPorts(flat, p) \subseteq StreamOutPorts(source, p)
    <3> SUFFICES ASSUME NEW o \in StreamOutPorts(flat, p) PROVE o \in StreamOutPorts(source, p)
      OBVIOUS
    <3>1. PICK e \in flat.conns : e.stream /\ e.up = p /\ o = OutPort(e)
      BY PortEnds
    <3>2. PICK c \in source.conns : c.stream /\ OutPort(c) = OutPort(e)
      BY <1>11, <3>1
    <3>3. c.up = p
      BY <1>8, <3>1, <3>2
    <3> QED
      BY <3>1, <3>2, <3>3, PortOwners
  <2>4. StreamInPorts(flat, p) \subseteq StreamInPorts(source, p)
    <3> SUFFICES ASSUME NEW i \in StreamInPorts(flat, p) PROVE i \in StreamInPorts(source, p)
      OBVIOUS
    <3>1. PICK e \in flat.conns : e.stream /\ e.down = p /\ i = InPort(e)
      BY PortEnds
    <3>2. PICK c \in source.conns : c.stream /\ InPort(c) = InPort(e)
      BY <1>11, <3>1
    <3>3. c.down = p
      BY <1>8, <3>1, <3>2
    <3> QED
      BY <3>1, <3>2, <3>3, PortOwners
  <2> QED
    BY <2>1, <2>2, <2>3, <2>4
<1>13. \A c \in source.conns : ~c.stream => c \in flat.conns
  BY <1>3, <1>6
<1>14. \A c \in flat.conns : c.up # c.down
  <2> SUFFICES ASSUME NEW c \in flat.conns, c.up = c.down PROVE FALSE
    OBVIOUS
  <2>1. c.up \in flat.procs /\ PlanFor(flat, flat.procs, plan)
    BY <1>1, PlanFacts DEF IsGraph
  <2>2. PICK a \in CalledAt(plan, c.up) : TRUE
    BY <1>1, <2>1, Places
  <2>3. a[1] \in Nat /\ a[2] \in Nat
    BY <1>1, <2>1, Places, PlanFacts
  <2>4. CASE c.stream
    BY <2>1, <2>2, <2>3, <2>4 DEF PlanFor
  <2>5. CASE ~c.stream
    <3>1. PICK n \in DOMAIN plan : a[1] < n /\ CopiesAt(plan, c, n)
      BY <1>1, <2>5, ConnPlaces
    <3>2. n < a[1] /\ n \in Nat
      BY <1>1, <3>1, ConnPlaces, PlanFacts
    <3> QED
      BY <2>3, <3>1, <3>2
  <2> QED
    BY <2>4, <2>5
<1>15. \A c \in source.conns : c.up # c.down
  BY <1>3, <1>6, <1>14
<1>16. \A p \in source.procs : p \in source.streaming <=> p \in flat.streaming
  BY <1>1, <1>5 DEF Augment, WithBuffers, WriterFor, ReaderFor, cut
<1> QED
  BY <1>1, <1>7, <1>10, <1>12, <1>13, <1>15, <1>16

\* The copy of a data connection comes before its reader and after its writer.
LEMMA CopiedBeforeUse ==
  ASSUME ExecInv, Started, NEW c \in flat.conns, ~c.stream, life[c.down] # "idle"
  PROVE  /\ life[c.up] = "done" /\ dataIn[InPort(c)] = Produced(OutPort(c))
         /\ \E u \in CalledAt(plan, c.up) : u[1] < step
<1>1. /\ PlanInv /\ phase = "planned" /\ LifeFollowsPlan /\ ValuesCopied
      /\ step \in Nat
  BY PlanFacts DEF ExecInv, RunInv, ControlOK
<1>2. c.up \in flat.procs /\ c.down \in flat.procs
  BY <1>1, ConnPlaces
<1>3. PICK u \in CalledAt(plan, c.up) : TRUE
  BY <1>1, <1>2, Places
<1>4. PICK d \in CalledAt(plan, c.down) : TRUE
  BY <1>1, <1>2, Places
<1>5. PICK n \in DOMAIN plan : u[1] < n /\ CopiesAt(plan, c, n)
  BY <1>1, ConnPlaces
<1>6. n < d[1]
  BY <1>1, <1>5, ConnPlaces
<1>7. n \in Nat /\ u[1] \in Nat /\ d[1] \in Nat
  BY <1>1, <1>2, Places, PlanFacts
<1>8. ~(d[1] > step)
  BY <1>1, <1>2, <1>7 DEF LifeFollowsPlan, LifeAt
<1>9. n < step /\ u[1] < step
  BY <1>1, <1>5, <1>6, <1>7, <1>8
<1>10. life[c.up] = "done"
  BY <1>1, <1>2, <1>9 DEF LifeFollowsPlan, LifeAt
<1>11. dataIn[InPort(c)] = Produced(OutPort(c))
  BY <1>1, <1>5, <1>9 DEF ValuesCopied
<1> QED
  BY <1>9, <1>10, <1>11

\* What was popped is the beginning of what was pushed, and all of it at the
\* end of the input.
LEMMA GotOfSent ==
  ASSUME ExecInv, Started, NEW c \in StreamConns
  PROVE  /\ OutPort(c) \in StreamOuts /\ InPort(c) \in StreamIns
         /\ got[InPort(c)] \in Seq(Nat) /\ sent[OutPort(c)] \in Seq(Nat)
         /\ \E x \in Seq(Nat) : sent[OutPort(c)] = got[InPort(c)] \o x
         /\ Eof(streamIn[InPort(c)]) =>
              /\ sent[OutPort(c)] = got[InPort(c)]
              /\ streamOut[OutPort(c)].eof
<1> DEFINE o == OutPort(c)
           i == InPort(c)
           g == got[i]
           q == streamIn[i].queue
           b == streamOut[o].queue
<1>1. o \in StreamOuts /\ i \in StreamIns
  BY PlanFacts, PortsOfGraph DEF ExecInv, StreamOuts, StreamIns, StreamConns
<1>2. /\ g \in Seq(Nat) /\ q \in Seq(Nat) /\ b \in Seq(Nat) /\ sent[o] \in Seq(Nat)
  BY <1>1 DEF ExecInv, RunInv, ExecTypeOK, StreamPort
<1>3. sent[o] = (g \o q) \o b
  BY DEF ExecInv, RunInv, StreamIntegrity
<1>4. Eof(streamIn[i]) => q = <<>> /\ b = <<>> /\ streamOut[o].eof
  BY DEF ExecInv, RunInv, EndsInOrder, Eof
<1> HIDE DEF g, q, b, o, i
<1>5. /\ (g \o q) \o b = g \o (q \o b) /\ q \o b \in Seq(Nat)
      /\ (g \o <<>>) \o <<>> = g
  BY <1>2, ItemSeqs, SMTT(30)
<1>6. sent[o] = g \o (q \o b)
  BY <1>3, <1>5, Zenon
<1>7. Eof(streamIn[i]) => sent[o] = g
  BY <1>3, <1>4, <1>5, Zenon
<1> QED
  BY <1>1, <1>2, <1>4, <1>5, <1>6, <1>7 DEF g, o, i

\* When the step of a process is over, so are the streams that lead to it.
LEMMA DeliveredAfterStep ==
  ASSUME ExecInv, Started, NEW c \in StreamConns,
         NEW d \in CalledAt(plan, c.down), d[1] < step
  PROVE  sent[OutPort(c)] = got[InPort(c)] /\ streamOut[OutPort(c)].eof
<1>1. c \in flat.conns /\ c.stream /\ c.down \in flat.procs
  BY PlanFacts DEF ExecInv, StreamConns, IsGraph
<1>2. InPort(c) \in StreamInPorts(flat, c.down)
  BY <1>1, PortOwners
<1>3. Eof(streamIn[InPort(c)])
  BY <1>1, <1>2 DEF ExecInv, RunInv, StreamsOver, StepOver
<1> QED
  BY <1>3, GotOfSent

LEMMA BufferIsFull ==
  ASSUME ExecInv, Started, NEW c \in flat.conns, ~c.stream, life[c.down] # "idle",
         IsReader(c.down), NEW w \in InputConns(flat, c.up)
  PROVE  dataIn[InPort(c)].items = sent[OutPort(w)]
<1>1. /\ PlanInv /\ phase = "planned" /\ ~allowSplit /\ IsGraph(flat) /\ WritersKeep
      /\ c.up \in flat.procs /\ c.down \in flat.procs
  BY PlanFacts DEF ExecInv, RunInv, IsGraph
<1>2. ReaderShape(flat, c.down)
  BY <1>1, BufferShapes DEF IsReader, IsUser
<1>3. c.up \notin source.procs /\ WriterShape(flat, c.up)
  BY <1>2 DEF ReaderShape, InputConns
<1>4. IsWriter(c.up) /\ ~IsUser(c.up)
  BY <1>1, <1>3, BufferShapes DEF IsUser
<1>5. w \in flat.conns /\ w.down = c.up
  BY DEF InputConns
<1>6. w.stream /\ InPort(w) = <<c.up, "in">>
  <2>1. w.stream
    BY <1>3, <1>5, PortOwners DEF WriterShape
  <2> QED
    BY <1>3, <1>5, <2>1, PortOwners DEF WriterShape
<1>7. dataIn[InPort(c)] = Produced(OutPort(c)) /\ \E u \in CalledAt(plan, c.up) : u[1] < step
  BY CopiedBeforeUse
<1>8. dataIn[InPort(c)].items = buf[c.up]
  <2>1. OutPort(c)[1] = c.up
    BY DEF OutPort
  <2> QED
    BY <1>4, <1>7, <2>1 DEF Produced, Value
<1>9. buf[c.up] = got[InPort(w)]
  BY <1>1, <1>4, <1>6 DEF WritersKeep
<1>10. sent[OutPort(w)] = got[InPort(w)]
  BY <1>5, <1>6, <1>7, DeliveredAfterStep DEF StreamConns
<1> QED
  BY <1>8, <1>9, <1>10

LEMMA BeginsWith ==
  ASSUME NEW a \in Seq(Nat), NEW x \in Seq(Nat)
  PROVE  IsPrefix(a, a \o x)
<1>1. Len(a) <= Len(a \o x)
  OBVIOUS
<1>2. SubSeq(a \o x, 1, Len(a)) = SubSeq(a, 1, Len(a))
  OBVIOUS
<1> QED
  BY <1>1, <1>2 DEF IsPrefix

\* At the end of a plan every stream input has ended.
LEMMA AllStreamsOver ==
  ASSUME ExecInv, status = "done", NEW p \in flat.procs, NEW i \in StreamInPorts(flat, p)
  PROVE  Eof(streamIn[i])
<1>1. Started /\ PlanInv /\ phase = "planned" /\ step = Len(plan) + 1 /\ StreamsOver
  BY DEF Started, ExecInv, RunInv, ControlOK
<1>2. PICK a \in CalledAt(plan, p) : TRUE
  BY <1>1, Places
<1>3. a[1] < step
  BY <1>1, Places, PlanFacts
<1> QED
  BY <1>1, <1>3 DEF StreamsOver, StepOver

\* What the input c leads to has got is the beginning of what was pushed, and
\* everything once it has ended.
Delivers(c) ==
  /\ IsPrefix(got[InPort(c)], sent[OutPort(c)])
  /\ Eof(streamIn[InPort(c)]) =>
       got[InPort(c)] = sent[OutPort(c)] /\ streamOut[OutPort(c)].eof

LEMMA DeliveredKept ==
  ASSUME ExecInv, Started, NEW c \in StreamConns
  PROVE  Delivers(c)
<1>1. PICK x \in Seq(Nat) : sent[OutPort(c)] = got[InPort(c)] \o x
  BY GotOfSent
<1>2. IsPrefix(got[InPort(c)], sent[OutPort(c)])
  BY <1>1, GotOfSent, BeginsWith
<1> QED
  BY <1>2, GotOfSent DEF Delivers

LEMMA DeliveredThroughBuffer ==
  ASSUME ExecInv, Started, NEW c \in Crossing(source, split)
  PROVE  Delivers(c)
<1> DEFINE w == ToWriter(c)
           t == ToReader(split, c)
           r == FromReader(split, c)
           R == ReaderFor(split, c)
<1>1. /\ PlanInv /\ phase = "planned" /\ ~allowSplit
      /\ IsGraph(source) /\ BuffersAreNew(source) /\ Covers(source, split)
      /\ flat = Augment(source, split) /\ IsGraph(flat)
  BY PlanFacts DEF ExecInv, PlanInv, SuccessInv, OrderInv, PlannerTypeOK, SecondRun, IsOrder
<1>2. w \in flat.conns /\ t \in flat.conns /\ r \in flat.conns
  BY <1>1, AugmentedConnsAre
<1>3. /\ w.stream /\ ~t.stream /\ r.stream
      /\ t.down = R /\ r.up = R /\ w.down = t.up
      /\ OutPort(w) = OutPort(c) /\ InPort(r) = InPort(c)
      /\ InPort(t) = <<R, "in">> /\ OutPort(r) = <<R, "out">>
  BY DEF ToWriter, ToReader, FromReader, Connection, OutPort, InPort
<1>4. R \notin source.procs
  BY <1>1, BuffersDiffer
<1> HIDE DEF w, t, r, R
<1>5. R \in flat.procs /\ r.down \in flat.procs
  BY <1>1, <1>2, <1>3 DEF IsGraph
<1>6. IsReader(R)
  <2>1. InPort(t) \in DataInPorts(flat, R)
    BY <1>2, <1>3, PortOwners
  <2> QED
    BY <1>4, <2>1 DEF IsReader, IsUser
<1>7. r \in StreamConns
  BY <1>2, <1>3 DEF StreamConns
<1> DEFINE g == got[InPort(c)]
           s == sent[OutPort(r)]
           b == buf[R]
<1>8. /\ g \in Seq(Nat) /\ s \in Seq(Nat) /\ \E x \in Seq(Nat) : s = g \o x
  BY <1>3, <1>7, GotOfSent
<1>9. b \in Seq(Nat)
  BY <1>4, <1>5 DEF ExecInv, RunInv, ExecTypeOK
<1>10. life[R] # "idle" => s \o b = sent[OutPort(c)]
  <2> SUFFICES ASSUME life[R] # "idle" PROVE s \o b = sent[OutPort(c)]
    OBVIOUS
  <2>1. s \o b = dataIn[<<R, "in">>].items
    BY <1>3, <1>5, <1>6 DEF ExecInv, RunInv, ReadersReplay
  <2>2. w \in InputConns(flat, t.up)
    BY <1>2, <1>3 DEF InputConns
  <2>3. dataIn[InPort(t)].items = sent[OutPort(w)]
    BY <1>2, <1>3, <1>6, <2>2, BufferIsFull
  <2> QED
    BY <1>3, <2>1, <2>3
<1>11. life[R] = "idle" => s = <<>>
  BY <1>3, <1>5, <1>6 DEF ExecInv, RunInv, ReadersReplay
<1>12. sent[OutPort(c)] \in Seq(Nat)
  <2>1. w \in StreamConns
    BY <1>2, <1>3 DEF StreamConns
  <2> QED
    BY <1>3, <2>1, GotOfSent
<1> DEFINE ended == Eof(streamIn[InPort(c)])
<1>13. ended => g = s /\ b = <<>> /\ life[R] # "idle"
  <2> SUFFICES ASSUME ended PROVE g = s /\ b = <<>> /\ life[R] # "idle"
    OBVIOUS
  <2>1. g = s /\ streamOut[OutPort(r)].eof
    BY <1>3, <1>7, GotOfSent
  <2>2. OutPort(r) \in StreamOutPorts(flat, R)
    BY <1>2, <1>3, PortOwners
  <2>3. b = <<>> /\ life[R] # "idle"
    BY <1>5, <1>6, <2>1, <2>2 DEF ExecInv, RunInv, ClosedAtTheEnd
  <2> QED
    BY <2>1, <2>3
<1>14. ended => streamOut[OutPort(c)].eof
  <2> SUFFICES ASSUME ended PROVE streamOut[OutPort(c)].eof
    OBVIOUS
  <2>1. \E u \in CalledAt(plan, w.down) : u[1] < step
    BY <1>2, <1>3, <1>13, CopiedBeforeUse
  <2> QED
    BY <1>2, <1>3, <2>1, DeliveredAfterStep DEF StreamConns
<1> HIDE DEF g, s, b, ended
<1>15. IsPrefix(g, sent[OutPort(c)])
  <2>1. CASE life[R] = "idle"
    <3>1. g = <<>>
      BY <1>8, <1>11, <2>1, ItemSeqs
    <3>2. <<>> \o sent[OutPort(c)] = sent[OutPort(c)]
      BY <1>12, ItemSeqs
    <3> QED
      BY <1>8, <1>12, <3>1, <3>2, BeginsWith
  <2>2. CASE life[R] # "idle"
    <3>1. PICK x \in Seq(Nat) : s = g \o x
      BY <1>8
    <3>2. (g \o x) \o b = g \o (x \o b) /\ x \o b \in Seq(Nat)
      <4>1. g \in Seq(Nat) /\ x \in Seq(Nat) /\ b \in Seq(Nat)
        BY <1>8, <1>9
      <4>2. x \o b \in Seq(Nat)
        BY <4>1, ItemSeqs
      <4>3. (g \o x) \o b = g \o (x \o b)
        BY <4>1, ItemSeqs, SMTT(30)
      <4> QED
        BY <4>2, <4>3
    <3>3. sent[OutPort(c)] = g \o (x \o b)
      BY <1>10, <2>2, <3>1, <3>2, Zenon
    <3> QED
      BY <1>8, <3>2, <3>3, BeginsWith
  <2> QED
    BY <2>1, <2>2
<1>16. ended => g = sent[OutPort(c)]
  <2> SUFFICES ASSUME ended PROVE g = sent[OutPort(c)]
    OBVIOUS
  <2>1. s \o <<>> = s
    BY <1>8, ItemSeqs
  <2>2. s \o b = sent[OutPort(c)] /\ g = s /\ b = <<>>
    BY <1>10, <1>13
  <2> QED
    BY <2>1, <2>2, Zenon
<1> QED
  BY <1>14, <1>15, <1>16 DEF g, ended, Delivers

\* Every stream connection of the source is kept or goes through a buffer.
LEMMA SourceDelivered ==
  ASSUME ExecInv, Started, NEW c \in source.conns, c.stream
  PROVE  Delivers(c)
<1>1. flat = Augment(source, split)
  BY PlanFacts DEF ExecInv, PlanInv, SuccessInv, SecondRun
<1>2. c \in StreamConns \/ c \in Crossing(source, split)
  BY <1>1, AugmentedConnsAre DEF StreamConns
<1> QED
  BY <1>2, DeliveredKept, DeliveredThroughBuffer

\* What the invariant says of the properties.
LEMMA WhatIsKept ==
  ASSUME ExecInv
  PROVE  /\ FrameworkNeverThrows /\ StreamIntegrity /\ NothingRunsOnUnfinishedData
         /\ DataInputsAvailable /\ EndToEndDelivery
<1>1. FrameworkNeverThrows
  BY DEF ExecInv, FrameworkNeverThrows
<1>2. StreamIntegrity
  BY DEF ExecInv, RunInv, StreamIntegrity
<1>3. NothingRunsOnUnfinishedData
  BY CopiedBeforeUse DEF NothingRunsOnUnfinishedData
<1>4. DataInputsAvailable
  <2> SUFFICES ASSUME Started, NEW c \in flat.conns, ~c.stream, life[c.down] # "idle"
               PROVE  /\ dataIn[InPort(c)].state = "set"
                      /\ dataIn[InPort(c)].port = OutPort(c)
                      /\ IsReader(c.down) =>
                           \A w \in InputConns(flat, c.up) :
                             dataIn[InPort(c)].items = sent[OutPort(w)]
    BY DEF DataInputsAvailable
  <2>1. dataIn[InPort(c)] = Produced(OutPort(c))
    BY CopiedBeforeUse
  <2>2. dataIn[InPort(c)].state = "set" /\ dataIn[InPort(c)].port = OutPort(c)
    BY <2>1 DEF Produced, Value
  <2> QED
    BY <2>2, BufferIsFull
<1>5. EndToEndDelivery
  <2> SUFFICES ASSUME Started, NEW c \in source.conns, c.stream
               PROVE  /\ IsPrefix(got[InPort(c)], sent[OutPort(c)])
                      /\ status = "done" => got[InPort(c)] = sent[OutPort(c)]
    BY DEF EndToEndDelivery
  <2>1. IsPrefix(got[InPort(c)], sent[OutPort(c)])
    BY SourceDelivered DEF Delivers
  <2>2. ASSUME status = "done" PROVE got[InPort(c)] = sent[OutPort(c)]
    <3>1. InPort(c) \in StreamInPorts(flat, c.down) /\ c.down \in flat.procs
      BY UserPorts DEF ExecInv
    <3>2. Eof(streamIn[InPort(c)])
      BY <2>2, <3>1, AllStreamsOver
    <3> QED
      BY <3>2, SourceDelivered DEF Delivers
  <2> QED
    BY <2>1, <2>2
<1> QED
  BY <1>1, <1>2, <1>3, <1>4, <1>5

-----------------------------------------------------------------------------
(***************************************************************************)
(* The theorems.                                                           *)
(***************************************************************************)

\* evaluate() itself never pushes to a stream port that was closed: the
\* exception of StreamPort::push() is not raised by ExecCopyStream as long as
\* the processes keep to their contract.
THEOREM FrameworkDoesNotThrow == EvaluateSpec => []FrameworkNeverThrows
BY Evaluated, WhatIsKept, PTL

\* The copies and moves of ExecCopyStream and its clear() lose, repeat and
\* reorder nothing, in whatever order processes are called and items pushed.
THEOREM StreamsLoseNothing == EvaluateSpec => []StreamIntegrity
BY Evaluated, WhatIsKept, PTL

\* A process is not started before those it has data from are done, also when
\* an exception ends the run early.
THEOREM DataIsFinished == EvaluateSpec => []NothingRunsOnUnfinishedData
BY Evaluated, WhatIsKept, PTL

\* The data inputs of a process that was started hold what was set on the
\* ports they are connected to; those of a buffer reader hold everything that
\* was pushed to the port the buffer stands for.
THEOREM DataInputsAreAvailable == EvaluateSpec => []DataInputsAvailable
BY Evaluated, WhatIsKept, PTL

\* Through a buffer or not, each stream connection of the graph given to
\* evaluate() delivers what was pushed, in order, and all of it by the time
\* evaluate() returns.
THEOREM StreamsAreDelivered == EvaluateSpec => []EndToEndDelivery
BY Evaluated, WhatIsKept, PTL

-----------------------------------------------------------------------------
(***************************************************************************)
(* evaluate() implements Dataflow: every step of Evaluate is, for the      *)
(* processes of the graph it was given, a step that Dataflow allows or no  *)
(* step at all, whatever the planner makes of the graph.                   *)
(***************************************************************************)

\* What the variables of Dataflow stand for.
UserOuts == PortsOf(StreamOutPorts, source)
UserIns  == PortsOf(StreamInPorts, source)

MapLife   == [p \in source.procs |-> life[p]]
MapSent   == [o \in UserOuts |-> IF Started THEN sent[o] ELSE <<>>]
MapClosed == {o \in UserOuts : Started /\ streamOut[o].eof}
MapGot    == [i \in UserIns |-> IF Started THEN got[i] ELSE <<>>]

\* The operators of ProcessGraph are the same in both modules.
LEMMA SameOperators ==
  /\ \A g, p : /\ Contract!InputConns(g, p) = InputConns(g, p)
               /\ Contract!StreamOutPorts(g, p) = StreamOutPorts(g, p)
               /\ Contract!StreamInPorts(g, p) = StreamInPorts(g, p)
  /\ \A c : Contract!InPort(c) = InPort(c) /\ Contract!OutPort(c) = OutPort(c)
  /\ \A a, b : Contract!IsPrefix(a, b) <=> IsPrefix(a, b)
<1>1. \A c : Contract!InPort(c) = InPort(c) /\ Contract!OutPort(c) = OutPort(c)
  BY DEF Contract!InPort, InPort, Contract!OutPort, OutPort
<1>2. \A g, p : Contract!InputConns(g, p) = InputConns(g, p)
  BY DEF Contract!InputConns, InputConns
<1>3. \A g, p : Contract!OutputConns(g, p) = OutputConns(g, p)
  BY DEF Contract!OutputConns, OutputConns
<1>4. \A g, p : /\ Contract!StreamOutPorts(g, p) = StreamOutPorts(g, p)
                /\ Contract!StreamInPorts(g, p) = StreamInPorts(g, p)
  BY <1>1, <1>2, <1>3 DEF Contract!StreamOutPorts, StreamOutPorts, Contract!StreamInPorts, StreamInPorts
<1>5. \A a, b : Contract!IsPrefix(a, b) <=> IsPrefix(a, b)
  BY DEF Contract!IsPrefix, IsPrefix
<1> QED
  BY <1>1, <1>2, <1>4, <1>5

LEMMA ContractInit == EvaluateInit => Contract!Init
<1> SUFFICES ASSUME EvaluateInit PROVE Contract!Init
  OBVIOUS
<1>1. source \in Graphs /\ ~Started /\ life = [p \in source.procs |-> "idle"]
  BY DEF EvaluateInit, PlannerInit, Started
<1> QED
  BY <1>1, SameOperators DEF Contract!Init, PortsOf

\* A step that leaves alone what Dataflow sees.
LEMMA Stutters ==
  ASSUME UNCHANGED <<source, MapLife, MapSent, MapClosed, MapGot>>
  PROVE  UNCHANGED Contract!dataflowVars
BY DEF Contract!dataflowVars, MapLife, MapSent, MapClosed, MapGot, UserOuts, UserIns

\* What the data inputs of p come from is done.
Ready(p) == \A c \in source.conns : c.down = p /\ ~c.stream => life[c.up] = "done"

LEMMA ReadyIs ==
  ASSUME IsGraph(source), NEW p \in source.procs, Ready(p)
  PROVE  Contract!DataInputsDone(p)
<1>1. \A c \in source.conns : c.up \in source.procs
  BY DEF IsGraph
<1> QED
  BY <1>1, SameOperators DEF Contract!DataInputsDone, InputConns, Ready

LEMMA RunStep ==
  ASSUME IsGraph(source), NEW p \in source.procs \ source.streaming,
         Ready(p), life[p] = "idle",
         MapLife' = [MapLife EXCEPT ![p] = "done"],
         UNCHANGED <<source, MapSent, MapClosed, MapGot>>
  PROVE  Contract!Run(p)
<1>1. Contract!DataInputsDone(p)
  BY ReadyIs
<1> QED
  BY <1>1 DEF Contract!Run, MapLife, MapSent, MapClosed, MapGot, UserOuts, UserIns

LEMMA StartStep ==
  ASSUME IsGraph(source), NEW p \in source.procs, p \in source.streaming,
         Ready(p), life[p] = "idle",
         MapLife' = [MapLife EXCEPT ![p] = "running"],
         UNCHANGED <<source, MapSent, MapClosed, MapGot>>
  PROVE  Contract!Start(p)
<1>1. Contract!DataInputsDone(p)
  BY ReadyIs
<1> QED
  BY <1>1 DEF Contract!Start, MapLife, MapSent, MapClosed, MapGot, UserOuts, UserIns

LEMMA FinishStep ==
  ASSUME IsGraph(source), NEW p \in source.procs, life[p] = "running",
         StreamOutPorts(source, p) \subseteq MapClosed,
         \A c \in source.conns : c.down = p /\ c.stream =>
           OutPort(c) \in MapClosed /\ MapGot[InPort(c)] = MapSent[OutPort(c)],
         MapLife' = [MapLife EXCEPT ![p] = "done"],
         UNCHANGED <<source, MapSent, MapClosed, MapGot>>
  PROVE  Contract!Finish(p)
<1>1. Contract!StreamsEnded(p)
  BY SameOperators DEF Contract!StreamsEnded, InputConns, MapSent, MapClosed, MapGot, UserOuts, UserIns
<1> QED
  BY <1>1 DEF Contract!Finish, MapLife, MapSent, MapClosed, MapGot, UserOuts, UserIns

LEMMA StreamStep ==
  ASSUME NEW p \in source.procs, life[p] = "running",
         \A c \in source.conns : c.down = p /\ c.stream =>
           /\ IsPrefix(MapGot[InPort(c)], MapGot'[InPort(c)])
           /\ IsPrefix(MapGot'[InPort(c)], MapSent[OutPort(c)]),
         \A o \in StreamOutPorts(source, p) :
           /\ IsPrefix(MapSent[o], MapSent'[o])
           /\ o \in MapClosed => MapSent'[o] = MapSent[o],
         \A i \in UserIns \ StreamInPorts(source, p) : MapGot'[i] = MapGot[i],
         \A o \in UserOuts \ StreamOutPorts(source, p) : MapSent'[o] = MapSent[o],
         MapClosed \subseteq MapClosed',
         MapClosed' \subseteq MapClosed \cup StreamOutPorts(source, p),
         UNCHANGED <<source, MapLife>>
  PROVE  Contract!Stream(p)
<1>1. UNCHANGED <<UserOuts, UserIns>>
  BY DEF UserOuts, UserIns
<1>2. /\ DOMAIN MapGot = UserIns /\ DOMAIN MapSent = UserOuts
      /\ DOMAIN MapGot' = UserIns /\ DOMAIN MapSent' = UserOuts
  BY <1>1 DEF MapGot, MapSent
<1>3. MapLife[p] = "running"
  BY DEF MapLife
<1> QED
  BY <1>1, <1>2, <1>3, SameOperators
  DEF Contract!Stream, InputConns, MapLife, MapSent, MapClosed, MapGot, UserOuts, UserIns

-----------------------------------------------------------------------------
(***************************************************************************)
(* The steps of Evaluate.                                                  *)
(***************************************************************************)

\* Until a run starts no process has been called.
NothingCalledYet == ~Started => life = [p \in source.procs |-> "idle"]

\* What holds after a step as well.
Kept == NothingRunsOnUnfinishedData /\ EndToEndDelivery

LEMMA NextNothingCalledYet ==
  ASSUME NothingCalledYet, [EvaluateNext]_vars
  PROVE  NothingCalledYet'
<1> SUFFICES ASSUME ~Started' PROVE life' = [p \in source'.procs |-> "idle"]
  BY DEF NothingCalledYet
<1>1. \A n : ~GoTo(n)
  BY DEF GoTo, Started
<1>2. \A kind : Running(kind) => status # status'
  BY DEF Running, Started
<1>3. /\ ~StartRun /\ ~RunFunctional /\ ~RunCopyData /\ ~ProcessThrows
  BY <1>1 DEF StartRun, RunFunctional, RunCopyData, ProcessThrows, Started
<1>4. \A n, m : ~(Running("streaming") /\ Advance(n, m))
  BY <1>2 DEF Advance
<1>5. ~Initialise /\ ~RunProcess /\ ~CheckRunnable
  BY <1>2, <1>4 DEF Initialise, RunProcess, CheckRunnable, InMode
<1>6. ~RunCopyStream
  BY <1>4 DEF RunCopyStream, InMode, Started
<1>7. ~Finalise
  BY <1>1, <1>2 DEF Finalise, InMode
<1>8. UNCHANGED <<status, life>> /\ [PlannerNext]_plannerVars
  BY <1>3, <1>5, <1>6, <1>7 DEF EvaluateNext, vars, execVars
<1>9. source' = source
  BY <1>8, SourceStays
<1> QED
  BY <1>8, <1>9 DEF NothingCalledYet, Started

\* Ports of the source are ports of the planned graph, and belong to processes
\* of the source.
LEMMA UserPortsAre ==
  ASSUME PlanInv, phase = "planned"
  PROVE  /\ UserOuts \subseteq StreamOuts /\ UserIns \subseteq StreamIns
         /\ \A p \in flat.procs \ source.procs :
              /\ StreamOutPorts(flat, p) \cap UserOuts = {}
              /\ StreamInPorts(flat, p) \cap UserIns = {}
         /\ \A p \in source.procs :
              /\ StreamOutPorts(source, p) = StreamOutPorts(flat, p)
              /\ StreamInPorts(source, p) = StreamInPorts(flat, p)
              /\ StreamOutPorts(flat, p) \subseteq UserOuts
              /\ StreamInPorts(flat, p) \subseteq UserIns
         /\ \A c \in source.conns : c.stream => OutPort(c) \in UserOuts /\ InPort(c) \in UserIns
<1>1. /\ IsGraph(source) /\ source.procs \subseteq flat.procs
      /\ \A p \in source.procs :
           /\ StreamOutPorts(flat, p) = StreamOutPorts(source, p)
           /\ StreamInPorts(flat, p) = StreamInPorts(source, p)
  BY UserPorts
<1>2. UserOuts \subseteq StreamOuts /\ UserIns \subseteq StreamIns
  BY <1>1 DEF UserOuts, UserIns, StreamOuts, StreamIns, PortsOf
<1>3. /\ \A o \in UserOuts : o[1] \in source.procs
      /\ \A i \in UserIns : i[1] \in source.procs
  BY PortOwners DEF UserOuts, UserIns, PortsOf
<1>4. \A p \in flat.procs \ source.procs :
        /\ StreamOutPorts(flat, p) \cap UserOuts = {}
        /\ StreamInPorts(flat, p) \cap UserIns = {}
  <2> SUFFICES ASSUME NEW p \in flat.procs \ source.procs
               PROVE  /\ StreamOutPorts(flat, p) \cap UserOuts = {}
                      /\ StreamInPorts(flat, p) \cap UserIns = {}
    OBVIOUS
  <2>1. /\ \A o \in StreamOutPorts(flat, p) : o[1] = p
        /\ \A i \in StreamInPorts(flat, p) : i[1] = p
    BY PortOwners
  <2> QED
    BY <1>3, <2>1
<1>5. \A p \in source.procs : /\ StreamOutPorts(flat, p) \subseteq UserOuts
                              /\ StreamInPorts(flat, p) \subseteq UserIns
  BY <1>1 DEF UserOuts, UserIns, PortsOf
<1>6. \A c \in source.conns : c.stream => OutPort(c) \in UserOuts /\ InPort(c) \in UserIns
  BY <1>1, PortsOfGraph DEF UserOuts, UserIns
<1> QED
  BY <1>1, <1>2, <1>4, <1>5, <1>6

LEMMA PortsUntouched ==
  ASSUME Started, Started', Frame,
         \A o \in UserOuts : sent'[o] = sent[o] /\ (streamOut'[o].eof <=> streamOut[o].eof),
         \A i \in UserIns : got'[i] = got[i]
  PROVE  UNCHANGED <<source, MapSent, MapClosed, MapGot>>
<1>1. source' = source /\ UserOuts' = UserOuts /\ UserIns' = UserIns
  BY FrameIs DEF UserOuts, UserIns
<1> QED
  BY <1>1 DEF MapSent, MapClosed, MapGot

\* A step that calls no process of the source and leaves its ports alone.
LEMMA StepUnseen ==
  ASSUME Started, Started', Frame, \A p \in source.procs : life'[p] = life[p],
         \A o \in UserOuts : sent'[o] = sent[o] /\ (streamOut'[o].eof <=> streamOut[o].eof),
         \A i \in UserIns : got'[i] = got[i]
  PROVE  UNCHANGED Contract!dataflowVars
<1>1. UNCHANGED <<source, MapSent, MapClosed, MapGot>>
  BY PortsUntouched
<1>2. MapLife' = MapLife
  BY <1>1 DEF MapLife
<1> QED
  BY <1>1, <1>2, Stutters

\* A process that has been called had what its data inputs come from.
LEMMA ReadyToStart ==
  ASSUME ExecInv, Started, Started', Frame, NothingRunsOnUnfinishedData',
         NEW p \in source.procs, NEW v \in {"running", "done"},
         life' = [life EXCEPT ![p] = v]
  PROVE  /\ IsGraph(source) /\ Ready(p)
         /\ MapLife' = [MapLife EXCEPT ![p] = v]
<1>1. /\ IsGraph(source) /\ source.procs \subseteq flat.procs
      /\ \A c \in source.conns : /\ c.up \in source.procs /\ c.up # c.down
                                 /\ ~c.stream => c \in flat.conns
  BY UserPorts DEF ExecInv
<1>2. DOMAIN life = flat.procs
  BY DEF ExecInv, RunInv, ExecTypeOK
<1>3. UNCHANGED <<flat, source>>
  BY FrameIs
<1>4. life'[p] # "idle"
  BY <1>1, <1>2
<1>5. \A c \in flat.conns : ~c.stream /\ c.down = p => life'[c.up] = "done"
  BY <1>3, <1>4 DEF NothingRunsOnUnfinishedData
<1>6. Ready(p)
  BY <1>1, <1>2, <1>5 DEF Ready
<1>7. MapLife' = [MapLife EXCEPT ![p] = v]
  BY <1>1, <1>2, <1>3 DEF MapLife
<1> QED
  BY <1>1, <1>6, <1>7

LEMMA BuffersStream ==
  ASSUME ExecInv, Started
  PROVE  flat.procs \ source.procs \subseteq flat.streaming
<1>1. flat = Augment(source, split)
  BY PlanFacts DEF ExecInv, PlanInv, SuccessInv, SecondRun
<1> QED
  BY <1>1, AugmentedProcs DEF Augment, WithBuffers, WriterFor, ReaderFor

LEMMA StartRunKeeps ==
  ASSUME ExecInv, NothingCalledYet, StartRun
  PROVE  UNCHANGED Contract!dataflowVars
<1>1. /\ ~Started /\ Frame /\ phase = "planned"
      /\ life' = [p \in flat.procs |-> "idle"]
      /\ streamOut' = [o \in StreamOuts |-> OpenPort]
      /\ sent' = [o \in StreamOuts |-> <<>>] /\ got' = [i \in StreamIns |-> <<>>]
  BY DEF StartRun, Started, Frame, StreamOuts, StreamIns
<1>2. /\ source.procs \subseteq flat.procs
      /\ UserOuts \subseteq StreamOuts /\ UserIns \subseteq StreamIns
  BY <1>1, UserPorts, UserPortsAre DEF ExecInv
<1>3. UNCHANGED <<source, UserOuts, UserIns>>
  BY <1>1, FrameIs DEF UserOuts, UserIns
<1>4. \A o \in UserOuts : streamOut'[o] = OpenPort /\ sent'[o] = <<>>
  BY <1>1, <1>2
<1>5. ~OpenPort.eof
  BY DEF OpenPort
<1>6. MapSent' = MapSent /\ MapClosed' = MapClosed
  BY <1>1, <1>3, <1>4, <1>5 DEF MapSent, MapClosed
<1>7. MapGot' = MapGot
  BY <1>1, <1>2, <1>3 DEF MapGot
<1>8. MapLife' = MapLife
  BY <1>1, <1>2, <1>3 DEF MapLife, NothingCalledYet
<1> QED
  BY <1>3, <1>6, <1>7, <1>8, Stutters

\* A process of the source that runs as a functional one.
LEMMA RunFunctionalKeeps ==
  ASSUME ExecInv, Started, RunFunctional, Kept'
  PROVE  [Contract!Next]_Contract!dataflowVars
<1> DEFINE called == plan[step].process
<1>1. /\ Frame /\ GoTo(step + 1) /\ UNCHANGED <<streamOut, sent, got>>
      /\ status = "running" /\ plan[step].kind = "functional"
      /\ life' = [life EXCEPT ![called] = "done"]
      /\ PlanInv /\ phase = "planned" /\ ControlOK /\ LifeFollowsPlan
  BY DEF RunFunctional, Running, Frame, ExecInv, RunInv
<1>2. step \in DOMAIN plan /\ step \in Nat /\ mode = "initialise" /\ at = 1 /\ Started'
  BY <1>1, PlanFacts DEF ControlOK, InStreaming, GoTo, Started
<1>3. PICK p \in flat.procs : p = called /\ p \notin flat.streaming /\ Calls(plan[step]) = <<p>>
  BY <1>1, <1>2, StepKinds
<1> HIDE DEF called
<1>4. p \in source.procs \ source.streaming
  BY <1>1, <1>3, BuffersStream, UserPorts
<1>5. life[p] = "idle"
  <2>1. 1 \in DOMAIN Calls(plan[step]) /\ Calls(plan[step])[1] = p
    BY <1>3
  <2>2. <<step, 1>> \in CalledAt(plan, p)
    BY <1>1, <1>2, <2>1, Places
  <2> QED
    BY <1>1, <1>2, <1>3, <2>2 DEF LifeFollowsPlan, LifeAt
<1>6. IsGraph(source) /\ Ready(p) /\ MapLife' = [MapLife EXCEPT ![p] = "done"]
  BY <1>1, <1>2, <1>3, <1>4, ReadyToStart DEF Kept
<1>7. UNCHANGED <<source, MapSent, MapClosed, MapGot>>
  BY <1>1, <1>2, PortsUntouched
<1>8. Contract!Run(p)
  BY <1>4, <1>5, <1>6, <1>7, RunStep
<1> QED
  BY <1>4, <1>8 DEF Contract!Next

\* The process that a streaming step initialises or finalises.
LEMMA ProcessAt ==
  ASSUME ExecInv, Started, NEW m \in {"initialise", "finalise"}, InMode(m)
  PROVE  LET p == Processes[at]
         IN  /\ p \in flat.procs /\ p \in flat.streaming
             /\ life[p] = IF m = "initialise" THEN "idle" ELSE "running"
             /\ \E a \in CalledAt(plan, p) : a[1] = step
<1> DEFINE p == Processes[at]
<1>1. /\ PlanInv /\ phase = "planned" /\ RunInv /\ mode = m
      /\ step \in DOMAIN plan /\ step \in Nat
      /\ Processes \in Seq(flat.streaming) /\ Calls(plan[step]) = Processes
      /\ DOMAIN Processes = 1 .. Len(Processes)
      /\ Len(Processes) \in Nat /\ at \in 1 .. Len(Processes)
  BY InModeIs
<1>2. p \in flat.procs /\ <<step, at>> \in CalledAt(plan, p)
  BY <1>1, Places
<1>3. p \in flat.streaming
  BY <1>1
<1>4. life[p] = LifeAt(<<step, at>>)
  BY <1>1, <1>2 DEF RunInv, LifeFollowsPlan
<1>5. ~(step < step) /\ ~(step > step) /\ ~(at < at)
  BY <1>1
<1>6. LifeAt(<<step, at>>) = IF m = "initialise" THEN "idle" ELSE "running"
  BY <1>1, <1>5 DEF LifeAt
<1> QED
  BY <1>2, <1>3, <1>4, <1>6

LEMMA InitialiseKeeps ==
  ASSUME ExecInv, Started, Initialise, Kept'
  PROVE  [Contract!Next]_Contract!dataflowVars
<1> DEFINE called == Processes[at]
<1>1. /\ InMode("initialise") /\ Frame /\ UNCHANGED <<status, streamOut, sent, got>>
      /\ life' = [life EXCEPT ![called] = "running"]
      /\ PlanInv /\ phase = "planned" /\ Started'
  BY DEF Initialise, Advance, Frame, ExecInv, Started
<1>2. PICK p \in flat.procs : p = called /\ p \in flat.streaming /\ life[p] = "idle"
  BY <1>1, ProcessAt
<1> HIDE DEF called
<1>3. CASE p \in source.procs
  <2>1. p \in source.streaming
    BY <1>1, <1>2, <1>3, UserPorts
  <2>2. IsGraph(source) /\ Ready(p) /\ MapLife' = [MapLife EXCEPT ![p] = "running"]
    BY <1>1, <1>2, <1>3, ReadyToStart DEF Kept
  <2>3. UNCHANGED <<source, MapSent, MapClosed, MapGot>>
    BY <1>1, PortsUntouched
  <2>4. Contract!Start(p)
    BY <1>2, <1>3, <2>1, <2>2, <2>3, StartStep
  <2> QED
    BY <1>3, <2>4 DEF Contract!Next
<1>4. CASE p \notin source.procs
  <2>1. \A q \in source.procs : life'[q] = life[q]
    BY <1>1, <1>2, <1>4, UserPorts DEF ExecInv, RunInv, ExecTypeOK
  <2> QED
    BY <1>1, <2>1, StepUnseen
<1> QED
  BY <1>3, <1>4

LEMMA FinaliseKeeps ==
  ASSUME ExecInv, Started, Finalise
  PROVE  [Contract!Next]_Contract!dataflowVars
<1> DEFINE called == Processes[at]
<1>1. /\ InMode("finalise") /\ Frame /\ UNCHANGED <<streamOut, sent, got>>
      /\ life' = [life EXCEPT ![called] = "done"]
      /\ PlanInv /\ phase = "planned" /\ Started'
      /\ mode = "finalise" /\ StreamsOver
  <2>1. status' = status \/ GoTo(step + 1)
    BY DEF Finalise
  <2>2. Started'
    BY <2>1 DEF GoTo, Started
  <2>3. InMode("finalise")
    BY DEF Finalise
  <2> QED
    BY <2>2, <2>3, InModeIs DEF Finalise, Frame, RunInv
<1>2. PICK p \in flat.procs : /\ p = called /\ life[p] = "running"
                              /\ \E a \in CalledAt(plan, p) : a[1] = step
  BY <1>1, ProcessAt
<1> HIDE DEF called
<1>3. CASE p \in source.procs
  <2>1. /\ \A i \in StreamInPorts(flat, p) : Eof(streamIn[i])
        /\ \A o \in StreamOutPorts(flat, p) : Eof(streamOut[o])
    BY <1>1, <1>2 DEF StreamsOver, StepOver
  <2>2. /\ StreamOutPorts(source, p) = StreamOutPorts(flat, p)
        /\ StreamOutPorts(flat, p) \subseteq UserOuts
        /\ \A c \in source.conns : c.stream => OutPort(c) \in UserOuts /\ InPort(c) \in UserIns
    BY <1>1, <1>3, UserPortsAre
  <2>3. StreamOutPorts(source, p) \subseteq MapClosed
    BY <2>1, <2>2 DEF MapClosed, Eof
  <2>4. ASSUME NEW c \in source.conns, c.down = p, c.stream
        PROVE  OutPort(c) \in MapClosed /\ MapGot[InPort(c)] = MapSent[OutPort(c)]
    <3>1. InPort(c) \in StreamInPorts(flat, p)
      BY <1>1, <2>4, UserPorts
    <3>2. got[InPort(c)] = sent[OutPort(c)] /\ streamOut[OutPort(c)].eof
      BY <2>1, <2>4, <3>1, SourceDelivered DEF Delivers
    <3> QED
      BY <2>2, <2>4, <3>2 DEF MapClosed, MapGot, MapSent
  <2>5. MapLife' = [MapLife EXCEPT ![p] = "done"] /\ IsGraph(source)
    <3>1. UNCHANGED source /\ source.procs \subseteq flat.procs /\ DOMAIN life = flat.procs
      BY <1>1, FrameIs, UserPorts DEF ExecInv, RunInv, ExecTypeOK
    <3> QED
      BY <1>1, <1>2, <1>3, <3>1, UserPorts DEF MapLife
  <2>6. UNCHANGED <<source, MapSent, MapClosed, MapGot>>
    BY <1>1, PortsUntouched
  <2>7. Contract!Finish(p)
    BY <1>2, <1>3, <2>3, <2>4, <2>5, <2>6, FinishStep
  <2> QED
    BY <1>3, <2>7 DEF Contract!Next
<1>4. CASE p \notin source.procs
  <2>1. \A q \in source.procs : life'[q] = life[q]
    BY <1>1, <1>2, <1>4, UserPorts DEF ExecInv, RunInv, ExecTypeOK
  <2> QED
    BY <1>1, <2>1, StepUnseen
<1> QED
  BY <1>3, <1>4

\* A call of process(): of a process of the source, or of a buffer.
LEMMA CallKeeps ==
  ASSUME ExecInv, Started, Started', Frame, life' = life, Kept',
         NEW p \in flat.procs, CallOK(p), life[p] = "running"
  PROVE  [Contract!Next]_Contract!dataflowVars
<1>1. /\ Frame /\ UNCHANGED life /\ PlanInv /\ phase = "planned" /\ Started'
  BY DEF ExecInv
<1>2. CallOK(p) /\ life[p] = "running"
  OBVIOUS
<1>3. Flows(p)
  BY <1>2 DEF CallOK
<1>4. /\ UNCHANGED <<source, UserOuts, UserIns>>
      /\ UserOuts \subseteq StreamOuts /\ UserIns \subseteq StreamIns
      /\ \A c \in source.conns : c.stream => OutPort(c) \in UserOuts /\ InPort(c) \in UserIns
  BY <1>1, FrameIs, UserPortsAre DEF UserOuts, UserIns
<1>5. /\ \A i \in UserIns : i \notin StreamInPorts(flat, p) => got'[i] = got[i]
      /\ \A o \in UserOuts : o \notin StreamOutPorts(flat, p) =>
           streamOut'[o] = streamOut[o] /\ sent'[o] = sent[o]
  BY <1>3, <1>4 DEF Flows
<1>6. CASE p \notin source.procs
  <2>1. /\ \A i \in UserIns : i \notin StreamInPorts(flat, p)
        /\ \A o \in UserOuts : o \notin StreamOutPorts(flat, p)
    BY <1>1, <1>6, UserPortsAre
  <2> QED
    BY <1>1, <1>5, <2>1, StepUnseen
<1>7. CASE p \in source.procs
  <2>1. /\ StreamOutPorts(source, p) = StreamOutPorts(flat, p)
        /\ StreamInPorts(source, p) = StreamInPorts(flat, p)
        /\ StreamOutPorts(flat, p) \subseteq UserOuts
    BY <1>1, <1>7, UserPortsAre
  <2>2. /\ \A o \in UserOuts : MapSent[o] = sent[o] /\ MapSent'[o] = sent'[o]
        /\ \A i \in UserIns : MapGot[i] = got[i] /\ MapGot'[i] = got'[i]
        /\ \A o \in UserOuts : /\ o \in MapClosed <=> streamOut[o].eof
                               /\ o \in MapClosed' <=> streamOut'[o].eof
        /\ MapClosed \subseteq UserOuts /\ MapClosed' \subseteq UserOuts
    BY <1>1, <1>4 DEF MapSent, MapGot, MapClosed
  <2>3. ASSUME NEW c \in source.conns, c.down = p, c.stream
        PROVE  /\ IsPrefix(MapGot[InPort(c)], MapGot'[InPort(c)])
               /\ IsPrefix(MapGot'[InPort(c)], MapSent[OutPort(c)])
    <3>1. InPort(c) \in UserIns /\ OutPort(c) \in UserOuts
      BY <1>4, <2>3
    <3>2. IsPrefix(got[InPort(c)], got'[InPort(c)])
      <4>1. PICK x \in Seq(Nat) : got'[InPort(c)] = got[InPort(c)] \o x
        BY <1>3, <1>4, <3>1 DEF Flows
      <4>2. got[InPort(c)] \in Seq(Nat)
        BY <1>4, <3>1 DEF ExecInv, RunInv, ExecTypeOK
      <4> QED
        BY <4>1, <4>2, BeginsWith
    <3>3. IsPrefix(got'[InPort(c)], sent'[OutPort(c)])
      BY <1>1, <1>4, <2>3 DEF Kept, EndToEndDelivery
    <3>4. sent'[OutPort(c)] = sent[OutPort(c)]
      <4>1. OutPort(c)[1] = c.up /\ c.up # c.down
        BY <1>1, UserPorts DEF OutPort
      <4>2. OutPort(c) \notin StreamOutPorts(flat, p)
        BY <2>3, <4>1, PortOwners
      <4> QED
        BY <1>5, <3>1, <4>2
    <3> QED
      BY <2>2, <3>1, <3>2, <3>3, <3>4
  <2>4. ASSUME NEW o \in StreamOutPorts(source, p)
        PROVE  /\ IsPrefix(MapSent[o], MapSent'[o])
               /\ o \in MapClosed => MapSent'[o] = MapSent[o]
    <3>1. o \in UserOuts /\ o \in StreamOuts
      BY <1>4, <2>1
    <3>2. PICK x \in Seq(Nat) : sent'[o] = sent[o] \o x
      BY <1>3, <3>1 DEF Flows
    <3>3. sent[o] \in Seq(Nat)
      BY <3>1 DEF ExecInv, RunInv, ExecTypeOK
    <3>4. streamOut[o].eof => sent'[o] = sent[o]
      BY <1>3, <3>1 DEF Flows
    <3> QED
      BY <2>2, <3>1, <3>2, <3>3, <3>4, BeginsWith
  <2>5. MapClosed \subseteq MapClosed'
    <3>1. \A o \in UserOuts : streamOut[o].eof => streamOut'[o].eof
      BY <1>3, <1>4 DEF Flows
    <3> QED
      BY <2>2, <3>1
  <2>6. MapClosed' \subseteq MapClosed \cup StreamOutPorts(source, p)
    BY <1>5, <2>1, <2>2
  <2>7. /\ \A i \in UserIns \ StreamInPorts(source, p) : MapGot'[i] = MapGot[i]
        /\ \A o \in UserOuts \ StreamOutPorts(source, p) : MapSent'[o] = MapSent[o]
    BY <1>5, <2>1, <2>2
  <2>8. UNCHANGED <<source, MapLife>>
    BY <1>1, <1>4 DEF MapLife
  <2>9. Contract!Stream(p)
    BY <1>2, <1>7, <2>3, <2>4, <2>5, <2>6, <2>7, <2>8, StreamStep
  <2> QED
    BY <1>7, <2>9 DEF Contract!Next
<1> QED
  BY <1>6, <1>7

LEMMA RunProcessKeeps ==
  ASSUME ExecInv, Started, RunProcess, Kept'
  PROVE  [Contract!Next]_Contract!dataflowVars
<1>1. Frame /\ life' = life /\ Started'
  BY DEF RunProcess, Advance, Frame, Started
<1>2. PICK p \in flat.procs : CallOK(p) /\ life[p] = "running"
  BY RunProcessCalls
<1> QED
  BY <1>1, <1>2, CallKeeps

LEMMA RunCopyStreamKeeps ==
  ASSUME ExecInv, Started, RunCopyStream
  PROVE  UNCHANGED Contract!dataflowVars
<1>1. Frame /\ UNCHANGED <<life, sent, got>> /\ PlanInv /\ phase = "planned"
  BY DEF RunCopyStream, Frame, ExecInv
<1>2. /\ \A x \in StreamOuts : streamOut'[x].eof <=> streamOut[x].eof
      /\ status' = status
  BY CopyStreamEffect DEF Advance
<1>3. UserOuts \subseteq StreamOuts /\ Started'
  BY <1>1, <1>2, UserPortsAre DEF Started
<1> QED
  BY <1>1, <1>2, <1>3, StepUnseen

LEMMA PlannerKeeps ==
  ASSUME [PlannerNext]_plannerVars, UNCHANGED execVars
  PROVE  UNCHANGED Contract!dataflowVars
<1>1. UNCHANGED <<source, status, life, sent, got, streamOut>>
  BY SourceStays DEF execVars, portVars
<1>2. UNCHANGED <<MapLife, MapSent, MapClosed, MapGot>>
  BY <1>1 DEF MapLife, MapSent, MapClosed, MapGot, UserOuts, UserIns, Started
<1> QED
  BY <1>1, <1>2, Stutters

LEMMA NextKeepsContract ==
  ASSUME ExecInv, NothingCalledYet, Kept', [EvaluateNext]_vars
  PROVE  [Contract!Next]_Contract!dataflowVars
<1>1. /\ \A kind : Running(kind) => Started
      /\ \A m : InMode(m) => Started
  BY DEF Running, Started, InMode
<1>2. CASE PlannerNext /\ UNCHANGED execVars
  BY <1>2, PlannerKeeps
<1>3. CASE UNCHANGED vars
  BY <1>3, PlannerKeeps DEF vars
<1>4. CASE StartRun
  BY <1>4, StartRunKeeps
<1>5. CASE RunFunctional
  BY <1>1, <1>5, RunFunctionalKeeps DEF RunFunctional
<1>6. CASE Initialise
  BY <1>1, <1>6, InitialiseKeeps DEF Initialise
<1>7. CASE RunProcess
  BY <1>1, <1>7, RunProcessKeeps DEF RunProcess
<1>8. CASE RunCopyStream
  BY <1>1, <1>8, RunCopyStreamKeeps DEF RunCopyStream
<1>9. CASE Finalise
  BY <1>1, <1>9, FinaliseKeeps DEF Finalise
<1>10. CASE RunCopyData \/ CheckRunnable \/ ProcessThrows
  <2>1. Started /\ Frame /\ UNCHANGED <<life, sent, got, streamOut>>
    BY <1>1, <1>10 DEF RunCopyData, CheckRunnable, ProcessThrows, Callee, Frame, portVars
  <2>2. Started'
    BY <1>10, <2>1 DEF RunCopyData, GoTo, CheckRunnable, ProcessThrows, Started
  <2> QED
    BY <2>1, <2>2, StepUnseen
<1> QED
  BY <1>2, <1>3, <1>4, <1>5, <1>6, <1>7, <1>8, <1>9, <1>10 DEF EvaluateNext

\* Whatever buffers the planner inserts, in whatever order it lists the
\* processes and however items are moved, evaluate() does for the processes
\* of the graph it was given what the comments of process.hpp promise: each is
\* run or initialised once, after those it has data from are done; it reads
\* what was pushed to the port upstream, in order, and nothing pushed after a
\* close; it is finalised when all its streams were read to their ends.
THEOREM EvaluateKeepsContract == EvaluateSpec => ImplementsDataflow
<1>1. EvaluateInit => NothingCalledYet
  BY DEF EvaluateInit, PlannerInit, NothingCalledYet
<1>2. NothingCalledYet /\ [EvaluateNext]_vars => NothingCalledYet'
  BY NextNothingCalledYet
<1>3. ExecInv /\ NothingCalledYet /\ Kept' /\ [EvaluateNext]_vars
        => [Contract!Next]_Contract!dataflowVars
  BY NextKeepsContract
<1>4. EvaluateSpec => []Kept
  BY DataIsFinished, StreamsAreDelivered, PTL DEF Kept
<1> QED
  BY <1>1, <1>2, <1>3, <1>4, Evaluated, ContractInit, PTL
  DEF EvaluateSpec, ImplementsDataflow, Contract!Spec
=============================================================================
