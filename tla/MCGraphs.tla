------------------------------ MODULE MCGraphs ------------------------------
(***************************************************************************)
(* Families of small graphs for the model checker.  Each process has at    *)
(* most one data and one stream output port; a process downstream has one  *)
(* input port for each connection, named after its source.                 *)
(***************************************************************************)
EXTENDS ProcessGraph

CONSTANTS
  p1, p2, p3, p4, \* processes
  Count,          \* how many of them a graph has
  MaxFunctional,  \* how many of those may be functional
  MaxConns,       \* how many connections it may have
  Cyclic          \* TRUE: connections may go both ways

Line  == SubSeq(<<p1, p2, p3, p4>>, 1, Count)
Procs == ToSet(Line)
Pairs == {<<Line[pq[1]], Line[pq[2]]>> :
            pq \in {ij \in (1 .. Count) \X (1 .. Count) :
                      IF Cyclic THEN ij[1] # ij[2] ELSE ij[1] < ij[2]}}

\* One connection for each member of a set of pairs.
Joined(pairs, port, stream) ==
  {Connection(pq[1], port, pq[2], <<port, pq[1]>>, stream) : pq \in pairs}

\* All graphs within the bounds.
AllGraphs ==
  {g \in UNION {
    {[procs |-> Procs, streaming |-> Procs \ F,
      conns |-> Joined(DS[1], "data", FALSE) \cup Joined(DS[2], "stream", TRUE)] :
        DS \in (SUBSET Pairs)
                 \X (SUBSET (Pairs \cap ((Procs \ F) \X (Procs \ F))))} :
    F \in {G \in SUBSET Procs : Cardinality(G) <= MaxFunctional}} :
     Cardinality(g.conns) <= MaxConns}
-----------------------------------------------------------------------------
(***************************************************************************)
(* Graphs made by hand, which have what the smallest ones do not.          *)
(***************************************************************************)
Data(a, b)        == Connection(a, "data", b, <<"data", a>>, FALSE)
StreamTo(a, b)    == Connection(a, "stream", b, <<"stream", a>>, TRUE)
SecondTo(a, b)    == Connection(a, "second", b, <<"second", a>>, TRUE)
Streaming(P, conns) == [procs |-> P, streaming |-> P, conns |-> conns]

\* The normalise example of docs/framework.rst: p1 reads, p2 analyses, p3
\* applies what p2 found to the same samples, and p4 writes the result.
Normalise ==
  Streaming({p1, p2, p3, p4},
    {StreamTo(p1, p2), StreamTo(p1, p3), Data(p2, p3), StreamTo(p3, p4)})

\* One port whose buffer is read in two later subgraphs.
TwoReaders ==
  Streaming({p1, p2, p3, p4},
    {StreamTo(p1, p2), StreamTo(p1, p3), StreamTo(p1, p4), Data(p2, p3), Data(p3, p4)})

\* One reader that feeds two processes of one later subgraph.
SharedReader ==
  Streaming({p1, p2, p3, p4},
    {StreamTo(p1, p2), StreamTo(p1, p3), StreamTo(p1, p4), Data(p2, p3), StreamTo(p3, p4)})

\* Two stream output ports on one process, of which one needs a buffer.
TwoPorts ==
  Streaming({p1, p2, p3, p4},
    {StreamTo(p1, p2), SecondTo(p1, p3), SecondTo(p1, p4), Data(p2, p3)})

\* Streams that meet again, all in one subgraph, between functional processes.
Diamond ==
  [procs |-> {p1, p2, p3, p4}, streaming |-> {p2, p3, p4},
   conns |-> {Data(p1, p2), Data(p1, p4), StreamTo(p2, p3), StreamTo(p2, p4), StreamTo(p3, p4)}]

\* A cycle through a data and a stream connection, which cannot be planned.
Loop == Streaming({p1, p2}, {StreamTo(p1, p2), Data(p2, p1)})

HandMade == {Normalise, TwoReaders, SharedReader, TwoPorts, Diamond, Loop}

\* With and without buffers, and one that fails.
Few == {Normalise, SharedReader, Diamond, Loop}
=============================================================================
