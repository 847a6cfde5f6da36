------------------------- MODULE MCDynamicSubgraph --------------------------
(***************************************************************************)
(* Inner graphs for DynamicSubgraph.                                       *)
(***************************************************************************)
EXTENDS DynamicSubgraph

CONSTANTS
  a, b,                   \* inner processes
  in1, in2, out1, out2,   \* stream ports of the dynamic subgraph
  din, dout               \* and its data ports

D(up, down) == Connection(up, "out", down, <<"data", up>>, FALSE)
S(up, down) == Connection(up, "out", down, <<"stream", up>>, TRUE)
\* An inner stream output has a port of its own, next to the data output.
SO(up, down) == Connection(up, "stream", down, "in", TRUE)
ToOut(up, down) == Connection(up, "out", down, "in", FALSE)

\* A filter set up by a data input, as ApplyChannelMapping is.
Filter ==
  [procs |-> {a, in1, out1, din}, streaming |-> {a, in1, out1},
   conns |-> {S(in1, a), SO(a, out1), D(din, a)}]

\* One stream measured by one process and consumed by another, with a result
\* computed after the streams, as in UpdateAllProgrammeLoudnesses.
Measure ==
  [procs |-> {a, b, in1, dout, din}, streaming |-> {a, in1},
   conns |-> {S(in1, a), D(a, b), D(din, b), ToOut(b, dout)}]

\* A source and a filter in a row.
Generate ==
  [procs |-> {a, b, out1}, streaming |-> {a, b, out1},
   conns |-> {Connection(a, "stream", b, "in", TRUE), SO(b, out1)}]

\* Two inputs into one process.
Mix ==
  [procs |-> {a, in1, in2, out1}, streaming |-> {a, in1, in2, out1},
   conns |-> {S(in1, a), S(in2, a), SO(a, out1)}]

\* One process with two outputs.
Split ==
  [procs |-> {a, in1, out1, out2}, streaming |-> {a, in1, out1, out2},
   conns |-> {S(in1, a), SO(a, out1), Connection(a, "second", out2, "in", TRUE)}]

\* Neither stream inputs nor outputs: all happens in finalise().
Inside ==
  [procs |-> {a, b, dout}, streaming |-> {a, b},
   conns |-> {Connection(a, "stream", b, "in", TRUE), ToOut(b, dout)}]

\* A stream that has to be buffered, which is not supported.
Buffered ==
  [procs |-> {a, b, in1, out1}, streaming |-> {a, b, in1, out1},
   conns |-> {S(in1, a), S(in1, b), D(a, b), SO(b, out1)}]

\* Two streams that have nothing to do with each other: two streaming
\* subgraphs, which is not supported.
Apart ==
  [procs |-> {a, b, in1, in2}, streaming |-> {a, b, in1, in2},
   conns |-> {S(in1, a), S(in2, b)}]

Inner == {Filter, Measure, Generate, Mix, Split, Inside, Buffered, Apart}
=============================================================================
