------------------------ MODULE MCEvaluateHierarchy -------------------------
(***************************************************************************)
(* Hierarchies for EvaluateHierarchy.                                      *)
(***************************************************************************)
EXTENDS EvaluateHierarchy

CONSTANTS a, b, e, f,   \* atomic processes
          C, D          \* composite processes

Port(p, dir, name, type) == [proc |-> p, dir |-> dir, name |-> name, type |-> type]
In(p, type)  == Port(p, "in", "in", type)
Out(p, type) == Port(p, "out", "out", type)

\* A composite within a composite.
Nested ==
  [procs |-> {a, b, e, C, D}, composites |-> {C, D}, streaming |-> {a, b, e},
   owner |-> (b :> D) @@ (D :> C) @@ [p \in {a, e, C} |-> Root],
   ports |-> {Out(a, "stream"), In(C, "stream"), Out(C, "stream"), In(D, "stream"),
              Out(D, "stream"), In(b, "stream"), Out(b, "stream"), In(e, "stream")}]

\* A composite without processes of its own, which can pass things through,
\* also in a circle.
PassThrough ==
  [procs |-> {a, e, f, C}, composites |-> {C}, streaming |-> {},
   owner |-> [p \in {a, e, f, C} |-> Root],
   ports |-> {Out(a, "data"), In(e, "data"), In(f, "data"),
              In(C, "data"), Port(C, "in", "second", "data"),
              Out(C, "data"), Port(C, "out", "second", "data")}]

\* Streams and data side by side.
Typed ==
  [procs |-> {a, b, e, C}, composites |-> {C}, streaming |-> {a, b},
   owner |-> (b :> C) @@ (e :> C) @@ (a :> Root) @@ (C :> Root),
   ports |-> {Out(a, "data"), Port(a, "out", "samples", "stream"),
              In(C, "data"), Port(C, "in", "samples", "stream"),
              Port(b, "in", "samples", "stream"), In(b, "data"), In(e, "data")}]

\* The normalise example of docs/framework.rst, with what analyses the stream
\* and what applies the result in a composite, so that a buffer is needed
\* within it; wired otherwise, there are cycles.
Normalise ==
  [procs |-> {a, b, e, C}, composites |-> {C}, streaming |-> {a, b, e},
   owner |-> [p \in {a, C} |-> Root] @@ [p \in {b, e} |-> C],
   ports |-> {Out(a, "stream"), In(C, "stream"), In(b, "stream"), In(e, "stream"),
              Port(b, "out", "gain", "data"), Port(e, "in", "gain", "data")}]

\* A functional process with a stream port.
Misplaced ==
  [procs |-> {a, e}, composites |-> {}, streaming |-> {a},
   owner |-> [p \in {a, e} |-> Root],
   ports |-> {Out(a, "stream"), In(e, "stream")}]

Built == {Nested, PassThrough, Typed, Normalise, Misplaced}
=============================================================================
