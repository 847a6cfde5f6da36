----------------------------- MODULE MCEvaluate -----------------------------
(***************************************************************************)
(* The planner and the executor on the graphs of MCGraphs.  plan() is      *)
(* given all graphs of three processes, cyclic ones included, acyclic ones *)
(* of four streaming processes, and those made by hand.  The plan is run   *)
(* but for graphs of four processes not made by hand.                      *)
(***************************************************************************)
EXTENDS Evaluate, MCGraphs

Four ==
  INSTANCE MCGraphs WITH
    Count <- 4, MaxFunctional <- 0, MaxConns <- 5, Cyclic <- FALSE

ThreeFourAndHandMade == AllGraphs \cup Four!AllGraphs \cup HandMade
FourButHandMade      == Four!AllGraphs \ HandMade
=============================================================================
