--------------------------- MODULE MCSilenceDetect --------------------------
(***************************************************************************)
(* Configurations for SilenceDetect.                                       *)
(***************************************************************************)
EXTENDS SilenceDetect

Mono    == {[channels |-> 1, minimum_length |-> 2]}
Several == [channels : 0 .. 3, minimum_length : 1 .. 3]
=============================================================================
