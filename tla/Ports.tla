------------------------------- MODULE Ports --------------------------------
(***************************************************************************)
(* The two kinds of ports of process.hpp as values.                        *)
(*                                                                         *)
(* A stream port is a queue and an end-of-file flag.  push() to a port     *)
(* that was closed throws: the operators that push are defined for all     *)
(* ports, and CanPush says when the code would not throw.                  *)
(***************************************************************************)
EXTENDS Naturals, Sequences

OpenPort == [queue |-> <<>>, eof |-> FALSE]

CanPush(port, items) == items = <<>> \/ ~port.eof
Push(port, items)    == [port EXCEPT !.queue = @ \o items]

\* pop() n times.
Pop(port, n)    == [port EXCEPT !.queue = SubSeq(@, n + 1, Len(@))]
Popped(port, n) == SubSeq(port.queue, 1, n)

Close(port) == [port EXCEPT !.eof = TRUE]
Eof(port)   == port.queue = <<>> /\ port.eof

\* A fault: clear() forgotten.
NotCleared(port) == port

Clear(port) == [port EXCEPT !.queue = <<>>]

\* What copy_to() and move_to() make of the port at the other end; they only
\* differ in the items left behind, which ExecCopyStream clears.
Received(port, other) ==
  LET pushed == Push(other, port.queue)
  IN  IF port.eof THEN Close(pushed) ELSE pushed

-----------------------------------------------------------------------------
(***************************************************************************)
(* A data port holds a value: default constructed, set by a process, or    *)
(* left in an unspecified state by move_to().  A value is told apart by    *)
(* the output port it was set on; the value of a buffer also has items.    *)
(***************************************************************************)
Unset    == [state |-> "unset", port |-> <<>>, items |-> <<>>]
MovedOut == [state |-> "moved", port |-> <<>>, items |-> <<>>]
Value(o, items) == [state |-> "set", port |-> o, items |-> items]
=============================================================================
