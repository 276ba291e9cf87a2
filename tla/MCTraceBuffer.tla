--------------------------- MODULE MCTraceBuffer ---------------------------
(***************************************************************************)
(* TraceBuffer on a small instance.  Three threads and two slots are the   *)
(* least with which one thread collects, one fills the new array and one   *)
(* waits; two adds each make the buffer full twice.                        *)
(***************************************************************************)
EXTENDS TraceBufferInv, TLC

Symmetry == Permutations(Threads)
=============================================================================
