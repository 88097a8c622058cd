------------------------------- MODULE BitFifo -------------------------------
(***************************************************************************)
(* What the bit stream reader of libFDK promises its callers, without the  *)
(* ring, the cache and the counters: the input is one sequence of bits,    *)
(* numbered from 0; `fed' of them have been handed to the reader, the next *)
(* read begins at bit `rd', and `out' is what the last call returned.  A   *)
(* read past `fed' is allowed, and only promises the bits before `fed'.    *)
(***************************************************************************)
EXTENDS Integers, Sequences

CONSTANTS Capacity   \* bits the reader can hold unread

VARIABLES fed, rd, out

fifoVars == <<fed, rd, out>>

Init == fed = 0 /\ rd = 0 /\ out = << >>

\* New input never changes what is still to be read, and the reader never
\* takes more than it can hold.
Store ==
  /\ fed' \in Nat /\ fed' > fed
  /\ rd' = rd
  /\ fed' - rd' <= Capacity
  /\ out' = << >>

Read ==
  /\ rd' - rd \in Nat
  /\ DOMAIN out' = 1..(rd' - rd)
  /\ \A k \in 1..(rd' - rd) : rd + k - 1 < fed => out'[k] = rd + k - 1
  /\ UNCHANGED fed

\* Skipping, un-reading and aligning move the position and return no bits.
Move == rd' \in Int /\ out' = << >> /\ UNCHANGED fed

\* A reset forgets what was not read.
Drop == rd' = fed /\ out' = << >> /\ UNCHANGED fed

Next == Store \/ Read \/ Move \/ Drop

Spec == Init /\ [][Next]_fifoVars
=============================================================================
