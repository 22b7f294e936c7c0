--------------------------- MODULE MCGraphWriter ---------------------------
(* Small instances of GraphWriter for TLC.                                 *)
EXTENDS GraphWriter, TLC

CONSTANTS w1, w2, x1, x2, x3, va, vb, nil

MCValues == {va, vb}
H(s, v) == [sequence |-> s, value |-> v]

\* The first head; two rivals for the second, one expecting a sequence alone,
\* the other a value too and skipping a sequence, and a third that does
\* not advance past the head it expects.
MCRequests ==
  {[exp |-> nil, head |-> H(1, va)],
   [exp |-> H(1, nil), head |-> H(2, va)],
   [exp |-> H(1, va), head |-> H(3, vb)],
   [exp |-> H(1, va), head |-> H(1, vb)]}

\* Three heads, each expecting the one before it.
MCRequestsChain ==
  {[exp |-> nil, head |-> H(1, va)],
   [exp |-> H(1, va), head |-> H(2, va)],
   [exp |-> H(2, va), head |-> H(3, va)]}

Symmetry == Permutations({x1, x2, x3})
=============================================================================
