--------------------------- MODULE MCRemoteSession --------------------------
(* Operations a participant may run, by what they cost and return.           *)
EXTENDS RemoteSession

Kernel(cost, reserve, arrayCount, deliverable) ==
  [cost |-> cost, reserve |-> reserve, arrays |-> arrayCount,
   deliverable |-> deliverable]

\* A ufunc; a reduction to a scalar; a result that cannot be delivered.
MCKernels ==
  {Kernel(1, 1, 1, TRUE), Kernel(1, 1, 0, TRUE), Kernel(1, 1, 1, FALSE)}

\* nonzero of a matrix (two arrays, one reserved) in place of the ufunc.
MCPairKernels ==
  {Kernel(1, 1, 2, TRUE), Kernel(1, 1, 0, TRUE), Kernel(1, 1, 1, FALSE)}
=============================================================================
