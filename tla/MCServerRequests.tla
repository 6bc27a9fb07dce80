-------------------------- MODULE MCServerRequests --------------------------
(* Operations of every kind the capacity layers tell apart.                  *)
EXTENDS ServerRequests

Kernel(cost, reserve, arrayCount, deliverable) ==
  [cost |-> cost, reserve |-> reserve, arrays |-> arrayCount,
   deliverable |-> deliverable]

\* create_from_data; a ufunc; a reduction to a scalar; save; linalg.eigh;
\* nonzero of a matrix, which is not in the table; a result of another dtype.
MCKernels ==
  {Kernel(0, 1, 1, TRUE), Kernel(1, 1, 1, TRUE), Kernel(1, 1, 0, TRUE),
   Kernel(2, 0, 0, TRUE), Kernel(1, 2, 2, TRUE), Kernel(1, 1, 2, TRUE),
   Kernel(1, 1, 1, FALSE)}
=============================================================================
