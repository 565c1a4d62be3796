--------------------------- MODULE MCTransferJob ---------------------------
(* TransferJob with two processes, which are interchangeable.              *)
EXTENDS TransferJob, TLC

CONSTANTS v, w

MCWorkers  == {v, w}
MCSymmetry == Permutations(MCWorkers)

=============================================================================
