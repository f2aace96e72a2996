----------------------------- MODULE MCBatchRun -----------------------------
(* Every program of at most five reads and writes, on pipes of two chunks. *)
EXTENDS BatchRun

MCPrograms == UNION {[1 .. n -> {"in", "out", "err"}] : n \in 0 .. 5}
=============================================================================
