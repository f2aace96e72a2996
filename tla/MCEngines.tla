----------------------------- MODULE MCEngines -----------------------------
(* Both engines on the same programs; the .cfg picks the workload.         *)
EXTENDS Engines, EngineLoads
=============================================================================
