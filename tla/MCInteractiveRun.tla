-------------------------- MODULE MCInteractiveRun --------------------------
(* The session with two process identifiers more than a guest needs, so    *)
(* that workers come and go beside it and identifiers are used again.      *)
EXTENDS InteractiveRun

=============================================================================
