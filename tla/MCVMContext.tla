----------------------------- MODULE MCVMContext -----------------------------
(***************************************************************************)
(* Two contexts, three arena addresses and three binaries: short and alike *)
(* have the same length, so only the reset tells them apart when one takes *)
(* the other's address; long makes decoded[] grow.  One slot of fdTable is *)
(* left for one more file than contexts.                                   *)
(***************************************************************************)
EXTENDS VMContext

CONSTANTS short, alike, long, bad

MCBinaries == {short, alike, long, bad}
MCBadBinaries == {bad}
MCLength(b) == IF b = long THEN 2 ELSE 1
=============================================================================
