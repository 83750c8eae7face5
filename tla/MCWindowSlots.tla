----------------------------- MODULE MCWindowSlots -----------------------------
(***************************************************************************)
(* TLC instances of WindowSlots; the constants are in the cfg files.       *)
(***************************************************************************)
EXTENDS WindowSlots
=============================================================================
