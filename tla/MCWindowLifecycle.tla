--------------------------- MODULE MCWindowLifecycle ---------------------------
(***************************************************************************)
(* TLC instances of WindowLifecycle; the constants are in the cfg files.   *)
(***************************************************************************)
EXTENDS WindowLifecycle
=============================================================================
