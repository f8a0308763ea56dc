----------------------------- MODULE MCHashChain -----------------------------
(* Small instances of HashChain for TLC. *)
EXTENDS HashChain

CONSTANTS r1, r2, a, b
===============================================================================
