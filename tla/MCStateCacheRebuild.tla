------------------------ MODULE MCStateCacheRebuild ------------------------
(* A small instance of StateCacheRebuild for TLC. *)
EXTENDS StateCacheRebuild, TLC

CONSTANTS s1, s2, w1, w2

\* Two releases of an application; the second has changed its state's schema.
TwoSchemas == w1 :> 1 @@ w2 :> 2
=============================================================================
