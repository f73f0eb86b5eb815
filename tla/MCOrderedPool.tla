--------------------------- MODULE MCOrderedPool ---------------------------
(***************************************************************************)
(* A small instance of OrderedPool.  Its run checks liveness and a         *)
(* refinement, so it uses no symmetry.                                     *)
(***************************************************************************)
EXTENDS OrderedPool
=============================================================================
