--------------------------- MODULE MCIndexPublish ---------------------------
(***************************************************************************)
(* A small instance of IndexPublish.  Its run checks liveness and a        *)
(* refinement, so it uses no symmetry.                                     *)
(***************************************************************************)
EXTENDS IndexPublish
=============================================================================
