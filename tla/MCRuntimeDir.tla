---------------------------- MODULE MCRuntimeDir ----------------------------
(***************************************************************************)
(* Two objects and one @name value: both objects may be given the same     *)
(* name, one may keep its default name, and either may be renamed after   *)
(* it started.  Objects are interchangeable, so they form a symmetry set.  *)
(***************************************************************************)
EXTENDS RuntimeDir, TLC

ObjectSymmetry == Permutations(Objects)

=============================================================================
