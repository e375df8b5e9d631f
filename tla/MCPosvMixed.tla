---------------------------- MODULE MCPosvMixed ----------------------------
(* Instantiates PosvMixed with the code's itermax and two right-hand sides, *)
(* so that one column can pass the stopping test while the other fails.   *)
EXTENDS PosvMixed

MCItermax == 30

MCNrhs == 2
=============================================================================
