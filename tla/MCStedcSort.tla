---------------------------- MODULE MCStedcSort ----------------------------
EXTENDS StedcSort

(* Three process columns: the owner of a tile sends to two others in turn, *)
(* while a receiver may wait on a different sender.                        *)
MCNpcol == 3

(* Three tiles, one owned by each process column.                          *)
MCNt == 3

(* Two columns per tile: a tile can split between two destinations.       *)
MCNb == 2

=============================================================================
