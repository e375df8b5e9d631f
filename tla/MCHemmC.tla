------------------------------ MODULE MCHemmC ------------------------------
(* Instantiates HemmC for TLC: a sweep of five stages, so that broadcasts  *)
(* can run ahead of the multiplies and the lookahead window can fill.      *)
EXTENDS HemmC

MCNT == 5

(* One above hemmC's default get_option(opts, Option::Lookahead, 1) of    *)
(* line 383, so that the prelude issues two broadcasts.                 *)
MCLookahead == 2

(* A lookahead the caller may pass: Option::Lookahead is never clamped. *)
MCNegativeLookahead == -1

MCThreads == 3

(* A 2 x 2 process grid and two tile columns of B and C: every tile of A   *)
(* and B has ranks that do not own it and need a replica.                 *)
MCBNT == 2
MCP == 2
MCQ == 2

(* A 2 x 3 grid, so that a transposed view puts tiles on other ranks than  *)
(* the matrix's own indexing would.                                        *)
MCWideQ == 3

(* Lookahead 0, which spec 4.3 describes as serialized execution. *)
MCSerialLookahead == 0
=============================================================================
