------------------------------ MODULE PosvMixed ------------------------------
(***************************************************************************)
(* The mixed-precision iterative-refinement controller posvMixed           *)
(* (src/src/posvMixed.cc): factor and solve in low precision, then refine  *)
(* the high-precision solution until iterRefConverged holds for every      *)
(* right-hand side, for at most itermax steps; otherwise fall back to a    *)
(* high-precision factorization and solve.                                 *)
(*                                                                         *)
(* Numbers are abstracted to what the stopping tests tell apart: the     *)
(* max-norm r of a residual column, compared with cte = ||A|| eps sqrt(n) *)
(* and with ||x|| cte.  It is "small" (below both), "xsmall" (within      *)
(* ||x|| cte but not below cte, so ||x|| > 1), "asmall" (below cte but    *)
(* above ||x|| cte, so ||x|| < 1), "large" (above both), or "nan".        *)
(* A low-precision potrf that reports a non-positive-definite leading     *)
(* minor leaves a partial factor, and the solves that follow may produce  *)
(* any finite garbage or NaN: both are possible outcomes.  NaN is sticky  *)
(* under the later solves and additions.                                  *)
(***************************************************************************)
EXTENDS Integers

CONSTANTS
  ITERMAX,   \* itermax, fixed to 30 (line 132)
  NRHS,      \* number of right-hand sides, columns of B and X
  Target     \* Option::Target

ASSUME ITERMAX \in Nat \ {0} /\ NRHS \in Nat \ {0}
ASSUME Target \in {"HostTask", "HostNest", "HostBatch", "Devices"}

Rhs == 1 .. NRHS
Norms == {"small", "xsmall", "asmall", "large", "nan"}

(* iterRefConverged (lines 16-32): false as soon as some column has        *)
(* colnorms_R[i] > colnorms_X[i] * cte.  Any comparison with NaN is false. *)
Exceeds(r) == r \in {"asmall", "large"}

IterRefConverged(res) == \A i \in Rhs : ~Exceeds(res[i])

(* Residual norms after a solve: all NaN once X holds NaN; all large when  *)
(* the solves use a failed factor; else each column small or large.       *)
ResidualsOf(nan, fail) ==
  CASE nan  -> {[i \in Rhs |-> "nan"]}
    [] fail -> {[i \in Rhs |-> "large"]}
    [] OTHER -> [Rhs -> {"small", "xsmall", "asmall", "large"}]

VARIABLES
  pc,         \* the step posvMixed is at
  iter,       \* the iter output argument
  iiter,      \* refinement steps performed
  converged,
  residual,   \* colnorms_R classified against colnorms_X * cte
  xNaN,       \* X holds NaN
  loFailed,   \* potrf(A_lo) hit a non-positive-definite leading minor
  aFactored,  \* A has been overwritten by its high-precision Cholesky factor
  hiFailed,   \* the fallback potrf(A) hit a non-positive-definite leading minor
  held        \* A, B, X tiles are held on the devices

vars == << pc, iter, iiter, converged, residual, xNaN, loFailed, aFactored, hiFailed, held >>

Init ==
  /\ pc = "start"
  /\ iter = 0
  /\ iiter = 0
  /\ converged = FALSE
  /\ residual = [i \in Rhs |-> "large"]
  /\ xNaN = FALSE
  /\ loFailed = FALSE
  /\ aFactored = FALSE
  /\ hiFailed = FALSE
  /\ held = FALSE

(* Workspace R, A_lo, X_lo is inserted; for Devices A, B and X are fetched  *)
(* and held on the devices (lines 131-170).                                *)
Start ==
  /\ pc = "start"
  /\ held' = (Target = "Devices")
  /\ pc' = "lowsolve"
  /\ UNCHANGED << iter, iiter, converged, residual, xNaN, loFailed, aFactored, hiFailed >>

(* Norm of A, cte, copy to low precision, potrf(A_lo), potrs, copy back,    *)
(* R = B - A X, column norms and the first stopping test (lines 172-209).  *)
(* potrf's status is not looked at.                                        *)
LowPrecisionSolve ==
  /\ pc = "lowsolve"
  /\ \E fail \in BOOLEAN, nan \in BOOLEAN :
       /\ loFailed' = fail
       /\ xNaN' = (fail /\ nan)
       /\ \E res \in ResidualsOf(fail /\ nan, fail) :
            /\ residual' = res
            /\ converged' = IterRefConverged(res)
            /\ iter' = IF IterRefConverged(res) THEN 0 ELSE iter
  /\ pc' = "refine"
  /\ UNCHANGED << iiter, aFactored, hiFailed, held >>

(* Mutant: the loop bound iiter < itermax is dropped. *)
RefineUnbounded ==
  /\ pc = "refine"
  /\ ~converged
  /\ \E res \in ResidualsOf(xNaN, loFailed) :
       /\ residual' = res
       /\ converged' = IterRefConverged(res)
       /\ iter' = IF IterRefConverged(res) THEN iiter + 1 ELSE iter
  /\ iiter' = iiter + 1
  /\ UNCHANGED << pc, xNaN, loFailed, aFactored, hiFailed, held >>

(* Mutant: the loop tests only iiter < itermax, not ! converged. *)
RefineNoConvergedGuard ==
  /\ pc = "refine"
  /\ iiter < ITERMAX
  /\ \E res \in ResidualsOf(xNaN, loFailed) :
       /\ residual' = res
       /\ converged' = IterRefConverged(res)
       /\ iter' = IF IterRefConverged(res) THEN iiter + 1 ELSE iter
  /\ iiter' = iiter + 1
  /\ UNCHANGED << pc, xNaN, loFailed, aFactored, hiFailed, held >>

(* One pass of "for (iiter = 0; iiter < itermax && ! converged; iiter++)":  *)
(* solve with R in low precision, X += correction, R = B - A X, test       *)
(* (lines 212-243).                                                        *)
Refine ==
  /\ pc = "refine"
  /\ iiter < ITERMAX
  /\ ~converged
  /\ \E res \in ResidualsOf(xNaN, loFailed) :
       /\ residual' = res
       /\ converged' = IterRefConverged(res)
       /\ iter' = IF IterRefConverged(res) THEN iiter + 1 ELSE iter
  /\ iiter' = iiter + 1
  /\ UNCHANGED << pc, xNaN, loFailed, aFactored, hiFailed, held >>

(* potrf(A); X = B; potrs(A, X) of the fallback (lines 253-257). *)
Fallback ==
  \E fail \in BOOLEAN :
    /\ hiFailed' = fail
    /\ xNaN' \in IF fail THEN BOOLEAN ELSE {FALSE}

(* Mutant: the failure sentinel is -itermax instead of -itermax-1. *)
EndRefinementOffByOne ==
  /\ pc = "refine"
  /\ iiter >= ITERMAX \/ converged
  /\ IF converged
       THEN /\ UNCHANGED << iter, aFactored, xNaN, hiFailed >>
       ELSE /\ iter' = -ITERMAX
            /\ aFactored' = TRUE
            /\ Fallback
  /\ pc' = "release"
  /\ UNCHANGED << iiter, converged, residual, loFailed, held >>

(* The loop has ended.  Without convergence: iter = -itermax-1, potrf(A) in *)
(* high precision overwrites A, X = B, potrs(A, X) (lines 245-258).  The   *)
(* status of potrf is dropped: if it fails, the solve on the partial factor *)
(* may leave NaN in X.                                                     *)
EndRefinement ==
  /\ pc = "refine"
  /\ iiter >= ITERMAX \/ converged
  /\ IF converged
       THEN UNCHANGED << iter, aFactored, xNaN, hiFailed >>
       ELSE /\ iter' = -ITERMAX - 1
            /\ aFactored' = TRUE
            /\ Fallback
  /\ pc' = "release"
  /\ UNCHANGED << iiter, converged, residual, loFailed, held >>

(* For Devices the held tiles are cleared (lines 260-265); posvMixed       *)
(* returns.                                                                *)
Release ==
  /\ pc = "release"
  /\ held' = FALSE
  /\ pc' = "done"
  /\ UNCHANGED << iter, iiter, converged, residual, xNaN, loFailed, aFactored, hiFailed >>

Next == Start \/ LowPrecisionSolve \/ Refine \/ EndRefinement \/ Release

Spec == Init /\ [][Next]_vars /\ WF_vars(Next)

-----------------------------------------------------------------------------
TypeOK ==
  /\ pc \in {"start", "lowsolve", "refine", "release", "done"}
  /\ iter \in -ITERMAX-1 .. ITERMAX
  /\ iiter \in 0 .. ITERMAX
  /\ converged \in BOOLEAN
  /\ residual \in [Rhs -> Norms]
  /\ xNaN \in BOOLEAN /\ loFailed \in BOOLEAN
  /\ aFactored \in BOOLEAN /\ hiFailed \in BOOLEAN /\ held \in BOOLEAN

(* The documented outputs (lines 76-95): on return, iter >= 0 means        *)
(* refinement succeeded after exactly iter steps and A is unchanged;       *)
(* otherwise iter = -(1+itermax), all itermax steps were taken and A holds *)
(* its Cholesky factor.                                                    *)
IterContract ==
  pc = "done" =>
    \/ /\ iter >= 0 /\ iter = iiter /\ ~aFactored
    \/ /\ iter = -(1 + ITERMAX) /\ iiter = ITERMAX /\ aFactored

(* Once the stopping test has passed, the solution is final: no later step *)
(* of the refinement loop, the loop exit or the fallback changes X, its   *)
(* residual, the reported iter or A.  It takes the loop guard (! converged) *)
(* and the exit test (if (! converged)) to agree.                          *)
ConvergedSolutionKept ==
  [][converged =>
       /\ converged' /\ iter' = iter /\ residual' = residual
       /\ xNaN' = xNaN /\ aFactored' = aFactored /\ hiFailed' = hiFailed]_vars

(* When the low-precision factorization fails, posvMixed falls back to the  *)
(* high-precision factorization (spec 4.5, 7, 8 "Refinement fallback").    *)
FailedLowFactorizationFallsBack ==
  pc = "done" /\ loFailed => iter < 0

(* Spec 4.5 (ResidualCheck) and 8: refinement reports convergence only    *)
(* when, for every right-hand side, the infinity-norm of the residual is   *)
(* below ||A|| eps sqrt(n).  Stated for a finite solution (the NaN case is *)
(* FailedLowFactorizationFallsBack).                                       *)
SpecStoppingCriterion ==
  pc = "done" /\ iter >= 0 /\ ~xNaN => \A i \in Rhs : residual[i] \in {"small", "asmall"}

(* Spec 7: the controller returns the refined solution, the direct        *)
(* high-precision solution (Fallback), or a propagated FactorizationFailure *)
(* if even the high-precision path fails.  posvMixed has no error output    *)
(* (line 267), so when it returns with the fallback sentinel the           *)
(* high-precision factorization must have succeeded.                       *)
FallbackFailurePropagated ==
  pc = "done" /\ iter < 0 => ~hiFailed

=============================================================================
