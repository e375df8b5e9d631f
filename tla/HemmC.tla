------------------------------- MODULE HemmC -------------------------------
(***************************************************************************)
(* The lookahead pipeline of hemmC (src/src/hemmC.cc): the master thread   *)
(* of an OpenMP parallel region creates, in program order, one broadcast   *)
(* task and one multiply task per stage k (block column k of A), linked    *)
(* only by depend(in/out) clauses on the addresses bcast[k] and gemm[k].   *)
(* Worker threads run a task once every earlier sibling it depends on has  *)
(* completed.  After "taskwait" the master brings C's origin tiles up to   *)
(* date and releases C's workspace.                                        *)
(*                                                                         *)
(* Data is abstracted to what the properties tell apart: which tiles of A  *)
(* and B have been replicated to which rank of the P x Q process grid, in  *)
(* which order stages were applied to C, and whether C's origin copy is    *)
(* current.  The Lower and Upper branches (lines 86-222 and 223-360) have  *)
(* the same task graph; they differ in the tiles named by the broadcast    *)
(* lists and read by the multiplies, which are modelled per branch.        *)
(***************************************************************************)
EXTENDS Integers, Sequences, SequencesExt, FiniteSets

CONSTANTS
  NT,         \* A.nt(): number of stages of the sweep
  Lookahead,  \* the Option::Lookahead value, passed on without clamping
  NThreads,   \* threads of the parallel region, the master included
  Target,     \* the target the routine was instantiated for
  Side,       \* whether A multiplies from the left or the right
  Uplo,       \* A.uplo() on entry: the triangle of A that is stored
  BNT,        \* B.nt() = C.nt(): tile columns of B and C
  P, Q        \* the process grid

Targets == {"HostTask", "HostNest", "HostBatch", "Devices"}

ASSUME /\ NT \in Nat \ {0}
       /\ Lookahead \in Int
       /\ NThreads \in Nat \ {0}
       /\ Target \in Targets
       /\ Side \in {"Left", "Right"} /\ Uplo \in {"Lower", "Upper"}
       /\ BNT \in Nat \ {0} /\ P \in Nat \ {0} /\ Q \in Nat \ {0}

Stages == 0 .. NT-1
Cols == 0 .. BNT-1

(* The default 2D block-cyclic distribution: tile (i, j) on rank           *)
(* (i mod P, j mod Q).                                                     *)
Owner(ij) == << ij[1] % P, ij[2] % Q >>

(* Side = Right: A, B and C are replaced by their conjugate-transposed      *)
(* views (lines 55-61).  The view of a Lower A is Upper, and tile (i, j)   *)
(* of a view is tile (j, i) of the matrix, on that tile's rank.            *)
ViewUplo == IF Side = "Right" THEN (IF Uplo = "Lower" THEN "Upper" ELSE "Lower")
                              ELSE Uplo

ViewOwner(ij) == IF Side = "Right" THEN Owner(<< ij[2], ij[1] >>) ELSE Owner(ij)

(* Mutant: the loop over the lower part starts at s+1, A(s, s) is not sent *)
LowerBcastListASkipDiag(s) ==
  {<< <<s, i>>, i >> : i \in 0 .. s-1} \cup {<< <<i, s>>, i >> : i \in s+1 .. NT-1}

(* The broadcast list of A for stage s, Lower branch: pairs << tile, i >>  *)
(* sending the tile to the ranks owning block row C(i, :).  A(s, i) for    *)
(* i < s, then A(i, s) for i >= s (the loops of lines 113-124 and          *)
(* 165-178; for s = 0 the loop of lines 94-98).                            *)
LowerBcastListA(s) ==
  {<< <<s, i>>, i >> : i \in 0 .. s-1} \cup {<< <<i, s>>, i >> : i \in s .. NT-1}

(* Mutant: the loop over the upper part starts at s+1, A(s, s) is not sent *)
UpperBcastListASkipDiag(s) ==
  {<< <<i, s>>, i >> : i \in 0 .. s-1} \cup {<< <<s, i>>, i >> : i \in s+1 .. NT-1}

(* Upper branch: A(i, s) for i < s, then A(s, i) for i >= s (lines         *)
(* 250-261 and 303-316; for s = 0 lines 231-235).                          *)
UpperBcastListA(s) ==
  {<< <<i, s>>, i >> : i \in 0 .. s-1} \cup {<< <<s, i>>, i >> : i \in s .. NT-1}

BcastListA(s) == IF ViewUplo = "Lower" THEN LowerBcastListA(s) ELSE UpperBcastListA(s)

(* The broadcast list of B: B(s, j) to the ranks owning C(:, j) (lines    *)
(* 126-132, the same in both branches).                                    *)
BcastListB(s) == {<< <<s, j>>, j >> : j \in Cols}

(* listBcastMT: each tile of a list reaches every rank owning a tile of    *)
(* its destination block row (for A) or block column (for B).  A replica   *)
(* is << matrix, tile, rank >>.                                            *)
Delivered(s) ==
  {<< "A", e[1], ViewOwner(<<e[2], j>>) >> : e \in BcastListA(s), j \in Cols}
  \cup {<< "B", e[1], ViewOwner(<<i, e[2]>>) >> : e \in BcastListB(s), i \in Stages}

(* The tiles of A the multiply of stage k reads, paired with the block row *)
(* of C each one updates, Lower branch: A(k, 0:k-1)^H for C(0:k-1, :),     *)
(* A(k, k) for C(k, :), A(k+1:mt-1, k) for C(k+1:mt-1, :) (lines 196-220;  *)
(* for k = 0 lines 139-155).                                               *)
LowerGemmReadsA(k) ==
  {<< <<k, i>>, i >> : i \in 0 .. k-1} \cup {<< <<k, k>>, k >>}
  \cup {<< <<i, k>>, i >> : i \in k+1 .. NT-1}

(* Upper branch: A(0:k-1, k), A(k, k), A(k, k+1:mt-1)^H (lines 333-357;     *)
(* for k = 0 lines 276-294).                                               *)
UpperGemmReadsA(k) ==
  {<< <<i, k>>, i >> : i \in 0 .. k-1} \cup {<< <<k, k>>, k >>}
  \cup {<< <<k, i>>, i >> : i \in k+1 .. NT-1}

GemmReadsA(k) == IF ViewUplo = "Lower" THEN LowerGemmReadsA(k) ELSE UpperGemmReadsA(k)

(* Each rank computes the tiles C(i, j) it owns, reading the A tile of row *)
(* i and B(k, j) there.                                                    *)
RankReads(k) ==
  {<< "A", e[1], ViewOwner(<<e[2], j>>) >> : e \in GemmReadsA(k), j \in Cols}
  \cup {<< "B", <<k, j>>, ViewOwner(<<i, j>>) >> : i \in Stages, j \in Cols}

(* The list items of the depend clauses: the addresses &bcast[k], &gemm[k]. *)
BcastTok(k) == <<"bcast", k>>
GemmTok(k)  == <<"gemm", k>>

Task(kind, k, ins, outs) ==
  [kind |-> kind, stage |-> k, ins |-> ins, outs |-> outs]

(* Broadcast of stage 0: depend(out:bcast[0]). *)
FirstBcastTask == Task("bcast", 0, {}, {BcastTok(0)})

(* Mutant: the lookahead broadcasts are not chained to each other. *)
LookaheadBcastTaskNoChain(k) == Task("bcast", k, {}, {BcastTok(k)})

(* Broadcasts of stages 1..lookahead: depend(in:bcast[k-1]) depend(out:bcast[k]). *)
LookaheadBcastTask(k) == Task("bcast", k, {BcastTok(k-1)}, {BcastTok(k)})

(* Multiply of stage 0, applying beta: depend(in:bcast[0]) depend(out:gemm[0]). *)
FirstGemmTask == Task("gemm", 0, {BcastTok(0)}, {GemmTok(0)})

(* Mutant: the broadcast of stage k+lookahead no longer waits for gemm[k-1]. *)
NextBcastTaskNoGemmDep(k) ==
  Task("bcast", k+Lookahead, {BcastTok(k+Lookahead-1)}, {BcastTok(k+Lookahead)})

(* Broadcast of stage k+lookahead issued in sweep iteration k:             *)
(* depend(in:gemm[k-1]) depend(in:bcast[k+la-1]) depend(out:bcast[k+la]).  *)
NextBcastTask(k) ==
  Task("bcast", k+Lookahead, {GemmTok(k-1), BcastTok(k+Lookahead-1)},
       {BcastTok(k+Lookahead)})

(* Mutant: the multiply of stage k no longer waits for its broadcast. *)
GemmTaskNoBcastDep(k) == Task("gemm", k, {GemmTok(k-1)}, {GemmTok(k)})

(* Mutant: the multiply of stage k no longer waits for the previous one. *)
GemmTaskNoGemmDep(k) == Task("gemm", k, {BcastTok(k)}, {GemmTok(k)})

(* Multiply of stage k: depend(in:bcast[k]) depend(in:gemm[k-1]) depend(out:gemm[k]). *)
GemmTask(k) == Task("gemm", k, {BcastTok(k), GemmTok(k-1)}, {GemmTok(k)})

(* Iterations of "for (k = 1; k < lookahead+1 && k < A.nt(); ++k)". *)
PreludeStages == {k \in 1 .. NT-1 : k < Lookahead + 1}

(* One iteration k of the sweep loop: "if (k+lookahead < A.nt())" a       *)
(* broadcast task, then the multiply task.                                 *)
SweepStep(k) ==
  IF k + Lookahead < NT THEN << NextBcastTask(k), GemmTask(k) >>
                        ELSE << GemmTask(k) >>

(* The tasks in the order the master creates them. *)
Program ==
  << FirstBcastTask >>
  \o [i \in 1 .. Cardinality(PreludeStages) |-> LookaheadBcastTask(i)]
  \o << FirstGemmTask >>
  \o FlattenSeq([k \in 1 .. NT-1 |-> SweepStep(k)])

Tasks == 1 .. Len(Program)

(* OpenMP task dependences: a task depends on every previously created      *)
(* sibling that has one of its in items among its out items, or one of its  *)
(* out items among its in or out items.                                    *)
DependsOn(t, u) ==
  /\ u < t
  /\ \/ Program[t].ins \cap Program[u].outs # {}
     \/ Program[t].outs \cap (Program[u].ins \cup Program[u].outs) # {}

-----------------------------------------------------------------------------
VARIABLES
  phase,        \* where the master thread is in hemmC
  created,      \* number of tasks the master has created so far
  status,       \* status[t]: "idle", "running" or "done"
  replica,      \* << matrix, tile, rank >>: tiles replicated to a rank
  cLog,         \* stages in the order their multiply started writing C
  unreplicated, \* stages whose multiply read a tile missing on some rank
  originValid,  \* C's origin (host) tiles hold the latest data
  deviceWs      \* C's device batch arrays and workspace are reserved

vars == << phase, created, status, replica, cLog, unreplicated,
           originValid, deviceWs >>

Phases == {"setup", "create", "taskwait", "update", "release", "done"}

Init ==
  /\ phase = "setup"
  /\ created = 0
  /\ status = [t \in Tasks |-> "idle"]
  /\ replica = {}
  /\ cLog = << >>
  /\ unreplicated = {}
  /\ originValid = TRUE
  /\ deviceWs = FALSE

Running == {t \in Tasks : status[t] = "running"}

(* The master is busy creating tasks until it reaches taskwait, where it    *)
(* joins the other threads in executing tasks.                             *)
FreeThreads == NThreads - Cardinality(Running) - (IF phase = "create" THEN 1 ELSE 0)

Ready(t) ==
  /\ t <= created
  /\ status[t] = "idle"
  /\ \A u \in Tasks : DependsOn(t, u) => status[u] = "done"

(* Side = Right transposes the views (no data moves); for Devices the      *)
(* batch arrays and device workspace of C are reserved.                    *)
Setup ==
  /\ phase = "setup"
  /\ deviceWs' = (Target = "Devices")
  /\ phase' = "create"
  /\ UNCHANGED << created, status, replica, cLog, unreplicated, originValid >>

(* Mutant: the creation loop runs one iteration too many. *)
CreateTaskPastEnd ==
  /\ phase = "create"
  /\ created' = created + 1
  /\ phase' = IF created = Len(Program) THEN "taskwait" ELSE "create"
  /\ UNCHANGED << status, replica, cLog, unreplicated, originValid, deviceWs >>

(* The master creates the next task of the program. *)
CreateTask ==
  /\ phase = "create"
  /\ created' = created + 1
  /\ phase' = IF created + 1 = Len(Program) THEN "taskwait" ELSE "create"
  /\ UNCHANGED << status, replica, cLog, unreplicated, originValid, deviceWs >>

(* A thread starts a ready task.  A multiply reads, on every rank, the A   *)
(* and B tiles of its stage, each either local or a replica, and starts   *)
(* writing C.                                                              *)
StartTask(t) ==
  /\ Ready(t)
  /\ FreeThreads > 0
  /\ status' = [status EXCEPT ![t] = "running"]
  /\ IF Program[t].kind = "gemm"
       THEN /\ cLog' = Append(cLog, Program[t].stage)
            /\ unreplicated' =
                 IF \A x \in RankReads(Program[t].stage) : x \in replica \/ ViewOwner(x[2]) = x[3]
                   THEN unreplicated
                   ELSE unreplicated \cup {Program[t].stage}
       ELSE UNCHANGED << cLog, unreplicated >>
  /\ UNCHANGED << phase, created, replica, originValid, deviceWs >>

(* A task completes: listBcastMT has delivered the stage's tiles, or the    *)
(* multiply has written C (on the device for Devices, making the origin     *)
(* stale).                                                                 *)
FinishTask(t) ==
  /\ status[t] = "running"
  /\ status' = [status EXCEPT ![t] = "done"]
  /\ IF Program[t].kind = "bcast"
       THEN /\ replica' = replica \cup Delivered(Program[t].stage)
            /\ UNCHANGED originValid
       ELSE /\ originValid' = (originValid /\ Target # "Devices")
            /\ UNCHANGED replica
  /\ UNCHANGED << phase, created, cLog, unreplicated, deviceWs >>

(* "#pragma omp taskwait": every created task has completed. *)
Taskwait ==
  /\ phase = "taskwait"
  /\ \A t \in Tasks : status[t] = "done"
  /\ phase' = "update"
  /\ UNCHANGED << created, status, replica, cLog, unreplicated, originValid, deviceWs >>

(* Mutant: the update of C's origin tiles is left out. *)
TileUpdateAllOriginSkipped ==
  /\ phase = "update"
  /\ phase' = "release"
  /\ UNCHANGED << created, status, replica, cLog, unreplicated, originValid, deviceWs >>

(* C.tileUpdateAllOrigin(): copy tiles modified on devices back to host. *)
TileUpdateAllOrigin ==
  /\ phase = "update"
  /\ originValid' = TRUE
  /\ phase' = "release"
  /\ UNCHANGED << created, status, replica, cLog, unreplicated, deviceWs >>

(* C.releaseWorkspace(), after which hemmC returns. *)
ReleaseWorkspace ==
  /\ phase = "release"
  /\ deviceWs' = FALSE
  /\ phase' = "done"
  /\ UNCHANGED << created, status, replica, cLog, unreplicated, originValid >>

Next ==
  \/ Setup
  \/ CreateTask
  \/ \E t \in Tasks : StartTask(t)
  \/ \E t \in Tasks : FinishTask(t)
  \/ Taskwait
  \/ TileUpdateAllOrigin
  \/ ReleaseWorkspace

(* The master thread runs hemmC to its end; OpenMP threads idle at a task   *)
(* scheduling point take any ready task; a started task runs to its end.   *)
Fairness ==
  /\ WF_vars(Setup) /\ WF_vars(CreateTask) /\ WF_vars(Taskwait)
  /\ WF_vars(TileUpdateAllOrigin) /\ WF_vars(ReleaseWorkspace)
  /\ \A t \in Tasks : WF_vars(StartTask(t)) /\ WF_vars(FinishTask(t))

Spec == Init /\ [][Next]_vars /\ Fairness

-----------------------------------------------------------------------------
TypeOK ==
  /\ phase \in Phases
  /\ created \in 0 .. Len(Program)
  /\ status \in [Tasks -> {"idle", "running", "done"}]
  /\ replica \subseteq {"A", "B"} \X (Stages \X Stages \cup Stages \X Cols) \X ((0 .. P-1) \X (0 .. Q-1))
  /\ cLog \in Seq({Program[t].stage : t \in Tasks})
  /\ unreplicated \subseteq {Program[t].stage : t \in Tasks}
  /\ originValid \in BOOLEAN
  /\ deviceWs \in BOOLEAN

(* Every tile of A and B that the multiply of a stage reads on a rank is    *)
(* there when the multiply starts: either the rank owns it, or a broadcast *)
(* list completed earlier named it with a destination the rank owns.  This *)
(* needs both the broadcast lists of each branch to cover the multiply's  *)
(* operands and the depend clauses to order the broadcast first.           *)
GemmReadsBroadcast == unreplicated = {}

(* C is written by one multiply at a time and the stages reach C in order   *)
(* 0, 1, 2, ..., so the beta scaling of stage 0 comes first and no two      *)
(* multiplies race on C (the "hemm operations are serialized" contract of  *)
(* lines 20-23).                                                           *)
CUpdatesSerialInOrder ==
  /\ Cardinality({t \in Running : Program[t].kind = "gemm"}) <= 1
  /\ cLog = [i \in 1 .. Len(cLog) |-> i - 1]

BcastStarted == {Program[t].stage : t \in {u \in Tasks : Program[u].kind = "bcast"
                                                       /\ status[u] # "idle"}}
GemmDone == {Program[t].stage : t \in {u \in Tasks : Program[u].kind = "gemm"
                                                   /\ status[u] = "done"}}

(* Broadcasts run ahead of the multiplies by at most the lookahead: at most *)
(* lookahead+1 stages have their tiles in communication buffers at once    *)
(* (lines 23 and 38-42; spec 4.3 step 1).                                  *)
BcastWindow == Cardinality(BcastStarted \ GemmDone) <= Lookahead + 1

(* When hemmC returns, every stage has been applied to C exactly once, in   *)
(* order, and C's origin tiles hold the result with the device workspace   *)
(* released (taskwait, tileUpdateAllOrigin, releaseWorkspace, 362-366).    *)
ResultDelivered ==
  phase = "done" =>
    /\ cLog = [i \in 1 .. NT |-> i - 1]
    /\ originValid
    /\ ~deviceWs

(* Spec 4.3: a lookahead of 0 serializes the sweep.  Run under that        *)
(* lookahead, no two tasks of hemmC's graph ever execute at once, although  *)
(* the threads are free to take any ready task: each broadcast waits for   *)
(* the previous multiply and each multiply for its broadcast.              *)
SerializedSweep == Cardinality(Running) <= 1

-----------------------------------------------------------------------------
(* Refinement: for a non-negative lookahead each stage has exactly one      *)
(* broadcast task and one multiply task, and their statuses are the steps  *)
(* of the abstract pipeline.                                               *)
StageStatus(kind, k) ==
  status[CHOOSE t \in Tasks : Program[t].kind = kind /\ Program[t].stage = k]

AsStep(s) == IF s = "running" THEN "active" ELSE s

Pipeline == INSTANCE LookaheadPipeline WITH
  K <- NT,
  bcast <- [k \in Stages |-> AsStep(StageStatus("bcast", k))],
  compute <- [k \in Stages |-> AsStep(StageStatus("gemm", k))]

(* hemmC's task graph implements the contract of lines 20-23: broadcasts   *)
(* and multiplies each serialized, broadcasts ahead by at most lookahead,  *)
(* and the sweep completing.                                               *)
PipelineRefinement == Pipeline!Spec

=============================================================================
