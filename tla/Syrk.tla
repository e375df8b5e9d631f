-------------------------------- MODULE Syrk --------------------------------
(***************************************************************************)
(* The four targets of Matrix::syrk (src/slate_Matrix_syrk.cc), the Lower  *)
(* / NoTrans update C = alpha A A^T + beta C of the lower tiles of C:      *)
(* diagonal tiles by a tile syrk, off-diagonal tiles C(m,n), m > n, by     *)
(* tile gemms with A(m,k) and A(n,k).                                      *)
(*   HostTask:  one OpenMP task per diagonal tile and per (m, n, k), with  *)
(*              no depend clauses, then taskwait;                          *)
(*   HostNest:  diagonal tasks, then a parallel for over (m, n) with k = 0;*)
(*   HostBatch: diagonal tasks, then one batched gemm over (m, n), k = 0;  *)
(*   Devices:   one task per device that moves its C tiles and copies the  *)
(*              A tiles they need to the device, runs one batched gemm     *)
(*              (k = 0), then ticks and erases the A copies; diagonal      *)
(*              tiles on the host.                                         *)
(* A tile's value records what was accumulated into it: how often beta     *)
(* scaled the original C, how often each term A(m,k) A(n,k)^T was added,   *)
(* which terms were scaled by beta after being added, and the coefficients *)
(* the terms were added with.  A tile update reads the tile and later      *)
(* writes it, so unsynchronized updates of one tile can lose each other.   *)
(* All tiles are local (one process); the distribution is not at issue.    *)
(***************************************************************************)
EXTENDS Integers, FiniteSets, SequencesExt

CONSTANTS
  NT,          \* c.mt_ = c.nt_: tiles per dimension of C
  KT,          \* a.nt_: tile columns of A
  Alpha,       \* the alpha argument: "minus1" or "other"
  Target,
  NumDevices,  \* num_devices_
  NoSnap       \* model value: an update that has not read its tile yet

ASSUME NT \in Nat \ {0} /\ KT \in Nat \ {0} /\ NumDevices \in Nat \ {0}
ASSUME Alpha \in {"minus1", "other"}
ASSUME Target \in {"HostTask", "HostNest", "HostBatch", "Devices"}

Ks == 0 .. KT-1
Devs == 0 .. NumDevices-1
Diag == {<<n, n>> : n \in 0 .. NT-1}
OffDiag == {<<m, n>> \in (0 .. NT-1) \X (0 .. NT-1) : m > n}
Lower == Diag \cup OffDiag

(* tileDevice(m, n): 1D block-row cyclic over the devices. *)
TileDevice(ij) == ij[1] % NumDevices

Value == [beta : Nat, terms : [Ks -> Nat], late : SUBSET Ks,
          coef : SUBSET {"minus1", "alpha"}]

C0 == [beta |-> 0, terms |-> [k \in Ks |-> 0], late |-> {}, coef |-> {}]

(* A tile kernel C := coef * A(m,k) A(n,k)^T + b * C, where b is beta       *)
(* (scaleBeta) or 1.0.                                                     *)
Apply(v, k, coef, scaleBeta) ==
  [beta  |-> IF scaleBeta THEN v.beta + 1 ELSE v.beta,
   terms |-> [v.terms EXCEPT ![k] = @ + 1],
   late  |-> IF scaleBeta THEN v.late \cup {j \in Ks : v.terms[j] > 0}
                          ELSE v.late,
   coef  |-> v.coef \cup {coef}]

(* The value a lower tile must end with. *)
SyrkOf == [beta |-> 1, terms |-> [k \in Ks |-> 1], late |-> {},
           coef |-> {IF Alpha = "minus1" THEN "minus1" ELSE "alpha"}]

(* Host-side tile updates: "syrk" units on the diagonal, "gemm" units       *)
(* (m, n, k) below it.  HostTask loops over every k (lines 29-42); the     *)
(* other host targets use k = 0 only (lines 58-73, 90-149).               *)
GemmUnits ==
  IF Target = "HostTask" THEN {<<"gemm", ij, k>> : ij \in OffDiag, k \in Ks}
  ELSE IF Target \in {"HostNest", "HostBatch"} THEN {<<"gemm", ij, 0>> : ij \in OffDiag}
  ELSE {}

Units == {<<"syrk", ij, 0>> : ij \in Diag} \cup GemmUnits

(* c(n,n)->syrk(uplo, trans, -1.0, a(n,0), beta): alpha is not used. *)
SyrkKernel(v) == Apply(v, 0, "minus1", TRUE)

(* c(m,n)->gemm(..., alpha, a(m,k), a(n,k), k == 0 ? beta : 1.0). *)
GemmKernel(v, k) ==
  Apply(v, k, IF Alpha = "minus1" THEN "minus1" ELSE "alpha", k = 0)

UnitKernel(u, v) ==
  IF u[1] = "syrk" THEN SyrkKernel(v) ELSE GemmKernel(v, u[3])

VARIABLES
  c,          \* c[ij]: the value of lower tile ij
  snap,       \* snap[u]: the tile value update u has read, or NoSnap
  ustate,     \* ustate[u]: "idle", "reading" or "done"
  devState,   \* devState[d]: "idle", "staged", "computed" or "done"
  cOnDevice,  \* off-diagonal C tiles moved to their device
  aOnDevice,  \* <<m, d>>: a copy of tile A(m, 0) on device d
  evictOps,   \* evictOps[d]: the tick/erase calls device d has still to make
  tickTmp,    \* tickTmp[d]: the life count a tick() of device d has read
  life,       \* life[m]: the life counter of the host tile A(m, 0)
  phase       \* "run" until taskwait, then "done"

vars == << c, snap, ustate, devState, cOnDevice, aOnDevice, evictOps, tickTmp,
           life, phase >>

(* Mutant: the staging loop starts at m = n instead of m = n+1. *)
DevTilesOffByOne(d) == {ij \in Lower : TileDevice(ij) = d}

(* The tiles of device d: local, m > n, device == tileDevice(m, n). *)
DevTiles(d) == {ij \in OffDiag : TileDevice(ij) = d}

(* Consumers of A(m, 0) on the devices: one per tile (m, n) or (i, m) of a *)
(* device, each of which ticks it once.                                    *)
Uses(m) == Cardinality({ij \in OffDiag : ij[1] = m}) + Cardinality({ij \in OffDiag : ij[2] = m})

Init ==
  /\ c = [ij \in Lower |-> C0]
  /\ snap = [u \in Units |-> NoSnap]
  /\ ustate = [u \in Units |-> "idle"]
  /\ devState = [d \in Devs |-> IF Target = "Devices" THEN "idle" ELSE "done"]
  /\ cOnDevice = {}
  /\ aOnDevice = {}
  /\ evictOps = [d \in Devs |-> << >>]
  /\ tickTmp = [d \in Devs |-> NoSnap]
  /\ life = [m \in 0 .. NT-1 |-> IF Target = "Devices" THEN Uses(m) ELSE 0]
  /\ phase = "run"

(* A host task reads its tile ... *)
ReadTile(u) ==
  /\ ustate[u] = "idle"
  /\ snap' = [snap EXCEPT ![u] = c[u[2]]]
  /\ ustate' = [ustate EXCEPT ![u] = "reading"]
  /\ UNCHANGED << c, devState, cOnDevice, aOnDevice, evictOps, tickTmp, life, phase >>

(* ... and writes back the kernel's result. *)
WriteTile(u) ==
  /\ ustate[u] = "reading"
  /\ c' = [c EXCEPT ![u[2]] = UnitKernel(u, snap[u])]
  /\ ustate' = [ustate EXCEPT ![u] = "done"]
  /\ snap' = [snap EXCEPT ![u] = NoSnap]
  /\ UNCHANGED << devState, cOnDevice, aOnDevice, evictOps, tickTmp, life, phase >>

(* Device task, first loop (lines 176-189): tileMoveToDevice(m, n) and      *)
(* tileCopyToDevice of A(m,0) and A(n,0) for each of the device's tiles.   *)
StageDevice(d) ==
  /\ devState[d] = "idle"
  /\ cOnDevice' = cOnDevice \cup DevTiles(d)
  /\ aOnDevice' = aOnDevice \cup {<<ij[1], d>> : ij \in DevTiles(d)}
                            \cup {<<ij[2], d>> : ij \in DevTiles(d)}
  /\ devState' = [devState EXCEPT ![d] = "staged"]
  /\ UNCHANGED << c, snap, ustate, evictOps, tickTmp, life, phase >>

(* The order of the device loops: n outer, m = n+1 .. inner. *)
LoopOrder(a, b) == a[2] < b[2] \/ (a[2] = b[2] /\ a[1] < b[1])

(* Mutant: tileErase(n, 0, device) is left out of the eviction loop. *)
EvictOpsRowOnly(d) ==
  LET ps == SetToSortSeq(DevTiles(d), LoopOrder)
  IN FlattenSeq([i \in 1 .. Len(ps) |->
       << <<"tick", ps[i][1]>>, <<"tick", ps[i][2]>>, <<"erase", ps[i][1]>> >>])

(* The calls of the eviction loop (lines 230-238): for each tile (m, n) of *)
(* the device, a(m,0)->tick(), a(n,0)->tick(), tileErase(m, 0, device),    *)
(* tileErase(n, 0, device).                                                *)
EvictOps(d) ==
  LET ps == SetToSortSeq(DevTiles(d), LoopOrder)
  IN FlattenSeq([i \in 1 .. Len(ps) |->
       << <<"tick", ps[i][1]>>, <<"tick", ps[i][2]>>,
          <<"erase", ps[i][1]>>, <<"erase", ps[i][2]>> >>])

(* Mutant: the device == tileDevice(m, n) test is dropped, every device   *)
(* updates every off-diagonal tile.                                        *)
ComputeDeviceAllTiles(d) ==
  /\ devState[d] = "staged"
  /\ c' = [ij \in Lower |-> IF ij \in OffDiag THEN GemmKernel(c[ij], 0)
                                               ELSE c[ij]]
  /\ evictOps' = [evictOps EXCEPT ![d] = EvictOps(d)]
  /\ devState' = [devState EXCEPT ![d] = "computed"]
  /\ UNCHANGED << snap, ustate, cOnDevice, aOnDevice, tickTmp, life, phase >>

(* Pointer arrays to the device, cublasDgemmBatched with beta, stream      *)
(* synchronize (lines 192-228).                                            *)
ComputeDevice(d) ==
  /\ devState[d] = "staged"
  /\ c' = [ij \in Lower |-> IF ij \in DevTiles(d) THEN GemmKernel(c[ij], 0)
                                                  ELSE c[ij]]
  /\ evictOps' = [evictOps EXCEPT ![d] = EvictOps(d)]
  /\ devState' = [devState EXCEPT ![d] = "computed"]
  /\ UNCHANGED << snap, ustate, cOnDevice, aOnDevice, tickTmp, life, phase >>

(* tick() reads the host tile's life counter ...                           *)
TickRead(d) ==
  /\ devState[d] = "computed"
  /\ evictOps[d] # << >> /\ Head(evictOps[d])[1] = "tick"
  /\ tickTmp[d] = NoSnap
  /\ tickTmp' = [tickTmp EXCEPT ![d] = life[Head(evictOps[d])[2]]]
  /\ UNCHANGED << c, snap, ustate, devState, cOnDevice, aOnDevice, evictOps, life, phase >>

(* ... and stores it decremented.  Tasks of different devices tick the     *)
(* same host tile with nothing ordering them.                              *)
TickWrite(d) ==
  /\ tickTmp[d] # NoSnap
  /\ life' = [life EXCEPT ![Head(evictOps[d])[2]] = tickTmp[d] - 1]
  /\ tickTmp' = [tickTmp EXCEPT ![d] = NoSnap]
  /\ evictOps' = [evictOps EXCEPT ![d] = Tail(@)]
  /\ UNCHANGED << c, snap, ustate, devState, cOnDevice, aOnDevice, phase >>

(* a.tileErase(m, 0, device): drop the device copy (no-op when absent). *)
EraseCopy(d) ==
  /\ devState[d] = "computed"
  /\ evictOps[d] # << >> /\ Head(evictOps[d])[1] = "erase"
  /\ aOnDevice' = aOnDevice \ {<<Head(evictOps[d])[2], d>>}
  /\ evictOps' = [evictOps EXCEPT ![d] = Tail(@)]
  /\ UNCHANGED << c, snap, ustate, devState, cOnDevice, tickTmp, life, phase >>

(* The eviction loop is over; the device task ends. *)
EndDeviceTask(d) ==
  /\ devState[d] = "computed"
  /\ evictOps[d] = << >>
  /\ devState' = [devState EXCEPT ![d] = "done"]
  /\ UNCHANGED << c, snap, ustate, cOnDevice, aOnDevice, evictOps, tickTmp, life, phase >>

(* "#pragma omp taskwait": every task has completed; syrk returns. *)
Taskwait ==
  /\ phase = "run"
  /\ \A u \in Units : ustate[u] = "done"
  /\ \A d \in Devs : devState[d] = "done"
  /\ phase' = "done"
  /\ UNCHANGED << c, snap, ustate, devState, cOnDevice, aOnDevice, evictOps, tickTmp, life >>

Next ==
  \/ \E u \in Units : ReadTile(u) \/ WriteTile(u)
  \/ \E d \in Devs : \/ StageDevice(d) \/ ComputeDevice(d)
                     \/ TickRead(d) \/ TickWrite(d) \/ EraseCopy(d)
                     \/ EndDeviceTask(d)
  \/ Taskwait

Spec == Init /\ [][Next]_vars /\ WF_vars(Next)

-----------------------------------------------------------------------------
TypeOK ==
  /\ c \in [Lower -> Value]
  /\ \A u \in Units : snap[u] = NoSnap \/ snap[u] \in Value
  /\ ustate \in [Units -> {"idle", "reading", "done"}]
  /\ devState \in [Devs -> {"idle", "staged", "computed", "done"}]
  /\ cOnDevice \subseteq OffDiag
  /\ aOnDevice \subseteq (0 .. NT-1) \X Devs
  /\ \A d \in Devs : tickTmp[d] = NoSnap \/ tickTmp[d] \in Nat
  /\ \A m \in 0 .. NT-1 : life[m] \in 0 .. Uses(m)
  /\ phase \in {"run", "done"}

(* When syrk returns, every lower tile of C holds alpha A A^T + beta C:    *)
(* the original tile scaled by beta once, each term A(m,k) A(n,k)^T added  *)
(* once, after the beta scaling, with coefficient alpha; whatever order    *)
(* the tasks ran in.                                                       *)
SyrkResult == phase = "done" => \A ij \in Lower : c[ij] = SyrkOf

(* The off-diagonal half of SyrkResult: the gemm tasks of lines 35-41,   *)
(* one per (m, n, k), leave C(m, n) = alpha sum_k A(m,k) A(n,k)^T + beta   *)
(* C(m, n) whatever order and overlap they run in.                        *)
OffDiagonalResult == phase = "done" => \A ij \in OffDiag : c[ij] = SyrkOf

(* The diagonal half of SyrkResult: the syrk task of a diagonal tile       *)
(* leaves C(n, n) = alpha sum_k A(n,k) A(n,k)^T + beta C(n, n), as spec     *)
(* 4.4 and the routine's arguments state.                                  *)
DiagonalResult == phase = "done" => \A ij \in Lower \ OffDiag : c[ij] = SyrkOf

(* When syrk returns, no copy of an A tile is left on any device (spec 8,  *)
(* "Life-counter eviction").                                               *)
DeviceCopiesEvicted == phase = "done" => aOnDevice = {}

(* When syrk returns, every tick() of A(m, 0) by the device tasks has been *)
(* counted: the life counter of each A tile has come down by the number of *)
(* its device consumers, to 0, so the tile can be evicted (spec 3, 4.4).   *)
LifeTicksCounted == phase = "done" => \A m \in 0 .. NT-1 : life[m] = 0

=============================================================================
