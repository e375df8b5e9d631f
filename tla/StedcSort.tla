------------------------------ MODULE StedcSort ------------------------------
(***************************************************************************)
(* stedc_sort (src/src/stedc_sort.cc): sort the eigenvalues D and apply    *)
(* the same permutation to the eigenvector columns, Qout = Q P, across the *)
(* process columns of one process row of a 2D block-cyclic grid.  Every    *)
(* process sorts its replicated copy of D, then walks the tiles j of Q in  *)
(* order: the owner of tile j (process column pj) copies the columns that  *)
(* stay local straight into Qout, packs the others into work grouped by    *)
(* destination, and sends each destination its group with a blocking      *)
(* MPI_Send; every other process that receives columns from tile j posts   *)
(* one MPI_Recv from pj and unpacks into Qout.                             *)
(* A column of Q or Qout is abstracted to the index of the Q column it     *)
(* holds; rows are not at issue (every process of the row has mlocal > 0). *)
(* MPI_Send in standard mode may buffer the message and return at once, or *)
(* return only once the receive has matched it; the library decides per   *)
(* message, so the model decides at each send.  Messages between one pair *)
(* of processes with one tag are received in the order sent.              *)
(***************************************************************************)
EXTENDS Integers, Sequences, FiniteSets

CONSTANTS
  NPCOL,    \* npcol: process columns
  NT,       \* Q.nt(): tile columns of Q
  NB,       \* nb: columns per tile (fixed)
  Garbage   \* model value: a column of stale or unwritten workspace

ASSUME NPCOL \in Nat \ {0} /\ NT \in Nat \ {0} /\ NB \in Nat \ {0}

Procs == 0 .. NPCOL-1
Cols == 0 .. NT*NB-1
Slots == 0 .. NB-1
NoCol == -1

(* indxg2p: the process column owning global column g. *)
Indxg2p(g) == (g \div NB) % NPCOL

TileCols(j) == {g \in Cols : g \div NB = j}

(* The isort computed by std::sort on D (lines 117-122): eigenvalues are   *)
(* distinct, so the sorting permutation is unique.                         *)
Isort(d) == [jj \in Cols |-> CHOOSE c \in Cols :
                               Cardinality({c2 \in Cols : d[c2] < d[c]}) = jj]

(* isort_inv (line 128): the position of column c in sorted order. *)
IsortInv(d) == [c \in Cols |-> Cardinality({c2 \in Cols : d[c2] < d[c]})]

VARIABLES
  D0,        \* the eigenvalues on entry, the same on every process
  D,         \* D[q]: process q's copy of D
  isortInv,  \* isortInv[q]: process q's isort_inv
  Qout,      \* Qout[kg]: the Q column in column kg of Qout, or NoCol
  pc,        \* pc[q]: "sort", "tile", "send", "sendwait", "sendbuf", "recv", "done"
  jt,        \* jt[q]: the tile index j process q is at
  sendp,     \* sendp[q]: p of the send loop (line 192)
  pcnt,      \* pcnt[q][p]: columns of tile j going to process column p
  poffset,   \* poffset[q][p]: where p's group starts in work
  work,      \* work[q][s]: the column packed into workspace slot s
  chan       \* chan[p][q]: messages sent by p not yet received by q

vars == << D0, D, isortInv, Qout, pc, jt, sendp, pcnt, poffset, work, chan >>

Init ==
  /\ D0 \in { d \in [Cols -> Cols] : \A c1, c2 \in Cols : c1 # c2 => d[c1] # d[c2] }
  /\ D = [q \in Procs |-> D0]
  /\ isortInv = [q \in Procs |-> [c \in Cols |-> 0]]
  /\ Qout = [kg \in Cols |-> NoCol]
  /\ pc = [q \in Procs |-> "sort"]
  /\ jt = [q \in Procs |-> 0]
  /\ sendp = [q \in Procs |-> 0]
  /\ pcnt = [q \in Procs |-> [p \in Procs |-> 0]]
  /\ poffset = [q \in Procs |-> [p \in Procs |-> 0]]
  /\ work = [q \in Procs |-> [s \in Slots |-> Garbage]]
  /\ chan = [p \in Procs |-> [q \in Procs |-> << >>]]

(* pk for column g of Q, by process q's isort_inv (line 156). *)
Dest(q, g) == Indxg2p(isortInv[q][g])

(* Running sum of column counts (lines 166-167). *)
PartialSum(cnt) == [p \in Procs |-> LET Below[r \in 0 .. p] ==
                                          IF r = 0 THEN 0 ELSE Below[r-1] + cnt[r-1]
                                    IN Below[p]]

(* imine (lines 153-161): the destinations kg of the columns of tile j that *)
(* go to process column q, in column order.                                *)
Imine(q, j) ==
  LET mine == {g \in TileCols(j) : Dest(q, g) = q}
      nth(i) == CHOOSE g \in mine : Cardinality({g2 \in mine : g2 < g}) = i-1
  IN [i \in 1 .. Cardinality(mine) |-> isortInv[q][nth(i)]]

(* Mutant: the groups are packed in reverse column order. *)
SlotOfReversed(q, j, off, g) ==
  off[Dest(q, g)] + Cardinality({g2 \in TileCols(j) : g2 > g /\ Dest(q, g2) = Dest(q, g)})

(* Slot of column g in work: poffset[pk]++ over the columns jj before it   *)
(* with the same pk (line 181).                                            *)
SlotOf(q, j, off, g) ==
  off[Dest(q, g)] + Cardinality({g2 \in TileCols(j) : g2 < g /\ Dest(q, g2) = Dest(q, g)})

NextTile(q) ==
  /\ jt' = [jt EXCEPT ![q] = @ + 1]
  /\ pc' = [pc EXCEPT ![q] = IF jt[q] + 1 = NT THEN "done" ELSE "tile"]

(* Sort D, permute it, build isort_inv (lines 116-129). *)
Sort(q) ==
  /\ pc[q] = "sort"
  /\ D' = [D EXCEPT ![q] = [jj \in Cols |-> D[q][Isort(D[q])[jj]]]]
  /\ isortInv' = [isortInv EXCEPT ![q] = IsortInv(D[q])]
  /\ pc' = [pc EXCEPT ![q] = "tile"]
  /\ UNCHANGED << D0, Qout, jt, sendp, pcnt, poffset, work, chan >>

(* Mutant: pcnt is not cleared before counting (std::fill at line 152). *)
CountTileNoReset(q, j) ==
  [p \in Procs |-> pcnt[q][p] + Cardinality({g \in TileCols(j) : Dest(q, g) = p})]

(* pcnt for tile j (lines 152-162). *)
CountTile(q, j) ==
  [p \in Procs |-> Cardinality({g \in TileCols(j) : Dest(q, g) = p})]

(* The sender of tile j: count, copy own columns into Qout, pack the rest  *)
(* into work, reset poffset (lines 147-188).                               *)
BeginSend(q) ==
  /\ pc[q] = "tile"
  /\ Indxg2p(jt[q] * NB) = q
  /\ LET j == jt[q]
         cnt == CountTile(q, j)
         off == PartialSum(cnt)
         packed == {g \in TileCols(j) : Dest(q, g) # q}
     IN /\ pcnt' = [pcnt EXCEPT ![q] = cnt]
        /\ Qout' = [kg \in Cols |->
                      IF \E g \in TileCols(j) : Dest(q, g) = q /\ isortInv[q][g] = kg
                      THEN CHOOSE g \in TileCols(j) : isortInv[q][g] = kg
                      ELSE Qout[kg]]
        /\ work' = [work EXCEPT ![q] = [s \in Slots |->
                      IF \E g \in packed : SlotOf(q, j, off, g) = s
                      THEN CHOOSE g \in packed : SlotOf(q, j, off, g) = s
                      ELSE work[q][s]]]
        /\ poffset' = [poffset EXCEPT ![q] = off]
  /\ sendp' = [sendp EXCEPT ![q] = 0]
  /\ pc' = [pc EXCEPT ![q] = "send"]
  /\ UNCHANGED << D0, D, isortInv, jt, chan >>

(* Mutant: every other process posts the receive, whether or not columns   *)
(* of tile j come to it.                                                   *)
BeginOtherAlwaysRecv(q) ==
  /\ pc[q] = "tile"
  /\ Indxg2p(jt[q] * NB) # q
  /\ pcnt' = [pcnt EXCEPT ![q] = CountTile(q, jt[q])]
  /\ pc' = [pc EXCEPT ![q] = "recv"] /\ UNCHANGED jt
  /\ UNCHANGED << D0, D, isortInv, Qout, sendp, poffset, work, chan >>

(* Any other process: count; receive if columns come to it, else go on to  *)
(* the next tile (lines 147-162, 204-207).                                 *)
BeginOther(q) ==
  /\ pc[q] = "tile"
  /\ Indxg2p(jt[q] * NB) # q
  /\ pcnt' = [pcnt EXCEPT ![q] = CountTile(q, jt[q])]
  /\ IF Len(Imine(q, jt[q])) > 0
       THEN pc' = [pc EXCEPT ![q] = "recv"] /\ UNCHANGED jt
       ELSE NextTile(q)
  /\ UNCHANGED << D0, D, isortInv, Qout, sendp, poffset, work, chan >>

WorkAt(q, s) == IF s \in Slots THEN work[q][s] ELSE Garbage

(* Mutant: the cnt > 0 test is dropped; the empty message is sent eagerly, *)
(* as MPI libraries send zero-length messages.                              *)
SendNoCountGuard(q) ==
  /\ pc[q] = "send"
  /\ sendp[q] < NPCOL
  /\ LET p == sendp[q] IN
       IF p # q
         THEN /\ chan' = [chan EXCEPT ![q][p] = Append(@,
                   [i \in 1 .. pcnt[q][p] |-> WorkAt(q, poffset[q][p] + i - 1)])]
              /\ pc' = [pc EXCEPT ![q] = "sendbuf"]
              /\ UNCHANGED sendp
         ELSE /\ sendp' = [sendp EXCEPT ![q] = @ + 1]
              /\ UNCHANGED << chan, pc >>
  /\ UNCHANGED << D0, D, isortInv, Qout, jt, pcnt, poffset, work >>

(* One pass of the send loop (lines 192-202): MPI_Send of p's group, or    *)
(* nothing for p = mycol or cnt = 0.                                       *)
Send(q) ==
  /\ pc[q] = "send"
  /\ sendp[q] < NPCOL
  /\ LET p == sendp[q] IN
       IF p # q /\ pcnt[q][p] > 0
         THEN /\ chan' = [chan EXCEPT ![q][p] = Append(@,
                   [i \in 1 .. pcnt[q][p] |-> WorkAt(q, poffset[q][p] + i - 1)])]
              /\ \E mode \in {"sendwait", "sendbuf"} : pc' = [pc EXCEPT ![q] = mode]
              /\ UNCHANGED sendp
         ELSE /\ sendp' = [sendp EXCEPT ![q] = @ + 1]
              /\ UNCHANGED << chan, pc >>
  /\ UNCHANGED << D0, D, isortInv, Qout, jt, pcnt, poffset, work >>

(* MPI_Send returns: at once when the message was buffered, else once the  *)
(* receive has taken it.                                                   *)
SendReturn(q) ==
  /\ \/ pc[q] = "sendbuf"
     \/ pc[q] = "sendwait" /\ chan[q][sendp[q]] = << >>
  /\ sendp' = [sendp EXCEPT ![q] = @ + 1]
  /\ pc' = [pc EXCEPT ![q] = "send"]
  /\ UNCHANGED << D0, D, isortInv, Qout, jt, pcnt, poffset, work, chan >>

(* The send loop is over: next tile (line 221). *)
EndSend(q) ==
  /\ pc[q] = "send"
  /\ sendp[q] = NPCOL
  /\ NextTile(q)
  /\ UNCHANGED << D0, D, isortInv, Qout, sendp, pcnt, poffset, work, chan >>

(* MPI_Recv from pj of cnt columns, then copy column jj to Qout column      *)
(* imine[jj] (lines 204-219).  A shorter message leaves stale workspace.   *)
Recv(q) ==
  /\ pc[q] = "recv"
  /\ LET src == Indxg2p(jt[q] * NB)
         mine == Imine(q, jt[q])
         msg == Head(chan[src][q])
     IN /\ chan[src][q] # << >>
        /\ Qout' = [kg \in Cols |->
                      IF \E i \in 1 .. Len(mine) : mine[i] = kg
                      THEN LET i == CHOOSE i \in 1 .. Len(mine) : mine[i] = kg
                           IN IF i <= Len(msg) THEN msg[i] ELSE Garbage
                      ELSE Qout[kg]]
        /\ chan' = [chan EXCEPT ![src][q] = Tail(@)]
  /\ NextTile(q)
  /\ UNCHANGED << D0, D, isortInv, sendp, pcnt, poffset, work >>

Next ==
  \E q \in Procs :
    \/ Sort(q) \/ BeginSend(q) \/ BeginOther(q) \/ Send(q)
    \/ SendReturn(q) \/ EndSend(q) \/ Recv(q)

Spec == Init /\ [][Next]_vars /\ WF_vars(Next)

-----------------------------------------------------------------------------
AllDone == \A q \in Procs : pc[q] = "done"

TypeOK ==
  /\ Qout \in [Cols -> Cols \cup {NoCol, Garbage}]
  /\ pc \in [Procs -> {"sort", "tile", "send", "sendwait", "sendbuf", "recv", "done"}]
  /\ jt \in [Procs -> 0 .. NT]
  /\ sendp \in [Procs -> 0 .. NPCOL]
  /\ pcnt \in [Procs -> [Procs -> 0 .. NB]]
  /\ poffset \in [Procs -> [Procs -> 0 .. NB]]
  /\ work \in [Procs -> [Slots -> Cols \cup {Garbage}]]

(* When every process has returned, each column kg of Qout holds the       *)
(* eigenvector of the eigenvalue its owner's sorted D has at kg, and that  *)
(* D is sorted: the columns moved by the blocking send/receive exchange    *)
(* landed where the receivers' imine put them.                             *)
EigenpairsSorted ==
  AllDone =>
    \A kg \in Cols :
      /\ Qout[kg] \in Cols
      /\ D0[Qout[kg]] = D[Indxg2p(kg)][kg]
      /\ \A kg2 \in Cols : kg < kg2 => D[Indxg2p(kg)][kg] < D[Indxg2p(kg)][kg2]

(* When every process has returned, no message is left unreceived: a stray *)
(* tag-0 message would be matched by a later receive on the communicator.  *)
ChannelsDrained ==
  AllDone => \A p, q \in Procs : chan[p][q] = << >>

(* The row of processes never blocks forever in MPI_Send or MPI_Recv: every *)
(* process returns from stedc_sort.                                        *)
Termination == <>AllDone

=============================================================================
