------------------------- MODULE TileForcesProofs -------------------------
(* Proofs about the tiled sum of TileForces, for every number of particles,      *)
(* every launch and every choice of local particles.  The two barriers keep the  *)
(* shared memory of a block in place: by the invariant TileInv the live threads   *)
(* are in one tile between two barriers and either all load or all sum.  Each     *)
(* live thread sums the force of every other particle exactly once, and from its  *)
(* own data if a live thread loaded it: by SumInv it has in its sum what is below *)
(* Reached.                                                                    *)
EXTENDS TileForces, SequenceTheorems, FiniteSetTheorems, TLAPS

LEMMA InitTile == Init => TileInv
<1> SUFFICES ASSUME Init PROVE TileInv
  OBVIOUS
<1> USE LaunchAssumption
<1>1. Live \subseteq Thread
  BY DEF Live
<1>2. ControlOK
  BY <1>1 DEF Init, ControlOK, Data, Zero, Garbage
<1>3. Together
  BY <1>1 DEF Init, Together, Loading, Summing
<1>4. EntriesLoaded
  BY <1>1 DEF Init, EntriesLoaded, Summing
<1> QED
  BY <1>2, <1>3, <1>4 DEF TileInv

LEMMA LoadIsData ==
  ASSUME NEW k \in Nat
  PROVE  (IF k < N THEN k ELSE Zero) \in Data
BY LaunchAssumption DEF Data, Particle, Zero, Garbage

LEMMA ProductIsNat == ASSUME NEW a \in Nat, NEW b \in Nat, NEW c \in Nat PROVE a * b + c \in Nat
<1>1. a * b \in Nat
  OBVIOUS
<1> QED
  BY <1>1

LEMMA StepTile == TileInv /\ [Next]_vars => TileInv'
<1> SUFFICES ASSUME TileInv, [Next]_vars PROVE TileInv'
  OBVIOUS
<1> USE DEF TileInv
<1>l. Live \subseteq Thread /\ Live' = Live
  BY DEF Live, idx
<1>1. ASSUME NEW th \in Thread, Load(th) PROVE TileInv'
  <2>1. th \in Live
    BY <1>1 DEF Load, ControlOK
  <2>2. /\ pc' = [pc EXCEPT ![th] = "sync1"]
        /\ tile' = tile
        /\ shared_data' = [shared_data EXCEPT ![th] = Loaded(th)]
    BY <1>1 DEF Load, Loaded
  <2>3. Loaded(th) \in Data
    <3>1. tile[th] * BlockDim + th \in Nat
      <4>1. tile[th] \in Nat /\ BlockDim \in Nat /\ th \in Nat
        BY LaunchAssumption DEF ControlOK, Thread
      <4> QED
        BY <4>1, ProductIsNat
    <3> QED
      BY <3>1, LoadIsData DEF Loaded
  <2>4. ControlOK'
    BY <2>1, <2>2, <2>3, <1>l DEF ControlOK
  <2>5. pc[th] \in Loading /\ pc'[th] \in Loading
    BY <1>1, <2>2 DEF Load, Loading, ControlOK
  <2>6. \A other \in Live : pc[other] \in Loading
    BY <2>1, <2>5 DEF Together
  <2>7. \A other \in Live : pc'[other] \in Loading
    BY <2>2, <2>5, <2>6, <1>l DEF ControlOK
  <2>8. Together'
    BY <2>2, <2>7, <1>l DEF Together, Loading, Summing
  <2>9. \A o \in Live : Loaded(o)' = Loaded(o)
    BY <2>2 DEF Loaded, Zero
  <2>10. EntriesLoaded'
    BY <2>2, <2>9, <1>l DEF EntriesLoaded, ControlOK
  <2> QED
    BY <2>4, <2>8, <2>10
<1>2. ASSUME NEW th \in Thread, Sum(th) \/ TileSummed(th) PROVE TileInv'
  <2>1. th \in Live /\ pc[th] \in Summing /\ pc'[th] \in Summing
    BY <1>2 DEF Sum, TileSummed, ControlOK, Summing
  <2>2. /\ pc' = pc \/ pc' = [pc EXCEPT ![th] = "sync2"]
        /\ tile' = tile /\ shared_data' = shared_data
    BY <1>2 DEF Sum, TileSummed
  <2>3. ControlOK'
    BY <2>1, <2>2, <1>l DEF ControlOK
  <2>4. \A other \in Live : pc[other] \in Summing
    BY <2>1 DEF Together
  <2>5. \A other \in Live : pc'[other] \in Summing
    BY <2>1, <2>2, <2>4, <1>l DEF ControlOK
  <2>6. Together'
    BY <2>2, <2>5, <1>l DEF Together, Loading, Summing
  <2>7. EntriesLoaded'
    BY <2>2, <2>4, <1>l DEF EntriesLoaded, Loaded, Zero
  <2> QED
    BY <2>3, <2>6, <2>7
<1>3. ASSUME Sync1 PROVE TileInv'
  <2>1. \A th \in Live : pc[th] = "sync1" /\ pc'[th] = "sum"
    BY <1>3, <1>l DEF Sync1, AllAt
  <2>2. /\ pc' = [th \in Thread |-> IF th \in Live THEN "sum" ELSE pc[th]]
        /\ tile' = tile /\ shared_data' = shared_data
    BY <1>3 DEF Sync1
  <2>3. ControlOK'
    BY <2>2, <1>l DEF ControlOK
  <2>4. Together'
    BY <2>1, <2>2, <1>l DEF Together, Loading, Summing
  <2>5. EntriesLoaded'
    BY <2>1, <2>2, <1>l DEF EntriesLoaded, Loaded, Zero
  <2> QED
    BY <2>3, <2>4, <2>5
<1>4. ASSUME Sync2 PROVE TileInv'
  <2>1. \A th \in Live : pc[th] = "sync2"
    BY <1>4 DEF Sync2, AllSummed, AllAt
  <2>2. /\ pc' = [th \in Thread |-> IF th \in Live THEN NextTile(th) ELSE pc[th]]
        /\ tile' = [th \in Thread |-> IF th \in Live THEN tile[th] + 1 ELSE tile[th]]
        /\ shared_data' = shared_data
    BY <1>4, <2>1 DEF Sync2
  <2>3. \A th \in Live : NextTile(th) \in {"load", "done"}
    BY DEF NextTile
  <2>4. ControlOK'
    BY <2>2, <2>3, <1>l DEF ControlOK
  <2>5. \A th, other \in Live : tile'[th] = tile'[other] /\ pc'[th] = pc'[other]
    BY <2>2, <1>l DEF Together, NextTile
  <2>6. Together'
    BY <2>5, <1>l DEF Together
  <2>7. EntriesLoaded'
    BY <2>2, <2>3, <1>l DEF EntriesLoaded, Summing
  <2> QED
    BY <2>4, <2>6, <2>7
<1>5. CASE UNCHANGED vars
  BY <1>5, <1>l DEF vars, ControlOK, Together, EntriesLoaded, Loaded, Zero, Data, Particle, Garbage
<1> QED
  BY <1>1, <1>2, <1>3, <1>4, <1>5 DEF Next, Done

(* While a live thread adds up a tile, the entries loaded by live threads are    *)
(* those of that tile, whatever the order the threads of the block run in: the   *)
(* barriers at lines 110 and 125 of particle_kernel.cu suffice.                 *)
THEOREM TileInPlaceHolds == Spec => []TileInPlace
<1>1. TileInv => TileInPlace
  <2> SUFFICES ASSUME TileInv, NEW th \in Live, NEW other \in Live, pc[th] = "sum"
               PROVE  shared_data[other] = IF tile[th] * BlockDim + other < N
                                           THEN tile[th] * BlockDim + other ELSE Zero
    BY DEF TileInPlace
  <2>1. pc[other] \in Summing /\ tile[th] = tile[other]
    BY DEF TileInv, Together, Summing
  <2>2. shared_data[other] = Loaded(other)
    BY <2>1 DEF TileInv, EntriesLoaded
  <2> QED
    BY <2>1, <2>2 DEF Loaded
<1> QED
  BY InitTile, StepTile, <1>1, PTL DEF Spec
-----------------------------------------------------------------------------
(* Numbers.                                                                   *)
LEMMA TilesCover == tiles \in Nat /\ tiles >= 1 /\ tiles * BlockDim >= N
<1>1. ASSUME NEW a \in Nat, NEW b \in Nat \ {0}, a > 0
      PROVE  LET q == (a + b - 1) \div b IN q \in Nat /\ q >= 1 /\ q * b >= a
  <2> DEFINE q == (a + b - 1) \div b
  <2>1. q \in Nat
    BY <1>1
  <2>2. q * b >= a
    BY <1>1
  <2>3. q >= 1
    <3> HIDE DEF q
    <3>1. q # 0
      BY <1>1, <2>1, <2>2
    <3> QED
      BY <2>1, <3>1
  <2> QED
    BY <2>1, <2>2, <2>3
<1> QED
  BY <1>1, LaunchAssumption DEF tiles

LEMMA PlaceInTile ==
  ASSUME NEW t \in Nat, NEW j \in Thread
  PROVE  t * BlockDim + j \in Nat /\ (t * BlockDim + j) % BlockDim = j
BY LaunchAssumption, ProductIsNat DEF Thread

LEMMA NextProduct == ASSUME NEW t \in Nat PROVE (t + 1) * BlockDim + 0 = t * BlockDim + BlockDim
BY LaunchAssumption

-----------------------------------------------------------------------------
(* What happens to a sum.                                                     *)
LEMMA CountedNone == ASSUME NEW th PROVE Counted(th, <<>>, 0)
BY LaunchAssumption DEF Counted, Particle

LEMMA CountedSkip ==
  ASSUME NEW th \in Thread, NEW f \in Seq(Particle \X Data), NEW n \in Nat, Counted(th, f, n),
         n >= N \/ n = idx(th)
  PROVE  Counted(th, f, n + 1)
<1>1. \A k \in DOMAIN f : f[k][1] \in Nat
  BY LenProperties, ElementOfSeq, LaunchAssumption DEF Particle
<1> QED
  BY <1>1, LaunchAssumption DEF Counted, Particle

LEMMA CountedAppend ==
  ASSUME NEW th \in Thread, NEW f \in Seq(Particle \X Data), NEW n \in Nat, Counted(th, f, n),
         n < N, n # idx(th), NEW d \in Data, n % BlockDim \in Live => d = n
  PROVE  /\ Append(f, <<n, d>>) \in Seq(Particle \X Data)
         /\ Counted(th, Append(f, <<n, d>>), n + 1)
<1> DEFINE e == <<n, d>>  g == Append(f, e)
<1>1. n \in Particle /\ e \in Particle \X Data /\ e[1] = n /\ e[2] = d
  BY LaunchAssumption DEF Particle
<1>2. Len(f) \in Nat /\ DOMAIN f = 1..Len(f) /\ \A k \in DOMAIN f : f[k][1] \in Nat
  BY LenProperties, ElementOfSeq, LaunchAssumption DEF Particle
<1> HIDE DEF e
<1>3. /\ g \in Seq(Particle \X Data) /\ Len(g) = Len(f) + 1 /\ DOMAIN g = 1..(Len(f) + 1)
      /\ \A k \in 1..Len(f) : g[k] = f[k]
      /\ g[Len(f) + 1] = e
  BY <1>1, AppendProperties, LenProperties
<1> HIDE DEF g
<1>4. \A p \in Particle : p < n + 1 /\ p # idx(th) => \E k \in DOMAIN g : g[k][1] = p
  <2> SUFFICES ASSUME NEW p \in Particle, p < n + 1, p # idx(th) PROVE \E k \in DOMAIN g : g[k][1] = p
    OBVIOUS
  <2>1. CASE p < n
    <3>1. PICK k \in DOMAIN f : f[k][1] = p
      BY <2>1 DEF Counted
    <3> QED
      BY <1>2, <1>3, <3>1
  <2>2. CASE p = n
    BY <1>1, <1>2, <1>3, <2>2
  <2> QED
    BY <2>1, <2>2, LaunchAssumption DEF Particle
<1>5. \A k \in DOMAIN g : /\ g[k][1] < n + 1 /\ g[k][1] # idx(th)
                          /\ g[k][1] % BlockDim \in Live => g[k][2] = g[k][1]
  <2> SUFFICES ASSUME NEW k \in DOMAIN g
               PROVE  /\ g[k][1] < n + 1 /\ g[k][1] # idx(th)
                      /\ g[k][1] % BlockDim \in Live => g[k][2] = g[k][1]
    OBVIOUS
  <2>1. CASE k \in DOMAIN f
    <3>1. g[k] = f[k] /\ f[k][1] \in Nat /\ f[k][1] < n
      BY <1>2, <1>3, <2>1 DEF Counted
    <3> QED
      BY <2>1, <3>1 DEF Counted
  <2>2. CASE k = Len(f) + 1
    BY <1>1, <1>3, <2>2
  <2> QED
    BY <1>2, <1>3, <2>1, <2>2
<1>6. \A k, l \in DOMAIN g : g[k][1] = g[l][1] => k = l
  <2>1. \A k \in DOMAIN f : g[k][1] = f[k][1] /\ f[k][1] < n
    BY <1>2, <1>3 DEF Counted
  <2>2. \A k, l \in DOMAIN f : g[k][1] = g[l][1] => k = l
    BY <2>1 DEF Counted
  <2>3. \A k \in DOMAIN f : g[k][1] # n
    BY <1>2, <2>1
  <2>4. \A k \in DOMAIN g : k \in DOMAIN f \/ k = Len(f) + 1
    BY <1>2, <1>3
  <2>5. g[Len(f) + 1][1] = n
    BY <1>1, <1>3
  <2> QED
    BY <2>2, <2>3, <2>4, <2>5
<1> QED
  BY <1>3, <1>4, <1>5, <1>6 DEF Counted, g, e

(* A sum that has reached the last particle is what ForcesOfLoaded asks for.      *)
LEMMA CountedAll ==
  ASSUME NEW th \in Thread, NEW f \in Seq(Particle \X Data), NEW n \in Nat, n >= N, Counted(th, f, n)
  PROVE  /\ \A p \in Particle : Cardinality({k \in DOMAIN f : f[k][1] = p})
                                 = IF p = idx(th) THEN 0 ELSE 1
         /\ \A k \in DOMAIN f : f[k][1] % BlockDim \in Live => f[k][2] = f[k][1]
<1>1. ASSUME NEW p \in Particle
      PROVE  Cardinality({k \in DOMAIN f : f[k][1] = p}) = IF p = idx(th) THEN 0 ELSE 1
  <2> DEFINE at == {k \in DOMAIN f : f[k][1] = p}
  <2>1. CASE p = idx(th)
    <3>1. at = {}
      BY <2>1 DEF Counted
    <3> QED
      BY <2>1, <3>1, FS_EmptySet
  <2>2. CASE p # idx(th)
    <3>1. p < n
      BY LaunchAssumption DEF Particle
    <3>2. PICK k \in DOMAIN f : f[k][1] = p
      BY <2>2, <3>1 DEF Counted
    <3>3. at = {k}
      BY <3>2 DEF Counted
    <3> QED
      BY <2>2, <3>3, FS_Singleton
  <2> QED
    BY <2>1, <2>2
<1> QED
  BY <1>1 DEF Counted

-----------------------------------------------------------------------------
(* The steps.                                                                *)
LEMMA InitSums == Init => SumInv
<1> SUFFICES ASSUME Init PROVE SumInv
  OBVIOUS
<1> USE LaunchAssumption
<1>1. Live \subseteq Thread
  BY DEF Live
<1>2. TypeOK
  <2>1. <<>> \in Seq(Particle \X Data)
    BY EmptySeq
  <2>2. 0 \in 0..tiles /\ 0 \in 0..BlockDim /\ Garbage \in Data
    BY TilesCover DEF Data
  <2> QED
    BY <2>1, <2>2, <1>1 DEF Init, TypeOK
<1>3. ASSUME NEW th \in Live
      PROVE  /\ tile[th] < tiles <=> pc[th] # "done"
             /\ Counted(th, total_force[th], Reached(th))
  <2>1. tile[th] = 0 /\ pc[th] = "load" /\ total_force[th] = <<>>
    BY <1>1, <1>3 DEF Init
  <2>2. Reached(th) = 0
    BY <2>1 DEF Reached
  <2> QED
    BY <2>1, <2>2, TilesCover, CountedNone
<1> QED
  BY <1>2, <1>3 DEF SumInv

(* A step after which a thread has what it had and has reached what it had.       *)
LEMMA SameSums ==
  ASSUME SumInv, TypeOK', UNCHANGED total_force,
         \A th \in Live : Reached(th)' = Reached(th) /\ (tile'[th] < tiles <=> pc'[th] # "done")
  PROVE  SumInv'
<1>1. Live' = Live /\ tiles' = tiles
  BY DEF Live, idx, tiles
<1>2. \A th, f, n : Counted(th, f, n)' = Counted(th, f, n)
  BY DEF Counted
<1> QED
  BY <1>1, <1>2 DEF SumInv

LEMMA SumStep ==
  ASSUME SumInv, TileInv, NEW th \in Thread, Sum(th)
  PROVE  SumInv'
<1> DEFINE n == tile[th] * BlockDim + i[th]
<1> USE LaunchAssumption
<1>1. /\ th \in Live /\ pc[th] = "sum" /\ i[th] \in Nat /\ i[th] < BlockDim /\ tile[th] \in Nat
      /\ Live \subseteq Thread
  BY TilesCover DEF Sum, TileInv, ControlOK, SumInv, TypeOK, Live
<1>2. i[th] \in Thread /\ n \in Nat /\ n % BlockDim = i[th]
  <2>1. i[th] \in Thread
    BY <1>1 DEF Thread
  <2> QED
    BY <1>1, <2>1, PlaceInTile
<1>3. Reached(th) = n /\ Reached(th)' = n + 1
  <2>1. i'[th] = i[th] + 1 /\ pc' = pc /\ tile' = tile
    BY <1>1 DEF Sum, SumInv, TypeOK
  <2>2. tile[th] * BlockDim \in Nat
    BY <1>1
  <2> QED
    BY <1>1, <2>1, <2>2 DEF Reached
<1>4. n < N /\ n % BlockDim \in Live => shared_data[i[th]] = n
  BY <1>1, <1>2 DEF TileInv, Together, EntriesLoaded, Summing, Loaded
<1>5. shared_data[i[th]] \in Data
  BY <1>2 DEF SumInv, TypeOK
<1> DEFINE f == total_force[th]  g == total_force'[th]
<1>6. f \in Seq(Particle \X Data) /\ Counted(th, f, n)
  BY <1>1, <1>3 DEF SumInv, TypeOK
<1>7. total_force' = [total_force EXCEPT ![th] = g]
      /\ g = IF n >= N \/ n = idx(th) THEN f ELSE Append(f, <<n, shared_data[i[th]]>>)
  BY <1>1 DEF Sum, SumInv, TypeOK
<1>8. i' = [i EXCEPT ![th] = i[th] + 1] /\ UNCHANGED <<pc, tile, shared_data>>
  BY <1>1 DEF Sum
<1> HIDE DEF n, f, g
<1>9. g \in Seq(Particle \X Data) /\ Counted(th, g, n + 1)
  <2>1. CASE n >= N \/ n = idx(th)
    BY <1>2, <1>6, <1>7, <2>1, CountedSkip
  <2>2. CASE ~(n >= N \/ n = idx(th))
    <3> DEFINE d == shared_data[i[th]]
    <3>1. n < N /\ n # idx(th) /\ d \in Data /\ (n % BlockDim \in Live => d = n)
      BY <1>2, <1>4, <1>5, <2>2
    <3>2. g = Append(f, <<n, d>>)
      BY <1>7, <2>2
    <3> HIDE DEF d
    <3>3. Append(f, <<n, d>>) \in Seq(Particle \X Data) /\ Counted(th, Append(f, <<n, d>>), n + 1)
      BY <1>2, <1>6, <3>1, CountedAppend
    <3> QED
      BY <3>2, <3>3
  <2> QED
    BY <2>1, <2>2
<1>10. TypeOK'
  BY <1>1, <1>7, <1>8, <1>9 DEF SumInv, TypeOK
<1>11. Live' = Live /\ tiles' = tiles /\ \A o, h, k : Counted(o, h, k)' = Counted(o, h, k)
  BY DEF Live, idx, tiles, Counted
<1>12. ASSUME NEW o \in Live
       PROVE  /\ tile'[o] < tiles <=> pc'[o] # "done"
              /\ Counted(o, total_force'[o], Reached(o)')
  <2>1. tile[o] < tiles <=> pc[o] # "done"
    BY <1>12 DEF SumInv
  <2>2. CASE o = th
    BY <1>3, <1>7, <1>8, <1>9, <2>1, <2>2 DEF SumInv, TypeOK
  <2>3. CASE o # th
    <3>1. total_force'[o] = total_force[o] /\ i'[o] = i[o]
      BY <1>1, <1>7, <1>8, <2>3 DEF SumInv, TypeOK
    <3>2. Reached(o)' = Reached(o)
      BY <1>8, <3>1 DEF Reached
    <3> QED
      BY <1>8, <1>12, <2>1, <3>1, <3>2 DEF SumInv
  <2> QED
    BY <2>2, <2>3
<1> QED
  BY <1>10, <1>11, <1>12 DEF SumInv

LEMMA StepSums == ASSUME SumInv, TileInv, [Next]_vars PROVE SumInv'
<1> USE LaunchAssumption
<1>l. Live \subseteq Thread /\ tiles \in Nat
  BY TilesCover DEF Live
<1>t. TypeOK
  BY DEF SumInv
<1>1. ASSUME NEW th \in Thread, Load(th) PROVE SumInv'
  <2>1. TileInv'
    BY <1>1, StepTile DEF Next
  <2>2. TypeOK'
    BY <1>1, <1>t, <2>1 DEF Load, TypeOK, TileInv, ControlOK
  <2>3. pc' = [pc EXCEPT ![th] = "sync1"] /\ UNCHANGED <<tile, i, total_force>> /\ pc[th] = "load"
    BY <1>1 DEF Load
  <2>4. \A o \in Live : Reached(o)' = Reached(o)
    BY <1>l, <1>t, <2>3 DEF Reached, TypeOK
  <2>5. \A o \in Live : tile'[o] < tiles <=> pc'[o] # "done"
    BY <1>l, <1>t, <2>3 DEF SumInv, TypeOK
  <2> QED
    BY <2>2, <2>3, <2>4, <2>5, SameSums
<1>2. ASSUME NEW th \in Thread, TileSummed(th) PROVE SumInv'
  <2>1. pc' = [pc EXCEPT ![th] = "sync2"] /\ UNCHANGED <<tile, i, shared_data, total_force>>
        /\ pc[th] = "sum" /\ i[th] = BlockDim
    BY <1>2 DEF TileSummed
  <2>2. TypeOK'
    BY <1>t, <2>1 DEF TypeOK
  <2>3. \A o \in Live : Reached(o)' = Reached(o)
    BY <1>l, <1>t, <2>1 DEF Reached, TypeOK
  <2>4. \A o \in Live : tile'[o] < tiles <=> pc'[o] # "done"
    BY <1>l, <1>t, <2>1 DEF SumInv, TypeOK
  <2> QED
    BY <2>1, <2>2, <2>3, <2>4, SameSums
<1>3. CASE Sync1
  <2>1. /\ pc' = [th \in Thread |-> IF th \in Live THEN "sum" ELSE pc[th]]
        /\ i' = [th \in Thread |-> 0] /\ UNCHANGED <<tile, shared_data, total_force>>
        /\ \A th \in Live : pc[th] = "sync1"
    BY <1>3 DEF Sync1, AllAt
  <2>2. TypeOK'
    BY <1>t, <2>1 DEF TypeOK
  <2>3. \A o \in Live : Reached(o)' = Reached(o)
    BY <1>l, <2>1 DEF Reached
  <2>4. \A o \in Live : tile'[o] < tiles <=> pc'[o] # "done"
    BY <1>l, <2>1 DEF SumInv
  <2> QED
    BY <2>1, <2>2, <2>3, <2>4, SameSums
<1>4. CASE Sync2
  <2>1. /\ pc' = [th \in Thread |-> IF th \in Live THEN NextTile(th) ELSE pc[th]]
        /\ tile' = [th \in Thread |-> IF th \in Live THEN tile[th] + 1 ELSE tile[th]]
        /\ UNCHANGED <<i, shared_data, total_force>>
        /\ \A th \in Live : pc[th] = "sync2"
    BY <1>4 DEF Sync2, AllSummed, AllAt
  <2>2. \A o \in Live : tile[o] \in 0..tiles /\ tile[o] < tiles
    BY <1>l, <1>t, <2>1 DEF SumInv, TypeOK
  <2>3. TypeOK'
    BY <1>l, <1>t, <2>1, <2>2 DEF TypeOK, NextTile
  <2>4. \A o \in Live : tile'[o] < tiles <=> pc'[o] # "done"
    BY <1>l, <2>1, <2>2 DEF NextTile
  <2>5. \A o \in Live : Reached(o)' = Reached(o)
    <3> SUFFICES ASSUME NEW o \in Live PROVE Reached(o)' = Reached(o)
      OBVIOUS
    <3>1. tile'[o] = tile[o] + 1 /\ pc[o] = "sync2" /\ pc'[o] \in {"load", "done"} /\ tile[o] \in Nat
      BY <1>l, <2>1, <2>2 DEF NextTile
    <3>2. Reached(o)' = (tile[o] + 1) * BlockDim + 0 /\ Reached(o) = tile[o] * BlockDim + BlockDim
      BY <3>1 DEF Reached
    <3> QED
      BY <3>1, <3>2, NextProduct
  <2> QED
    BY <2>1, <2>3, <2>4, <2>5, SameSums
<1>5. CASE UNCHANGED vars
  <2>1. TypeOK'
    BY <1>5, <1>t DEF vars, TypeOK
  <2>2. \A o \in Live : Reached(o)' = Reached(o) /\ (tile'[o] < tiles <=> pc'[o] # "done")
    BY <1>5 DEF vars, Reached, SumInv
  <2> QED
    BY <1>5, <2>1, <2>2, SameSums DEF vars
<1> QED
  BY <1>1, <1>2, <1>3, <1>4, <1>5, SumStep DEF Next, Done

LEMMA SumInvHolds == Spec => []SumInv
<1>1. Spec => []TileInv
  BY InitTile, StepTile, PTL DEF Spec
<1> QED
  BY <1>1, InitSums, StepSums, PTL DEF Spec

(* Type correctness of the tiled loop, for every launch.                        *)
THEOREM TileTyped == Spec => []TypeOK
<1>1. SumInv => TypeOK
  BY DEF SumInv
<1> QED
  BY <1>1, SumInvHolds, PTL

(* Each thread of a block that stays in the kernel sums the force of every other   *)
(* particle exactly once, and from its own data wherever a thread that stayed      *)
(* loaded it (the tile loop of update_particles, lines 96-126).                  *)
THEOREM ForcesOfLoadedHolds == Spec => []ForcesOfLoaded
<1>1. ASSUME SumInv PROVE ForcesOfLoaded
  <2> SUFFICES ASSUME NEW th \in Live, pc[th] = "done"
               PROVE  /\ \A p \in Particle :
                           Cardinality({k \in DOMAIN total_force[th] : total_force[th][k][1] = p})
                             = IF p = idx(th) THEN 0 ELSE 1
                      /\ \A k \in DOMAIN total_force[th] :
                           total_force[th][k][1] % BlockDim \in Live
                             => total_force[th][k][2] = total_force[th][k][1]
    BY DEF ForcesOfLoaded
  <2>1. th \in Thread /\ tile[th] = tiles /\ total_force[th] \in Seq(Particle \X Data)
    BY <1>1, TilesCover DEF SumInv, TypeOK, Live
  <2>2. Reached(th) \in Nat /\ Reached(th) >= N
    <3>1. Reached(th) = tiles * BlockDim + 0
      BY <2>1 DEF Reached
    <3>2. tiles * BlockDim \in Nat
      BY TilesCover, LaunchAssumption
    <3> QED
      BY <3>1, <3>2, TilesCover, LaunchAssumption
  <2>3. Counted(th, total_force[th], Reached(th))
    BY <1>1 DEF SumInv
  <2> QED
    BY <2>1, <2>2, <2>3, CountedAll
<1> QED
  BY <1>1, SumInvHolds, PTL

=============================================================================
