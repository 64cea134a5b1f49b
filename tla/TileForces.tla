----------------------------- MODULE TileForces -----------------------------
(* The tiled sum of forces in update_particles of kernels/particle_kernel.cu    *)
(* (lines 83-126), for the threads of one block: tile by tile they load the     *)
(* particles into shared memory, wait for each other, add up the forces of the   *)
(* tile and wait again.  A particle's position and mass are its index here, and  *)
(* the force on a thread's particle is the sequence of what went into its sum: pairs *)
(* of the particle meant and the particle whose data was used.                   *)
(*                                                                              *)
(* The launch is not part of the repository: BlockDim and the block are any.     *)
(* Threads that returned are not waited for at __syncthreads, which is how the   *)
(* hardware treats them; shared memory nobody wrote holds anything.              *)
EXTENDS Naturals, Sequences, FiniteSets

CONSTANTS N,           \* number of particles
          BlockDim,    \* blockDim.x
          BlockIdx,    \* blockIdx.x
          LocalFlags   \* indices whose local_flags entry is not 0

ASSUME LaunchAssumption == /\ N \in Nat \ {0} /\ BlockDim \in Nat \ {0} /\ BlockIdx \in Nat
                           /\ LocalFlags \subseteq 0..(N - 1)

Thread == 0..(BlockDim - 1)
Particle == 0..(N - 1)
Zero == N                        \* make_float4(0, 0, 0, 0)
Garbage == N + 1                 \* memory never written
Data == Particle \cup {Zero, Garbage}

idx(th) == BlockIdx * BlockDim + th

(* The threads that do not return at line 85.                                  *)
Live == {th \in Thread : idx(th) < N /\ idx(th) \in LocalFlags}

tilesRoundedDown == N \div BlockDim                \* slip
tiles == (N + BlockDim - 1) \div BlockDim

VARIABLES
  pc,            \* "load", "sync1", "sum", "sync2", "done"; "returned"
  tile, i,       \* the loop variables of each thread
  shared_data,   \* one entry for each thread of the block
  total_force

vars == <<pc, tile, i, shared_data, total_force>>

TypeOK ==
  /\ pc \in [Thread -> {"load", "sync1", "sum", "sync2", "done", "returned"}]
  /\ tile \in [Thread -> 0..tiles]
  /\ i \in [Thread -> 0..BlockDim]
  /\ shared_data \in [Thread -> Data]
  /\ total_force \in [Thread -> Seq(Particle \X Data)]

Init ==
  /\ pc = [th \in Thread |-> IF th \in Live THEN "load" ELSE "returned"]
  /\ tile = [th \in Thread |-> 0] /\ i = [th \in Thread |-> 0]
  /\ shared_data = [th \in Thread |-> Garbage]
  /\ total_force = [th \in Thread |-> <<>>]

(* A particle of the tile, or zeros beyond the last one.                       *)
Load(th) ==
  LET load_idx == tile[th] * BlockDim + th IN
  /\ pc[th] = "load"
  /\ shared_data' = [shared_data EXCEPT ![th] = IF load_idx < N THEN load_idx ELSE Zero]
  /\ pc' = [pc EXCEPT ![th] = "sync1"]
  /\ UNCHANGED <<tile, i, total_force>>

(* __syncthreads after the loads.                                             *)
AllAt(place) == Live # {} /\ \A th \in Live : pc[th] = place
Sync1 ==
  /\ AllAt("sync1")
  /\ pc' = [th \in Thread |-> IF th \in Live THEN "sum" ELSE pc[th]]
  /\ i' = [th \in Thread |-> 0]
  /\ UNCHANGED <<tile, shared_data, total_force>>

(* One particle of the tile: those beyond the last one and the thread's own     *)
(* are skipped.                                                                *)
Sum(th) ==
  LET particle_idx == tile[th] * BlockDim + i[th] IN
  /\ pc[th] = "sum" /\ i[th] < BlockDim
  /\ total_force' = [total_force EXCEPT ![th] =
                       IF particle_idx >= N \/ particle_idx = idx(th) THEN @
                       ELSE Append(@, <<particle_idx, shared_data[i[th]]>>)]
  /\ i' = [i EXCEPT ![th] = @ + 1]
  /\ UNCHANGED <<pc, tile, shared_data>>

TileSummed(th) ==
  /\ pc[th] = "sum" /\ i[th] = BlockDim
  /\ pc' = [pc EXCEPT ![th] = "sync2"]
  /\ UNCHANGED <<tile, i, shared_data, total_force>>

(* __syncthreads after the sums, and the head of the loop over the tiles.       *)
AllSummedNot == \E th \in Live : pc[th] = "sync2"  \* slip: no second barrier
AllSummed == AllAt("sync2")
NextTileOneMore(th) == IF tile[th] + 1 <= tiles THEN "load" ELSE "done"  \* slip
NextTile(th) == IF tile[th] + 1 < tiles THEN "load" ELSE "done"

Sync2 ==
  /\ AllSummed
  /\ LET leaving == {th \in Live : pc[th] = "sync2"} IN
     /\ pc' = [th \in Thread |-> IF th \in leaving THEN NextTile(th) ELSE pc[th]]
     /\ tile' = [th \in Thread |-> IF th \in leaving THEN tile[th] + 1 ELSE tile[th]]
  /\ UNCHANGED <<i, shared_data, total_force>>

Done == (\A th \in Live : pc[th] = "done") /\ UNCHANGED vars

Next == \/ \E th \in Thread : Load(th) \/ Sum(th) \/ TileSummed(th)
        \/ Sync1 \/ Sync2 \/ Done
Spec == Init /\ [][Next]_vars

-----------------------------------------------------------------------------
(* Properties.                                                               *)

(* A thread that leaves the loop has the force of every other particle in its   *)
(* sum, once, and from that particle's own data, at least of the particles whose *)
(* entries are loaded by threads that live.                                     *)
ForcesOfLoaded ==
  \A th \in Live : pc[th] = "done" =>
     /\ \A p \in Particle : Cardinality({k \in DOMAIN total_force[th] : total_force[th][k][1] = p})
                           = IF p = idx(th) THEN 0 ELSE 1
     /\ \A k \in DOMAIN total_force[th] :
          LET f == total_force[th][k] IN f[1] % BlockDim \in Live => f[2] = f[1]

(* While a thread adds up a tile, the entries of the threads that live hold      *)
(* that tile's particles: nobody runs ahead and loads the next one over them.   *)
TileInPlace ==
  \A th, other \in Live : pc[th] = "sum" =>
     shared_data[other] = IF tile[th] * BlockDim + other < N
                          THEN tile[th] * BlockDim + other ELSE Zero

(* What keeps them together (the inductive invariant of TileForcesProofs): the   *)
(* live threads are on one side of each barrier and in one tile, and an entry   *)
(* is loaded from its thread's load until the end of the tile.                  *)
Loading == {"load", "sync1"}
Summing == {"sum", "sync2"}
Loaded(th) == IF tile[th] * BlockDim + th < N THEN tile[th] * BlockDim + th ELSE Zero

Together ==
  \A th, other \in Live :
     /\ tile[th] = tile[other]
     /\ pc[th] \in Loading => pc[other] \in Loading
     /\ pc[th] \in Summing => pc[other] \in Summing
EntriesLoaded == \A th \in Live : pc[th] \in {"sync1"} \cup Summing => shared_data[th] = Loaded(th)
ControlOK == /\ pc \in [Thread -> {"load", "sync1", "sum", "sync2", "done", "returned"}]
             /\ tile \in [Thread -> Nat]
             /\ \A th \in Thread : pc[th] = "returned" <=> th \notin Live
             /\ shared_data \in [Thread -> Data]
TileInv == ControlOK /\ Together /\ EntriesLoaded

(* The particles a thread has dealt with are those below Reached; each other than  *)
(* its own is in the sum once, with its own data if that was loaded (SumInv is    *)
(* the inductive invariant of TileSumProofs).                                  *)
Reached(th) ==
  tile[th] * BlockDim + (IF pc[th] = "sum" THEN i[th] ELSE IF pc[th] = "sync2" THEN BlockDim ELSE 0)

Counted(th, f, n) ==
  /\ \A p \in Particle : p < n /\ p # idx(th) => \E k \in DOMAIN f : f[k][1] = p
  /\ \A k \in DOMAIN f : /\ f[k][1] < n /\ f[k][1] # idx(th)
                         /\ f[k][1] % BlockDim \in Live => f[k][2] = f[k][1]
  /\ \A k, l \in DOMAIN f : f[k][1] = f[l][1] => k = l

SumInv == /\ TypeOK
          /\ \A th \in Live : /\ tile[th] < tiles <=> pc[th] # "done"
                             /\ Counted(th, total_force[th], Reached(th))

(* The forces of the tile are those of all its particles, from the data loaded   *)
(* to shared memory (comments of lines 98 and 112).                             *)
ForcesComplete ==
  \A th \in Live : pc[th] = "done" =>
     /\ Len(total_force[th]) = N - 1
     /\ \A p \in Particle \ {idx(th)} : \E k \in DOMAIN total_force[th] :
          total_force[th][k] = <<p, p>>
=============================================================================
