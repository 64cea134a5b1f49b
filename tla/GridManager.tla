---------------------------- MODULE GridManager ----------------------------
(* GridManager of src/scripts/grid_manager.py: the box is cut into equal cells *)
(* and each worker is given the cell of its number.  Lengths are counted in     *)
(* cells: the box spans 0..Dim(n) on every axis, and the interval (lo, hi) of   *)
(* bounds is [lo |-> lo, hi |-> hi].  The cube root is a float in the code; it  *)
(* is rounded up, so it is the least integer whose cube is not below n (exact    *)
(* for every n up to the bound, as 1/3 in floating point is below one third).    *)
EXTENDS Integers, FiniteSets

CONSTANT MaxWorkers          \* bound of the model on num_workers

ASSUME WorkersAssumption == MaxWorkers \in Nat \ {0}

VARIABLES num_workers,
          worker_id,         \* the loop variable of _calculate_worker_bounds
          bounds             \* worker -> its interval on each axis

vars == <<num_workers, worker_id, bounds>>

Axis == {"x", "y", "z"}

(* _optimize_grid_dimensions.  Its while loop never runs: the first guess is    *)
(* already large enough on each axis.                                           *)
DimRoundedDown(n) == CHOOSE d \in 1..n : d * d * d <= n /\ n < (d + 1) * (d + 1) * (d + 1)  \* slip
Dim(n) == CHOOSE d \in 1..n : n <= d * d * d /\ \A e \in 1..(d - 1) : e * e * e < n

(* The cell of a worker: its number in base Dim, most significant digit first.  *)
CellSkewed(w, d) == [x |-> w \div (d * d), y |-> (w % d) \div d, z |-> w % d]  \* slip
CellOneBased(w, d) ==                            \* slip: the workers are numbered from 1
  [x |-> (w - 1) \div (d * d), y |-> ((w - 1) % (d * d)) \div d, z |-> ((w - 1) % (d * d)) % d]
Cell(w, d) == [x |-> w \div (d * d), y |-> (w % (d * d)) \div d, z |-> (w % (d * d)) % d]

CellBounds(w, d) == [a \in Axis |-> [lo |-> Cell(w, d)[a], hi |-> Cell(w, d)[a] + 1]]

Init == /\ num_workers \in 1..MaxWorkers
        /\ worker_id = 0
        /\ bounds = [w \in {} |-> {}]

(* One iteration of the loop; a single worker gets the whole box, which is what *)
(* the loop would give it.                                                      *)
BoundOne ==
  /\ worker_id < num_workers
  /\ bounds' = [w \in 0..worker_id |->
                  IF w = worker_id THEN CellBounds(w, Dim(num_workers)) ELSE bounds[w]]
  /\ worker_id' = worker_id + 1
  /\ UNCHANGED num_workers

Done == worker_id = num_workers /\ UNCHANGED vars

Next == BoundOne \/ Done
Spec == Init /\ [][Next]_vars

-----------------------------------------------------------------------------
CellsOf(n) == [Axis -> 0..(Dim(n) - 1)]
Inside(cell, b) == \A a \in Axis : b[a].lo <= cell[a] /\ cell[a] < b[a].hi

TypeOK == /\ num_workers \in 1..MaxWorkers
          /\ worker_id \in 0..num_workers
          /\ DOMAIN bounds = 0..(worker_id - 1)
          /\ \A w \in DOMAIN bounds : \A a \in Axis : bounds[w][a] \in [lo : Nat, hi : Nat]

(* No two workers answer for the same part of the box, and none for a part      *)
(* outside it (lines 60-77).                                                    *)
Disjoint ==
  /\ \A v, w \in DOMAIN bounds : v # w =>
        \E a \in Axis : bounds[v][a].hi <= bounds[w][a].lo \/ bounds[w][a].hi <= bounds[v][a].lo
  /\ \A w \in DOMAIN bounds, a \in Axis :
        0 <= bounds[w][a].lo /\ bounds[w][a].hi <= Dim(num_workers)

(* Together the workers answer for the whole box exactly when their number is   *)
(* a cube: otherwise part of the box belongs to nobody, and the particles there *)
(* are in no worker's answer (the assumption of Orchestrator on Place).         *)
IsCube(n) == \E d \in 1..n : d * d * d = n
CoveredIffCube ==
  worker_id = num_workers =>
    (IsCube(num_workers) <=> \A cell \in CellsOf(num_workers) :
                                \E w \in DOMAIN bounds : Inside(cell, bounds[w]))

(* What GridManagerProofs shows to be inductive: each worker so far has its cell.   *)
GridInv == /\ num_workers \in 1..MaxWorkers /\ worker_id \in 0..num_workers
           /\ bounds = [w \in 0..(worker_id - 1) |-> CellBounds(w, Dim(num_workers))]
=============================================================================
