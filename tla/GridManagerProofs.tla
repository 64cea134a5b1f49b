------------------------- MODULE GridManagerProofs -------------------------
(* Proofs about the cells of GridManager, for any number of workers: no two       *)
(* workers answer for the same part of the box, none for a part outside it, and   *)
(* all of them for the whole box exactly when their number is a cube.  The proofs *)
(* rest on one fact, that the workers' numbers in base Dim and the cells of a     *)
(* cube are in one-to-one correspondence (CellOfNumber, NumberOfCell).           *)
EXTENDS GridManager, WellFoundedInduction, TLAPS

-----------------------------------------------------------------------------
(* Division.                                                                  *)
LEMMA Divided ==
  ASSUME NEW a \in Nat, NEW b \in Nat \ {0}
  PROVE  /\ a \div b \in Nat /\ a % b \in Nat /\ a % b < b
         /\ a = (a \div b) * b + (a % b)
OBVIOUS

LEMMA DividedOnce ==
  ASSUME NEW q \in Nat, NEW b \in Nat \ {0}, NEW r \in Nat, r < b
  PROVE  (q * b + r) \div b = q /\ (q * b + r) % b = r
OBVIOUS

LEMMA Products ==
  ASSUME NEW a \in Nat, NEW b \in Nat
  PROVE  a * b \in Nat
OBVIOUS

LEMMA Smaller ==
  ASSUME NEW a \in Nat, NEW b \in Nat, NEW c \in Nat, a * c < b * c
  PROVE  a < b
OBVIOUS

LEMMA Larger ==
  ASSUME NEW a \in Nat, NEW b \in Nat, NEW c \in Nat, a < b
  PROVE  a * c + c <= b * c
OBVIOUS

-----------------------------------------------------------------------------
(* Cells.                                                                     *)
Number(c, d) == c.x * (d * d) + (c.y * d + c.z)

LEMMA CellOfNumber ==
  ASSUME NEW w \in Nat, NEW d \in Nat \ {0}, w < d * d * d
  PROVE  /\ Cell(w, d) \in [Axis -> 0..(d - 1)]
         /\ Number(Cell(w, d), d) = w
<1> DEFINE dd == d * d  x == w \div dd  r == w % dd  y == r \div d  z == r % d
<1>1. dd \in Nat \ {0} /\ dd * d = d * d * d
  OBVIOUS
<1>d. dd = d * d
  OBVIOUS
<1> HIDE DEF dd
<1>2. x \in Nat /\ r \in Nat /\ r < dd /\ w = x * dd + r
  BY <1>1, Divided
<1> HIDE DEF x, r
<1>3. y \in Nat /\ z \in Nat /\ z < d /\ r = y * d + z
  BY <1>2, Divided
<1> HIDE DEF y, z
<1>4. x < d
  <2>1. x * dd \in Nat /\ d * dd = dd * d
    BY <1>1, <1>2
  <2>2. x * dd < d * dd
    BY <1>1, <1>2, <2>1
  <2> QED
    BY <1>1, <1>2, <2>2, Smaller
<1>5. y < d
  <2>1. y * d \in Nat
    BY <1>3
  <2>2. y * d < d * d
    BY <1>2, <1>3, <1>d, <2>1
  <2> QED
    BY <1>3, <2>2, Smaller
<1>6. Cell(w, d) = [x |-> x, y |-> y, z |-> z]
  BY DEF Cell, x, y, z, r, dd
<1>7. Number(Cell(w, d), d) = x * dd + (y * d + z)
  BY <1>6, <1>d DEF Number
<1>8. Cell(w, d) \in [Axis -> 0..(d - 1)]
  BY <1>2, <1>3, <1>4, <1>5, <1>6 DEF Axis
<1> QED
  BY <1>2, <1>3, <1>7, <1>8

LEMMA NumberOfCell ==
  ASSUME NEW d \in Nat \ {0}, NEW c \in [Axis -> 0..(d - 1)]
  PROVE  /\ Number(c, d) \in Nat /\ Number(c, d) < d * d * d
         /\ \A a \in Axis : Cell(Number(c, d), d)[a] = c[a]
<1> DEFINE x == c.x  y == c.y  z == c.z  dd == d * d  r == y * d + z  w == x * dd + r
<1>1. x \in Nat /\ y \in Nat /\ z \in Nat /\ x < d /\ y < d /\ z < d
  BY DEF Axis
<1>2. dd \in Nat \ {0} /\ dd * d = d * d * d /\ d * dd = dd * d
  OBVIOUS
<1>d. dd = d * d
  OBVIOUS
<1> HIDE DEF x, y, z, dd
<1>3. r \in Nat /\ r < dd /\ r \div d = y /\ r % d = z
  <2>1. y * d \in Nat /\ y * d + d <= d * d
    BY <1>1, Larger
  <2>2. r \in Nat /\ r < dd
    BY <1>1, <1>d, <2>1
  <2>3. r \div d = y /\ r % d = z
    BY <1>1, DividedOnce
  <2> QED
    BY <2>2, <2>3
<1> HIDE DEF r
<1>4. w \in Nat /\ w < d * dd /\ w \div dd = x /\ w % dd = r
  <2>1. x * dd \in Nat /\ x * dd + dd <= d * dd /\ d * dd \in Nat
    BY <1>1, <1>2, Larger
  <2>2. w \in Nat /\ w < d * dd
    BY <1>2, <1>3, <2>1
  <2>3. w \div dd = x /\ w % dd = r
    BY <1>1, <1>2, <1>3, DividedOnce
  <2> QED
    BY <2>2, <2>3
<1> HIDE DEF w
<1>5. Number(c, d) = w
  BY DEF Number, w, r, x, y, z, dd
<1>6. Cell(w, d) = [x |-> x, y |-> y, z |-> z]
  BY <1>3, <1>4, <1>d DEF Cell
<1>7. \A a \in Axis : Cell(w, d)[a] = c[a]
  BY <1>6 DEF Axis, x, y, z
<1> QED
  BY <1>2, <1>4, <1>5, <1>7

(* A non-empty set of naturals has a least element.                            *)
LEMMA LeastNat ==
  ASSUME NEW T, T \subseteq Nat, T # {}
  PROVE  \E x \in T : \A y \in T : x <= y
<1> DEFINE R == OpToRel(<, Nat)
<1>1. \E x \in T : \A y \in T : ~(<<y, x>> \in R)
  BY NatLessThanWellFounded, WFMin
<1>2. \A x, y \in Nat : y < x => <<y, x>> \in R
  BY DEF OpToRel
<1> HIDE DEF R
<1>3. PICK x \in T : \A y \in T : ~(<<y, x>> \in R)
  BY <1>1
<1>4. \A y \in T : x <= y
  <2>1. ASSUME NEW y \in T PROVE x <= y
    <3>1. x \in Nat /\ y \in Nat /\ ~(y < x)
      BY <1>2, <1>3, <2>1
    <3> QED
      BY <3>1
  <2> QED
    BY <2>1
<1> QED
  BY <1>4

-----------------------------------------------------------------------------
(* The dimensions.                                                           *)
LEMMA Cubes ==
  ASSUME NEW a \in Nat, NEW b \in Nat, a < b
  PROVE  /\ a * a * a \in Nat /\ b * b * b \in Nat
         /\ a * a * a < b * b * b
<1>1. a * a \in Nat /\ b * b \in Nat /\ a * a * a \in Nat /\ b * b * b \in Nat
  OBVIOUS
<1>2. a * a + a <= b * a /\ b * a + b <= b * b
  <2>1. a * b + b <= b * b /\ a * a + a <= b * a
    BY Larger
  <2> QED
    BY <2>1
<1>3. a * a < b * b
  <2>1. b * a \in Nat
    OBVIOUS
  <2> QED
    BY <1>1, <1>2, <2>1
<1>4. a * a * a <= (b * b) * a /\ (b * b) * a < (b * b) * b
  OBVIOUS
<1> QED
  BY <1>1, <1>4

LEMMA DimIsLeast ==
  ASSUME NEW n \in Nat \ {0}
  PROVE  /\ Dim(n) \in 1..n /\ n <= Dim(n) * Dim(n) * Dim(n)
         /\ \A e \in 1..(Dim(n) - 1) : e * e * e < n
<1> DEFINE T == {d \in 1..n : n <= d * d * d}
<1>1. n <= n * n * n
  <2>1. n * n \in Nat /\ n <= n * n
    OBVIOUS
  <2>2. n * n <= n * n * n
    BY <2>1
  <2> QED
    BY <2>1, <2>2
<1>2. n \in T /\ T \subseteq Nat
  BY <1>1
<1>3. PICK d \in T : \A e \in T : d <= e
  BY <1>2, LeastNat
<1>4. \A e \in 1..(d - 1) : e * e * e < n
  <2> SUFFICES ASSUME NEW e \in 1..(d - 1), ~(e * e * e < n) PROVE FALSE
    OBVIOUS
  <2>1. e \in Nat /\ e < d /\ e \in 1..n
    BY <1>3
  <2>2. e * e * e \in Nat
    BY <2>1
  <2>3. e \in T
    BY <2>1, <2>2
  <2> QED
    BY <1>3, <2>1, <2>3
<1>5. d \in 1..n /\ n <= d * d * d /\ \A e \in 1..(d - 1) : e * e * e < n
  BY <1>3, <1>4
<1> QED
  BY <1>5 DEF Dim

LEMMA DimOfCube ==
  ASSUME NEW n \in Nat \ {0}, IsCube(n)
  PROVE  n = Dim(n) * Dim(n) * Dim(n)
<1> DEFINE D == Dim(n)
<1>1. PICK d \in 1..n : d * d * d = n
  BY DEF IsCube
<1>2. D \in 1..n /\ n <= D * D * D /\ \A e \in 1..(D - 1) : e * e * e < n
  BY DimIsLeast
<1> HIDE DEF D
<1>3. ~(d < D)
  <2> SUFFICES ASSUME d < D PROVE FALSE
    OBVIOUS
  <2>1. d \in 1..(D - 1)
    BY <1>2
  <2> QED
    BY <1>1, <1>2, <2>1
<1>4. ~(D < d)
  <2> SUFFICES ASSUME D < d PROVE FALSE
    OBVIOUS
  <2>1. D * D * D \in Nat /\ D * D * D < d * d * d
    BY <1>2, Cubes
  <2> QED
    BY <1>1, <1>2, <2>1
<1>5. D = d
  BY <1>2, <1>3, <1>4
<1> QED
  BY <1>1, <1>5 DEF D

-----------------------------------------------------------------------------
(* The loop.                                                                  *)
LEMMA GridInit == Init => GridInv
<1> SUFFICES ASSUME Init PROVE GridInv
  OBVIOUS
<1>1. 0..(0 - 1) = {}
  OBVIOUS
<1>2. bounds = [w \in 0..(0 - 1) |-> CellBounds(w, Dim(num_workers))]
  BY <1>1 DEF Init
<1> QED
  BY <1>2, WorkersAssumption DEF Init, GridInv

LEMMA GridNext == GridInv /\ [Next]_vars => GridInv'
<1> SUFFICES ASSUME GridInv, [Next]_vars PROVE GridInv'
  OBVIOUS
<1>1. CASE BoundOne
  <2>1. /\ num_workers' = num_workers /\ worker_id' = worker_id + 1 /\ worker_id < num_workers
        /\ bounds' = [w \in 0..worker_id |->
                        IF w = worker_id THEN CellBounds(w, Dim(num_workers)) ELSE bounds[w]]
    BY <1>1 DEF BoundOne
  <2>2. num_workers \in Nat /\ worker_id \in Nat /\ worker_id' - 1 = worker_id
    BY <2>1, WorkersAssumption DEF GridInv
  <2>3. bounds' = [w \in 0..worker_id |-> CellBounds(w, Dim(num_workers))]
    <3>1. \A w \in 0..worker_id : w # worker_id => bounds[w] = CellBounds(w, Dim(num_workers))
      BY <2>2 DEF GridInv
    <3> QED
      BY <2>1, <3>1
  <2>4. Dim(num_workers)' = Dim(num_workers) /\ \A w, d : CellBounds(w, d)' = CellBounds(w, d)
    BY <2>1 DEF Dim, CellBounds
  <2> QED
    BY <2>1, <2>2, <2>3, <2>4, WorkersAssumption DEF GridInv
<1>2. CASE Done \/ UNCHANGED vars
  BY <1>2 DEF Done, vars, GridInv
<1> QED
  BY <1>1, <1>2 DEF Next

LEMMA GridInvHolds == Spec => []GridInv
BY GridInit, GridNext, PTL DEF Spec

(* What the invariant says of one worker: its number is its cell's, and the cell is *)
(* one of the box.                                                             *)
LEMMA WorkersCell ==
  ASSUME GridInv, NEW w \in DOMAIN bounds
  PROVE  LET d == Dim(num_workers) IN
         /\ w \in Nat /\ w < num_workers /\ d \in Nat \ {0}
         /\ Cell(w, d) \in [Axis -> 0..(d - 1)] /\ Number(Cell(w, d), d) = w
         /\ \A a \in Axis : bounds[w][a] = [lo |-> Cell(w, d)[a], hi |-> Cell(w, d)[a] + 1]
         /\ \A a \in Axis : bounds[w][a].lo = Cell(w, d)[a] /\ bounds[w][a].hi = Cell(w, d)[a] + 1
<1> DEFINE d == Dim(num_workers)
<1>1. num_workers \in Nat \ {0} /\ worker_id \in Nat /\ worker_id <= num_workers
  BY WorkersAssumption DEF GridInv
<1>2. w \in Nat /\ w < num_workers /\ bounds[w] = CellBounds(w, d)
  BY <1>1 DEF GridInv
<1>3. d \in Nat \ {0} /\ num_workers <= d * d * d
  BY <1>1, DimIsLeast
<1> HIDE DEF d
<1>4. w < d * d * d
  <2>1. d * d * d \in Nat
    BY <1>3
  <2> QED
    BY <1>1, <1>2, <1>3, <2>1
<1>5. \A a \in Axis : bounds[w][a] = [lo |-> Cell(w, d)[a], hi |-> Cell(w, d)[a] + 1]
  BY <1>2 DEF CellBounds
<1>6. ASSUME NEW a \in Axis
      PROVE  bounds[w][a].lo = Cell(w, d)[a] /\ bounds[w][a].hi = Cell(w, d)[a] + 1
  <2>1. bounds[w][a] = [lo |-> Cell(w, d)[a], hi |-> Cell(w, d)[a] + 1]
    BY <1>5
  <2> QED
    BY <2>1
<1>7. Cell(w, d) \in [Axis -> 0..(d - 1)] /\ Number(Cell(w, d), d) = w
  BY <1>2, <1>3, <1>4, CellOfNumber
<1> QED
  BY <1>2, <1>3, <1>5, <1>6, <1>7 DEF d

(* Type correctness of the grid, for any number of workers.                     *)
THEOREM GridTyped == Spec => []TypeOK
<1>1. ASSUME GridInv PROVE TypeOK
  <2>1. num_workers \in 1..MaxWorkers /\ worker_id \in 0..num_workers /\ DOMAIN bounds = 0..(worker_id - 1)
    BY <1>1 DEF GridInv
  <2>2. ASSUME NEW w \in DOMAIN bounds, NEW a \in Axis PROVE bounds[w][a] \in [lo : Nat, hi : Nat]
    <3> DEFINE d == Dim(num_workers)  c == Cell(w, d)
    <3>1. d \in Nat /\ c \in [Axis -> 0..(d - 1)] /\ bounds[w][a] = [lo |-> c[a], hi |-> c[a] + 1]
      BY <1>1, WorkersCell
    <3> HIDE DEF d, c
    <3>2. c[a] \in Nat /\ c[a] + 1 \in Nat
      BY <3>1
    <3> QED
      BY <3>1, <3>2
  <2> QED
    BY <2>1, <2>2 DEF TypeOK
<1> QED
  BY <1>1, GridInvHolds, PTL

(* No two workers answer for the same part of the box and none for a part outside  *)
(* it (_calculate_worker_bounds, lines 44-77), for any number of workers.        *)
THEOREM GridDisjoint == Spec => []Disjoint
<1>1. ASSUME GridInv PROVE Disjoint
  <2> DEFINE d == Dim(num_workers)
  <2>1. ASSUME NEW v \in DOMAIN bounds, NEW w \in DOMAIN bounds, v # w
        PROVE  \E a \in Axis : bounds[v][a].hi <= bounds[w][a].lo \/ bounds[w][a].hi <= bounds[v][a].lo
    <3> DEFINE b == Cell(v, d)  c == Cell(w, d)
    <3>1. /\ b \in [Axis -> 0..(d - 1)] /\ Number(b, d) = v /\ d \in Nat
          /\ \A a \in Axis : bounds[v][a].lo = b[a] /\ bounds[v][a].hi = b[a] + 1
      BY <1>1, WorkersCell
    <3>2. /\ c \in [Axis -> 0..(d - 1)] /\ Number(c, d) = w
          /\ \A a \in Axis : bounds[w][a].lo = c[a] /\ bounds[w][a].hi = c[a] + 1
      BY <1>1, WorkersCell
    <3> HIDE DEF b, c, d
    <3>3. b # c
      BY <2>1, <3>1, <3>2
    <3>4. PICK a \in Axis : b[a] # c[a]
      BY <3>1, <3>2, <3>3
    <3>5. b[a] \in Nat /\ c[a] \in Nat
      BY <3>1, <3>2
    <3>6. /\ bounds[v][a].lo = b[a] /\ bounds[v][a].hi = b[a] + 1
          /\ bounds[w][a].lo = c[a] /\ bounds[w][a].hi = c[a] + 1
      BY <3>1, <3>2
    <3> QED
      BY <3>4, <3>5, <3>6
  <2>2. ASSUME NEW w \in DOMAIN bounds, NEW a \in Axis
        PROVE  0 <= bounds[w][a].lo /\ bounds[w][a].hi <= d
    <3> DEFINE c == Cell(w, d)
    <3>1. d \in Nat /\ c \in [Axis -> 0..(d - 1)] /\ bounds[w][a].lo = c[a] /\ bounds[w][a].hi = c[a] + 1
      BY <1>1, WorkersCell
    <3> HIDE DEF d, c
    <3>2. c[a] \in 0..(d - 1)
      BY <3>1
    <3> QED
      BY <3>1, <3>2
  <2> QED
    BY <2>1, <2>2 DEF Disjoint
<1> QED
  BY <1>1, GridInvHolds, PTL

(* The workers cover the box exactly when their number is a cube                 *)
(* (_optimize_grid_dimensions, lines 19-42), whatever that number is.            *)
THEOREM GridCovered == Spec => []CoveredIffCube
<1>1. ASSUME GridInv PROVE CoveredIffCube
  <2> SUFFICES ASSUME worker_id = num_workers
               PROVE  IsCube(num_workers) <=> \A cell \in CellsOf(num_workers) :
                                                 \E w \in DOMAIN bounds : Inside(cell, bounds[w])
    BY DEF CoveredIffCube
  <2> DEFINE n == num_workers  d == Dim(n)
  <2>1. n \in Nat \ {0} /\ DOMAIN bounds = 0..(n - 1)
    BY <1>1, WorkersAssumption DEF GridInv
  <2>2. d \in 1..n /\ n <= d * d * d /\ d * d * d \in Nat /\ d \in Nat \ {0}
    <3>1. d \in 1..n /\ n <= d * d * d
      BY <2>1, DimIsLeast
    <3> QED
      BY <2>1, <3>1
  <2>3. ASSUME IsCube(n), NEW cell \in CellsOf(n)
        PROVE  \E w \in DOMAIN bounds : Inside(cell, bounds[w])
    <3> DEFINE w == Number(cell, d)
    <3>1. cell \in [Axis -> 0..(d - 1)]
      BY <2>3 DEF CellsOf
    <3>2. n = d * d * d
      BY <2>1, <2>3, DimOfCube
    <3>3. w \in Nat /\ w < d * d * d /\ \A a \in Axis : Cell(w, d)[a] = cell[a]
      BY <2>2, <3>1, NumberOfCell
    <3>4. w \in DOMAIN bounds
      BY <2>1, <3>2, <3>3
    <3>5. \A a \in Axis : bounds[w][a].lo = Cell(w, d)[a] /\ bounds[w][a].hi = Cell(w, d)[a] + 1
      BY <1>1, <3>4, WorkersCell
    <3>6. \A a \in Axis : cell[a] \in Nat
      BY <2>2, <3>1
    <3> HIDE DEF w, d
    <3>7. Inside(cell, bounds[w])
      BY <3>3, <3>5, <3>6 DEF Inside
    <3> QED
      BY <3>4, <3>7
  <2>4. ASSUME \A cell \in CellsOf(n) : \E w \in DOMAIN bounds : Inside(cell, bounds[w])
        PROVE  IsCube(n)
    <3> DEFINE last == [a \in Axis |-> d - 1]
    <3>1. last \in CellsOf(n)
      BY <2>2 DEF CellsOf
    <3>2. PICK w \in DOMAIN bounds : Inside(last, bounds[w])
      BY <2>4, <3>1
    <3> DEFINE c == Cell(w, d)
    <3>3. /\ w \in Nat /\ w < n /\ c \in [Axis -> 0..(d - 1)] /\ Number(c, d) = w
          /\ \A a \in Axis : bounds[w][a].lo = c[a] /\ bounds[w][a].hi = c[a] + 1
      BY <1>1, WorkersCell
    <3> HIDE DEF c, d
    <3>4. \A a \in Axis : c[a] = d - 1
      <4> SUFFICES ASSUME NEW a \in Axis PROVE c[a] = d - 1
        OBVIOUS
      <4>1. bounds[w][a].lo = c[a] /\ bounds[w][a].hi = c[a] + 1 /\ last[a] = d - 1
        BY <3>3
      <4>2. c[a] \in Nat /\ c[a] <= d - 1 /\ d - 1 < c[a] + 1
        BY <2>2, <3>2, <3>3, <4>1 DEF Inside
      <4> QED
        BY <2>2, <4>2
    <3>5. w = (d - 1) * (d * d) + ((d - 1) * d + (d - 1))
      BY <3>3, <3>4 DEF Number, Axis
    <3>6. w = d * d * d - 1
      BY <2>2, <3>5
    <3>7. n = d * d * d
      BY <2>1, <2>2, <3>3, <3>6
    <3> QED
      BY <2>2, <3>7 DEF IsCube
  <2> QED
    BY <2>3, <2>4
<1> QED
  BY <1>1, GridInvHolds, PTL

=============================================================================
