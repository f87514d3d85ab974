-------------------------- MODULE VectorUpdate_proofs --------------------------
(***************************************************************************)
(* Proofs about VectorUpdate: the division of the user's grid among the     *)
(* ranks, the agreement of the two ends of every message, the safety of     *)
(* computing while messages travel, and the ghost cells after an update.    *)
(***************************************************************************)
EXTENDS VectorUpdate, FiniteSetTheorems, WellFoundedInduction, TLAPS

\* Every non-empty set of natural numbers has a least element.
LEMMA SmallestNumber ==
  ASSUME NEW S, S \subseteq Nat, S # {}
  PROVE  \E x \in S : \A y \in S : x <= y
<1> DEFINE R == OpToRel(<, Nat)
<1>1. IsWellFoundedOn(R, Nat)
  BY NatLessThanWellFounded
<1>2. \A x, y \in S : y < x => <<y, x>> \in R
  BY DEF OpToRel
<1> HIDE DEF R
<1>3. PICK x \in S : \A y \in S : ~(<<y, x>> \in R)
  BY <1>1, WFMin
<1>4. \A y \in S : ~(y < x)
  BY <1>2, <1>3
<1> QED
  BY <1>4

\* Multiples keep the order of the numbers they are multiples of.
LEMMA Multiples ==
  ASSUME NEW x \in Nat, NEW y \in Nat, NEW m \in Nat, x <= y
  PROVE  x * m \in Nat /\ y * m \in Nat /\ x * m <= y * m
<1>1. PICK e \in Nat : y = x + e
  <2>1. y - x \in Nat /\ y = x + (y - x)
    OBVIOUS
  <2> QED
    BY <2>1
<1>2. x * m \in Nat /\ e * m \in Nat
  OBVIOUS
<1>3. (x + e) * m = x * m + e * m
  OBVIOUS
<1> QED
  BY <1>1, <1>2, <1>3

\* A number in base m has one last digit and one number before it.
LEMMA OneDigit ==
  ASSUME NEW m \in Nat \ {0}, NEW x \in Nat, NEW y \in Nat,
         NEW c \in 0..(m - 1), NEW d \in 0..(m - 1), x * m + c = y * m + d
  PROVE  x = y /\ c = d
<1>1. \A u, v \in Nat : u < v => u * m + m <= v * m /\ u * m \in Nat /\ v * m \in Nat
  <2> TAKE u, v \in Nat
  <2> HAVE u < v
  <2>1. (u + 1) * m <= v * m /\ v * m \in Nat
    BY Multiples
  <2>2. (u + 1) * m = u * m + m /\ u * m \in Nat
    OBVIOUS
  <2> QED
    BY <2>1, <2>2
<1>2. x * m \in Nat /\ y * m \in Nat
  OBVIOUS
<1> DEFINE X == x * m
           Y == y * m
<1>3. ~(x < y)
  <2> SUFFICES ASSUME x < y PROVE FALSE
    OBVIOUS
  <2>1. X + m <= Y /\ X \in Nat /\ Y \in Nat /\ X + c = Y + d
    BY <1>1, <1>2
  <2> HIDE DEF X, Y
  <2> QED
    BY <2>1
<1>4. ~(y < x)
  <2> SUFFICES ASSUME y < x PROVE FALSE
    OBVIOUS
  <2>1. Y + m <= X /\ X \in Nat /\ Y \in Nat /\ X + c = Y + d
    BY <1>1, <1>2
  <2> HIDE DEF X, Y
  <2> QED
    BY <2>1
<1>5. x = y
  BY <1>3, <1>4
<1>6. X = Y /\ X \in Nat /\ X + c = Y + d
  BY <1>2, <1>5
<1> HIDE DEF X, Y
<1> QED
  BY <1>5, <1>6

\* Quotient and remainder of a number.
LEMMA Digits ==
  ASSUME NEW m \in Nat \ {0}, NEW x \in Nat
  PROVE  /\ x \div m \in Nat /\ x % m \in 0..(m - 1)
         /\ x = (x \div m) * m + (x % m)
<1>1. x \div m \in Int /\ x % m \in Nat /\ x % m < m
  OBVIOUS
<1>2. x = (x \div m) * m + (x % m)
  OBVIOUS
<1>3. x \div m >= 0
  OBVIOUS
<1> QED
  BY <1>1, <1>2, <1>3

-----------------------------------------------------------------------------
(* One axis: n cells divided among t processes.                             *)

Lo(n, t, k) == pqr_to_xyz(k, n \div t, n % t)
Size(n, t, k) == pqr_to_nxyz(k, n \div t, n % t)

\* pqr_to_xyz and pqr_to_nxyz: each block begins where the one before it ends.
LEMMA BlocksInRow ==
  ASSUME NEW n \in Nat, NEW t \in Nat \ {0}
  PROVE  /\ \A k \in Nat : /\ Lo(n, t, k) \in Nat
                           /\ Size(n, t, k) \in Nat
                           /\ Lo(n, t, k + 1) = Lo(n, t, k) + Size(n, t, k)
         /\ Lo(n, t, 0) = 0
         /\ Lo(n, t, t) = n
         /\ \A j, k \in Nat : j <= k => Lo(n, t, j) <= Lo(n, t, k)
<1> DEFINE m == n \div t
           l == n % t
<1>1. m \in Nat /\ l \in 0..(t - 1) /\ n = m * t + l
  BY Digits
<1>2. \A k \in Nat : /\ Lo(n, t, k) = k * m + Least(k, l)
                     /\ Size(n, t, k) = IF k < l THEN m + 1 ELSE m
  BY DEF Lo, Size, pqr_to_xyz, pqr_to_nxyz
<1> HIDE DEF m, l
<1>3. \A k \in Nat : k * m \in Nat /\ (k + 1) * m = k * m + m
  BY <1>1
<1>4. \A k \in Nat : /\ Lo(n, t, k) \in Nat
                     /\ Size(n, t, k) \in Nat
                     /\ Lo(n, t, k + 1) = Lo(n, t, k) + Size(n, t, k)
  <2> TAKE k \in Nat
  <2> DEFINE K == k * m
  <2>1. /\ Lo(n, t, k) = K + Least(k, l) /\ Lo(n, t, k + 1) = K + m + Least(k + 1, l)
        /\ Size(n, t, k) = (IF k < l THEN m + 1 ELSE m) /\ K \in Nat
    BY <1>2, <1>3
  <2> HIDE DEF K
  <2> QED
    BY <2>1, <1>1 DEF Least
<1>5. Lo(n, t, 0) = 0
  <2>1. 0 * m = 0
    BY <1>1
  <2> QED
    BY <1>1, <1>2, <2>1 DEF Least
<1>6. Lo(n, t, t) = n
  <2>1. t * m = m * t
    BY <1>1
  <2> QED
    BY <1>1, <1>2, <2>1 DEF Least
<1>7. ASSUME NEW j \in Nat, NEW k \in Nat, j <= k
      PROVE  Lo(n, t, j) <= Lo(n, t, k)
  <2> DEFINE J == j * m
             K == k * m
  <2>1. J \in Nat /\ K \in Nat /\ J <= K
    BY <1>1, <1>7, Multiples
  <2>2. Lo(n, t, j) = J + Least(j, l) /\ Lo(n, t, k) = K + Least(k, l)
    BY <1>2
  <2> HIDE DEF J, K
  <2> QED
    BY <1>1, <1>7, <2>1, <2>2 DEF Least
<1> QED
  BY <1>4, <1>5, <1>6, <1>7

\* Every cell of the axis is in the block of one process, and in no other.
LEMMA BlocksDivideAxis ==
  ASSUME NEW n \in Nat, NEW t \in Nat \ {0}
  PROVE  /\ \A x \in 0..(n - 1) : \E k \in 0..(t - 1) :
              x \in Lo(n, t, k)..(Lo(n, t, k) + Size(n, t, k) - 1)
         /\ \A k \in 0..(t - 1) :
              Lo(n, t, k)..(Lo(n, t, k) + Size(n, t, k) - 1) \subseteq 0..(n - 1)
         /\ \A j, k \in 0..(t - 1), x \in Int :
              (/\ x \in Lo(n, t, j)..(Lo(n, t, j) + Size(n, t, j) - 1)
               /\ x \in Lo(n, t, k)..(Lo(n, t, k) + Size(n, t, k) - 1)) => j = k
<1> DEFINE lo(k) == Lo(n, t, k)
<1>1. /\ \A k \in Nat : /\ lo(k) \in Nat /\ Size(n, t, k) \in Nat
                        /\ lo(k + 1) = lo(k) + Size(n, t, k)
      /\ lo(0) = 0 /\ lo(t) = n
      /\ \A j, k \in Nat : j <= k => lo(j) <= lo(k)
  BY BlocksInRow
<1> HIDE DEF lo
<1>2. \A k \in 0..(t - 1), x \in Int :
        x \in Lo(n, t, k)..(Lo(n, t, k) + Size(n, t, k) - 1) <=> lo(k) <= x /\ x < lo(k + 1)
  <2> TAKE k \in 0..(t - 1), x \in Int
  <2>1. Lo(n, t, k) = lo(k) /\ k \in Nat
    BY DEF lo
  <2>2. /\ lo(k) \in Nat /\ Size(n, t, k) \in Nat
        /\ lo(k + 1) = lo(k) + Size(n, t, k)
    BY <1>1, <2>1
  <2> QED
    BY <2>1, <2>2
<1>3. ASSUME NEW x \in 0..(n - 1)
      PROVE  \E k \in 0..(t - 1) : x \in Lo(n, t, k)..(Lo(n, t, k) + Size(n, t, k) - 1)
  <2> DEFINE S == {k \in 0..(t - 1) : x < lo(k + 1)}
  <2>1. t - 1 \in S
    BY <1>1
  <2>2. S \subseteq Nat
    OBVIOUS
  <2> HIDE DEF S
  <2>3. PICK k \in S : \A j \in S : k <= j
    BY <2>1, <2>2, SmallestNumber
  <2> USE DEF S
  <2>4. lo(k) <= x
    <3>1. CASE k = 0
      BY <1>1, <3>1
    <3>2. CASE k > 0
      <4>1. k - 1 \in 0..(t - 1) /\ k - 1 \notin S /\ k - 1 + 1 = k
        BY <2>3, <3>2
      <4>2. ~(x < lo(k))
        BY <4>1
      <4> QED
        BY <1>1, <4>2
    <3> QED
      BY <3>1, <3>2
  <2> QED
    BY <1>2, <2>3, <2>4
<1>4. ASSUME NEW k \in 0..(t - 1), NEW x \in Int, lo(k) <= x, x < lo(k + 1)
      PROVE  x \in 0..(n - 1)
  <2>1. k \in Nat /\ k + 1 \in Nat /\ t \in Nat /\ k + 1 <= t
    OBVIOUS
  <2>2. lo(k + 1) <= lo(t) /\ lo(k) \in Nat /\ lo(k + 1) \in Nat
    BY <1>1, <2>1
  <2> QED
    BY <1>1, <1>4, <2>2
<1>5. ASSUME NEW j \in 0..(t - 1), NEW k \in 0..(t - 1), NEW x \in Int,
             lo(j) <= x, x < lo(j + 1), lo(k) <= x, x < lo(k + 1)
      PROVE  j = k
  <2>0. j \in Nat /\ k \in Nat /\ j + 1 \in Nat /\ k + 1 \in Nat
    OBVIOUS
  <2>1. j < k => lo(j + 1) <= lo(k)
    BY <1>1, <2>0
  <2>2. k < j => lo(k + 1) <= lo(j)
    BY <1>1, <2>0
  <2>3. lo(j) \in Nat /\ lo(k) \in Nat /\ lo(j + 1) \in Nat /\ lo(k + 1) \in Nat
    BY <1>1, <2>0
  <2> QED
    BY <1>5, <2>0, <2>1, <2>2, <2>3
<1>6. \A k \in 0..(t - 1) : Lo(n, t, k)..(Lo(n, t, k) + Size(n, t, k) - 1) \subseteq 0..(n - 1)
  <2> TAKE k \in 0..(t - 1)
  <2>1. Lo(n, t, k) \in Nat /\ Size(n, t, k) \in Nat
    BY BlocksInRow
  <2> QED
    BY <1>2, <1>4, <2>1
<1> QED
  BY <1>2, <1>3, <1>5, <1>6

-----------------------------------------------------------------------------
(* The process grid.                                                        *)

Grids == [Axis -> Nat \ {0}]

LEMMA AxesOfGrid ==
  ASSUME NEW t \in Grids
  PROVE  /\ t[1] \in Nat \ {0} /\ t[2] \in Nat \ {0} /\ t[3] \in Nat \ {0}
         /\ t[1] * t[2] \in Nat \ {0} /\ Volume(t) \in Nat \ {0}
<1>1. t[1] \in Nat \ {0} /\ t[2] \in Nat \ {0} /\ t[3] \in Nat \ {0}
  BY DEF Grids, Axis
<1>2. \A x, y \in Nat \ {0} : x * y \in Nat \ {0}
  OBVIOUS
<1> QED
  BY <1>1, <1>2 DEF Volume

\* pqr_to_process: the processes of a topology are numbered without a gap.
LEMMA ProcessHasPlace ==
  ASSUME NEW t \in Grids, NEW rank \in 0..(Volume(t) - 1)
  PROVE  \E p \in 0..(t[1] - 1), q \in 0..(t[2] - 1), r \in 0..(t[3] - 1) :
           pqr_to_process(p, q, r, t) = rank
<1> DEFINE P == t[1]
           Q == t[2]
           R == t[3]
           y == rank \div P
           p == rank % P
           r == y \div Q
           q == y % Q
<1>1. P \in Nat \ {0} /\ Q \in Nat \ {0} /\ R \in Nat \ {0} /\ Volume(t) \in Nat
  BY AxesOfGrid
<1>2. rank \in Nat /\ rank < Volume(t)
  BY <1>1
<1> DEFINE V == Q * R
<1>3. Volume(t) = V * P /\ V \in Nat /\ Q * R = R * Q
  BY <1>1 DEF Volume
<1> HIDE DEF P, Q, R, V
<1>4. y \in Nat /\ p \in 0..(P - 1) /\ rank = y * P + p
  BY <1>1, <1>2, Digits
<1> HIDE DEF y, p
<1>5. r \in Nat /\ q \in 0..(Q - 1) /\ y = r * Q + q
  BY <1>1, <1>4, Digits
<1> HIDE DEF r, q
<1>6. y < V
  <2> SUFFICES ASSUME V <= y PROVE FALSE
    BY <1>3, <1>4
  <2> DEFINE Y == y * P
             W == V * P
  <2>1. W <= Y /\ W \in Nat /\ Y \in Nat
    BY <1>1, <1>3, <1>4, Multiples
  <2>2. rank = Y + p /\ rank < W
    BY <1>2, <1>3, <1>4
  <2> HIDE DEF Y, W
  <2> QED
    BY <1>4, <2>1, <2>2
<1>7. r < R
  <2> SUFFICES ASSUME R <= r PROVE FALSE
    BY <1>1, <1>5
  <2> DEFINE Y == r * Q
  <2>1. R * Q <= Y /\ R * Q \in Nat /\ Y \in Nat
    BY <1>1, <1>5, Multiples
  <2>2. y = Y + q /\ y < V
    BY <1>5, <1>6
  <2>3. R * Q = V
    BY <1>3 DEF V
  <2> HIDE DEF Y
  <2> QED
    BY <1>5, <2>1, <2>2, <2>3
<1>8. p \in 0..(t[1] - 1) /\ q \in 0..(t[2] - 1) /\ r \in 0..(t[3] - 1)
  BY <1>1, <1>4, <1>5, <1>7 DEF P, Q, R
<1>9. pqr_to_process(p, q, r, t) = rank
  BY <1>4, <1>5 DEF pqr_to_process, P, Q
<1> QED
  BY <1>8, <1>9

\* pqr_to_process: no two places of a topology have the same number, and
\* every number is one of the run's ranks.
LEMMA ProcessesDiffer ==
  ASSUME NEW t \in Grids,
         NEW p \in 0..(t[1] - 1), NEW q \in 0..(t[2] - 1), NEW r \in 0..(t[3] - 1),
         NEW p2 \in 0..(t[1] - 1), NEW q2 \in 0..(t[2] - 1), NEW r2 \in 0..(t[3] - 1),
         pqr_to_process(p, q, r, t) = pqr_to_process(p2, q2, r2, t)
  PROVE  p = p2 /\ q = q2 /\ r = r2
<1> DEFINE P == t[1]
           Q == t[2]
           R == t[3]
           y == r * Q + q
           y2 == r2 * Q + q2
<1>1. P \in Nat \ {0} /\ Q \in Nat \ {0} /\ R \in Nat \ {0}
  BY AxesOfGrid
<1>2. /\ p \in 0..(P - 1) /\ q \in 0..(Q - 1) /\ r \in Nat
      /\ p2 \in 0..(P - 1) /\ q2 \in 0..(Q - 1) /\ r2 \in Nat
  BY <1>1
<1>3. y * P + p = y2 * P + p2
  BY DEF pqr_to_process
<1> HIDE DEF P, Q, R
<1>4. y \in Nat /\ y2 \in Nat
  BY <1>1, <1>2
<1>5. y = y2 /\ p = p2
  <2> HIDE DEF y, y2
  <2> QED
    BY <1>1, <1>2, <1>3, <1>4, OneDigit
<1>6. r = r2 /\ q = q2
  BY <1>1, <1>2, <1>5, OneDigit
<1> QED
  BY <1>5, <1>6

\* BlockTopology: blocks of m cells a side give every axis a process.
LEMMA BlocksOnEveryAxis ==
  ASSUME NEW n \in Grids, NEW m \in Nat \ {0}
  PROVE  BlockTopology(n, m) \in Grids
<1>1. \A a \in Axis : LET whole == n[a] \div m
                      IN whole + (IF n[a] % m > whole THEN 1 ELSE 0) \in Nat \ {0}
  <2> TAKE a \in Axis
  <2>1. n[a] \in Nat \ {0}
    BY DEF Grids
  <2> DEFINE w == n[a] \div m
             e == n[a] % m
  <2>2. w \in Nat /\ e \in 0..(m - 1) /\ n[a] = w * m + e
    BY <2>1, Digits
  <2> HIDE DEF w, e
  <2>3. w = 0 => e > w
    <3>1. 0 * m = 0
      OBVIOUS
    <3> QED
      BY <2>1, <2>2, <3>1
  <2>4. w + (IF e > w THEN 1 ELSE 0) \in Nat \ {0}
    BY <2>2, <2>3
  <2> QED
    BY <2>4 DEF w, e
<1> QED
  BY <1>1 DEF BlockTopology, Grids

\* CubeRoots: the block size that the search begins with is not zero.
LEMMA RootsArePositive ==
  ASSUME NEW k \in Nat \ {0}
  PROVE  CubeRoots(k) \subseteq Nat \ {0}
<1> DEFINE cube(m) == m * m * m
           Root(m) == cube(m) <= k /\ cube(m + 1) > k
<1>1. \A m \in Nat : cube(m) \in Nat
  OBVIOUS
<1>2. cube(0) = 0 /\ cube(1) = 1
  OBVIOUS
<1>3. cube(k + 1) > k
  <2>1. (k + 1) * (k + 1) >= k + 1
    OBVIOUS
  <2>2. ((k + 1) * (k + 1)) * (k + 1) >= (k + 1) * (k + 1)
    BY <2>1
  <2>3. (k + 1) * (k + 1) \in Nat /\ ((k + 1) * (k + 1)) * (k + 1) \in Nat
    OBVIOUS
  <2> DEFINE A == (k + 1) * (k + 1)
             B == ((k + 1) * (k + 1)) * (k + 1)
  <2>4. A >= k + 1 /\ B >= A /\ A \in Nat /\ B \in Nat /\ cube(k + 1) = B
    BY <2>1, <2>2, <2>3
  <2> HIDE DEF A, B, cube
  <2> QED
    BY <2>4
<1> HIDE DEF cube
<1>4. \E m \in 0..k : Root(m)
  <2> DEFINE S == {m \in 0..k : cube(m + 1) > k}
  <2>1. k \in S /\ S \subseteq Nat
    BY <1>3
  <2> HIDE DEF S
  <2>2. PICK m \in S : \A j \in S : m <= j
    BY <2>1, SmallestNumber
  <2> USE DEF S
  <2>3. cube(m) <= k
    <3>1. CASE m = 0
      BY <1>2, <3>1
    <3>2. CASE m > 0
      <4>1. m - 1 \in 0..k /\ m - 1 \notin S /\ m - 1 + 1 = m
        BY <2>2, <3>2
      <4>2. ~(cube(m) > k)
        BY <4>1
      <4>3. cube(m) \in Nat
        BY <1>1, <2>2
      <4> QED
        BY <4>2, <4>3
    <3> QED
      BY <3>1, <3>2
  <2> QED
    BY <2>2, <2>3
<1> DEFINE root == CHOOSE m \in 0..k : Root(m)
<1>5. root \in 0..k /\ Root(root)
  BY <1>4
<1> HIDE DEF root
<1>6. root # 0
  <2> SUFFICES ASSUME root = 0 PROVE FALSE
    OBVIOUS
  <2>1. cube(0 + 1) > k
    BY <1>5
  <2> QED
    BY <1>2, <2>1
<1>7. CubeRoots(k) = {root} \cup (IF cube(root) = k /\ root > 1 THEN {root - 1} ELSE {})
  BY DEF CubeRoots, root, cube
<1> HIDE DEF Root
<1> QED
  BY <1>5, <1>6, <1>7

\* DistributeUserGrid: given or chosen, a topology has a process on every axis.
LEMMA TopologiesAreGrids ==
  ASSUME NEW dk \in Decks, NEW t \in Topologies(dk)
  PROVE  t \in Grids
<1>1. /\ dk.n \in Grids /\ dk.procs \in Nat \ {0} /\ dk.topo \in [Axis -> Nat]
      /\ dk.procs <= Volume(dk.n)
  BY DecksAssumption DEF Grids, Volume
<1>2. CASE \A a \in Axis : dk.topo[a] # 0
  BY <1>1, <1>2 DEF Topologies, Grids
<1>3. CASE \E a \in Axis : dk.topo[a] = 0
  <2> DEFINE n == dk.n
             procs == dk.procs
             vol == Volume(n)
  <2>1. vol \in Nat \ {0}
    BY <1>1, AxesOfGrid
  <2>2. vol \div procs \in Nat \ {0}
    <3> DEFINE w == vol \div procs
               e == vol % procs
    <3>1. w \in Nat /\ e \in 0..(procs - 1) /\ vol = w * procs + e
      BY <1>1, <2>1, Digits
    <3> HIDE DEF w, e, vol
    <3>2. w = 0 => vol = e
      <4>1. 0 * procs = 0
        BY <1>1
      <4> QED
        BY <3>1, <4>1
    <3>3. w # 0
      BY <1>1, <2>1, <3>1, <3>2 DEF vol
    <3> QED
      BY <3>1, <3>3 DEF w, vol
  <2>3. PICK m \in CubeRoots(vol \div procs) : t = AutomaticTopology(n, procs, m)
    BY <1>3 DEF Topologies
  <2>4. m \in Nat \ {0}
    BY <2>2, <2>3, RootsArePositive
  <2> DEFINE Fits(k) == Volume(BlockTopology(n, k)) <= procs
             S == {k \in m..(m + vol) : Fits(k)}
             First(k) == Fits(k) /\ \A j \in m..(k - 1) : Volume(BlockTopology(n, j)) > procs
  <2>5. Fits(m + vol)
    <3>1. ASSUME NEW a \in Axis
          PROVE  n[a] \in Nat /\ n[a] <= vol
      <4>1. /\ n[1] \in Nat \ {0} /\ n[2] \in Nat \ {0} /\ n[3] \in Nat \ {0}
            /\ vol = n[1] * n[2] * n[3]
        BY <1>1, AxesOfGrid DEF Volume
      <4>2. \A x, y \in Nat \ {0} : x * y \in Nat \ {0} /\ x <= x * y /\ y <= x * y
        OBVIOUS
      <4>3. n[1] <= n[1] * n[2] /\ n[2] <= n[1] * n[2] /\ n[1] * n[2] \in Nat \ {0}
        BY <4>1, <4>2
      <4> DEFINE x == n[1] * n[2]
      <4>4. x <= x * n[3] /\ n[3] <= x * n[3]
        BY <4>1, <4>2, <4>3
      <4>5. n[1] <= x /\ n[2] <= x /\ x \in Nat /\ vol = x * n[3] /\ x * n[3] \in Nat
        BY <2>1, <4>1, <4>3
      <4> HIDE DEF x, vol
      <4>6. n[1] <= vol /\ n[2] <= vol /\ n[3] <= vol
        BY <2>1, <4>1, <4>4, <4>5
      <4> QED
        BY <4>1, <4>6 DEF Axis
    <3>2. \A a \in Axis : BlockTopology(n, m + vol)[a] = 1
      <4> TAKE a \in Axis
      <4>1. n[a] \in Nat \ {0} /\ n[a] < m + vol /\ m + vol \in Nat \ {0}
        BY <1>1, <2>1, <2>4, <3>1 DEF Grids
      <4>2. n[a] \div (m + vol) = 0 /\ n[a] % (m + vol) = n[a]
        <5> DEFINE M == m + vol
        <5> HIDE DEF M
        <5>1. n[a] \in Nat \ {0} /\ n[a] < M /\ M \in Nat \ {0}
          BY <4>1 DEF M
        <5>2. n[a] \div M \in Nat /\ n[a] % M \in 0..(M - 1) /\ n[a] = (n[a] \div M) * M + (n[a] % M)
          BY <5>1, Digits
        <5> DEFINE w == n[a] \div M
                   e == n[a] % M
        <5>3. 0 * M + n[a] = w * M + e /\ n[a] \in 0..(M - 1)
          BY <5>1, <5>2
        <5>4. w \in Nat /\ e \in 0..(M - 1)
          BY <5>2
        <5> HIDE DEF w, e
        <5>5. 0 = w /\ n[a] = e
          BY <5>1, <5>3, <5>4, OneDigit
        <5> QED
          BY <5>5 DEF M, w, e
      <4> QED
        BY <4>1, <4>2 DEF BlockTopology
    <3> QED
      BY <1>1, <3>2 DEF Volume, Axis
  <2>6. m + vol \in S /\ S \subseteq Nat
    BY <2>1, <2>4, <2>5
  <2>7. \E k \in m..(m + vol) : First(k)
    <3> HIDE DEF S
    <3>1. PICK k \in S : \A j \in S : k <= j
      BY <2>6, SmallestNumber
    <3> USE DEF S
    <3>2. ASSUME NEW j \in m..(k - 1)
          PROVE  Volume(BlockTopology(n, j)) > procs
      <4>1. j \in m..(m + vol) /\ j < k /\ j \in Nat \ {0}
        BY <2>1, <2>4, <3>1, <3>2
      <4>2. ~Fits(j)
        BY <2>6, <3>1, <4>1
      <4>3. Volume(BlockTopology(n, j)) \in Nat
        BY <1>1, <4>1, BlocksOnEveryAxis, AxesOfGrid
      <4> QED
        BY <1>1, <4>2, <4>3
    <3> QED
      BY <3>1, <3>2
  <2> DEFINE k == CHOOSE k \in m..(m + vol) : First(k)
  <2>8. k \in m..(m + vol)
    BY <2>7
  <2>9. t = BlockTopology(n, k)
    BY <2>3 DEF AutomaticTopology
  <2> HIDE DEF k
  <2> QED
    BY <1>1, <2>1, <2>4, <2>8, <2>9, BlocksOnEveryAxis
<1> QED
  BY <1>2, <1>3

-----------------------------------------------------------------------------
(* Subgrids and their cells.                                                *)

Points == Int \X Int \X Int
Triples == [Axis -> Int]
Boxes == [i : Triples, n : Triples, s : {<<1, 1, 1>>}, p : Int]

Within(b, c) == \A a \in Axis : b.i[a] <= c[a] /\ c[a] < Upper(b, a)

\* A triple of integers is a function on the axes.
LEMMA TripleIs ==
  ASSUME NEW x \in Int, NEW y \in Int, NEW z \in Int
  PROVE  /\ <<x, y, z>> \in Triples
         /\ <<x, y, z>>[1] = x /\ <<x, y, z>>[2] = y /\ <<x, y, z>>[3] = z
  BY DEF Triples, Axis

LEMMA BoxFacts ==
  ASSUME NEW b \in Boxes, NEW a \in Axis
  PROVE  b.i[a] \in Int /\ b.n[a] \in Int /\ b.s[a] = 1 /\ Upper(b, a) \in Int
  BY DEF Boxes, Triples, Axis, Upper

\* Line, Cells: a subgrid without strides holds the cells between its bounds.
LEMMA CellsAre ==
  ASSUME NEW b \in Boxes
  PROVE  \A c : c \in Cells(b) <=> c \in Points /\ Within(b, c)
<1>1. \A a \in Axis : \A x : x \in Line(b, a) <=> x \in Int /\ b.i[a] <= x /\ x < Upper(b, a)
  <2> TAKE a \in Axis
  <2> TAKE x
  <2>1. b.i[a] \in Int /\ b.n[a] \in Int /\ b.s[a] = 1
    BY BoxFacts
  <2> DEFINE i == b.i[a]
             n == b.n[a]
  <2>2. x \in Line(b, a) <=> \E k \in 0..(n - 1) : x = i + k * 1
    BY <2>1 DEF Line
  <2>3. Upper(b, a) = i + n
    BY DEF Upper
  <2> HIDE DEF i, n
  <2>4. i \in Int /\ n \in Int
    BY <2>1 DEF i, n
  <2>5. ASSUME x \in Int, i <= x, x < i + n
        PROVE  \E k \in 0..(n - 1) : x = i + k * 1
    <3>1. x - i \in 0..(n - 1) /\ x = i + (x - i) * 1
      BY <2>4, <2>5
    <3> QED
      BY <3>1
  <2>6. ASSUME NEW k \in 0..(n - 1), x = i + k * 1
        PROVE  x \in Int /\ i <= x /\ x < i + n
    BY <2>4, <2>6
  <2>7. i = b.i[a]
    BY DEF i
  <2> QED
    BY <2>2, <2>3, <2>5, <2>6, <2>7
<1>2. 1 \in Axis /\ 2 \in Axis /\ 3 \in Axis /\ \A a \in Axis : a = 1 \/ a = 2 \/ a = 3
  BY DEF Axis
<1> TAKE c
<1>3. ASSUME c \in Cells(b)
      PROVE  c \in Points /\ Within(b, c)
  <2>1. PICK x \in Line(b, 1), y \in Line(b, 2), z \in Line(b, 3) : c = <<x, y, z>>
    BY <1>3 DEF Cells
  <2>2. x \in Int /\ y \in Int /\ z \in Int
    BY <1>1, <1>2
  <2>3. c[1] = x /\ c[2] = y /\ c[3] = z
    BY <2>1
  <2>4. c \in Points
    BY <2>1, <2>2 DEF Points
  <2> QED
    BY <1>1, <1>2, <2>3, <2>4 DEF Within
<1>4. ASSUME c \in Points, Within(b, c)
      PROVE  c \in Cells(b)
  <2>1. PICK x \in Int, y \in Int, z \in Int : c = <<x, y, z>>
    BY <1>4 DEF Points
  <2>2. c[1] = x /\ c[2] = y /\ c[3] = z
    BY <2>1
  <2>3. x \in Line(b, 1) /\ y \in Line(b, 2) /\ z \in Line(b, 3)
    BY <1>1, <1>2, <1>4, <2>2 DEF Within
  <2> QED
    BY <2>1, <2>3 DEF Cells
<1> QED
  BY <1>3, <1>4

\* The subgrid of the process at p, q, r.
Block(n, t, p, q, r) ==
  NewSubgrid(<<Lo(n[1], t[1], p), Lo(n[2], t[2], q), Lo(n[3], t[3], r)>>,
             <<Size(n[1], t[1], p), Size(n[2], t[2], q), Size(n[3], t[3], r)>>,
             pqr_to_process(p, q, r, t))

LEMMA SubgridsAreBlocks ==
  ASSUME NEW n, NEW t
  PROVE  TopologySubgrids(n, t) =
           {Block(n, t, p, q, r) : p \in 0..(t[1] - 1), q \in 0..(t[2] - 1), r \in 0..(t[3] - 1)}
  BY DEF TopologySubgrids, Block, Lo, Size

\* The cells of a subgrid: on each axis those of the process's block.
LEMMA BlockFacts ==
  ASSUME NEW n \in Grids, NEW t \in Grids,
         NEW p \in 0..(t[1] - 1), NEW q \in 0..(t[2] - 1), NEW r \in 0..(t[3] - 1)
  PROVE  LET b == Block(n, t, p, q, r)
         IN /\ b \in Boxes
            /\ b.p = pqr_to_process(p, q, r, t)
            /\ \A a \in Axis : b.n[a] \in Nat
            /\ b.i[1] = Lo(n[1], t[1], p) /\ b.n[1] = Size(n[1], t[1], p)
            /\ b.i[2] = Lo(n[2], t[2], q) /\ b.n[2] = Size(n[2], t[2], q)
            /\ b.i[3] = Lo(n[3], t[3], r) /\ b.n[3] = Size(n[3], t[3], r)
<1> DEFINE b == Block(n, t, p, q, r)
<1>1. /\ n[1] \in Nat \ {0} /\ n[2] \in Nat \ {0} /\ n[3] \in Nat \ {0}
      /\ t[1] \in Nat \ {0} /\ t[2] \in Nat \ {0} /\ t[3] \in Nat \ {0}
  BY AxesOfGrid
<1>2. p \in Nat /\ q \in Nat /\ r \in Nat
  BY <1>1
<1> DEFINE i1 == Lo(n[1], t[1], p)
           i2 == Lo(n[2], t[2], q)
           i3 == Lo(n[3], t[3], r)
           n1 == Size(n[1], t[1], p)
           n2 == Size(n[2], t[2], q)
           n3 == Size(n[3], t[3], r)
           rank == pqr_to_process(p, q, r, t)
<1>3. /\ i1 \in Nat /\ i2 \in Nat /\ i3 \in Nat
      /\ n1 \in Nat /\ n2 \in Nat /\ n3 \in Nat
  BY <1>1, <1>2, BlocksInRow
<1>4. rank \in Int
  BY <1>1, <1>2 DEF pqr_to_process
<1>5. b = [i |-> <<i1, i2, i3>>, n |-> <<n1, n2, n3>>, s |-> <<1, 1, 1>>, p |-> rank]
  BY DEF Block, NewSubgrid
<1> HIDE DEF b, i1, i2, i3, n1, n2, n3, rank
<1>6. /\ b.i = <<i1, i2, i3>> /\ b.n = <<n1, n2, n3>> /\ b.p = rank
  BY <1>5
<1>7. b \in Boxes
  <2>1. <<i1, i2, i3>> \in Triples /\ <<n1, n2, n3>> \in Triples
    BY <1>3, TripleIs
  <2> QED
    BY <1>4, <1>5, <2>1 DEF Boxes
<1>8. \A a \in Axis : b.n[a] \in Nat
  BY <1>3, <1>6 DEF Axis
<1>9. /\ b.i[1] = i1 /\ b.n[1] = n1 /\ b.i[2] = i2 /\ b.n[2] = n2
      /\ b.i[3] = i3 /\ b.n[3] = n3
  BY <1>6
<1> QED
  BY <1>6, <1>7, <1>8, <1>9 DEF b, i1, i2, i3, n1, n2, n3, rank

LEMMA CellsOfBlock ==
  ASSUME NEW n \in Grids, NEW t \in Grids,
         NEW p \in 0..(t[1] - 1), NEW q \in 0..(t[2] - 1), NEW r \in 0..(t[3] - 1)
  PROVE  \A c : c \in Cells(Block(n, t, p, q, r)) <=>
           /\ c \in Points
           /\ c[1] \in Lo(n[1], t[1], p)..(Lo(n[1], t[1], p) + Size(n[1], t[1], p) - 1)
           /\ c[2] \in Lo(n[2], t[2], q)..(Lo(n[2], t[2], q) + Size(n[2], t[2], q) - 1)
           /\ c[3] \in Lo(n[3], t[3], r)..(Lo(n[3], t[3], r) + Size(n[3], t[3], r) - 1)
<1> DEFINE b == Block(n, t, p, q, r)
<1>1. /\ b \in Boxes
      /\ b.i[1] = Lo(n[1], t[1], p) /\ b.n[1] = Size(n[1], t[1], p)
      /\ b.i[2] = Lo(n[2], t[2], q) /\ b.n[2] = Size(n[2], t[2], q)
      /\ b.i[3] = Lo(n[3], t[3], r) /\ b.n[3] = Size(n[3], t[3], r)
  BY BlockFacts
<1>2. \A c : c \in Cells(b) <=> c \in Points /\ Within(b, c)
  BY <1>1, CellsAre
<1> HIDE DEF b
<1>3. 1 \in Axis /\ 2 \in Axis /\ 3 \in Axis /\ \A a \in Axis : a = 1 \/ a = 2 \/ a = 3
  BY DEF Axis
<1>4. \A a \in Axis : b.i[a] \in Int /\ b.n[a] \in Int
  BY <1>1, BoxFacts
<1>5. ASSUME NEW c \in Points
      PROVE  Within(b, c) <=> \A a \in Axis : c[a] \in b.i[a]..(b.i[a] + b.n[a] - 1)
  <2>1. c[1] \in Int /\ c[2] \in Int /\ c[3] \in Int
    BY DEF Points
  <2>2. \A a \in Axis : c[a] \in Int
    BY <1>3, <2>1
  <2>3. \A a \in Axis : (b.i[a] <= c[a] /\ c[a] < b.i[a] + b.n[a])
                          <=> c[a] \in b.i[a]..(b.i[a] + b.n[a] - 1)
    <3> TAKE a \in Axis
    <3> DEFINE x == c[a]
               i == b.i[a]
               m == b.n[a]
    <3>1. x \in Int /\ i \in Int /\ m \in Int
      BY <1>4, <2>2
    <3> HIDE DEF x, i, m
    <3>2. (i <= x /\ x < i + m) <=> x \in i..(i + m - 1)
      BY <3>1
    <3> QED
      BY <3>2 DEF x, i, m
  <2> QED
    BY <2>3 DEF Within, Upper
<1>6. ASSUME NEW c
      PROVE  c \in Cells(b) <=> /\ c \in Points
                                /\ c[1] \in b.i[1]..(b.i[1] + b.n[1] - 1)
                                /\ c[2] \in b.i[2]..(b.i[2] + b.n[2] - 1)
                                /\ c[3] \in b.i[3]..(b.i[3] + b.n[3] - 1)
  BY <1>2, <1>3, <1>5
<1> QED
  BY <1>1, <1>6 DEF b

\* DistributeUserGrid: the subgrids of a topology hold every cell of the user's
\* grid once, and there is one for each process.
LEMMA BlocksDivideGrid ==
  ASSUME NEW n \in Grids, NEW t \in Grids
  PROVE  LET subgrids == TopologySubgrids(n, t)
         IN /\ CellsOf(subgrids) =
                 (0..(n[1] - 1)) \X (0..(n[2] - 1)) \X (0..(n[3] - 1))
            /\ \A b, c \in subgrids : b = c \/ Cells(b) \cap Cells(c) = {}
            /\ \A rank \in 0..(Volume(t) - 1) :
                 \E b \in subgrids : {c \in subgrids : c.p = rank} = {b}
<1> DEFINE subgrids == TopologySubgrids(n, t)
           At(p, q, r) == Block(n, t, p, q, r)
           P == 0..(t[1] - 1)
           Q == 0..(t[2] - 1)
           R == 0..(t[3] - 1)
           I1(k) == Lo(n[1], t[1], k)..(Lo(n[1], t[1], k) + Size(n[1], t[1], k) - 1)
           I2(k) == Lo(n[2], t[2], k)..(Lo(n[2], t[2], k) + Size(n[2], t[2], k) - 1)
           I3(k) == Lo(n[3], t[3], k)..(Lo(n[3], t[3], k) + Size(n[3], t[3], k) - 1)
           X == 0..(n[1] - 1)
           Y == 0..(n[2] - 1)
           Z == 0..(n[3] - 1)
<1>1. /\ n[1] \in Nat /\ n[2] \in Nat /\ n[3] \in Nat
      /\ t[1] \in Nat \ {0} /\ t[2] \in Nat \ {0} /\ t[3] \in Nat \ {0}
  BY AxesOfGrid
<1>2. subgrids = {At(p, q, r) : p \in P, q \in Q, r \in R}
  BY SubgridsAreBlocks
<1>3. \A p \in P, q \in Q, r \in R : \A c :
        c \in Cells(At(p, q, r)) <=> c \in Points /\ c[1] \in I1(p) /\ c[2] \in I2(q) /\ c[3] \in I3(r)
  BY CellsOfBlock
<1>4. /\ \A x \in X : \E k \in P : x \in I1(k)
      /\ \A k \in P : I1(k) \subseteq X
      /\ \A j, k \in P, x \in Int : x \in I1(j) /\ x \in I1(k) => j = k
  BY <1>1, BlocksDivideAxis
<1>5. /\ \A x \in Y : \E k \in Q : x \in I2(k)
      /\ \A k \in Q : I2(k) \subseteq Y
      /\ \A j, k \in Q, x \in Int : x \in I2(j) /\ x \in I2(k) => j = k
  BY <1>1, BlocksDivideAxis
<1>6. /\ \A x \in Z : \E k \in R : x \in I3(k)
      /\ \A k \in R : I3(k) \subseteq Z
      /\ \A j, k \in R, x \in Int : x \in I3(j) /\ x \in I3(k) => j = k
  BY <1>1, BlocksDivideAxis
<1>7. X \subseteq Int /\ Y \subseteq Int /\ Z \subseteq Int
  BY <1>1
<1>8. \A p \in P, q \in Q, r \in R : At(p, q, r).p = pqr_to_process(p, q, r, t)
  BY BlockFacts
<1>9. /\ \A rank \in 0..(Volume(t) - 1) : \E p \in P, q \in Q, r \in R :
           pqr_to_process(p, q, r, t) = rank
      /\ \A p, p2 \in P, q, q2 \in Q, r, r2 \in R :
           pqr_to_process(p, q, r, t) = pqr_to_process(p2, q2, r2, t) => p = p2 /\ q = q2 /\ r = r2
  BY ProcessHasPlace, ProcessesDiffer
<1> HIDE DEF subgrids, At, P, Q, R, I1, I2, I3, X, Y, Z
<1>10. CellsOf(subgrids) = X \X Y \X Z
  <2>1. ASSUME NEW c \in CellsOf(subgrids) PROVE c \in X \X Y \X Z
    <3>1. PICK b \in subgrids : c \in Cells(b)
      BY <2>1 DEF CellsOf
    <3>2. PICK p \in P, q \in Q, r \in R : b = At(p, q, r)
      BY <1>2, <3>1
    <3>3. c \in Points /\ c[1] \in X /\ c[2] \in Y /\ c[3] \in Z
      BY <1>3, <1>4, <1>5, <1>6, <3>1, <3>2
    <3>4. PICK x \in Int, y \in Int, z \in Int : c = <<x, y, z>>
      BY <3>3 DEF Points
    <3>5. c[1] = x /\ c[2] = y /\ c[3] = z
      BY <3>4
    <3> QED
      BY <3>3, <3>4, <3>5
  <2>2. ASSUME NEW c \in X \X Y \X Z PROVE c \in CellsOf(subgrids)
    <3>1. PICK x \in X, y \in Y, z \in Z : c = <<x, y, z>>
      BY <2>2
    <3>2. c[1] = x /\ c[2] = y /\ c[3] = z /\ c \in Points
      BY <1>7, <3>1 DEF Points
    <3>3. PICK p \in P : x \in I1(p)
      BY <1>4
    <3>4. PICK q \in Q : y \in I2(q)
      BY <1>5
    <3>5. PICK r \in R : z \in I3(r)
      BY <1>6
    <3>6. c \in Cells(At(p, q, r)) /\ At(p, q, r) \in subgrids
      BY <1>2, <1>3, <3>2, <3>3, <3>4, <3>5
    <3> QED
      BY <3>6 DEF CellsOf
  <2> QED
    BY <2>1, <2>2
<1>11. ASSUME NEW b \in subgrids, NEW c \in subgrids, Cells(b) \cap Cells(c) # {}
       PROVE  b = c
  <2>1. PICK p \in P, q \in Q, r \in R : b = At(p, q, r)
    BY <1>2
  <2>2. PICK p2 \in P, q2 \in Q, r2 \in R : c = At(p2, q2, r2)
    BY <1>2
  <2>3. PICK x : x \in Cells(b) /\ x \in Cells(c)
    BY <1>11
  <2>4. /\ x[1] \in I1(p) /\ x[2] \in I2(q) /\ x[3] \in I3(r)
        /\ x[1] \in I1(p2) /\ x[2] \in I2(q2) /\ x[3] \in I3(r2)
    BY <1>3, <2>1, <2>2, <2>3
  <2>5. x[1] \in Int /\ x[2] \in Int /\ x[3] \in Int
    BY <1>4, <1>5, <1>6, <1>7, <2>4
  <2>6. p = p2 /\ q = q2 /\ r = r2
    BY <1>4, <1>5, <1>6, <2>4, <2>5
  <2> QED
    BY <2>1, <2>2, <2>6
<1>12. ASSUME NEW rank \in 0..(Volume(t) - 1)
       PROVE  \E b \in subgrids : {c \in subgrids : c.p = rank} = {b}
  <2>1. PICK p \in P, q \in Q, r \in R : pqr_to_process(p, q, r, t) = rank
    BY <1>9
  <2>2. At(p, q, r) \in subgrids /\ At(p, q, r).p = rank
    BY <1>2, <1>8, <2>1
  <2>3. ASSUME NEW c \in subgrids, c.p = rank PROVE c = At(p, q, r)
    <3>1. PICK p2 \in P, q2 \in Q, r2 \in R : c = At(p2, q2, r2)
      BY <1>2
    <3>2. pqr_to_process(p2, q2, r2, t) = rank
      BY <1>8, <2>3, <3>1
    <3>3. p = p2 /\ q = q2 /\ r = r2
      BY <1>9, <2>1, <3>2
    <3> QED
      BY <3>1, <3>3
  <2>4. {c \in subgrids : c.p = rank} = {At(p, q, r)}
    BY <2>2, <2>3
  <2> QED
    BY <2>2, <2>4
<1> QED
  BY <1>10, <1>11, <1>12 DEF subgrids, X, Y, Z

-----------------------------------------------------------------------------
(* The division of the user's grid.                                         *)

GridInv ==
  /\ deck \in Decks
  /\ DOMAIN stage = Ranks
  /\ SubgridsPartition

LEMMA RankZero ==
  ASSUME deck \in Decks
  PROVE  0 \in Ranks /\ deck.procs \in Nat \ {0}
  BY DecksAssumption DEF Ranks

LEMMA GridInvInit == Init => GridInv
<1> SUFFICES ASSUME Init PROVE GridInv
  OBVIOUS
<1>1. deck \in Decks /\ DOMAIN stage = Ranks /\ 0 \in Ranks
  BY RankZero DEF Init
<1>2. stage[0] = "start"
  BY <1>1 DEF Init
<1> QED
  BY <1>1, <1>2 DEF GridInv, SubgridsPartition

LEMMA CreateGridDivides ==
  ASSUME GridInv, CreateGrid
  PROVE  SubgridsPartition'
<1>1. deck \in Decks /\ deck' = deck /\ Ranks' = Ranks
  BY DEF GridInv, CreateGrid, Ranks
<1>2. PICK t \in Topologies(deck) :
        /\ Volume(t) = deck.procs
        /\ all' = {Derived(b, deck.kind) : b \in TopologySubgrids(deck.n, t)}
  BY DEF CreateGrid
<1>3. t \in Grids /\ deck.n \in Grids
  BY <1>1, <1>2, TopologiesAreGrids, DecksAssumption DEF Grids
<1>4. CASE deck.kind = "grid"
  <2> DEFINE subgrids == TopologySubgrids(deck.n, t)
  <2>1. \A b : Derived(b, deck.kind) = b
    BY <1>4 DEF Derived
  <2>2. all' = subgrids
    BY <1>2, <2>1
  <2>3. /\ CellsOf(subgrids) =
             (0..(deck.n[1] - 1)) \X (0..(deck.n[2] - 1)) \X (0..(deck.n[3] - 1))
        /\ \A b, c \in subgrids : b = c \/ Cells(b) \cap Cells(c) = {}
        /\ \A rank \in 0..(Volume(t) - 1) :
             \E b \in subgrids : {c \in subgrids : c.p = rank} = {b}
    BY <1>3, BlocksDivideGrid
  <2> HIDE DEF subgrids
  <2>4. \A r \in Ranks : Cardinality({c \in subgrids : c.p = r}) = 1
    <3> TAKE r \in Ranks
    <3>1. r \in 0..(Volume(t) - 1)
      BY <1>2 DEF Ranks
    <3>2. PICK b : {c \in subgrids : c.p = r} = {b}
      BY <2>3, <3>1
    <3>3. Cardinality({b}) = 1
      BY FS_Singleton
    <3> QED
      BY <3>2, <3>3
  <2> QED
    BY <1>1, <2>2, <2>3, <2>4 DEF SubgridsPartition, Own
<1>5. CASE deck.kind # "grid"
  BY <1>1, <1>5 DEF SubgridsPartition
<1> QED
  BY <1>4, <1>5

LEMMA GridInvStep == GridInv /\ [Next]_vars => GridInv'
<1> SUFFICES ASSUME GridInv, [Next]_vars
             PROVE  GridInv'
  OBVIOUS
<1>1. deck' = deck /\ Ranks' = Ranks
  BY DEF vars, Next, ReadProcessGrid, CreateGrid, RefuseGrid, CreateComputePkgs, NewVector,
         RefuseVector, InitVectorUpdate, FinalizeVectorUpdate, Ended, Ranks
<1>2. deck \in Decks /\ DOMAIN stage = Ranks /\ 0 \in Ranks
  BY RankZero DEF GridInv
<1>3. CASE CreateGrid
  <2>1. DOMAIN stage' = Ranks
    BY <1>3 DEF CreateGrid
  <2> QED
    BY <1>1, <1>2, <1>3, <2>1, CreateGridDivides DEF GridInv
<1>4. CASE ReadProcessGrid
  <2>1. DOMAIN stage' = Ranks /\ deck.boxes # <<>>
    BY <1>4 DEF ReadProcessGrid
  <2> QED
    BY <1>1, <1>2, <2>1 DEF GridInv, SubgridsPartition
<1>5. ASSUME all' = all, DOMAIN stage' = Ranks, stage'[0] = "grid" => stage[0] = "grid"
      PROVE  GridInv'
  BY <1>1, <1>2, <1>5 DEF GridInv, SubgridsPartition, Own, Ranks
<1>6. CASE RefuseGrid
  BY <1>2, <1>5, <1>6 DEF RefuseGrid
<1>7. CASE CreateComputePkgs
  BY <1>2, <1>5, <1>7 DEF CreateComputePkgs
<1>8. CASE NewVector
  BY <1>2, <1>5, <1>8 DEF NewVector
<1>9. CASE RefuseVector
  BY <1>2, <1>5, <1>9 DEF RefuseVector
<1>10. ASSUME NEW r \in Ranks, InitVectorUpdate(r)
       PROVE  GridInv'
  BY <1>2, <1>5, <1>10 DEF InitVectorUpdate
<1>11. ASSUME NEW r \in Ranks, FinalizeVectorUpdate(r)
       PROVE  GridInv'
  BY <1>2, <1>5, <1>11 DEF FinalizeVectorUpdate
<1>12. CASE Ended \/ UNCHANGED vars
  BY <1>2, <1>5, <1>12 DEF Ended, vars
<1> QED
  BY <1>3, <1>4, <1>6, <1>7, <1>8, <1>9, <1>10, <1>11, <1>12 DEF Next

\* DistributeUserGrid, for every grid and number of processes: whether the deck
\* gives the topology or the program chooses it, the subgrids hold every cell of
\* the user's grid exactly once, and every rank has exactly one of them.
THEOREM SubgridsDivideGrid == Spec => []SubgridsPartition
<1>1. GridInv => SubgridsPartition
  BY DEF GridInv
<1> QED
  BY <1>1, GridInvInit, GridInvStep, PTL DEF Spec

-----------------------------------------------------------------------------
(* The set algebra of subgrids.                                             *)

LEMMA AxesAre == 1 \in Axis /\ 2 \in Axis /\ 3 \in Axis /\ \A a \in Axis : a = 1 \/ a = 2 \/ a = 3
  BY DEF Axis

LEMMA PointFacts ==
  ASSUME NEW x \in Points, NEW a \in Axis
  PROVE  x[a] \in Int
  BY DEF Points, Axis

\* IntersectSubgrids: there is a common box when there is a common cell.
LEMMA IntersectionIs ==
  ASSUME NEW b \in Boxes, NEW c \in Boxes
  PROVE  IntersectSubgrids(b, c) # {} <=> \E x \in Points : Within(b, x) /\ Within(c, x)
<1> DEFINE lo(a) == Greatest(b.i[a], c.i[a])
           hi(a) == Least(Upper(b, a), Upper(c, a))
<1>1. IntersectSubgrids(b, c) # {} <=> \A a \in Axis : hi(a) > lo(a)
  BY DEF IntersectSubgrids, Each
<1>2. \A a \in Axis : /\ b.i[a] \in Int /\ Upper(b, a) \in Int
                      /\ c.i[a] \in Int /\ Upper(c, a) \in Int
  BY BoxFacts
<1>3. \A a \in Axis : /\ lo(a) \in Int /\ hi(a) \in Int
                      /\ \A x \in Int : (/\ b.i[a] <= x /\ x < Upper(b, a)
                                         /\ c.i[a] <= x /\ x < Upper(c, a))
                                          <=> lo(a) <= x /\ x < hi(a)
  BY <1>2 DEF Greatest, Least
<1> HIDE DEF lo, hi
<1>4. ASSUME \A a \in Axis : hi(a) > lo(a)
      PROVE  \E x \in Points : Within(b, x) /\ Within(c, x)
  <2> DEFINE x == <<lo(1), lo(2), lo(3)>>
  <2>1. x \in Points /\ x[1] = lo(1) /\ x[2] = lo(2) /\ x[3] = lo(3)
    BY <1>3, AxesAre DEF Points
  <2> HIDE DEF x
  <2>2. \A a \in Axis : x[a] = lo(a)
    BY <2>1, AxesAre
  <2>3. \A a \in Axis : /\ b.i[a] <= x[a] /\ x[a] < Upper(b, a)
                        /\ c.i[a] <= x[a] /\ x[a] < Upper(c, a)
    BY <1>3, <1>4, <2>2
  <2> QED
    BY <2>1, <2>3 DEF Within
<1>5. ASSUME NEW x \in Points, Within(b, x), Within(c, x), NEW a \in Axis
      PROVE  hi(a) > lo(a)
  <2>1. x[a] \in Int
    BY PointFacts
  <2>2. lo(a) <= x[a] /\ x[a] < hi(a)
    BY <1>3, <1>5, <2>1 DEF Within
  <2> QED
    BY <1>3, <2>1, <2>2
<1> QED
  BY <1>1, <1>4, <1>5

\* A box with another size, or with other bounds, on one axis.
Resized(b, a, v) == [b EXCEPT !.n[a] = v]
Rebounded(b, a, u, v) == [b EXCEPT !.i[a] = u, !.n[a] = v]

LEMMA ResizedIs ==
  ASSUME NEW b \in Boxes, NEW a \in Axis, NEW v \in Int
  PROVE  /\ Resized(b, a, v) \in Boxes
         /\ \A o \in Axis : /\ Resized(b, a, v).i[o] = b.i[o]
                            /\ Resized(b, a, v).n[o] = IF o = a THEN v ELSE b.n[o]
  BY DEF Boxes, Triples, Resized

LEMMA ReboundedIs ==
  ASSUME NEW b \in Boxes, NEW a \in Axis, NEW u \in Int, NEW v \in Int
  PROVE  /\ Rebounded(b, a, u, v) \in Boxes
         /\ \A o \in Axis : /\ Rebounded(b, a, u, v).i[o] = (IF o = a THEN u ELSE b.i[o])
                            /\ Rebounded(b, a, u, v).n[o] = IF o = a THEN v ELSE b.n[o]
  BY DEF Boxes, Triples, Rebounded

\* Cut: on one axis, the pieces of s outside c and the rest of s inside it.
LEMMA CutIs ==
  ASSUME NEW s \in Boxes, NEW c \in Boxes, NEW a \in Axis,
         c.i[a] < Upper(s, a), s.i[a] < Upper(c, a), c.n[a] > 0
  PROVE  LET cut == Cut(s, c, a)
         IN /\ cut.pieces \subseteq Boxes /\ cut.rest \in Boxes
            /\ \A o \in Axis \ {a} : cut.rest.i[o] = s.i[o] /\ cut.rest.n[o] = s.n[o]
            /\ \A x \in Points :
                 /\ Within(cut.rest, x) <=>
                      Within(s, x) /\ c.i[a] <= x[a] /\ x[a] < Upper(c, a)
                 /\ (\E b \in cut.pieces : Within(b, x)) <=>
                      Within(s, x) /\ ~(c.i[a] <= x[a] /\ x[a] < Upper(c, a))
<1> DEFINE t == RestAbove(s, c, a)
           cut == Cut(s, c, a)
           ci == c.i[a]
           cu == Upper(c, a)
           si == s.i[a]
           su == Upper(s, a)
<1>1. /\ ci \in Int /\ cu \in Int /\ si \in Int /\ su \in Int
      /\ ci < su /\ si < cu /\ ci < cu
      /\ c.n[a] = cu - ci /\ s.n[a] = su - si
  BY BoxFacts DEF Upper
<1>2. \A o \in Axis : s.i[o] \in Int /\ s.n[o] \in Int
  BY BoxFacts
\* The part of s from the lower bound of c on.
<1>3. /\ t \in Boxes /\ Upper(t, a) = su
      /\ t.i[a] = Greatest(si, ci)
      /\ \A o \in Axis \ {a} : t.i[o] = s.i[o] /\ t.n[o] = s.n[o]
  <2>1. CASE CutBelow(s, c, a)
    <3>1. t = Rebounded(s, a, ci, su - ci)
      BY <2>1 DEF RestAbove, Rebounded
    <3>2. su - ci \in Int
      BY <1>1
    <3>3. t \in Boxes /\ \A o \in Axis : /\ t.i[o] = (IF o = a THEN ci ELSE s.i[o])
                                         /\ t.n[o] = (IF o = a THEN su - ci ELSE s.n[o])
      BY <1>1, <3>1, <3>2, ReboundedIs
    <3>4. t.i[a] = ci /\ t.n[a] = su - ci
      BY <3>3
    <3> HIDE DEF t
    <3>5. Upper(t, a) = ci + (su - ci)
      BY <3>4 DEF Upper
    <3>6. ci > si
      BY <2>1 DEF CutBelow
    <3> QED
      BY <1>1, <3>3, <3>4, <3>5, <3>6 DEF Greatest
  <2>2. CASE ~CutBelow(s, c, a)
    <3>1. t = s
      BY <2>2 DEF RestAbove
    <3>2. ~(ci > si)
      BY <1>1, <2>2 DEF CutBelow
    <3> QED
      BY <1>1, <3>1, <3>2 DEF Greatest
  <2> QED
    BY <2>1, <2>2
<1> DEFINE ti == t.i[a]
<1>4. ti \in Int /\ ti = Greatest(si, ci)
  BY <1>1, <1>3 DEF Greatest
<1> DEFINE below == Below(s, c, a)
           above == Above(t, c, a)
           rest == [t EXCEPT !.n[a] = cu - t.i[a]]
<1>5. /\ below \in Boxes
      /\ \A o \in Axis : below.i[o] = s.i[o] /\ below.n[o] = IF o = a THEN ci - si ELSE s.n[o]
  <2>1. below = Resized(s, a, ci - si) /\ ci - si \in Int
    BY <1>1 DEF Below, Resized
  <2> QED
    BY <2>1, ResizedIs
<1>6. /\ above \in Boxes
      /\ \A o \in Axis : /\ above.i[o] = (IF o = a THEN cu ELSE t.i[o])
                         /\ above.n[o] = IF o = a THEN su - cu ELSE t.n[o]
  <2>1. above = Rebounded(t, a, cu, Upper(t, a) - cu) /\ Upper(t, a) - cu = su - cu
    BY <1>3 DEF Above, Rebounded
  <2>2. su - cu \in Int
    BY <1>1
  <2> QED
    BY <1>1, <1>3, <2>1, <2>2, ReboundedIs
<1>7. /\ rest \in Boxes
      /\ \A o \in Axis : rest.i[o] = t.i[o] /\ rest.n[o] = IF o = a THEN cu - ti ELSE t.n[o]
  <2>1. rest = Resized(t, a, cu - ti) /\ cu - ti \in Int
    BY <1>1, <1>4 DEF Resized
  <2>2. t \in Boxes
    BY <1>3
  <2> HIDE DEF t, rest, cu, ti
  <2> QED
    BY <2>1, <2>2, ResizedIs
<1>8. /\ cut.pieces = (IF CutBelow(s, c, a) THEN {below} ELSE {})
                        \cup (IF CutAbove(t, c, a) THEN {above} ELSE {})
      /\ cut.rest = IF CutAbove(t, c, a) THEN rest ELSE t
  BY DEF Cut
<1>9. /\ CutBelow(s, c, a) <=> ci > si
      /\ CutAbove(t, c, a) <=> cu > ti /\ cu < su
  BY <1>1, <1>3 DEF CutBelow, CutAbove
<1> HIDE DEF t, cut, below, above, rest
\* What a cell within each box means, on axis a and on the others.
<1>10. ASSUME NEW x \in Points
       PROVE  LET others == \A o \in Axis \ {a} : s.i[o] <= x[o] /\ x[o] < s.i[o] + s.n[o]
              IN /\ Within(s, x) <=> others /\ si <= x[a] /\ x[a] < su
                 /\ Within(below, x) <=> others /\ si <= x[a] /\ x[a] < si + (ci - si)
                 /\ Within(above, x) <=> others /\ cu <= x[a] /\ x[a] < cu + (su - cu)
                 /\ Within(rest, x) <=> others /\ ti <= x[a] /\ x[a] < ti + (cu - ti)
                 /\ Within(t, x) <=> others /\ ti <= x[a] /\ x[a] < su
  <2> DEFINE others == \A o \in Axis \ {a} : s.i[o] <= x[o] /\ x[o] < s.i[o] + s.n[o]
  <2>1. Within(s, x) <=> others /\ si <= x[a] /\ x[a] < su
    BY DEF Within, Upper
  <2>2. Within(below, x) <=> others /\ si <= x[a] /\ x[a] < si + (ci - si)
    BY <1>5 DEF Within, Upper
  <2>3. Within(above, x) <=> others /\ cu <= x[a] /\ x[a] < cu + (su - cu)
    BY <1>3, <1>6 DEF Within, Upper
  <2>4. Within(rest, x) <=> others /\ ti <= x[a] /\ x[a] < ti + (cu - ti)
    BY <1>3, <1>7 DEF Within, Upper
  <2>5. Within(t, x) <=> others /\ ti <= x[a] /\ x[a] < su
    BY <1>3 DEF Within, Upper
  <2> QED
    BY <2>1, <2>2, <2>3, <2>4, <2>5
<1>11. cut.pieces \subseteq Boxes /\ cut.rest \in Boxes
  BY <1>3, <1>5, <1>6, <1>7, <1>8
<1>12. \A o \in Axis \ {a} : cut.rest.i[o] = s.i[o] /\ cut.rest.n[o] = s.n[o]
  BY <1>3, <1>7, <1>8
<1> HIDE DEF ci, cu, si, su, ti
<1>13. ASSUME NEW x \in Points
       PROVE  /\ Within(cut.rest, x) <=> Within(s, x) /\ ci <= x[a] /\ x[a] < cu
              /\ (\E b \in cut.pieces : Within(b, x)) <=>
                   Within(s, x) /\ ~(ci <= x[a] /\ x[a] < cu)
  <2> DEFINE others == \A o \in Axis \ {a} : s.i[o] <= x[o] /\ x[o] < s.i[o] + s.n[o]
             y == x[a]
  <2>1. y \in Int
    BY PointFacts
  <2>2. /\ Within(s, x) <=> others /\ si <= y /\ y < su
        /\ Within(below, x) <=> others /\ si <= y /\ y < si + (ci - si)
        /\ Within(above, x) <=> others /\ cu <= y /\ y < cu + (su - cu)
        /\ Within(rest, x) <=> others /\ ti <= y /\ y < ti + (cu - ti)
        /\ Within(t, x) <=> others /\ ti <= y /\ y < su
    BY <1>10
  <2> HIDE DEF others, y
  <2>3. Within(cut.rest, x) <=> Within(s, x) /\ ci <= y /\ y < cu
    <3>1. CASE CutAbove(t, c, a)
      BY <1>1, <1>4, <1>8, <1>9, <2>1, <2>2, <3>1 DEF Greatest
    <3>2. CASE ~CutAbove(t, c, a)
      BY <1>1, <1>4, <1>8, <1>9, <2>1, <2>2, <3>2 DEF Greatest
    <3> QED
      BY <3>1, <3>2
  <2>4. (\E b \in cut.pieces : Within(b, x)) <=>
          \/ ci > si /\ Within(below, x)
          \/ (cu > ti /\ cu < su) /\ Within(above, x)
    BY <1>8, <1>9
  <2>5. (\E b \in cut.pieces : Within(b, x)) <=> Within(s, x) /\ ~(ci <= y /\ y < cu)
    BY <1>1, <1>4, <2>1, <2>2, <2>4 DEF Greatest
  <2> QED
    BY <2>3, <2>5 DEF y
<1> QED
  BY <1>11, <1>12, <1>13 DEF cut, ci, cu

\* SubtractSubgrids: the pieces hold the cells of b outside c, if c has cells.
LEMMA SubtractionIs ==
  ASSUME NEW b \in Boxes, NEW c \in Boxes, \A a \in Axis : c.n[a] > 0
  PROVE  /\ SubtractSubgrids(b, c) \subseteq Boxes
         /\ \A x \in Points : (\E piece \in SubtractSubgrids(b, c) : Within(piece, x))
                                <=> Within(b, x) /\ ~Within(c, x)
<1>1. CASE \E a \in Axis : c.i[a] >= Upper(b, a) \/ Upper(c, a) <= b.i[a]
  <2>1. SubtractSubgrids(b, c) = {b}
    BY <1>1 DEF SubtractSubgrids
  <2>2. ASSUME NEW x \in Points, Within(b, x), Within(c, x)
        PROVE  FALSE
    <3>1. PICK a \in Axis : c.i[a] >= Upper(b, a) \/ Upper(c, a) <= b.i[a]
      BY <1>1
    <3>2. /\ b.i[a] \in Int /\ Upper(b, a) \in Int /\ c.i[a] \in Int /\ Upper(c, a) \in Int
          /\ x[a] \in Int
      BY BoxFacts, PointFacts
    <3>3. b.i[a] <= x[a] /\ x[a] < Upper(b, a) /\ c.i[a] <= x[a] /\ x[a] < Upper(c, a)
      BY <2>2 DEF Within
    <3> QED
      BY <3>1, <3>2, <3>3
  <2> QED
    BY <2>1, <2>2
<1>2. CASE ~\E a \in Axis : c.i[a] >= Upper(b, a) \/ Upper(c, a) <= b.i[a]
  <2> DEFINE X == Cut(b, c, 1)
             Y == Cut(X.rest, c, 2)
             Z == Cut(Y.rest, c, 3)
             In(x, a) == c.i[a] <= x[a] /\ x[a] < Upper(c, a)
  <2>1. SubtractSubgrids(b, c) = X.pieces \cup Y.pieces \cup Z.pieces
    BY <1>2 DEF SubtractSubgrids
  <2>2. \A a \in Axis : c.i[a] < Upper(b, a) /\ b.i[a] < Upper(c, a) /\ c.n[a] > 0
    <3> TAKE a \in Axis
    <3>1. b.i[a] \in Int /\ Upper(b, a) \in Int /\ c.i[a] \in Int /\ Upper(c, a) \in Int
      BY BoxFacts
    <3> QED
      BY <1>2, <3>1
  <2>3. /\ X.pieces \subseteq Boxes /\ X.rest \in Boxes
        /\ \A o \in Axis \ {1} : X.rest.i[o] = b.i[o] /\ X.rest.n[o] = b.n[o]
        /\ \A x \in Points : /\ Within(X.rest, x) <=> Within(b, x) /\ In(x, 1)
                             /\ (\E d \in X.pieces : Within(d, x)) <=> Within(b, x) /\ ~In(x, 1)
    BY <2>2, CutIs, AxesAre
  <2> HIDE DEF X
  <2>4. c.i[2] < Upper(X.rest, 2) /\ X.rest.i[2] < Upper(c, 2)
    BY <2>2, <2>3, AxesAre DEF Upper
  <2>5. /\ Y.pieces \subseteq Boxes /\ Y.rest \in Boxes
        /\ \A o \in Axis \ {2} : Y.rest.i[o] = X.rest.i[o] /\ Y.rest.n[o] = X.rest.n[o]
        /\ \A x \in Points : /\ Within(Y.rest, x) <=> Within(X.rest, x) /\ In(x, 2)
                             /\ (\E d \in Y.pieces : Within(d, x)) <=> Within(X.rest, x) /\ ~In(x, 2)
    BY <2>2, <2>3, <2>4, CutIs, AxesAre
  <2> HIDE DEF Y
  <2>6. c.i[3] < Upper(Y.rest, 3) /\ Y.rest.i[3] < Upper(c, 3)
    BY <2>2, <2>3, <2>5, AxesAre DEF Upper
  <2>7. /\ Z.pieces \subseteq Boxes
        /\ \A x \in Points :
             (\E d \in Z.pieces : Within(d, x)) <=> Within(Y.rest, x) /\ ~In(x, 3)
    BY <2>2, <2>5, <2>6, CutIs, AxesAre
  <2> HIDE DEF Z
  <2>8. \A x : Within(c, x) <=> In(x, 1) /\ In(x, 2) /\ In(x, 3)
    BY AxesAre DEF Within
  <2> HIDE DEF In
  <2>9. \A x \in Points : (\E d \in X.pieces \cup Y.pieces \cup Z.pieces : Within(d, x))
                            <=> Within(b, x) /\ ~Within(c, x)
    BY <2>3, <2>5, <2>7, <2>8
  <2> QED
    BY <2>1, <2>3, <2>5, <2>7, <2>9
<1> QED
  BY <1>1, <1>2

\* A box whose bounds on one axis lie inside those of s, and are s's on the others.
LEMMA NarrowBox ==
  ASSUME NEW s \in Boxes, NEW b \in Boxes, NEW a \in Axis,
         \A o \in Axis \ {a} : b.i[o] = s.i[o] /\ b.n[o] = s.n[o],
         s.i[a] <= b.i[a], Upper(b, a) <= Upper(s, a),
         NEW x \in Points, Within(b, x)
  PROVE  Within(s, x)
<1> SUFFICES ASSUME NEW o \in Axis
             PROVE  s.i[o] <= x[o] /\ x[o] < Upper(s, o)
  BY DEF Within
<1>1. b.i[o] <= x[o] /\ x[o] < Upper(b, o)
  BY DEF Within
<1>2. x[o] \in Int /\ b.i[o] \in Int /\ Upper(b, o) \in Int /\ s.i[o] \in Int /\ Upper(s, o) \in Int
  BY BoxFacts, PointFacts
<1>3. CASE o = a
  BY <1>1, <1>2, <1>3
<1>4. CASE o # a
  BY <1>1, <1>4 DEF Upper
<1> QED
  BY <1>3, <1>4

\* Cut: whatever c is, nothing but cells of s comes out.
LEMMA CutInside ==
  ASSUME NEW s \in Boxes, NEW c \in Boxes, NEW a \in Axis
  PROVE  LET cut == Cut(s, c, a)
         IN /\ cut.pieces \subseteq Boxes /\ cut.rest \in Boxes
            /\ \A b \in cut.pieces \cup {cut.rest}, x \in Points : Within(b, x) => Within(s, x)
<1> DEFINE t == RestAbove(s, c, a)
           cut == Cut(s, c, a)
           ci == c.i[a]
           cu == Upper(c, a)
           si == s.i[a]
           su == Upper(s, a)
           Inside(b, d) == /\ b \in Boxes
                           /\ \A o \in Axis \ {a} : b.i[o] = d.i[o] /\ b.n[o] = d.n[o]
                           /\ d.i[a] <= b.i[a] /\ Upper(b, a) <= Upper(d, a)
<1>1. ci \in Int /\ cu \in Int /\ si \in Int /\ su \in Int
  BY BoxFacts
<1>2. Inside(t, s)
  <2>1. CASE CutBelow(s, c, a)
    <3>1. t = Rebounded(s, a, ci, su - ci) /\ su - ci \in Int
      BY <1>1, <2>1 DEF RestAbove, Rebounded
    <3>2. t \in Boxes /\ \A o \in Axis : /\ t.i[o] = (IF o = a THEN ci ELSE s.i[o])
                                         /\ t.n[o] = (IF o = a THEN su - ci ELSE s.n[o])
      BY <1>1, <3>1, ReboundedIs
    <3> HIDE DEF t
    <3>3. Upper(t, a) = ci + (su - ci) /\ t.i[a] = ci
      BY <3>2 DEF Upper
    <3>4. ci > si
      BY <2>1 DEF CutBelow
    <3> QED
      BY <1>1, <3>2, <3>3, <3>4
  <2>2. CASE ~CutBelow(s, c, a)
    BY <1>1, <2>2 DEF RestAbove
  <2> QED
    BY <2>1, <2>2
<1> DEFINE ti == t.i[a]
           tu == Upper(t, a)
           below == Below(s, c, a)
           above == Above(t, c, a)
           rest == [t EXCEPT !.n[a] = cu - t.i[a]]
<1>3. t \in Boxes /\ ti \in Int /\ tu \in Int
  BY <1>2, BoxFacts
<1>4. CutBelow(s, c, a) => Inside(below, s)
  <2> SUFFICES ASSUME CutBelow(s, c, a) PROVE Inside(below, s)
    OBVIOUS
  <2>1. below = Resized(s, a, ci - si) /\ ci - si \in Int
    BY <1>1 DEF Below, Resized
  <2>2. /\ below \in Boxes
        /\ \A o \in Axis : below.i[o] = s.i[o] /\ below.n[o] = IF o = a THEN ci - si ELSE s.n[o]
    BY <2>1, ResizedIs
  <2> HIDE DEF below
  <2>3. Upper(below, a) = si + (ci - si) /\ below.i[a] = si
    BY <2>2 DEF Upper
  <2>4. ci < su
    BY DEF CutBelow
  <2> QED
    BY <1>1, <2>2, <2>3, <2>4
<1> HIDE DEF t
<1>5. CutAbove(t, c, a) => Inside(above, t) /\ Inside(rest, t)
  <2> SUFFICES ASSUME CutAbove(t, c, a) PROVE Inside(above, t) /\ Inside(rest, t)
    OBVIOUS
  <2>1. cu > ti /\ cu < tu
    BY DEF CutAbove
  <2>2. above = Rebounded(t, a, cu, tu - cu) /\ tu - cu \in Int
    BY <1>1, <1>3 DEF Above, Rebounded
  <2>3. rest = Resized(t, a, cu - ti) /\ cu - ti \in Int
    BY <1>1, <1>3 DEF Resized
  <2>4. /\ above \in Boxes
        /\ \A o \in Axis : /\ above.i[o] = (IF o = a THEN cu ELSE t.i[o])
                           /\ above.n[o] = (IF o = a THEN tu - cu ELSE t.n[o])
    BY <1>1, <1>3, <2>2, ReboundedIs
  <2>5. /\ rest \in Boxes
        /\ \A o \in Axis : rest.i[o] = t.i[o] /\ rest.n[o] = (IF o = a THEN cu - ti ELSE t.n[o])
    <3> HIDE DEF rest, cu, ti
    <3> QED
      BY <1>3, <2>3, ResizedIs
  <2> HIDE DEF above, rest
  <2>6. /\ Upper(above, a) = cu + (tu - cu) /\ above.i[a] = cu
        /\ Upper(rest, a) = ti + (cu - ti) /\ rest.i[a] = ti
    BY <2>4, <2>5 DEF Upper
  <2> QED
    BY <1>1, <1>3, <2>1, <2>4, <2>5, <2>6
<1>6. \A b, x : Inside(b, s) /\ x \in Points /\ Within(b, x) => Within(s, x)
  BY NarrowBox
<1>7. \A b, x : Inside(b, t) /\ x \in Points /\ Within(b, x) => Within(s, x)
  <2> TAKE b, x
  <2> HAVE Inside(b, t) /\ x \in Points /\ Within(b, x)
  <2>1. Within(t, x)
    BY <1>3, NarrowBox
  <2> QED
    BY <1>2, <1>6, <2>1
<1>8. /\ cut.pieces = (IF CutBelow(s, c, a) THEN {below} ELSE {})
                        \cup (IF CutAbove(t, c, a) THEN {above} ELSE {})
      /\ cut.rest = IF CutAbove(t, c, a) THEN rest ELSE t
  BY DEF Cut, t
<1>9. Inside(t, s) /\ \A b, d : Inside(b, d) => b \in Boxes
  BY <1>2
<1> HIDE DEF cut, below, above, rest, Inside
<1>10. \A b \in cut.pieces \cup {cut.rest} : Inside(b, s) \/ Inside(b, t)
  BY <1>4, <1>5, <1>8, <1>9
<1> QED
  BY <1>6, <1>7, <1>9, <1>10 DEF cut

LEMMA SubtractionInside ==
  ASSUME NEW b \in Boxes, NEW c \in Boxes
  PROVE  /\ SubtractSubgrids(b, c) \subseteq Boxes
         /\ \A piece \in SubtractSubgrids(b, c), x \in Points : Within(piece, x) => Within(b, x)
<1> DEFINE X == Cut(b, c, 1)
           Y == Cut(X.rest, c, 2)
           Z == Cut(Y.rest, c, 3)
<1>1. SubtractSubgrids(b, c) \subseteq {b} \cup X.pieces \cup Y.pieces \cup Z.pieces
  BY DEF SubtractSubgrids
<1>2. /\ X.pieces \subseteq Boxes /\ X.rest \in Boxes
      /\ \A d \in X.pieces \cup {X.rest}, x \in Points : Within(d, x) => Within(b, x)
  BY CutInside, AxesAre
<1> HIDE DEF X
<1>3. /\ Y.pieces \subseteq Boxes /\ Y.rest \in Boxes
      /\ \A d \in Y.pieces \cup {Y.rest}, x \in Points : Within(d, x) => Within(X.rest, x)
  BY <1>2, CutInside, AxesAre
<1> HIDE DEF Y
<1>4. /\ Z.pieces \subseteq Boxes
      /\ \A d \in Z.pieces, x \in Points : Within(d, x) => Within(Y.rest, x)
  BY <1>3, CutInside, AxesAre
<1> HIDE DEF Z
<1> QED
  BY <1>1, <1>2, <1>3, <1>4

-----------------------------------------------------------------------------
(* What a stencil reaches.                                                  *)

Move(b, e) == [b EXCEPT !.i = Each(LAMBDA a : b.i[a] + e[a])]
Minus(x, e) == <<x[1] - e[1], x[2] - e[2], x[3] - e[3]>>
Opposite(e) == <<-e[1], -e[2], -e[3]>>

\* The stencil st carries a cell of b from inside q to outside q.
Reaches(b, q, st) ==
  \E x \in Points, e \in st : Within(b, x) /\ Within(q, Minus(x, e)) /\ ~Within(q, x)

LEMMA MinusIs ==
  ASSUME NEW x \in Points, NEW e \in Points
  PROVE  /\ Minus(x, e) \in Points /\ Opposite(e) \in Points
         /\ \A a \in Axis : Minus(x, e)[a] = x[a] - e[a] /\ Opposite(e)[a] = -e[a]
         /\ Minus(Minus(x, e), Opposite(e)) = x
<1>1. PICK x1 \in Int, x2 \in Int, x3 \in Int : x = <<x1, x2, x3>>
  BY DEF Points
<1>2. PICK e1 \in Int, e2 \in Int, e3 \in Int : e = <<e1, e2, e3>>
  BY DEF Points
<1>3. Minus(x, e) = <<x1 - e1, x2 - e2, x3 - e3>> /\ Opposite(e) = <<-e1, -e2, -e3>>
  BY <1>1, <1>2 DEF Minus, Opposite
<1>4. Minus(x, e) \in Points /\ Opposite(e) \in Points
  BY <1>3 DEF Points
<1>5. \A a \in Axis : Minus(x, e)[a] = x[a] - e[a] /\ Opposite(e)[a] = -e[a]
  BY <1>1, <1>2, <1>3 DEF Axis
<1>6. x1 - e1 - (-e1) = x1 /\ x2 - e2 - (-e2) = x2 /\ x3 - e3 - (-e3) = x3
  OBVIOUS
<1>7. Minus(Minus(x, e), Opposite(e)) = <<x1 - e1 - (-e1), x2 - e2 - (-e2), x3 - e3 - (-e3)>>
  BY <1>3 DEF Minus
<1> QED
  BY <1>1, <1>4, <1>5, <1>6, <1>7

LEMMA MoveIs ==
  ASSUME NEW b \in Boxes, NEW e \in Points
  PROVE  /\ Move(b, e) \in Boxes
         /\ \A x \in Points : Within(Move(b, e), x) <=> Within(b, Minus(x, e))
         /\ Move(b, e).n = b.n
<1>1. \A a \in Axis : b.i[a] \in Int /\ b.n[a] \in Int /\ e[a] \in Int
  BY BoxFacts, PointFacts
<1> DEFINE i == <<b.i[1] + e[1], b.i[2] + e[2], b.i[3] + e[3]>>
<1>2. Move(b, e) = [b EXCEPT !.i = i]
  BY DEF Move, Each
<1>3. i \in Triples /\ i[1] = b.i[1] + e[1] /\ i[2] = b.i[2] + e[2] /\ i[3] = b.i[3] + e[3]
  BY <1>1, AxesAre, TripleIs
<1> HIDE DEF i
<1>4. \A a \in Axis : i[a] = b.i[a] + e[a]
  BY <1>3, AxesAre
<1>5. Move(b, e) \in Boxes /\ Move(b, e).n = b.n /\ Move(b, e).i = i
  BY <1>2, <1>3 DEF Boxes
<1>6. ASSUME NEW x \in Points
      PROVE  Within(Move(b, e), x) <=> Within(b, Minus(x, e))
  <2>1. \A a \in Axis : Minus(x, e)[a] = x[a] - e[a] /\ x[a] \in Int
    BY MinusIs, PointFacts
  <2>2. \A a \in Axis : /\ b.i[a] + e[a] <= x[a] <=> b.i[a] <= x[a] - e[a]
                        /\ x[a] < b.i[a] + e[a] + b.n[a] <=> x[a] - e[a] < b.i[a] + b.n[a]
    BY <1>1, <2>1
  <2>3. \A a \in Axis : /\ Move(b, e).i[a] = b.i[a] + e[a]
                        /\ Upper(Move(b, e), a) = b.i[a] + e[a] + b.n[a]
                        /\ Upper(b, a) = b.i[a] + b.n[a]
    BY <1>4, <1>5 DEF Upper
  <2> QED
    BY <2>1, <2>2, <2>3 DEF Within
<1> QED
  BY <1>5, <1>6

\* What a moved subgrid covers outside its old place.
LEMMA MovedOutside ==
  ASSUME NEW q \in Boxes, NEW e \in Points
  PROVE  /\ Move(q, e) \in Boxes
         /\ SubtractSubgrids(Move(q, e), q) \subseteq Boxes
         /\ \A x \in Points : (\E c \in SubtractSubgrids(Move(q, e), q) : Within(c, x))
                               <=> Within(q, Minus(x, e)) /\ ~Within(q, x)
<1>1. /\ Move(q, e) \in Boxes /\ Move(q, e).n = q.n
      /\ SubtractSubgrids(Move(q, e), q) \subseteq Boxes
      /\ \A x \in Points : Within(Move(q, e), x) <=> Within(q, Minus(x, e))
  BY MoveIs, SubtractionInside
<1>2. ASSUME NEW x \in Points
      PROVE  (\E c \in SubtractSubgrids(Move(q, e), q) : Within(c, x))
                <=> Within(Move(q, e), x) /\ ~Within(q, x)
  <2>1. CASE \A a \in Axis : q.n[a] > 0
    BY <1>1, <2>1, SubtractionIs
  <2>2. CASE ~\A a \in Axis : q.n[a] > 0
    <3>1. ~Within(Move(q, e), x)
      <4>1. PICK a \in Axis : ~(q.n[a] > 0)
        BY <2>2
      <4>2. q.n[a] \in Int /\ Move(q, e).i[a] \in Int /\ x[a] \in Int
        BY <1>1, BoxFacts, PointFacts
      <4>3. Upper(Move(q, e), a) = Move(q, e).i[a] + q.n[a]
        BY <1>1 DEF Upper
      <4>4. ~(Move(q, e).i[a] <= x[a] /\ x[a] < Upper(Move(q, e), a))
        BY <4>1, <4>2, <4>3
      <4> QED
        BY <4>4 DEF Within
    <3> QED
      BY <1>1, <3>1, SubtractionInside
  <2> QED
    BY <2>1, <2>2
<1> QED
  BY <1>1, <1>2

\* Shifted, Clipped: a subgrid shares a box with what is around another one
\* exactly when the stencil reaches one of its cells from there.
LEMMA ShiftedReaches ==
  ASSUME NEW b \in Boxes, NEW q \in Boxes, NEW st \in SUBSET Points
  PROVE  (\E c \in Shifted(q, st) : IntersectSubgrids(b, c) # {}) <=> Reaches(b, q, st)
<1>1. \A c : c \in Shifted(q, st) <=> \E e \in st : c \in SubtractSubgrids(Move(q, e), q)
  BY DEF Shifted, Move, Each
<1>2. \A e \in st : /\ SubtractSubgrids(Move(q, e), q) \subseteq Boxes
                    /\ \A x \in Points : (\E c \in SubtractSubgrids(Move(q, e), q) : Within(c, x))
                                          <=> Within(q, Minus(x, e)) /\ ~Within(q, x)
  BY MovedOutside
<1>3. \A e \in st : \A c \in SubtractSubgrids(Move(q, e), q) :
        IntersectSubgrids(b, c) # {} <=> \E x \in Points : Within(b, x) /\ Within(c, x)
  BY <1>2, IntersectionIs
<1> QED
  BY <1>1, <1>2, <1>3 DEF Reaches

\* Two subgrids with the same cells, or with none in common.
Apart(b, c) == \/ \A x \in Points : Within(b, x) <=> Within(c, x)
               \/ \A x \in Points : ~(Within(b, x) /\ Within(c, x))

Symmetric(st) == st \subseteq Points /\ \A e \in st : Opposite(e) \in st

\* With a symmetric stencil, of two subgrids each reaches the other or neither does.
LEMMA ReachBothWays ==
  ASSUME NEW b \in Boxes, NEW q \in Boxes, Apart(b, q), NEW st, Symmetric(st), Reaches(b, q, st)
  PROVE  Reaches(q, b, st)
<1>1. PICK x \in Points, e \in st : Within(b, x) /\ Within(q, Minus(x, e)) /\ ~Within(q, x)
  BY DEF Reaches
<1>2. \A y \in Points : ~(Within(b, y) /\ Within(q, y))
  BY <1>1 DEF Apart
<1>3. e \in Points /\ Opposite(e) \in st
  BY <1>1 DEF Symmetric
<1>4. Minus(x, e) \in Points /\ Minus(Minus(x, e), Opposite(e)) = x
  BY <1>3, MinusIs
<1>5. ~Within(b, Minus(x, e))
  BY <1>1, <1>2, <1>4
<1> QED
  BY <1>1, <1>3, <1>4, <1>5 DEF Reaches

Modes == {"All", "RPoint", "BPoint", "All2", "VelZ", "Godunov", "PGS1", "PGS2", "PGS3", "PGS4"}

LEMMA OppositeIs ==
  ASSUME NEW x \in Int, NEW y \in Int, NEW z \in Int,
         NEW u \in Int, NEW v \in Int, NEW w \in Int, x + u = 0, y + v = 0, z + w = 0
  PROVE  Opposite(<<x, y, z>>) = <<u, v, w>>
<1>1. u = -x /\ v = -y /\ w = -z
  OBVIOUS
<1> QED
  BY <1>1 DEF Opposite

LEMMA CubeIsSymmetric ==
  ASSUME NEW k \in Nat
  PROVE  Symmetric(Cube(k))
<1>1. \A z \in (-k)..k : z \in Int /\ -z \in (-k)..k
  OBVIOUS
<1>2. ASSUME NEW c \in Cube(k) PROVE c \in Points /\ Opposite(c) \in Cube(k)
  <2>1. PICK x \in (-k)..k, y \in (-k)..k, z \in (-k)..k : c = <<x, y, z>>
    BY DEF Cube
  <2>2. Opposite(c) = <<-x, -y, -z>>
    BY <2>1 DEF Opposite
  <2> QED
    BY <1>1, <2>1, <2>2 DEF Cube, Points
<1> QED
  BY <1>2 DEF Symmetric

LEMMA StarIsSymmetric == Symmetric(Star)
<1>1. Star \subseteq Points
  BY DEF Star, Points
<1>2. ASSUME NEW e \in Star PROVE Opposite(e) \in Star
  <2>1. CASE e = <<-1, 0, 0>>
    BY <2>1, OppositeIs DEF Star
  <2>2. CASE e = <<1, 0, 0>>
    BY <2>2, OppositeIs DEF Star
  <2>3. CASE e = <<0, -1, 0>>
    BY <2>3, OppositeIs DEF Star
  <2>4. CASE e = <<0, 1, 0>>
    BY <2>4, OppositeIs DEF Star
  <2>5. CASE e = <<0, 0, -1>>
    BY <2>5, OppositeIs DEF Star
  <2>6. CASE e = <<0, 0, 1>>
    BY <2>6, OppositeIs DEF Star
  <2> QED
    BY <2>1, <2>2, <2>3, <2>4, <2>5, <2>6 DEF Star
<1> QED
  BY <1>1, <1>2 DEF Symmetric

LEMMA UnionIsSymmetric ==
  ASSUME NEW s, NEW t, Symmetric(s), Symmetric(t)
  PROVE  Symmetric(s \cup t)
  BY DEF Symmetric

\* CreateComputePkgs: every update mode has a symmetric stencil.
LEMMA StencilsAreSymmetric ==
  ASSUME NEW mode \in Modes
  PROVE  Symmetric(Stencil(mode))
<1>1. CASE mode \in {"All", "RPoint", "BPoint"}
  BY <1>1, StarIsSymmetric DEF Stencil, Each
<1>2. CASE mode = "All2"
  <2> DEFINE double == {Each(LAMBDA a : 2 * e[a]) : e \in Star}
  <2>1. \A c : c \in double <=> \E e \in Star : c = <<2 * e[1], 2 * e[2], 2 * e[3]>>
    BY DEF Each
  <2> HIDE DEF double
  <2>2. ASSUME NEW c \in double PROVE c \in Points /\ Opposite(c) \in double
    <3>1. PICK e \in Star : c = <<2 * e[1], 2 * e[2], 2 * e[3]>>
      BY <2>1
    <3>2. e \in Points /\ Opposite(e) \in Star
      BY StarIsSymmetric DEF Symmetric
    <3>3. PICK x \in Int, y \in Int, z \in Int : e = <<x, y, z>>
      BY <3>2 DEF Points
    <3>4. e[1] = x /\ e[2] = y /\ e[3] = z
      BY <3>3
    <3>5. c = <<2 * x, 2 * y, 2 * z>> /\ c[1] = 2 * x /\ c[2] = 2 * y /\ c[3] = 2 * z
      BY <3>1, <3>4
    <3>6. Opposite(c) = <<-(2 * x), -(2 * y), -(2 * z)>>
      BY <3>5 DEF Opposite
    <3>7. Opposite(e)[1] = -x /\ Opposite(e)[2] = -y /\ Opposite(e)[3] = -z
      BY <3>4 DEF Opposite
    <3>8. -(2 * x) = 2 * (-x) /\ -(2 * y) = 2 * (-y) /\ -(2 * z) = 2 * (-z)
      OBVIOUS
    <3>9. c \in Points
      BY <3>5 DEF Points
    <3> QED
      BY <2>1, <3>2, <3>6, <3>7, <3>8, <3>9
  <2>3. Symmetric(double)
    BY <2>2 DEF Symmetric
  <2>4. Stencil(mode) = Star \cup double
    BY <1>2 DEF Stencil, Each, double
  <2> QED
    BY <2>3, <2>4, StarIsSymmetric, UnionIsSymmetric
<1>3. CASE mode = "VelZ"
  <2> DEFINE ends == {<<0, 0, 2>>, <<0, 0, -2>>}
  <2>1. ends \subseteq Points
    BY DEF Points
  <2>2. Opposite(<<0, 0, 2>>) = <<0, 0, -2>> /\ Opposite(<<0, 0, -2>>) = <<0, 0, 2>>
    BY OppositeIs
  <2>3. Symmetric(ends)
    BY <2>1, <2>2 DEF Symmetric
  <2>4. Stencil(mode) = Star \cup ends
    BY <1>3 DEF Stencil, Each
  <2> QED
    BY <2>3, <2>4, StarIsSymmetric, UnionIsSymmetric
<1>4. CASE mode = "Godunov"
  <2> DEFINE Deep(c) == \E a \in Axis : /\ c[a] \in {-3, -2, 2, 3}
                                        /\ \A o \in Axis \ {a} : c[o] \in -1..1
             layers == {c \in Cube(3) : Deep(c)}
  <2>1. Symmetric(Cube(1)) /\ Symmetric(Cube(3))
    BY CubeIsSymmetric
  <2>2. ASSUME NEW c \in layers PROVE Opposite(c) \in layers
    <3>1. c \in Cube(3) /\ c \in Points /\ Opposite(c) \in Cube(3)
      BY <2>1 DEF Symmetric
    <3>2. \A a \in Axis : Opposite(c)[a] = -c[a] /\ c[a] \in Int
      BY <3>1, MinusIs, PointFacts
    <3>3. PICK a \in Axis : c[a] \in {-3, -2, 2, 3} /\ \A o \in Axis \ {a} : c[o] \in -1..1
      OBVIOUS
    <3>4. Opposite(c)[a] \in {-3, -2, 2, 3}
      BY <3>2, <3>3
    <3>5. \A o \in Axis \ {a} : Opposite(c)[o] \in -1..1
      BY <3>2, <3>3
    <3>6. Deep(Opposite(c))
      BY <3>4, <3>5
    <3> QED
      BY <3>1, <3>6
  <2>3. layers \subseteq Points
    BY <2>1 DEF Symmetric
  <2>4. Symmetric(layers)
    BY <2>2, <2>3 DEF Symmetric
  <2>5. Stencil(mode) = Cube(1) \cup layers
    BY <1>4 DEF Stencil, Each, Godunov
  <2> QED
    BY <2>1, <2>4, <2>5, UnionIsSymmetric
<1>5. CASE mode = "PGS1"
  BY <1>5, CubeIsSymmetric DEF Stencil, Each
<1>6. CASE mode = "PGS2"
  BY <1>6, CubeIsSymmetric DEF Stencil, Each
<1>7. CASE mode = "PGS3"
  BY <1>7, CubeIsSymmetric DEF Stencil, Each
<1>8. CASE mode = "PGS4"
  BY <1>8, CubeIsSymmetric DEF Stencil, Each
<1> QED
  BY <1>1, <1>2, <1>3, <1>4, <1>5, <1>6, <1>7, <1>8 DEF Modes

LEMMA StencilsReachFaces ==
  ASSUME NEW mode \in Modes
  PROVE  Star \subseteq Stencil(mode)
<1>1. \A k \in {1, 2, 3, 4} : Star \subseteq Cube(k)
  BY DEF Star, Cube
<1>2. CASE mode \in {"All", "RPoint", "BPoint", "All2", "VelZ"}
  BY <1>2 DEF Stencil, Each
<1>3. CASE mode = "Godunov"
  BY <1>1, <1>3 DEF Stencil, Each, Godunov
<1>4. CASE mode = "PGS1"
  BY <1>1, <1>4 DEF Stencil, Each
<1>5. CASE mode = "PGS2"
  BY <1>1, <1>5 DEF Stencil, Each
<1>6. CASE mode = "PGS3"
  BY <1>1, <1>6 DEF Stencil, Each
<1>7. CASE mode = "PGS4"
  BY <1>1, <1>7 DEF Stencil, Each
<1> QED
  BY <1>2, <1>3, <1>4, <1>5, <1>6, <1>7 DEF Modes

\* Neighbours on a face grid: the last layer of b is the first one of c.
Touch(b, c) ==
  \E a \in Axis : /\ Upper(b, a) = c.i[a] + 1
                  /\ b.n[a] >= 2 /\ c.n[a] >= 2
                  /\ \A o \in Axis \ {a} : b.i[o] = c.i[o] /\ b.n[o] = c.n[o] /\ b.n[o] > 0

Related(b, c) == Apart(b, c) \/ Touch(b, c) \/ Touch(c, b)

\* The unit step along an axis, up and down.
StepUp(a) == <<IF a = 1 THEN 1 ELSE 0, IF a = 2 THEN 1 ELSE 0, IF a = 3 THEN 1 ELSE 0>>
StepDown(a) == <<IF a = 1 THEN -1 ELSE 0, IF a = 2 THEN -1 ELSE 0, IF a = 3 THEN -1 ELSE 0>>

LEMMA StepsAre ==
  ASSUME NEW a \in Axis
  PROVE  /\ StepUp(a) \in Star /\ StepUp(a) \in Points
         /\ StepDown(a) \in Star /\ StepDown(a) \in Points
         /\ \A o \in Axis : /\ StepUp(a)[o] = (IF o = a THEN 1 ELSE 0)
                            /\ StepDown(a)[o] = (IF o = a THEN -1 ELSE 0)
<1>1. a = 1 => StepUp(a) = <<1, 0, 0>> /\ StepDown(a) = <<-1, 0, 0>>
  BY DEF StepUp, StepDown
<1>2. a = 2 => StepUp(a) = <<0, 1, 0>> /\ StepDown(a) = <<0, -1, 0>>
  BY DEF StepUp, StepDown
<1>3. a = 3 => StepUp(a) = <<0, 0, 1>> /\ StepDown(a) = <<0, 0, -1>>
  BY DEF StepUp, StepDown
<1>4. StepUp(a) \in Star /\ StepDown(a) \in Star
  BY <1>1, <1>2, <1>3, AxesAre DEF Star
<1>5. StepUp(a) \in Points /\ StepDown(a) \in Points
  BY <1>4, StarIsSymmetric DEF Symmetric
<1>6. \A o \in Axis : /\ StepUp(a)[o] = (IF o = a THEN 1 ELSE 0)
                      /\ StepDown(a)[o] = (IF o = a THEN -1 ELSE 0)
  BY AxesAre DEF StepUp, StepDown
<1> QED
  BY <1>4, <1>5, <1>6

\* Two boxes that touch reach each other through the layer they share.
LEMMA TouchReaches ==
  ASSUME NEW b \in Boxes, NEW c \in Boxes, Touch(b, c), NEW st, Star \subseteq st
  PROVE  Reaches(b, c, st) /\ Reaches(c, b, st)
<1>1. PICK a \in Axis :
        /\ Upper(b, a) = c.i[a] + 1
        /\ b.n[a] >= 2 /\ c.n[a] >= 2
        /\ \A o \in Axis \ {a} : b.i[o] = c.i[o] /\ b.n[o] = c.n[o] /\ b.n[o] > 0
  BY DEF Touch
<1>2. \A o \in Axis : /\ b.i[o] \in Int /\ b.n[o] \in Int /\ c.i[o] \in Int /\ c.n[o] \in Int
  BY BoxFacts
<1> DEFINE y == <<c.i[1], c.i[2], c.i[3]>>
           down == Minus(y, StepUp(a))
           up == Minus(y, StepDown(a))
<1>3. y \in Points /\ \A o \in Axis : y[o] = c.i[o]
  BY <1>2, AxesAre DEF Points
<1> HIDE DEF y
<1>4. /\ StepUp(a) \in st /\ StepUp(a) \in Points /\ StepDown(a) \in st /\ StepDown(a) \in Points
      /\ \A o \in Axis : /\ StepUp(a)[o] = (IF o = a THEN 1 ELSE 0)
                         /\ StepDown(a)[o] = (IF o = a THEN -1 ELSE 0)
  BY StepsAre
<1>5. /\ down \in Points /\ up \in Points
      /\ \A o \in Axis : /\ down[o] = y[o] - StepUp(a)[o] /\ up[o] = y[o] - StepDown(a)[o]
  BY <1>3, <1>4, MinusIs
<1>6. Minus(down, StepDown(a)) = y /\ Minus(up, StepUp(a)) = y
  <2>1. Opposite(StepUp(a)) = StepDown(a) /\ Opposite(StepDown(a)) = StepUp(a)
    <3>1. a = 1 => StepUp(a) = <<1, 0, 0>> /\ StepDown(a) = <<-1, 0, 0>>
      BY DEF StepUp, StepDown
    <3>2. a = 2 => StepUp(a) = <<0, 1, 0>> /\ StepDown(a) = <<0, -1, 0>>
      BY DEF StepUp, StepDown
    <3>3. a = 3 => StepUp(a) = <<0, 0, 1>> /\ StepDown(a) = <<0, 0, -1>>
      BY DEF StepUp, StepDown
    <3> QED
      BY <3>1, <3>2, <3>3, OppositeIs, AxesAre
  <2> QED
    BY <1>3, <1>4, <2>1, MinusIs
<1> HIDE DEF down, up
<1>7. \A o \in Axis : /\ down[o] = (IF o = a THEN c.i[o] - 1 ELSE c.i[o])
                      /\ up[o] = (IF o = a THEN c.i[o] + 1 ELSE c.i[o])
  BY <1>2, <1>3, <1>4, <1>5
<1>8. /\ Upper(b, a) = b.i[a] + b.n[a] /\ b.i[a] + b.n[a] = c.i[a] + 1
  BY <1>1 DEF Upper
<1>9. Within(b, down) /\ Within(b, y)
  BY <1>1, <1>2, <1>3, <1>7, <1>8 DEF Within, Upper
<1>10. Within(c, up) /\ Within(c, y)
  BY <1>1, <1>2, <1>3, <1>7 DEF Within, Upper
<1>11. ~Within(c, down) /\ ~Within(b, up)
  <2>1. down[a] < c.i[a] /\ ~(up[a] < Upper(b, a))
    BY <1>1, <1>2, <1>7
  <2>2. ~(c.i[a] <= down[a])
    BY <1>2, <1>7
  <2> QED
    BY <2>1, <2>2 DEF Within
<1> QED
  BY <1>4, <1>5, <1>6, <1>9, <1>10, <1>11 DEF Reaches

LEMMA RelatedReachBothWays ==
  ASSUME NEW b \in Boxes, NEW q \in Boxes, Related(b, q), NEW st, Symmetric(st), Star \subseteq st
  PROVE  Reaches(b, q, st) <=> Reaches(q, b, st)
<1>1. Apart(b, q) => Apart(q, b)
  BY DEF Apart
<1>2. CASE Apart(b, q)
  BY <1>1, <1>2, ReachBothWays
<1>3. CASE Touch(b, q) \/ Touch(q, b)
  BY <1>3, TouchReaches
<1> QED
  BY <1>2, <1>3 DEF Related

-----------------------------------------------------------------------------
(* The two ends of a message.                                               *)

\* What p sends to q is what q awaits from p.
Agree(sent, awaited, p, q) ==
  /\ q \in DOMAIN sent <=> p \in DOMAIN awaited
  /\ q \in DOMAIN sent => sent[q] = awaited[p]

\* The subgrid m is the only one of process p.
Sole(grid, p, m) == m \in grid /\ {b \in grid : b.p = p} = {m}

\* CommRegFromStencil on two ranks p and q that have one subgrid each, mp and mq.
LEMMA RegionsAgree ==
  ASSUME NEW grid \in SUBSET Boxes, NEW st, Symmetric(st), Star \subseteq st,
         NEW p, NEW q, NEW mp, NEW mq, Sole(grid, p, mp), Sole(grid, q, mq), Related(mp, mq)
  PROVE  Agree(CommRegFromStencil(mp, grid, st).send, CommRegFromStencil(mq, grid, st).recv, p, q)
<1> USE DEF Sole
<1> DEFINE np == GetGridNeighbors(mp, grid, st)
           nq == GetGridNeighbors(mq, grid, st)
           bp == [k \in Processes(np) |-> UNION {Clipped(mp, Shifted(b, st)) : b \in On(np, k)}]
           bq == [k \in Processes(nq) |-> UNION {Clipped(b, Shifted(mq, st)) : b \in On(nq, k)}]
           boxes == Clipped(mp, Shifted(mq, st))
<1>1. st \in SUBSET Points
  BY DEF Symmetric
<1>2. mq \in np <=> Reaches(mq, mp, st)
  BY <1>1, ShiftedReaches DEF GetGridNeighbors
<1>3. mp \in nq <=> Reaches(mp, mq, st)
  BY <1>1, ShiftedReaches DEF GetGridNeighbors
<1>4. boxes # {} <=> Reaches(mp, mq, st)
  <2>1. boxes # {} <=> \E c \in Shifted(mq, st) : IntersectSubgrids(mp, c) # {}
    BY DEF Clipped
  <2> QED
    BY <1>1, <2>1, ShiftedReaches
<1>5. Reaches(mp, mq, st) <=> Reaches(mq, mp, st)
  BY RelatedReachBothWays
<1>6. On(np, q) = IF mq \in np THEN {mq} ELSE {}
  BY DEF On, GetGridNeighbors
<1>7. On(nq, p) = IF mp \in nq THEN {mp} ELSE {}
  BY DEF On, GetGridNeighbors
<1>8. q \in Processes(np) <=> mq \in np
  BY <1>6 DEF Processes, On
<1>9. p \in Processes(nq) <=> mp \in nq
  BY <1>7 DEF Processes, On
<1>10. mq \in np => q \in DOMAIN bp /\ bp[q] = boxes
  BY <1>6, <1>8
<1>11. mp \in nq => p \in DOMAIN bq /\ bq[p] = boxes
  BY <1>7, <1>9
<1>12. DOMAIN bp = Processes(np) /\ DOMAIN bq = Processes(nq)
  OBVIOUS
<1> DEFINE sent == ByProcess(bp)
           awaited == ByProcess(bq)
<1>13. /\ CommRegFromStencil(mp, grid, st).send = sent
       /\ CommRegFromStencil(mq, grid, st).recv = awaited
  BY DEF CommRegFromStencil
<1> HIDE DEF np, nq, bp, bq, boxes
<1>14. \A k : k \in DOMAIN sent <=> k \in DOMAIN bp /\ bp[k] # {}
  BY DEF ByProcess
<1>15. \A k : k \in DOMAIN awaited <=> k \in DOMAIN bq /\ bq[k] # {}
  BY DEF ByProcess
<1>16. \A k \in DOMAIN sent : sent[k] = UnionSubgridArray(bp[k])
  BY DEF ByProcess
<1>17. \A k \in DOMAIN awaited : awaited[k] = UnionSubgridArray(bq[k])
  BY DEF ByProcess
<1> HIDE DEF sent, awaited
<1>18. q \in DOMAIN sent <=> Reaches(mp, mq, st)
  BY <1>2, <1>4, <1>5, <1>8, <1>10, <1>12, <1>14
<1>19. p \in DOMAIN awaited <=> Reaches(mp, mq, st)
  BY <1>3, <1>4, <1>9, <1>11, <1>12, <1>15
<1>20. q \in DOMAIN sent => sent[q] = awaited[p]
  BY <1>2, <1>3, <1>5, <1>10, <1>11, <1>16, <1>17, <1>18, <1>19
<1> QED
  BY <1>13, <1>18, <1>19, <1>20 DEF Agree

\* ProjectRBPoint keeps the agreement: it does the same to equal boxes.
LEMMA ColoursAgree ==
  ASSUME NEW sent, NEW awaited, NEW colour, NEW p, NEW q,
         Agree(sent, awaited, p, q)
  PROVE  Agree(ProjectRBRegion(sent, colour), ProjectRBRegion(awaited, colour), p, q)
  BY DEF ProjectRBRegion, Agree

LEMMA PackagesAgree ==
  ASSUME NEW grid \in SUBSET Boxes, NEW mode \in Modes,
         NEW p, NEW q, NEW mp, NEW mq, Sole(grid, p, mp), Sole(grid, q, mq), Related(mp, mq)
  PROVE  Agree(ComputePkg(mp, grid, mode).send, ComputePkg(mq, grid, mode).recv, p, q)
<1> DEFINE st == Stencil(mode)
           sent == CommRegFromStencil(mp, grid, st).send
           awaited == CommRegFromStencil(mq, grid, st).recv
<1>1. Symmetric(st) /\ Star \subseteq st
  BY StencilsAreSymmetric, StencilsReachFaces
<1> HIDE DEF st
<1>2. Agree(sent, awaited, p, q)
  BY <1>1, RegionsAgree
<1>3. CASE mode = "RPoint"
  <2>1. /\ ComputePkg(mp, grid, mode).send = ProjectRBRegion(sent, Black)
        /\ ComputePkg(mq, grid, mode).recv = ProjectRBRegion(awaited, Black)
    BY <1>3 DEF ComputePkg, st
  <2> HIDE DEF sent, awaited
  <2> QED
    BY <1>2, <2>1, ColoursAgree
<1>4. CASE mode = "BPoint"
  <2>1. /\ ComputePkg(mp, grid, mode).send = ProjectRBRegion(sent, Red)
        /\ ComputePkg(mq, grid, mode).recv = ProjectRBRegion(awaited, Red)
    BY <1>4 DEF ComputePkg, st
  <2> HIDE DEF sent, awaited
  <2> QED
    BY <1>2, <2>1, ColoursAgree
<1>5. CASE mode # "RPoint" /\ mode # "BPoint"
  <2>1. /\ ComputePkg(mp, grid, mode).send = sent
        /\ ComputePkg(mq, grid, mode).recv = awaited
    BY <1>5 DEF ComputePkg, st
  <2> HIDE DEF sent, awaited
  <2> QED
    BY <1>2, <2>1
<1> QED
  BY <1>3, <1>4, <1>5

-----------------------------------------------------------------------------
(* How the subgrids of a grid lie to each other.                            *)

LEMMA SameBounds ==
  ASSUME NEW b, NEW c, \A a \in Axis : b.i[a] = c.i[a] /\ b.n[a] = c.n[a]
  PROVE  Apart(b, c)
  BY DEF Apart, Within, Upper

LEMMA ApartOnAxis ==
  ASSUME NEW b \in Boxes, NEW c \in Boxes, NEW a \in Axis,
         Upper(b, a) <= c.i[a] \/ Upper(c, a) <= b.i[a]
  PROVE  Apart(b, c)
<1> SUFFICES ASSUME NEW x \in Points, Within(b, x), Within(c, x)
             PROVE  FALSE
  BY DEF Apart
<1>1. /\ x[a] \in Int /\ b.i[a] \in Int /\ Upper(b, a) \in Int
      /\ c.i[a] \in Int /\ Upper(c, a) \in Int
  BY BoxFacts, PointFacts
<1>2. b.i[a] <= x[a] /\ x[a] < Upper(b, a) /\ c.i[a] <= x[a] /\ x[a] < Upper(c, a)
  BY DEF Within
<1> QED
  BY <1>1, <1>2

\* pqr_to_nxyz: with no more processes than cells each process has a cell.
LEMMA BlockHasCell ==
  ASSUME NEW n \in Nat, NEW t \in Nat \ {0}, t <= n, NEW i \in Nat
  PROVE  Size(n, t, i) >= 1
<1> DEFINE m == n \div t
<1>1. m \in Nat /\ n % t \in 0..(t - 1) /\ n = m * t + (n % t)
  BY Digits
<1>2. m >= 1
  <2> SUFFICES ASSUME m = 0 PROVE FALSE
    BY <1>1
  <2>1. 0 * t = 0
    OBVIOUS
  <2> HIDE DEF m
  <2> QED
    BY <1>1, <2>1
<1>3. Size(n, t, i) = IF i < n % t THEN m + 1 ELSE m
  BY DEF Size, pqr_to_nxyz
<1> HIDE DEF m
<1> QED
  BY <1>1, <1>2, <1>3

\* Two blocks of an axis are the same or one ends before the other begins; if every
\* process has a cell and the blocks are not neighbours, a cell lies between them.
LEMMA BlockOrder ==
  ASSUME NEW n \in Nat, NEW t \in Nat \ {0}, NEW j \in 0..(t - 1), NEW k \in 0..(t - 1), j < k
  PROVE  /\ Lo(n, t, j) + Size(n, t, j) <= Lo(n, t, k)
         /\ k = j + 1 => Lo(n, t, j) + Size(n, t, j) = Lo(n, t, k)
         /\ t <= n => /\ Size(n, t, j) >= 1 /\ Size(n, t, k) >= 1
                      /\ k # j + 1 => Lo(n, t, j) + Size(n, t, j) + 1 <= Lo(n, t, k)
<1>1. /\ \A i \in Nat : /\ Lo(n, t, i) \in Nat
                        /\ Size(n, t, i) \in Nat
                        /\ Lo(n, t, i + 1) = Lo(n, t, i) + Size(n, t, i)
      /\ \A h, i \in Nat : h <= i => Lo(n, t, h) <= Lo(n, t, i)
  BY BlocksInRow
<1>2. j \in Nat /\ k \in Nat /\ j + 1 \in Nat /\ j + 1 + 1 \in Nat /\ j + 1 <= k
  OBVIOUS
<1>3. Lo(n, t, j) + Size(n, t, j) <= Lo(n, t, k)
  BY <1>1, <1>2
<1>4. k = j + 1 => Lo(n, t, j) + Size(n, t, j) = Lo(n, t, k)
  BY <1>1, <1>2
<1>5. ASSUME t <= n, NEW i \in Nat
      PROVE  Size(n, t, i) >= 1
  BY <1>5, BlockHasCell
<1>6. ASSUME t <= n, k # j + 1
      PROVE  Lo(n, t, j) + Size(n, t, j) + 1 <= Lo(n, t, k)
  <2>1. /\ Lo(n, t, j + 1) = Lo(n, t, j) + Size(n, t, j)
        /\ Lo(n, t, j + 1 + 1) = Lo(n, t, j + 1) + Size(n, t, j + 1)
        /\ Lo(n, t, j) \in Nat /\ Size(n, t, j) \in Nat /\ Size(n, t, j + 1) \in Nat
        /\ Lo(n, t, k) \in Nat /\ Lo(n, t, j + 1) \in Nat /\ Lo(n, t, j + 1 + 1) \in Nat
    BY <1>1, <1>2
  <2>2. j + 1 + 1 <= k
    BY <1>2, <1>6
  <2>3. Lo(n, t, j + 1 + 1) <= Lo(n, t, k)
    BY <1>1, <1>2, <2>2
  <2>4. Size(n, t, j + 1) >= 1
    BY <1>2, <1>5, <1>6
  <2> QED
    BY <2>1, <2>3, <2>4
<1> QED
  BY <1>2, <1>3, <1>4, <1>5, <1>6

Kinds == {"grid", "grid2d", "x_grid", "y_grid", "z_grid"}
FaceAxis(kind) == CASE kind = "x_grid" -> 1 [] kind = "y_grid" -> 2 [] kind = "z_grid" -> 3

\* The derived grids: a flat one, and one with a layer more on one axis.
LEMMA DerivedIs ==
  ASSUME NEW b \in Boxes, NEW kind \in Kinds
  PROVE  /\ Derived(b, kind) \in Boxes /\ Derived(b, kind).p = b.p
         /\ kind = "grid" => Derived(b, kind) = b
         /\ kind = "grid2d" => \A o \in Axis :
              /\ Derived(b, kind).i[o] = (IF o = 3 THEN 0 ELSE b.i[o])
              /\ Derived(b, kind).n[o] = (IF o = 3 THEN 1 ELSE b.n[o])
         /\ kind \notin {"grid", "grid2d"} =>
              /\ FaceAxis(kind) \in Axis
              /\ \A o \in Axis :
                   /\ Derived(b, kind).i[o] = b.i[o]
                   /\ Derived(b, kind).n[o] = (IF o = FaceAxis(kind) THEN b.n[o] + 1 ELSE b.n[o])
<1>1. CASE kind = "grid"
  BY <1>1 DEF Derived
<1>2. CASE kind = "grid2d"
  <2>1. Derived(b, kind) = Rebounded(b, 3, 0, 1)
    BY <1>2 DEF Derived, Rebounded
  <2>2. Rebounded(b, 3, 0, 1).p = b.p
    BY DEF Rebounded, Boxes
  <2> QED
    BY <1>2, <2>1, <2>2, ReboundedIs, AxesAre
<1>3. CASE kind \notin {"grid", "grid2d"}
  <2> DEFINE a == FaceAxis(kind)
  <2>1. a \in Axis /\ Derived(b, kind) = Resized(b, a, b.n[a] + 1)
    <3>1. CASE kind = "x_grid"
      BY <3>1, AxesAre DEF Derived, Resized, FaceAxis
    <3>2. CASE kind = "y_grid"
      BY <3>2, AxesAre DEF Derived, Resized, FaceAxis
    <3>3. CASE kind = "z_grid"
      BY <3>3, AxesAre DEF Derived, Resized, FaceAxis
    <3> QED
      BY <1>3, <3>1, <3>2, <3>3 DEF Kinds
  <2> HIDE DEF a
  <2>2. b.n[a] + 1 \in Int
    BY <2>1, BoxFacts
  <2>3. Resized(b, a, b.n[a] + 1).p = b.p
    BY DEF Resized, Boxes
  <2> QED
    BY <1>3, <2>1, <2>2, <2>3, ResizedIs DEF a
<1> QED
  BY <1>1, <1>2, <1>3

\* An image of a finite set of subgrids, as the derived grids are.
LEMMA DerivedIsFinite ==
  ASSUME NEW S, IsFiniteSet(S), NEW kind
  PROVE  IsFiniteSet({Derived(b, kind) : b \in S})
<1> DEFINE T == {Derived(b, kind) : b \in S}
           f == [b \in S |-> Derived(b, kind)]
<1>1. f \in Surjection(S, T)
  BY DEF Surjection
<1> HIDE DEF f, T
<1>2. IsFiniteSet(T)
  BY <1>1, FS_Surjection
<1> QED
  BY <1>2 DEF T

LEMMA TopologySubgridsFinite ==
  ASSUME NEW n \in Grids, NEW t \in Grids
  PROVE  IsFiniteSet(TopologySubgrids(n, t))
<1> DEFINE P == 0..(t[1] - 1)
           Q == 0..(t[2] - 1)
           R == 0..(t[3] - 1)
           S == TopologySubgrids(n, t)
           X == (P \X Q) \X R
           f == [x \in X |-> Block(n, t, x[1][1], x[1][2], x[2])]
<1>1. S = {Block(n, t, p, q, r) : p \in P, q \in Q, r \in R}
  BY SubgridsAreBlocks
<1>2. t[1] \in Nat /\ t[2] \in Nat /\ t[3] \in Nat
  BY AxesOfGrid
<1>3. IsFiniteSet(P) /\ IsFiniteSet(Q) /\ IsFiniteSet(R)
  <2>1. 0 \in Int /\ t[1] - 1 \in Int /\ t[2] - 1 \in Int /\ t[3] - 1 \in Int
    BY <1>2
  <2>2. \A k \in Int : IsFiniteSet(0..k)
    BY <2>1, FS_Interval
  <2> QED
    BY <2>1, <2>2
<1> HIDE DEF P, Q, R, S
<1>4. IsFiniteSet(X)
  BY <1>3, FS_Product
<1>5. \A x \in X : x[1][1] \in P /\ x[1][2] \in Q /\ x[2] \in R
  OBVIOUS
<1>6. f \in [X -> S]
  BY <1>1, <1>5
<1>7. ASSUME NEW b \in S PROVE \E x \in X : f[x] = b
  <2>1. PICK p \in P, q \in Q, r \in R : b = Block(n, t, p, q, r)
    BY <1>1
  <2>2. <<<<p, q>>, r>> \in X /\ f[<<<<p, q>>, r>>] = b
    BY <2>1
  <2> QED
    BY <2>2
<1>8. f \in Surjection(X, S)
  BY <1>6, <1>7 DEF Surjection
<1> HIDE DEF f, X
<1> QED
  BY <1>4, <1>8, FS_Surjection DEF S

\* The place of a block, axis by axis.
LEMMA BlockOnAxes ==
  ASSUME NEW n \in Grids, NEW t \in Grids,
         NEW b \in TopologySubgrids(n, t)
  PROVE  /\ b \in Boxes
         /\ \E u \in [Axis -> Nat] : \A a \in Axis :
              /\ u[a] \in 0..(t[a] - 1)
              /\ b.i[a] = Lo(n[a], t[a], u[a]) /\ b.n[a] = Size(n[a], t[a], u[a])
<1>1. PICK p \in 0..(t[1] - 1), q \in 0..(t[2] - 1), r \in 0..(t[3] - 1) :
        b = Block(n, t, p, q, r)
  BY SubgridsAreBlocks
<1>2. /\ b \in Boxes
      /\ b.i[1] = Lo(n[1], t[1], p) /\ b.n[1] = Size(n[1], t[1], p)
      /\ b.i[2] = Lo(n[2], t[2], q) /\ b.n[2] = Size(n[2], t[2], q)
      /\ b.i[3] = Lo(n[3], t[3], r) /\ b.n[3] = Size(n[3], t[3], r)
  BY <1>1, BlockFacts
<1>3. p \in Nat /\ q \in Nat /\ r \in Nat
  BY AxesOfGrid
<1> DEFINE u == [a \in Axis |-> IF a = 1 THEN p ELSE IF a = 2 THEN q ELSE r]
<1>4. u \in [Axis -> Nat] /\ u[1] = p /\ u[2] = q /\ u[3] = r
  BY <1>3, AxesAre
<1> HIDE DEF u
<1>5. \A a \in Axis : /\ u[a] \in 0..(t[a] - 1)
                      /\ b.i[a] = Lo(n[a], t[a], u[a]) /\ b.n[a] = Size(n[a], t[a], u[a])
  BY <1>2, <1>4, AxesAre
<1> QED
  BY <1>2, <1>4, <1>5

\* The subgrids of the flow grid and of its two-dimensional copy.
LEMMA DerivedApart ==
  ASSUME NEW n \in Grids, NEW t \in Grids, NEW kind \in {"grid", "grid2d"},
         NEW b \in TopologySubgrids(n, t), NEW c \in TopologySubgrids(n, t)
  PROVE  Apart(Derived(b, kind), Derived(c, kind))
<1> DEFINE B == Derived(b, kind)
           C == Derived(c, kind)
<1>1. b \in Boxes /\ c \in Boxes
  BY BlockOnAxes
<1>2. PICK u \in [Axis -> Nat] : \A a \in Axis :
        /\ u[a] \in 0..(t[a] - 1)
        /\ b.i[a] = Lo(n[a], t[a], u[a]) /\ b.n[a] = Size(n[a], t[a], u[a])
  BY BlockOnAxes
<1>3. PICK v \in [Axis -> Nat] : \A a \in Axis :
        /\ v[a] \in 0..(t[a] - 1)
        /\ c.i[a] = Lo(n[a], t[a], v[a]) /\ c.n[a] = Size(n[a], t[a], v[a])
  BY BlockOnAxes
<1>4. \A a \in Axis : n[a] \in Nat /\ t[a] \in Nat \ {0} /\ u[a] \in Nat /\ v[a] \in Nat
  BY DEF Grids
<1>5. B \in Boxes /\ C \in Boxes
  BY <1>1, DerivedIs DEF Kinds
\* On an axis that the derived grid leaves alone.
<1>6. ASSUME NEW a \in Axis, u[a] # v[a],
             B.i[a] = b.i[a], B.n[a] = b.n[a], C.i[a] = c.i[a], C.n[a] = c.n[a]
      PROVE  Apart(B, C)
  <2>1. u[a] < v[a] \/ v[a] < u[a]
    BY <1>4, <1>6
  <2>2. Upper(B, a) <= C.i[a] \/ Upper(C, a) <= B.i[a]
    BY <1>2, <1>3, <1>4, <1>6, <2>1, BlockOrder DEF Upper
  <2> QED
    BY <1>5, <2>2, ApartOnAxis
<1>7. ASSUME NEW a \in Axis, u[a] = v[a]
      PROVE  b.i[a] = c.i[a] /\ b.n[a] = c.n[a]
  BY <1>2, <1>3, <1>7
<1>8. CASE kind = "grid"
  <2>1. B = b /\ C = c
    BY <1>1, <1>8, DerivedIs DEF Kinds
  <2>2. CASE \E a \in Axis : u[a] # v[a]
    BY <1>6, <2>1, <2>2
  <2>3. CASE \A a \in Axis : u[a] = v[a]
    BY <1>7, <2>1, <2>3, SameBounds
  <2> QED
    BY <2>2, <2>3
<1>9. CASE kind = "grid2d"
  <2>1. \A o \in Axis : /\ B.i[o] = (IF o = 3 THEN 0 ELSE b.i[o])
                        /\ B.n[o] = (IF o = 3 THEN 1 ELSE b.n[o])
                        /\ C.i[o] = (IF o = 3 THEN 0 ELSE c.i[o])
                        /\ C.n[o] = (IF o = 3 THEN 1 ELSE c.n[o])
    BY <1>1, <1>9, DerivedIs DEF Kinds
  <2> HIDE DEF B, C
  <2>2. CASE \E a \in Axis \ {3} : u[a] # v[a]
    BY <1>6, <2>1, <2>2 DEF B, C
  <2>3. CASE \A a \in Axis \ {3} : u[a] = v[a]
    <3>1. \A a \in Axis : B.i[a] = C.i[a] /\ B.n[a] = C.n[a]
      BY <1>7, <2>1, <2>3
    <3> QED
      BY <3>1, SameBounds DEF B, C
  <2> QED
    BY <2>2, <2>3
<1> QED
  BY <1>8, <1>9

\* The subgrids of a grid derived from a topology have the same cells, none in common,
\* or, on the face grids, one layer.
LEMMA DerivedRelated ==
  ASSUME NEW n \in Grids, NEW t \in Grids, NEW kind \in Kinds,
         kind \in {"grid", "grid2d"} \/ \A a \in Axis : t[a] <= n[a],
         NEW b \in TopologySubgrids(n, t), NEW c \in TopologySubgrids(n, t)
  PROVE  Related(Derived(b, kind), Derived(c, kind))
<1> DEFINE B == Derived(b, kind)
           C == Derived(c, kind)
<1>1. b \in Boxes /\ c \in Boxes
  BY BlockOnAxes
<1>2. PICK u \in [Axis -> Nat] : \A a \in Axis :
        /\ u[a] \in 0..(t[a] - 1)
        /\ b.i[a] = Lo(n[a], t[a], u[a]) /\ b.n[a] = Size(n[a], t[a], u[a])
  BY BlockOnAxes
<1>3. PICK v \in [Axis -> Nat] : \A a \in Axis :
        /\ v[a] \in 0..(t[a] - 1)
        /\ c.i[a] = Lo(n[a], t[a], v[a]) /\ c.n[a] = Size(n[a], t[a], v[a])
  BY BlockOnAxes
<1>4. \A a \in Axis : n[a] \in Nat /\ t[a] \in Nat \ {0} /\ u[a] \in Nat /\ v[a] \in Nat
  BY DEF Grids
<1>5. B \in Boxes /\ C \in Boxes
  BY <1>1, DerivedIs
\* On an axis that the derived grid leaves alone.
<1>6. ASSUME NEW a \in Axis, u[a] # v[a],
             B.i[a] = b.i[a], B.n[a] = b.n[a], C.i[a] = c.i[a], C.n[a] = c.n[a]
      PROVE  Apart(B, C)
  <2>1. u[a] < v[a] \/ v[a] < u[a]
    BY <1>4, <1>6
  <2>2. Upper(B, a) <= C.i[a] \/ Upper(C, a) <= B.i[a]
    BY <1>2, <1>3, <1>4, <1>6, <2>1, BlockOrder DEF Upper
  <2> QED
    BY <1>5, <2>2, ApartOnAxis
<1>7. ASSUME NEW a \in Axis, u[a] = v[a]
      PROVE  b.i[a] = c.i[a] /\ b.n[a] = c.n[a]
  BY <1>2, <1>3, <1>7
<1>8. CASE kind \in {"grid", "grid2d"}
  BY <1>8, DerivedApart DEF Related
<1>9. CASE kind \notin {"grid", "grid2d"}
  <2> DEFINE f == FaceAxis(kind)
  <2>1. /\ f \in Axis
        /\ \A o \in Axis : /\ B.i[o] = b.i[o] /\ B.n[o] = (IF o = f THEN b.n[o] + 1 ELSE b.n[o])
                           /\ C.i[o] = c.i[o] /\ C.n[o] = (IF o = f THEN c.n[o] + 1 ELSE c.n[o])
    BY <1>1, <1>9, DerivedIs
  <2>2. \A a \in Axis : t[a] <= n[a]
    BY <1>9
  <2> HIDE DEF B, C, f
  <2>3. CASE \E a \in Axis \ {f} : u[a] # v[a]
    BY <1>6, <2>1, <2>3 DEF Related, B, C
  <2>4. CASE \A a \in Axis : u[a] = v[a]
    <3>1. \A a \in Axis : B.i[a] = C.i[a] /\ B.n[a] = C.n[a]
      BY <1>7, <2>1, <2>4
    <3> QED
      BY <3>1, SameBounds DEF Related, B, C
  <2>5. CASE (\A a \in Axis \ {f} : u[a] = v[a]) /\ u[f] # v[f]
    <3>1. \A o \in Axis \ {f} : B.i[o] = C.i[o] /\ B.n[o] = C.n[o]
      BY <1>7, <2>1, <2>5
    <3>2. \A o \in Axis : /\ B.i[o] \in Int /\ B.n[o] \in Int /\ C.i[o] \in Int /\ C.n[o] \in Int
                          /\ b.i[o] \in Int /\ b.n[o] \in Int /\ c.i[o] \in Int /\ c.n[o] \in Int
      BY <1>1, <1>5, BoxFacts DEF B, C
    <3>3. /\ B.i[f] = b.i[f] /\ B.n[f] = b.n[f] + 1 /\ C.i[f] = c.i[f] /\ C.n[f] = c.n[f] + 1
          /\ b.i[f] \in Int /\ b.n[f] \in Int /\ c.i[f] \in Int /\ c.n[f] \in Int
      BY <2>1, <3>2
    <3>4. \A o \in Axis : b.n[o] >= 1 /\ c.n[o] >= 1
      <4> TAKE o \in Axis
      <4>1. \A k \in 0..(t[o] - 1) : Size(n[o], t[o], k) >= 1
        BY <1>4, <2>2, BlockHasCell
      <4> QED
        BY <1>2, <1>3, <4>1
    <3>5. \A o \in Axis : B.n[o] > 0 /\ C.n[o] > 0
      BY <2>1, <3>2, <3>4
    <3>6. /\ u[f] < v[f] => /\ b.i[f] + b.n[f] <= c.i[f]
                            /\ v[f] = u[f] + 1 => b.i[f] + b.n[f] = c.i[f]
                            /\ v[f] # u[f] + 1 => b.i[f] + b.n[f] + 1 <= c.i[f]
          /\ v[f] < u[f] => /\ c.i[f] + c.n[f] <= b.i[f]
                            /\ u[f] = v[f] + 1 => c.i[f] + c.n[f] = b.i[f]
                            /\ u[f] # v[f] + 1 => c.i[f] + c.n[f] + 1 <= b.i[f]
      BY <1>2, <1>3, <1>4, <2>1, <2>2, BlockOrder
    <3>7. u[f] < v[f] \/ v[f] < u[f]
      BY <1>4, <2>1, <2>5
    <3>8. Upper(B, f) = b.i[f] + (b.n[f] + 1) /\ Upper(C, f) = c.i[f] + (c.n[f] + 1)
      BY <3>3 DEF Upper
    <3>9. CASE u[f] < v[f]
      <4>1. CASE v[f] = u[f] + 1
        <5>1. Upper(B, f) = C.i[f] + 1 /\ B.n[f] >= 2 /\ C.n[f] >= 2
          BY <2>1, <3>3, <3>4, <3>6, <3>8, <3>9, <4>1
        <5>2. Touch(B, C)
          BY <2>1, <3>1, <3>5, <5>1 DEF Touch
        <5> QED
          BY <5>2 DEF Related, B, C
      <4>2. CASE v[f] # u[f] + 1
        <5>1. Upper(B, f) <= C.i[f]
          BY <3>3, <3>6, <3>8, <3>9, <4>2
        <5> QED
          BY <1>5, <2>1, <5>1, ApartOnAxis DEF Related, B, C
      <4> QED
        BY <4>1, <4>2
    <3>10. CASE v[f] < u[f]
      <4>1. CASE u[f] = v[f] + 1
        <5>1. Upper(C, f) = B.i[f] + 1 /\ B.n[f] >= 2 /\ C.n[f] >= 2
          BY <2>1, <3>3, <3>4, <3>6, <3>8, <3>10, <4>1
        <5>2. Touch(C, B)
          BY <2>1, <3>1, <3>5, <5>1 DEF Touch
        <5> QED
          BY <5>2 DEF Related, B, C
      <4>2. CASE u[f] # v[f] + 1
        <5>1. Upper(C, f) <= B.i[f]
          BY <3>3, <3>6, <3>8, <3>10, <4>2
        <5> QED
          BY <1>5, <2>1, <5>1, ApartOnAxis DEF Related, B, C
      <4> QED
        BY <4>1, <4>2
    <3> QED
      BY <3>7, <3>9, <3>10
  <2> QED
    BY <2>3, <2>4, <2>5
<1> QED
  BY <1>8, <1>9

-----------------------------------------------------------------------------
(* Numbers, finite sets and recursion over numbers.                         *)

\* A property of 0 that passes from each number below n to the next holds up to n.
LEMMA Induction ==
  ASSUME NEW n \in Nat, NEW P, 0 \in P, \A k \in 1..n : k - 1 \in P => k \in P
  PROVE  \A k \in 0..n : k \in P
<1> DEFINE D == {k \in 0..n : k \notin P}
<1> SUFFICES ASSUME D # {} PROVE FALSE
  OBVIOUS
<1>1. D \subseteq Nat
  OBVIOUS
<1>2. PICK d \in D : \A e \in D : d <= e
  <2> HIDE DEF D
  <2> QED
    BY <1>1, SmallestNumber
<1>3. d # 0 /\ d \in 1..n /\ d \notin P /\ d - 1 \in 0..n
  BY <1>2
<1>4. d - 1 \notin D
  BY <1>2, <1>3
<1> QED
  BY <1>3, <1>4

\* G leads from one of the sets X[0], ..., X[n] to the next.
Leads(n, X, a, G) ==
  /\ a \in X[0]
  /\ \A k \in 1..n : \A x \in X[k - 1] : G[k][x] \in X[k]

\* f begins with a and goes on along G.
Follows(f, n, a, G) ==
  /\ DOMAIN f = 0..n
  /\ f[0] = a
  /\ \A k \in 1..n : f[k] = G[k][f[k - 1]]

LEMMA Recursion ==
  ASSUME NEW n \in Nat, NEW X, NEW a, NEW G, Leads(n, X, a, G)
  PROVE  \E f : /\ Follows(f, n, a, G) /\ f = [k \in 0..n |-> f[k]]
               /\ \A k \in 0..n : f[k] \in X[k]
<1> DEFINE U == UNION {X[k] : k \in 0..n}
           Good(m, f) == /\ f[0] = a /\ \A k \in 0..n : k <= m => f[k] \in X[k]
                         /\ \A k \in 1..n : k <= m => f[k] = G[k][f[k - 1]]
           P == {m \in Nat : \E f \in [0..n -> U] : Good(m, f)}
<1>1. 0 \in P
  <2> DEFINE f == [k \in 0..n |-> a]
  <2>1. a \in U
    BY DEF Leads
  <2>2. f \in [0..n -> U] /\ f[0] = a
    BY <2>1
  <2>3. \A k \in 0..n : k <= 0 => k = 0
    OBVIOUS
  <2>4. \A k \in 1..n : ~(k <= 0)
    OBVIOUS
  <2>5. Good(0, f)
    BY <2>2, <2>3, <2>4 DEF Leads
  <2> QED
    BY <2>2, <2>5
<1>2. ASSUME NEW m \in 1..n, m - 1 \in P PROVE m \in P
  <2>1. PICK f \in [0..n -> U] : Good(m - 1, f)
    BY <1>2
  <2>2. m \in 0..n /\ m - 1 \in 0..n /\ m # 0 /\ m - 1 # m /\ m \in Nat
    OBVIOUS
  <2> DEFINE v == G[m][f[m - 1]]
             g == [k \in 0..n |-> IF k = m THEN v ELSE f[k]]
  <2>3. v \in X[m] /\ v \in U
    <3>1. m - 1 <= m - 1
      OBVIOUS
    <3>2. f[m - 1] \in X[m - 1]
      BY <2>1, <2>2, <3>1
    <3>3. v \in X[m]
      BY <3>2 DEF Leads
    <3> QED
      BY <2>2, <3>3
  <2>4. g \in [0..n -> U] /\ g[m] = v /\ \A k \in 0..n : k # m => g[k] = f[k]
    BY <2>2, <2>3
  <2> HIDE DEF g
  <2>5. g[0] = a
    BY <2>1, <2>2, <2>4
  <2>6. ASSUME NEW k \in 0..n, k <= m PROVE g[k] \in X[k]
    <3>1. CASE k = m
      BY <2>3, <2>4, <3>1
    <3>2. CASE k # m
      <4>1. k <= m - 1
        BY <2>6, <3>2
      <4> QED
        BY <4>1, <3>2, <2>1, <2>4
    <3> QED
      BY <3>1, <3>2
  <2>7. ASSUME NEW k \in 1..n, k <= m PROVE g[k] = G[k][g[k - 1]]
    <3>1. k - 1 \in 0..n /\ k - 1 # m /\ k \in 0..n
      BY <2>7
    <3>2. g[k - 1] = f[k - 1]
      BY <3>1, <2>4
    <3>3. CASE k = m
      BY <3>2, <3>3, <2>4
    <3>4. CASE k # m
      <4>1. k <= m - 1
        BY <2>7, <3>4
      <4> QED
        BY <4>1, <3>1, <3>2, <3>4, <2>1, <2>4
    <3> QED
      BY <3>3, <3>4
  <2>8. Good(m, g)
    BY <2>5, <2>6, <2>7
  <2> QED
    BY <2>2, <2>4, <2>8
<1>3. n \in P
  <2> HIDE DEF P
  <2>1. \A k \in 0..n : k \in P
    BY <1>1, <1>2, Induction
  <2> QED
    BY <2>1
<1>4. PICK f \in [0..n -> U] : Good(n, f)
  BY <1>3
<1>5. DOMAIN f = 0..n /\ f = [k \in 0..n |-> f[k]]
  OBVIOUS
<1>6. (\A k \in 1..n : k <= n) /\ \A k \in 0..n : k <= n
  OBVIOUS
<1>7. Follows(f, n, a, G) /\ \A k \in 0..n : f[k] \in X[k]
  BY <1>4, <1>5, <1>6 DEF Follows
<1> QED
  BY <1>5, <1>7

\* A finite set has a least element in every order that compares any two of them.
LEMMA LeastElement ==
  ASSUME NEW S, IsFiniteSet(S), S # {}, NEW R,
         \A x, y \in S : <<x, y>> \in R \/ <<y, x>> \in R,
         \A x, y, z \in S : <<x, y>> \in R /\ <<y, z>> \in R => <<x, z>> \in R
  PROVE  \E x \in S : \A y \in S : <<x, y>> \in R
<1> DEFINE n == Cardinality(S)
<1>1. n \in Nat /\ ExistsBijection(1..n, S)
  BY FS_CardinalityType
<1>2. PICK f \in [1..n -> S] : \A y \in S : \E j \in 1..n : f[j] = y
  BY <1>1 DEF ExistsBijection, Bijection, Surjection, Injection
<1> HIDE DEF n
<1> DEFINE P == {k \in Nat : k = 0 \/ \E x \in S : \A j \in 1..n : j <= k => <<x, f[j]>> \in R}
<1>3. 0 \in P
  OBVIOUS
<1>4. ASSUME NEW k \in 1..n, k - 1 \in P PROVE k \in P
  <2>1. f[k] \in S /\ k \in Nat
    OBVIOUS
  <2>2. CASE k = 1
    <3>1. \A j \in 1..n : j <= k => j = k
      BY <2>2
    <3>2. \A j \in 1..n : j <= k => <<f[k], f[j]>> \in R
      BY <3>1, <2>1
    <3> QED
      BY <2>1, <3>2
  <2>3. CASE k # 1
    <3>1. PICK x \in S : \A j \in 1..n : j <= k - 1 => <<x, f[j]>> \in R
      BY <2>3, <1>4
    <3>2. \A j \in 1..n : j <= k => j <= k - 1 \/ j = k
      OBVIOUS
    <3>3. CASE <<x, f[k]>> \in R
      <4>1. \A j \in 1..n : j <= k => <<x, f[j]>> \in R
        BY <3>1, <3>2, <3>3
      <4> QED
        BY <4>1, <2>1
    <3>4. CASE <<f[k], x>> \in R
      <4>1. \A j \in 1..n : j <= k => <<f[k], f[j]>> \in R
        BY <3>1, <3>2, <3>4, <2>1
      <4> QED
        BY <4>1, <2>1
    <3> QED
      BY <3>3, <3>4, <2>1
  <2> QED
    BY <2>2, <2>3
<1>5. n \in P
  <2> HIDE DEF P
  <2>1. \A k \in 0..n : k \in P
    BY <1>1, <1>3, <1>4, Induction
  <2> QED
    BY <1>1, <2>1
<1>6. n # 0
  BY <1>2
<1>7. PICK x \in S : \A j \in 1..n : j <= n => <<x, f[j]>> \in R
  BY <1>5, <1>6
<1> QED
  BY <1>1, <1>2, <1>7

\* The elements with the least and with the greatest of some values.
LEMMA Extremes ==
  ASSUME NEW S, IsFiniteSet(S), NEW v, \A x \in S : v[x] \in Int, NEW T, T \subseteq S, T # {}
  PROVE  /\ \E x \in T : \A y \in T : v[x] <= v[y]
         /\ \E x \in T : \A y \in T : v[y] <= v[x]
<1> DEFINE R == {r \in T \X T : v[r[1]] <= v[r[2]]}
           Q == {r \in T \X T : v[r[2]] <= v[r[1]]}
<1>1. \A x, y \in T : (<<x, y>> \in R <=> v[x] <= v[y]) /\ (<<x, y>> \in Q <=> v[y] <= v[x])
  OBVIOUS
<1>2. \A x, y \in T : v[x] \in Int /\ (v[x] <= v[y] \/ v[y] <= v[x])
  <2>1. \A x \in T : v[x] \in Int
    OBVIOUS
  <2> QED
    BY <2>1
<1>3. IsFiniteSet(T)
  BY FS_Subset
<1> HIDE DEF R, Q
<1>4. \E x \in T : \A y \in T : <<x, y>> \in R
  <2>1. \A x, y \in T : <<x, y>> \in R \/ <<y, x>> \in R
    BY <1>1, <1>2
  <2>2. \A x, y, z \in T : <<x, y>> \in R /\ <<y, z>> \in R => <<x, z>> \in R
    BY <1>1, <1>2
  <2> QED
    BY <2>1, <2>2, <1>3, LeastElement
<1>5. \E x \in T : \A y \in T : <<x, y>> \in Q
  <2>1. \A x, y \in T : <<x, y>> \in Q \/ <<y, x>> \in Q
    BY <1>1, <1>2
  <2>2. \A x, y, z \in T : <<x, y>> \in Q /\ <<y, z>> \in Q => <<x, z>> \in Q
    BY <1>1, <1>2
  <2> QED
    BY <2>1, <2>2, <1>3, LeastElement
<1> QED
  BY <1>1, <1>4, <1>5

\* A finite set of integers has a least and a greatest element.
LEMMA LeastInteger ==
  ASSUME NEW S \in SUBSET Int, IsFiniteSet(S), NEW T, T \subseteq S, T # {}
  PROVE  /\ \E x \in T : \A y \in T : x <= y
         /\ \E x \in T : \A y \in T : y <= x
<1> DEFINE v == [x \in S |-> x]
<1>1. \A x \in S : v[x] \in Int /\ v[x] = x
  OBVIOUS
<1> HIDE DEF v
<1>2. /\ \E x \in T : \A y \in T : v[x] <= v[y]
      /\ \E x \in T : \A y \in T : v[y] <= v[x]
  BY <1>1, Extremes
<1> QED
  BY <1>1, <1>2

\* The values of a function on a finite set.
LEMMA ImageIsFinite ==
  ASSUME NEW S, IsFiniteSet(S), NEW f, DOMAIN f = S
  PROVE  IsFiniteSet({f[x] : x \in S})
<1> DEFINE T == {f[x] : x \in S}
           g == [x \in S |-> f[x]]
<1>1. g \in Surjection(S, T)
  BY DEF Surjection
<1> HIDE DEF g, T
<1>2. IsFiniteSet(T)
  BY <1>1, FS_Surjection
<1> QED
  BY <1>2 DEF T

LEMMA FiniteTriples ==
  ASSUME NEW A, NEW B, NEW C, IsFiniteSet(A), IsFiniteSet(B), IsFiniteSet(C)
  PROVE  IsFiniteSet(A \X B \X C)
<1> DEFINE X == (A \X B) \X C
           f == [x \in X |-> <<x[1][1], x[1][2], x[2]>>]
           Y == {f[x] : x \in X}
<1>1. IsFiniteSet(X) /\ DOMAIN f = X
  BY FS_Product
<1>2. ASSUME NEW y \in A \X B \X C PROVE y \in Y
  <2>1. y = <<y[1], y[2], y[3]>> /\ <<<<y[1], y[2]>>, y[3]>> \in X
    OBVIOUS
  <2>2. f[<<<<y[1], y[2]>>, y[3]>>] = y
    BY <2>1
  <2> QED
    BY <2>1, <2>2
<1> HIDE DEF f, X
<1>3. IsFiniteSet(Y)
  BY <1>1, ImageIsFinite
<1> HIDE DEF Y
<1>4. A \X B \X C \in SUBSET Y
  BY <1>2
<1> QED
  BY <1>3, <1>4, FS_Subset

-----------------------------------------------------------------------------
(* One row of disjoint intervals, from lo[b] to below hi[b], in which Join  *)
(* looks for the heads and their ends.                                      *)

InRow(R, lo, hi) ==
  /\ IsFiniteSet(R)
  /\ \A b \in R : lo[b] \in Int /\ hi[b] \in Int /\ lo[b] < hi[b]
  /\ \A b, c \in R : lo[b] <= lo[c] /\ lo[c] < hi[b] => b = c

IsHead(R, lo, hi, h) == h \in R /\ \A b \in R : hi[b] # lo[h]

IsEnd(R, lo, hi, h, u) ==
  /\ u \in {hi[b] : b \in R}
  /\ u > lo[h]
  /\ \A b \in R : lo[b] # u
  /\ \A b \in R : (lo[b] > lo[h] /\ lo[b] < u) => \E c \in R : hi[c] = lo[b]

\* The end that Join chooses exists: the first bound at which nothing goes on.
LEMMA EndExists ==
  ASSUME NEW R, NEW lo, NEW hi, InRow(R, lo, hi), NEW h \in R
  PROVE  \E u : IsEnd(R, lo, hi, h, u)
<1> USE DEF InRow
<1>1. \A b \in R : lo[b] \in Int /\ hi[b] \in Int /\ lo[b] < hi[b]
  OBVIOUS
<1> DEFINE T == {b \in R : hi[b] > lo[h] /\ \A c \in R : lo[c] # hi[b]}
<1>2. T # {}
  <2>1. PICK g \in R : \A y \in R : hi[y] <= hi[g]
    BY Extremes
  <2>2. hi[g] > lo[h]
    BY <1>1, <2>1
  <2>3. \A c \in R : lo[c] # hi[g]
    BY <1>1, <2>1
  <2> QED
    BY <2>2, <2>3
<1>3. PICK g \in T : \A y \in T : hi[g] <= hi[y]
  <2>1. T \subseteq R
    OBVIOUS
  <2> HIDE DEF T
  <2> QED
    BY <1>2, <2>1, Extremes
<1> DEFINE u == hi[g]
<1>4. g \in R /\ u \in Int /\ u > lo[h] /\ \A b \in R : lo[b] # u
  BY <1>1, <1>3
<1>5. ASSUME NEW b \in R, lo[b] > lo[h], lo[b] < u
      PROVE  \E c \in R : hi[c] = lo[b]
  <2> DEFINE V == {c \in R : hi[c] > lo[h] /\ hi[c] <= lo[b]}
  <2>1. h \in V
    <3>1. b # h /\ lo[h] <= lo[b]
      BY <1>1, <1>5
    <3>2. ~(lo[b] < hi[h])
      BY <3>1
    <3> QED
      BY <3>2, <1>1
  <2>2. PICK c \in V : \A y \in V : hi[y] <= hi[c]
    <3>1. V \subseteq R /\ V # {}
      BY <2>1
    <3> HIDE DEF V
    <3> QED
      BY <3>1, Extremes
  <2>3. c \in R /\ hi[c] > lo[h] /\ hi[c] <= lo[b] /\ hi[c] < u
    BY <1>1, <1>4, <1>5, <2>2
  <2>4. c \notin T
    BY <1>1, <1>3, <1>4, <2>3
  <2>5. PICK d \in R : lo[d] = hi[c]
    BY <2>3, <2>4
  <2>6. CASE lo[d] = lo[b]
    BY <2>3, <2>5, <2>6
  <2>7. CASE lo[d] # lo[b]
    <3>1. lo[d] < lo[b]
      BY <1>1, <2>3, <2>5, <2>7
    <3>2. d # b
      BY <2>7
    <3>3. ~(lo[b] < hi[d])
      BY <1>1, <3>1, <3>2
    <3>4. d \in V
      BY <1>1, <2>3, <2>5, <3>3
    <3>5. hi[d] <= hi[c]
      BY <2>2, <3>4
    <3> QED
      BY <1>1, <2>3, <2>5, <3>5
  <2> QED
    BY <2>6, <2>7
<1>6. u \in {hi[b] : b \in R}
  BY <1>4
<1> HIDE DEF u
<1>7. IsEnd(R, lo, hi, h, u)
  BY <1>4, <1>5, <1>6 DEF IsEnd
<1> QED
  BY <1>7

\* From a head to such an end the row has no gap.
LEMMA EndTiles ==
  ASSUME NEW R, NEW lo, NEW hi, InRow(R, lo, hi), NEW h \in R, NEW u, IsEnd(R, lo, hi, h, u)
  PROVE  /\ u \in Int /\ u > lo[h]
         /\ \A x \in Int : lo[h] <= x /\ x < u => \E c \in R : lo[c] <= x /\ x < hi[c]
<1> USE DEF InRow
<1>1. \A b \in R : lo[b] \in Int /\ hi[b] \in Int /\ lo[b] < hi[b]
  OBVIOUS
<1>2. PICK g \in R : u = hi[g]
  BY DEF IsEnd
<1>3. u \in Int /\ u > lo[h]
  BY <1>1, <1>2 DEF IsEnd
<1>4. ASSUME NEW x \in Int, lo[h] <= x, x < u
      PROVE  \E c \in R : lo[c] <= x /\ x < hi[c]
  <2>1. CASE lo[g] <= x
    BY <1>2, <1>4, <2>1
  <2>2. CASE ~(lo[g] <= x)
    <3> DEFINE V == {d \in R : lo[d] > x}
    <3>1. g \in V
      BY <1>1, <2>2
    <3>2. PICK d \in V : \A y \in V : lo[d] <= lo[y]
      <4>1. V \subseteq R /\ V # {}
        BY <3>1
      <4> HIDE DEF V
      <4> QED
        BY <4>1, Extremes
    <3>3. d \in R /\ lo[d] > x /\ lo[d] <= lo[g]
      BY <3>1, <3>2
    <3>4. lo[d] > lo[h] /\ lo[d] < u
      BY <1>1, <1>2, <1>4, <3>3
    <3>5. PICK c \in R : hi[c] = lo[d]
      BY <3>3, <3>4 DEF IsEnd
    <3>6. c \notin V
      BY <1>1, <3>2, <3>3, <3>5
    <3>7. lo[c] <= x
      BY <1>1, <3>6
    <3> QED
      BY <3>3, <3>5, <3>7
  <2> QED
    BY <2>1, <2>2
<1> QED
  BY <1>3, <1>4

\* Every interval of the row lies between a head and its end.
LEMMA HeadsCover ==
  ASSUME NEW R, NEW lo, NEW hi, InRow(R, lo, hi), NEW e,
         \A h \in R : IsHead(R, lo, hi, h) => IsEnd(R, lo, hi, h, e[h]),
         NEW b \in R
  PROVE  \E h \in R : IsHead(R, lo, hi, h) /\ lo[h] <= lo[b] /\ hi[b] <= e[h]
<1> USE DEF InRow
<1>1. \A c \in R : lo[c] \in Int /\ hi[c] \in Int /\ lo[c] < hi[c]
  OBVIOUS
<1> DEFINE H == {h \in R : IsHead(R, lo, hi, h) /\ lo[h] <= lo[b]}
<1>2. H # {}
  <2>1. PICK f \in R : \A y \in R : lo[f] <= lo[y]
    BY Extremes
  <2>2. \A y \in R : hi[y] # lo[f]
    BY <1>1, <2>1
  <2> QED
    BY <2>1, <2>2 DEF IsHead
<1>3. PICK h \in H : \A y \in H : lo[y] <= lo[h]
  <2>1. H \subseteq R
    OBVIOUS
  <2> HIDE DEF H
  <2> QED
    BY <1>2, <2>1, Extremes
<1>4. h \in R /\ IsHead(R, lo, hi, h) /\ lo[h] <= lo[b] /\ IsEnd(R, lo, hi, h, e[h])
  BY <1>3
<1> DEFINE u == e[h]
<1>5. PICK g \in R : u = hi[g]
  BY <1>4 DEF IsEnd
<1>6. u \in Int /\ u > lo[h] /\ \A c \in R : lo[c] # u
  BY <1>1, <1>4, <1>5 DEF IsEnd
<1> HIDE DEF u
<1>7. lo[b] < u
  <2> SUFFICES ASSUME u < lo[b] PROVE FALSE
    BY <1>1, <1>6
  <2> DEFINE V == {d \in R : lo[d] > u}
  <2>1. PICK d \in V : \A y \in V : lo[d] <= lo[y]
    <3>1. V \subseteq R /\ V # {}
      BY <1>1, <1>6
    <3> HIDE DEF V
    <3> QED
      BY <3>1, Extremes
  <2>2. d \in R /\ lo[d] > u /\ lo[d] <= lo[b]
    BY <1>1, <1>6, <2>1
  <2>3. ASSUME NEW c \in R, hi[c] = lo[d] PROVE FALSE
    <3>1. lo[c] < lo[d] /\ c \notin V
      BY <1>1, <2>1, <2>2, <2>3
    <3>2. lo[c] < u
      BY <1>1, <1>6, <3>1
    <3>3. lo[g] < u /\ u < hi[c] /\ u = hi[g]
      BY <1>1, <1>5, <2>2, <2>3
    <3>4. c = g
      <4>1. CASE lo[c] <= lo[g]
        BY <1>1, <1>6, <3>3, <4>1
      <4>2. CASE lo[g] <= lo[c]
        BY <1>1, <1>6, <3>2, <3>3, <4>2
      <4> QED
        BY <1>1, <4>1, <4>2
    <3> QED
      BY <1>1, <1>6, <3>3, <3>4
  <2>4. d \in H
    BY <2>2, <2>3 DEF IsHead
  <2> QED
    BY <1>1, <1>3, <1>6, <2>2, <2>4
<1>8. hi[b] <= u
  <2>1. CASE b = g
    BY <1>1, <1>5, <2>1
  <2>2. CASE b # g
    <3>1. CASE lo[b] <= lo[g]
      <4>1. ~(lo[g] < hi[b])
        BY <2>2, <3>1
      <4> QED
        BY <4>1, <1>1, <1>5, <1>6
    <3>2. CASE lo[g] <= lo[b]
      BY <2>2, <3>2, <1>5, <1>7
    <3> QED
      BY <1>1, <3>1, <3>2
  <2> QED
    BY <2>1, <2>2
<1> QED
  BY <1>4, <1>8 DEF u

\* What belongs to two heads does not exist.
LEMMA HeadsApart ==
  ASSUME NEW R, NEW lo, NEW hi, InRow(R, lo, hi),
         NEW h, NEW g, IsHead(R, lo, hi, h), IsHead(R, lo, hi, g),
         NEW u, NEW v, IsEnd(R, lo, hi, h, u), IsEnd(R, lo, hi, g, v),
         NEW x \in Int, lo[h] <= x, x < u, lo[g] <= x, x < v
  PROVE  h = g
<1> USE DEF InRow
<1>1. \A c \in R : lo[c] \in Int /\ hi[c] \in Int /\ lo[c] < hi[c]
  OBVIOUS
<1>2. h \in R /\ g \in R
  BY DEF IsHead
<1>3. u \in Int /\ v \in Int
  BY <1>2, EndTiles
<1>4. ~(lo[h] < lo[g])
  <2> SUFFICES ASSUME lo[h] < lo[g] PROVE FALSE
    OBVIOUS
  <2>1. lo[g] < u
    BY <1>1, <1>2, <1>3
  <2> QED
    BY <1>2, <2>1 DEF IsHead, IsEnd
<1>5. ~(lo[g] < lo[h])
  <2> SUFFICES ASSUME lo[g] < lo[h] PROVE FALSE
    OBVIOUS
  <2>1. lo[h] < v
    BY <1>1, <1>2, <1>3
  <2> QED
    BY <1>2, <2>1 DEF IsHead, IsEnd
<1> QED
  BY <1>1, <1>2, <1>4, <1>5

-----------------------------------------------------------------------------
(* Sets of boxes: disjoint ones, and the points they cover.                 *)

Solid(b) == \A a \in Axis : b.n[a] > 0

Covers(S, x) == \E b \in S : Within(b, x)

Separate(S) == \A b, c \in S : \A x \in Points : Within(b, x) /\ Within(c, x) => b = c

Tidy(S) ==
  /\ S \subseteq Boxes
  /\ IsFiniteSet(S)
  /\ \A b \in S : Solid(b)
  /\ Separate(S)

\* The point is in the box as far as the axes other than a tell.
Beside(b, x, a) == \A o \in Axis \ {a} : b.i[o] <= x[o] /\ x[o] < Upper(b, o)

LEMMA WithinIs ==
  ASSUME NEW b, NEW x, NEW a \in Axis
  PROVE  Within(b, x) <=> Beside(b, x, a) /\ b.i[a] <= x[a] /\ x[a] < Upper(b, a)
BY DEF Within, Beside

LEMMA AlignedBeside ==
  ASSUME NEW b, NEW c, NEW x, NEW a \in Axis, Aligned(b, c, a)
  PROVE  Beside(b, x, a) <=> Beside(c, x, a)
BY DEF Aligned, Beside, Upper

LEMMA AlignedIs ==
  ASSUME NEW a \in Axis
  PROVE  /\ \A b : Aligned(b, b, a)
         /\ \A b, c : Aligned(b, c, a) => Aligned(c, b, a)
         /\ \A b, c, d : Aligned(b, c, a) /\ Aligned(c, d, a) => Aligned(b, d, a)
BY DEF Aligned

\* The lowest point of a box.
Corner(b) == <<b.i[1], b.i[2], b.i[3]>>

LEMMA CornerIs ==
  ASSUME NEW b \in Boxes
  PROVE  /\ Corner(b) \in Points
         /\ \A a \in Axis : Corner(b)[a] = b.i[a]
         /\ Solid(b) => Within(b, Corner(b))
<1>1. \A a \in Axis : b.i[a] \in Int /\ b.n[a] \in Int
  BY BoxFacts
<1>2. Corner(b) \in Points
  BY <1>1, AxesAre DEF Corner, Points
<1>3. \A a \in Axis : Corner(b)[a] = b.i[a]
  BY AxesAre DEF Corner
<1> QED
  BY <1>1, <1>2, <1>3 DEF Solid, Within, Upper

Row(S, h, a) == {b \in S : Aligned(h, b, a)}
Lows(S, a) == [b \in S |-> b.i[a]]
Highs(S, a) == [b \in S |-> Upper(b, a)]

\* The boxes of a tidy set that are equal but on one axis are disjoint intervals there.
LEMMA RowIs ==
  ASSUME NEW S, Tidy(S), NEW a \in Axis, NEW h \in S
  PROVE  /\ InRow(Row(S, h, a), Lows(S, a), Highs(S, a))
         /\ h \in Row(S, h, a)
         /\ \A c \in Row(S, h, a) : Row(S, c, a) = Row(S, h, a)
<1>1. \A b \in S : /\ b \in Boxes /\ b.i[a] \in Int /\ b.n[a] \in Int /\ Upper(b, a) \in Int
                   /\ b.i[a] < Upper(b, a)
  BY BoxFacts DEF Tidy, Solid, Upper
<1>2. Row(S, h, a) \subseteq S /\ h \in Row(S, h, a)
  BY AlignedIs DEF Row
<1>3. IsFiniteSet(Row(S, h, a))
  BY <1>2, FS_Subset DEF Tidy
<1>4. \A c \in Row(S, h, a) : Row(S, c, a) = Row(S, h, a)
  BY AlignedIs DEF Row
<1>5. ASSUME NEW b \in Row(S, h, a), NEW c \in Row(S, h, a), b.i[a] <= c.i[a], c.i[a] < Upper(b, a)
      PROVE  b = c
  <2>1. b \in S /\ c \in S /\ Aligned(b, c, a)
    BY AlignedIs DEF Row
  <2>2. Corner(c) \in Points /\ Within(c, Corner(c)) /\ Corner(c)[a] = c.i[a]
    BY <1>1, <2>1, CornerIs DEF Tidy
  <2>3. Beside(b, Corner(c), a)
    BY <2>1, <2>2, WithinIs, AlignedBeside
  <2>4. Within(b, Corner(c))
    BY <2>2, <2>3, <1>5, WithinIs
  <2> QED
    BY <2>1, <2>2, <2>4 DEF Tidy, Separate
<1>6. \A b \in S : Lows(S, a)[b] = b.i[a] /\ Highs(S, a)[b] = Upper(b, a)
  BY DEF Lows, Highs
<1>7. InRow(Row(S, h, a), Lows(S, a), Highs(S, a))
  BY <1>1, <1>2, <1>3, <1>5, <1>6 DEF InRow
<1> QED
  BY <1>2, <1>4, <1>7

\* Joining rows of boxes keeps the points they cover, and keeps them disjoint.
LEMMA JoinIs ==
  ASSUME NEW S, Tidy(S), NEW a \in Axis
  PROVE  /\ Tidy(Join(S, a))
         /\ \A x \in Points : Covers(Join(S, a), x) <=> Covers(S, x)
<1> DEFINE row(h) == {b \in S : Aligned(h, b, a)}
           heads == {h \in S : \A b \in row(h) : Upper(b, a) # h.i[a]}
           end(h, r) == CHOOSE u \in {Upper(b, a) : b \in r} :
                     /\ u > h.i[a]
                     /\ \A b \in r : b.i[a] # u
                     /\ \A b \in r : (b.i[a] > h.i[a] /\ b.i[a] < u) => \E c \in r : Upper(c, a) = b.i[a]
           lo == Lows(S, a)
           hi == Highs(S, a)
           e == [h \in S |-> end(h, row(h))]
           J(h) == Resized(h, a, e[h] - h.i[a])
<1>1. Join(S, a) = {J(h) : h \in heads}
  <2>1. Join(S, a) = {[h EXCEPT !.n[a] = end(h, row(h)) - h.i[a]] : h \in heads}
    BY DEF Join
  <2>2. \A h \in heads : [h EXCEPT !.n[a] = end(h, row(h)) - h.i[a]] = J(h)
    BY DEF Resized
  <2> HIDE DEF row, end, J, heads
  <2> QED
    BY <2>1, <2>2
<1>2. \A h : row(h) = Row(S, h, a)
  BY DEF Row
<1>3. \A b \in S : lo[b] = b.i[a] /\ hi[b] = Upper(b, a)
  BY DEF Lows, Highs
<1>4. \A h \in heads : h \in S /\ IsHead(Row(S, h, a), lo, hi, h)
  BY <1>2, <1>3, RowIs DEF IsHead, Row
<1>5. \A h \in S : IsHead(Row(S, h, a), lo, hi, h) => h \in heads
  BY <1>2, <1>3 DEF IsHead, Row
<1>6. \A h \in S : IsEnd(Row(S, h, a), lo, hi, h, e[h])
  <2> SUFFICES ASSUME NEW h \in S PROVE IsEnd(Row(S, h, a), lo, hi, h, e[h])
    OBVIOUS
  <2> DEFINE r == Row(S, h, a)
             ok(u) == /\ u > h.i[a]
                      /\ \A b \in r : b.i[a] # u
                      /\ \A b \in r : (b.i[a] > h.i[a] /\ b.i[a] < u) => \E c \in r : Upper(c, a) = b.i[a]
  <2>1. r \subseteq S
    BY DEF Row
  <2>2. \A u : IsEnd(r, lo, hi, h, u) <=> u \in {Upper(b, a) : b \in r} /\ ok(u)
    <3>1. \A b \in r : lo[b] = b.i[a] /\ hi[b] = Upper(b, a)
      BY <1>3, <2>1
    <3>2. {hi[b] : b \in r} = {Upper(b, a) : b \in r}
      BY <3>1
    <3> HIDE DEF lo, hi, r
    <3> QED
      BY <3>1, <3>2, <1>3 DEF IsEnd
  <2>3. e[h] = CHOOSE u \in {Upper(b, a) : b \in r} : ok(u)
    BY <1>2
  <2>4. \E u : IsEnd(r, lo, hi, h, u)
    <3>1. InRow(r, lo, hi) /\ h \in r
      BY RowIs
    <3> HIDE DEF lo, hi, r
    <3> QED
      BY <3>1, EndExists
  <2> HIDE DEF ok, e, lo, hi, r
  <2>5. \E u \in {Upper(b, a) : b \in r} : ok(u)
    BY <2>2, <2>4
  <2>6. e[h] \in {Upper(b, a) : b \in r} /\ ok(e[h])
    BY <2>3, <2>5
  <2>7. IsEnd(r, lo, hi, h, e[h])
    BY <2>2, <2>6
  <2> QED
    BY <2>7 DEF r
<1> HIDE DEF row, heads, end, lo, hi, e, J
<1>7. \A h \in S : InRow(Row(S, h, a), lo, hi) /\ h \in Row(S, h, a)
  BY RowIs DEF lo, hi
<1>8. \A h \in S : /\ h \in Boxes /\ h.i[a] \in Int /\ h.n[a] \in Int /\ Solid(h)
                   /\ e[h] \in Int /\ e[h] > h.i[a]
  <2> SUFFICES ASSUME NEW h \in S
               PROVE  /\ h \in Boxes /\ h.i[a] \in Int /\ h.n[a] \in Int /\ Solid(h)
                      /\ e[h] \in Int /\ e[h] > h.i[a]
    OBVIOUS
  <2>1. e[h] \in Int /\ e[h] > lo[h]
    BY <1>6, <1>7, EndTiles
  <2> QED
    BY <2>1, <1>3, BoxFacts DEF Tidy
<1>9. \A h \in S : /\ J(h) \in Boxes /\ Solid(J(h))
                   /\ \A x \in Points : Within(J(h), x) <=> Beside(h, x, a) /\ h.i[a] <= x[a] /\ x[a] < e[h]
  <2> SUFFICES ASSUME NEW h \in S
               PROVE  /\ J(h) \in Boxes /\ Solid(J(h))
                      /\ \A x \in Points : Within(J(h), x) <=> Beside(h, x, a) /\ h.i[a] <= x[a] /\ x[a] < e[h]
    OBVIOUS
  <2>1. e[h] - h.i[a] \in Int /\ e[h] - h.i[a] > 0 /\ h.i[a] + (e[h] - h.i[a]) = e[h]
    BY <1>8
  <2>2. /\ J(h) \in Boxes
        /\ \A o \in Axis : /\ J(h).i[o] = h.i[o]
                           /\ J(h).n[o] = IF o = a THEN e[h] - h.i[a] ELSE h.n[o]
    BY <1>8, <2>1, ResizedIs DEF J
  <2>3. Solid(J(h))
    BY <1>8, <2>1, <2>2 DEF Solid
  <2>4. Aligned(J(h), h, a) /\ Upper(J(h), a) = e[h] /\ J(h).i[a] = h.i[a]
    BY <2>1, <2>2 DEF Aligned, Upper
  <2>5. \A x \in Points : Within(J(h), x) <=> Beside(h, x, a) /\ h.i[a] <= x[a] /\ x[a] < e[h]
    BY <2>4, WithinIs, AlignedBeside
  <2> QED
    BY <2>2, <2>3, <2>5
<1>10. ASSUME NEW h \in S, NEW x \in Points, Within(J(h), x)
       PROVE  \E c \in Row(S, h, a) : Within(c, x)
  <2>1. Beside(h, x, a) /\ lo[h] <= x[a] /\ x[a] < e[h] /\ x[a] \in Int
    BY <1>3, <1>9, <1>10, PointFacts
  <2>2. PICK c \in Row(S, h, a) : lo[c] <= x[a] /\ x[a] < hi[c]
    BY <1>6, <1>7, <2>1, EndTiles
  <2>3. c \in S /\ Aligned(h, c, a)
    BY DEF Row
  <2>4. Beside(c, x, a)
    BY <2>1, <2>3, AlignedBeside
  <2>5. Within(c, x)
    BY <1>3, <2>2, <2>3, <2>4, WithinIs
  <2> QED
    BY <2>5
<1>11. ASSUME NEW x \in Points, NEW b \in S, Within(b, x)
       PROVE  \E h \in heads : Within(J(h), x)
  <2> DEFINE R == Row(S, b, a)
  <2>1. \A h \in R : h \in S /\ Row(S, h, a) = R /\ Aligned(b, h, a)
    BY RowIs DEF Row
  <2>2. \A h \in R : IsHead(R, lo, hi, h) => IsEnd(R, lo, hi, h, e[h])
    BY <1>6, <2>1
  <2>3. InRow(R, lo, hi) /\ b \in R
    BY <1>7
  <2> HIDE DEF R
  <2>4. PICK h \in R : IsHead(R, lo, hi, h) /\ lo[h] <= lo[b] /\ hi[b] <= e[h]
    BY <2>2, <2>3, HeadsCover
  <2>5. h \in heads /\ h \in S
    BY <1>5, <2>1, <2>4
  <2>6. /\ Beside(b, x, a) /\ b.i[a] <= x[a] /\ x[a] < Upper(b, a)
        /\ x[a] \in Int /\ Upper(b, a) \in Int /\ b.i[a] \in Int
    BY <1>8, <1>11, WithinIs, PointFacts, BoxFacts
  <2>7. Beside(h, x, a)
    BY <2>1, <2>6, AlignedBeside
  <2>8. h.i[a] <= b.i[a] /\ Upper(b, a) <= e[h]
    BY <1>3, <2>4, <2>5
  <2>9. h.i[a] <= x[a] /\ x[a] < e[h]
    BY <1>8, <2>5, <2>6, <2>8
  <2>10. Within(J(h), x)
    BY <1>9, <2>5, <2>7, <2>9
  <2> QED
    BY <2>5, <2>10
<1>12. ASSUME NEW h \in heads, NEW g \in heads, NEW x \in Points, Within(J(h), x), Within(J(g), x)
       PROVE  h = g
  <2>1. h \in S /\ g \in S
    BY <1>4
  <2>2. PICK c \in Row(S, h, a) : Within(c, x)
    BY <1>10, <1>12, <2>1
  <2>3. PICK d \in Row(S, g, a) : Within(d, x)
    BY <1>10, <1>12, <2>1
  <2>4. c = d
    BY <2>2, <2>3 DEF Tidy, Separate, Row
  <2>5. Row(S, h, a) = Row(S, c, a) /\ Row(S, g, a) = Row(S, c, a)
    BY <2>1, <2>2, <2>3, <2>4, RowIs
  <2> DEFINE R == Row(S, c, a)
  <2>6. /\ IsHead(R, lo, hi, h) /\ IsHead(R, lo, hi, g) /\ InRow(R, lo, hi)
        /\ IsEnd(R, lo, hi, h, e[h]) /\ IsEnd(R, lo, hi, g, e[g])
    BY <1>4, <1>6, <1>7, <2>1, <2>5
  <2>7. /\ lo[h] <= x[a] /\ x[a] < e[h] /\ x[a] \in Int
        /\ lo[g] <= x[a] /\ x[a] < e[g]
    BY <1>3, <1>9, <1>12, <2>1, PointFacts
  <2> HIDE DEF R
  <2> QED
    BY <2>6, <2>7, HeadsApart
<1>13. IsFiniteSet(Join(S, a))
  <2> DEFINE f == [h \in heads |-> J(h)]
  <2>1. IsFiniteSet(heads)
    BY <1>4, FS_Subset DEF Tidy
  <2>2. Join(S, a) = {f[h] : h \in heads}
    BY <1>1
  <2>3. DOMAIN f = heads
    OBVIOUS
  <2> HIDE DEF f
  <2> QED
    BY <2>1, <2>2, <2>3, ImageIsFinite
<1>14. Tidy(Join(S, a))
  <2>1. \A b \in Join(S, a) : b \in Boxes /\ Solid(b)
    BY <1>1, <1>4, <1>9
  <2>2. Separate(Join(S, a))
    BY <1>1, <1>12 DEF Separate
  <2> QED
    BY <1>13, <2>1, <2>2 DEF Tidy
<1>15. \A x \in Points : Covers(Join(S, a), x) <=> Covers(S, x)
  <2>1. ASSUME NEW x \in Points, Covers(Join(S, a), x) PROVE Covers(S, x)
    <3>1. PICK h \in heads : Within(J(h), x)
      BY <1>1, <2>1 DEF Covers
    <3>2. PICK c \in Row(S, h, a) : Within(c, x)
      BY <1>4, <1>10, <3>1
    <3> QED
      BY <3>2 DEF Covers, Row
  <2>2. ASSUME NEW x \in Points, Covers(S, x) PROVE Covers(Join(S, a), x)
    BY <1>1, <1>11, <2>2 DEF Covers
  <2> QED
    BY <2>1, <2>2
<1> QED
  BY <1>14, <1>15

-----------------------------------------------------------------------------
(* Blocks: the bounds of the boxes divide the space.                        *)

\* The bound after x.
NextEdge(E, x) == CHOOSE y \in E : y > x /\ \A z \in E : z <= x \/ z >= y

LEMMA NextEdgeIs ==
  ASSUME NEW E \in SUBSET Int, IsFiniteSet(E), NEW x \in Int, \E y \in E : y > x
  PROVE  LET y == NextEdge(E, x) IN y \in E /\ y \in Int /\ y > x /\ \A z \in E : z <= x \/ z >= y
<1> DEFINE T == {y \in E : y > x}
<1>1. T \subseteq E /\ T # {}
  OBVIOUS
<1>2. PICK y \in T : \A z \in T : y <= z
  <2> HIDE DEF T
  <2> QED
    BY <1>1, LeastInteger
<1>3. \A z \in E : z \in Int
  OBVIOUS
<1>4. y \in E /\ y > x /\ \A z \in E : z <= x \/ z >= y
  BY <1>2, <1>3
<1>5. NextEdge(E, x) \in E /\ NextEdge(E, x) > x /\ \A z \in E : z <= x \/ z >= NextEdge(E, x)
  BY <1>4 DEF NextEdge
<1> QED
  BY <1>3, <1>5

\* The block at a corner.
BlockAt(S, c) ==
  NewSubgrid(c, <<NextEdge(Edges(S, 1), c[1]) - c[1], NextEdge(Edges(S, 2), c[2]) - c[2],
                  NextEdge(Edges(S, 3), c[3]) - c[3]>>, 0)

\* The corners of the blocks that a box covers.
Corners(S) == {d \in Edges(S, 1) \X Edges(S, 2) \X Edges(S, 3) : Covers(S, d)}

LEMMA BlocksAre ==
  ASSUME NEW S
  PROVE  Blocks(S) = {BlockAt(S, c) : c \in Corners(S)}
BY DEF Blocks, BlockAt, Corners, NextEdge, Covers, Within

Plain(S) == S \subseteq Boxes /\ IsFiniteSet(S) /\ \A b \in S : Solid(b)

LEMMA EdgesAre ==
  ASSUME NEW S, Plain(S), NEW a \in Axis
  PROVE  /\ Edges(S, a) \subseteq Int /\ IsFiniteSet(Edges(S, a))
         /\ \A b \in S : b.i[a] \in Edges(S, a) /\ Upper(b, a) \in Edges(S, a)
<1>1. \A b \in S : b.i[a] \in Int /\ Upper(b, a) \in Int
  BY BoxFacts DEF Plain
<1>2. Edges(S, a) = {Lows(S, a)[b] : b \in S} \cup {Highs(S, a)[b] : b \in S}
  BY DEF Edges, Lows, Highs
<1>3. IsFiniteSet({Lows(S, a)[b] : b \in S}) /\ IsFiniteSet({Highs(S, a)[b] : b \in S})
  <2>1. DOMAIN Lows(S, a) = S /\ DOMAIN Highs(S, a) = S
    BY DEF Lows, Highs
  <2> QED
    BY <2>1, ImageIsFinite DEF Plain
<1>4. IsFiniteSet(Edges(S, a))
  BY <1>2, <1>3, FS_Union
<1> QED
  BY <1>1, <1>4 DEF Edges

LEMMA BlockAtIs ==
  ASSUME NEW S, Plain(S), NEW c \in Corners(S)
  PROVE  /\ BlockAt(S, c) \in Boxes /\ Solid(BlockAt(S, c))
         /\ c \in Points /\ Covers(S, c)
         /\ \A a \in Axis : /\ c[a] \in Edges(S, a) /\ c[a] \in Int
                            /\ BlockAt(S, c).i[a] = c[a]
                            /\ Upper(BlockAt(S, c), a) \in Edges(S, a)
                            /\ Upper(BlockAt(S, c), a) \in Int
                            /\ Upper(BlockAt(S, c), a) > c[a]
                            /\ \A z \in Edges(S, a) : z <= c[a] \/ z >= Upper(BlockAt(S, c), a)
<1> DEFINE u(a) == NextEdge(Edges(S, a), c[a])
<1>1. \A a \in Axis : Edges(S, a) \subseteq Int /\ IsFiniteSet(Edges(S, a))
  BY EdgesAre
<1>2. c \in Edges(S, 1) \X Edges(S, 2) \X Edges(S, 3) /\ Covers(S, c)
  BY DEF Corners
<1>3. c[1] \in Edges(S, 1) /\ c[2] \in Edges(S, 2) /\ c[3] \in Edges(S, 3) /\ c = <<c[1], c[2], c[3]>>
  BY <1>2
<1>4. \A a \in Axis : c[a] \in Edges(S, a) /\ c[a] \in Int
  BY <1>1, <1>3, AxesAre
<1>5. ASSUME NEW a \in Axis
      PROVE  u(a) \in Edges(S, a) /\ u(a) \in Int /\ u(a) > c[a] /\ \A z \in Edges(S, a) : z <= c[a] \/ z >= u(a)
  <2>1. PICK b \in S : Within(b, c)
    BY <1>2 DEF Covers
  <2>2. Upper(b, a) \in Edges(S, a) /\ c[a] < Upper(b, a)
    BY <2>1, EdgesAre DEF Within
  <2>3. \E y \in Edges(S, a) : y > c[a]
    <3>1. Upper(b, a) \in Int
      BY <1>1, <2>2
    <3>2. Upper(b, a) > c[a]
      BY <1>4, <2>2, <3>1
    <3> QED
      BY <2>2, <3>2
  <2> QED
    BY <1>1, <1>4, <2>3, NextEdgeIs
<1> HIDE DEF u
<1>6. u(1) - c[1] \in Int /\ u(2) - c[2] \in Int /\ u(3) - c[3] \in Int
  BY <1>4, <1>5, AxesAre
<1>7. BlockAt(S, c) = [i |-> c, n |-> <<u(1) - c[1], u(2) - c[2], u(3) - c[3]>>, s |-> <<1, 1, 1>>, p |-> 0]
  BY DEF BlockAt, NewSubgrid, u
<1>8. c \in Triples /\ <<u(1) - c[1], u(2) - c[2], u(3) - c[3]>> \in Triples
  BY <1>3, <1>4, <1>6, TripleIs, AxesAre
<1>9. BlockAt(S, c) \in Boxes
  BY <1>7, <1>8 DEF Boxes
<1>10. \A a \in Axis : BlockAt(S, c).i[a] = c[a] /\ BlockAt(S, c).n[a] = u(a) - c[a]
  BY <1>7, AxesAre
<1>11. \A a \in Axis : Upper(BlockAt(S, c), a) = u(a) /\ BlockAt(S, c).n[a] > 0
  BY <1>4, <1>5, <1>10 DEF Upper
<1>12. c \in Points
  BY <1>3, <1>4, AxesAre DEF Points
<1> QED
  BY <1>2, <1>4, <1>5, <1>9, <1>10, <1>11, <1>12 DEF Solid

\* The blocks are disjoint and cover what the boxes cover.
LEMMA BlocksTidy ==
  ASSUME NEW S, Plain(S)
  PROVE  /\ Tidy(Blocks(S))
         /\ \A x \in Points : Covers(Blocks(S), x) <=> Covers(S, x)
<1>1. Blocks(S) = {BlockAt(S, c) : c \in Corners(S)}
  BY BlocksAre
<1>2. \A c \in Corners(S) :
        /\ BlockAt(S, c) \in Boxes /\ Solid(BlockAt(S, c))
        /\ c \in Points /\ Covers(S, c)
        /\ \A a \in Axis : /\ c[a] \in Edges(S, a) /\ c[a] \in Int
                           /\ BlockAt(S, c).i[a] = c[a]
                           /\ Upper(BlockAt(S, c), a) \in Edges(S, a)
                           /\ Upper(BlockAt(S, c), a) \in Int
                           /\ Upper(BlockAt(S, c), a) > c[a]
                           /\ \A z \in Edges(S, a) : z <= c[a] \/ z >= Upper(BlockAt(S, c), a)
  BY BlockAtIs
<1>3. \A a \in Axis : Edges(S, a) \subseteq Int /\ IsFiniteSet(Edges(S, a))
  BY EdgesAre
<1>4. IsFiniteSet(Blocks(S))
  <2>1. IsFiniteSet(Edges(S, 1) \X Edges(S, 2) \X Edges(S, 3))
    BY <1>3, AxesAre, FiniteTriples
  <2>2. IsFiniteSet(Corners(S))
    BY <2>1, FS_Subset DEF Corners
  <2> DEFINE f == [c \in Corners(S) |-> BlockAt(S, c)]
  <2>3. DOMAIN f = Corners(S) /\ Blocks(S) = {f[c] : c \in Corners(S)}
    BY <1>1
  <2> HIDE DEF f
  <2> QED
    BY <2>2, <2>3, ImageIsFinite
<1>5. Separate(Blocks(S))
  <2> SUFFICES ASSUME NEW c \in Corners(S), NEW d \in Corners(S), NEW x \in Points,
                      Within(BlockAt(S, c), x), Within(BlockAt(S, d), x)
               PROVE  c = d
    BY <1>1 DEF Separate
  <2>1. ASSUME NEW a \in Axis PROVE c[a] = d[a]
    <3>1. x[a] \in Int /\ c[a] <= x[a] /\ x[a] < Upper(BlockAt(S, c), a)
                       /\ d[a] <= x[a] /\ x[a] < Upper(BlockAt(S, d), a)
      BY <1>2, PointFacts DEF Within
    <3>2. d[a] <= c[a] \/ d[a] >= Upper(BlockAt(S, c), a)
      BY <1>2
    <3>3. c[a] <= d[a] \/ c[a] >= Upper(BlockAt(S, d), a)
      BY <1>2
    <3>4. c[a] \in Int /\ d[a] \in Int /\ Upper(BlockAt(S, c), a) \in Int /\ Upper(BlockAt(S, d), a) \in Int
      BY <1>2
    <3> QED
      BY <3>1, <3>2, <3>3, <3>4
  <2>2. c[1] = d[1] /\ c[2] = d[2] /\ c[3] = d[3]
    BY <2>1, AxesAre
  <2>3. c = <<c[1], c[2], c[3]>> /\ d = <<d[1], d[2], d[3]>>
    BY <1>2 DEF Points
  <2> QED
    BY <2>2, <2>3
<1>6. ASSUME NEW x \in Points, Covers(Blocks(S), x) PROVE Covers(S, x)
  <2>1. PICK c \in Corners(S) : Within(BlockAt(S, c), x)
    BY <1>1, <1>6 DEF Covers
  <2>2. PICK b \in S : Within(b, c)
    BY <1>2 DEF Covers
  <2>3. ASSUME NEW a \in Axis PROVE b.i[a] <= x[a] /\ x[a] < Upper(b, a)
    <3>1. b.i[a] <= c[a] /\ c[a] < Upper(b, a) /\ Upper(b, a) \in Edges(S, a)
      BY <2>2, EdgesAre DEF Within
    <3>2. c[a] <= x[a] /\ x[a] < Upper(BlockAt(S, c), a)
      BY <1>2, <2>1 DEF Within
    <3>3. Upper(b, a) <= c[a] \/ Upper(b, a) >= Upper(BlockAt(S, c), a)
      BY <1>2, <3>1
    <3>4. /\ x[a] \in Int /\ c[a] \in Int /\ b.i[a] \in Int /\ Upper(b, a) \in Int
          /\ Upper(BlockAt(S, c), a) \in Int
      BY <1>2, PointFacts, BoxFacts DEF Plain
    <3> QED
      BY <3>1, <3>2, <3>3, <3>4
  <2>4. Within(b, x)
    BY <2>3 DEF Within
  <2> QED
    BY <2>4 DEF Covers
<1>7. ASSUME NEW x \in Points, Covers(S, x) PROVE Covers(Blocks(S), x)
  <2>1. PICK b \in S : Within(b, x)
    BY <1>7 DEF Covers
  <2>2. ASSUME NEW a \in Axis
        PROVE  \E c \in Edges(S, a) : c <= x[a] /\ b.i[a] <= c /\ \A z \in Edges(S, a) : z <= x[a] => z <= c
    <3> DEFINE T == {z \in Edges(S, a) : z <= x[a]}
    <3>1. b.i[a] \in T /\ T \subseteq Edges(S, a)
      BY <2>1, EdgesAre DEF Within
    <3>2. PICK c \in T : \A z \in T : z <= c
      <4>1. T # {}
        BY <3>1
      <4> HIDE DEF T
      <4> QED
        BY <3>1, <4>1, <1>3, LeastInteger
    <3> QED
      BY <3>1, <3>2
  <2>3. PICK c1 \in Edges(S, 1) : c1 <= x[1] /\ b.i[1] <= c1 /\ \A z \in Edges(S, 1) : z <= x[1] => z <= c1
    BY <2>2, AxesAre
  <2>4. PICK c2 \in Edges(S, 2) : c2 <= x[2] /\ b.i[2] <= c2 /\ \A z \in Edges(S, 2) : z <= x[2] => z <= c2
    BY <2>2, AxesAre
  <2>5. PICK c3 \in Edges(S, 3) : c3 <= x[3] /\ b.i[3] <= c3 /\ \A z \in Edges(S, 3) : z <= x[3] => z <= c3
    BY <2>2, AxesAre
  <2> DEFINE c == <<c1, c2, c3>>
  <2>6. \A a \in Axis : /\ c[a] \in Edges(S, a) /\ c[a] <= x[a] /\ b.i[a] <= c[a]
                        /\ \A z \in Edges(S, a) : z <= x[a] => z <= c[a]
    BY <2>3, <2>4, <2>5, AxesAre
  <2>7. c \in Edges(S, 1) \X Edges(S, 2) \X Edges(S, 3)
    OBVIOUS
  <2> HIDE DEF c
  <2>8. \A a \in Axis : /\ c[a] \in Int /\ x[a] \in Int /\ b.i[a] \in Int /\ Upper(b, a) \in Int
                        /\ x[a] < Upper(b, a)
    BY <1>3, <2>1, <2>6, PointFacts, BoxFacts DEF Plain, Within
  <2>9. Within(b, c)
    <3>1. \A a \in Axis : c[a] < Upper(b, a)
      BY <2>6, <2>8
    <3> QED
      BY <2>6, <3>1 DEF Within
  <2>10. c \in Corners(S)
    BY <2>7, <2>9 DEF Corners, Covers
  <2>11. ASSUME NEW a \in Axis PROVE x[a] < Upper(BlockAt(S, c), a)
    <3>1. Upper(BlockAt(S, c), a) \in Edges(S, a) /\ Upper(BlockAt(S, c), a) > c[a] /\ Upper(BlockAt(S, c), a) \in Int
      BY <1>2, <2>10
    <3>2. ~(Upper(BlockAt(S, c), a) <= x[a])
      BY <2>6, <2>8, <3>1
    <3> QED
      BY <2>8, <3>1, <3>2
  <2>12. Within(BlockAt(S, c), x)
    BY <1>2, <2>6, <2>10, <2>11 DEF Within
  <2> QED
    BY <1>1, <2>10, <2>12 DEF Covers
<1>8. Tidy(Blocks(S))
  BY <1>1, <1>2, <1>4, <1>5 DEF Tidy
<1> QED
  BY <1>6, <1>7, <1>8

-----------------------------------------------------------------------------
(* The order of the boxes in a message.                                     *)

LEMMA BeforeIs ==
  ASSUME NEW b \in Boxes, NEW c \in Boxes, NEW d \in Boxes
  PROVE  /\ Before(b, c) \/ Before(c, b) \/ \A a \in Axis : b.i[a] = c.i[a]
         /\ Before(b, c) /\ Before(c, d) => Before(b, d)
<1>1. /\ b.i[1] \in Int /\ b.i[2] \in Int /\ b.i[3] \in Int
      /\ c.i[1] \in Int /\ c.i[2] \in Int /\ c.i[3] \in Int
      /\ d.i[1] \in Int /\ d.i[2] \in Int /\ d.i[3] \in Int
  BY BoxFacts, AxesAre
<1>2. \A x, y : Before(x, y) <=>
        \/ x.i[3] < y.i[3]
        \/ x.i[2] < y.i[2] /\ x.i[3] = y.i[3]
        \/ x.i[1] < y.i[1] /\ x.i[2] = y.i[2] /\ x.i[3] = y.i[3]
  <2> TAKE x, y
  <2>1. \A a : a \in Axis <=> a = 1 \/ a = 2 \/ a = 3
    BY DEF Axis
  <2> QED
    BY <2>1 DEF Before
<1>3. (\A a \in Axis : b.i[a] = c.i[a]) <=> b.i[1] = c.i[1] /\ b.i[2] = c.i[2] /\ b.i[3] = c.i[3]
  BY AxesAre
<1> QED
  BY <1>1, <1>2, <1>3

\* The next box in the order, appended.
Put(S, s) ==
  Append(s, CHOOSE b \in S \ Elements(s) : \A c \in (S \ Elements(s)) \ {b} : Before(b, c))

LEMMA FirstExists ==
  ASSUME NEW S, Tidy(S), NEW T, T \subseteq S, T # {}
  PROVE  \E b \in T : \A c \in T \ {b} : Before(b, c)
<1> DEFINE R == {r \in T \X T : r[1] = r[2] \/ Before(r[1], r[2])}
<1>1. \A x, y \in T : <<x, y>> \in R <=> x = y \/ Before(x, y)
  OBVIOUS
<1>2. \A x \in T : x \in Boxes /\ Solid(x)
  BY DEF Tidy
<1>3. ASSUME NEW x \in T, NEW y \in T, \A a \in Axis : x.i[a] = y.i[a]
      PROVE  x = y
  <2>1. Corner(x) = Corner(y)
    BY <1>3, AxesAre DEF Corner
  <2>2. Within(x, Corner(x)) /\ Within(y, Corner(y)) /\ Corner(x) \in Points
    BY <1>2, CornerIs
  <2> QED
    BY <2>1, <2>2 DEF Tidy, Separate
<1>4. IsFiniteSet(T)
  BY FS_Subset DEF Tidy
<1> HIDE DEF R
<1>5. \A x, y \in T : <<x, y>> \in R \/ <<y, x>> \in R
  <2> TAKE x, y \in T
  <2>1. Before(x, y) \/ Before(y, x) \/ \A a \in Axis : x.i[a] = y.i[a]
    BY <1>2, BeforeIs
  <2>2. Before(x, y) \/ Before(y, x) \/ x = y
    BY <1>3, <2>1
  <2> QED
    BY <1>1, <2>2
<1>6. \A x, y, z \in T : <<x, y>> \in R /\ <<y, z>> \in R => <<x, z>> \in R
  BY <1>1, <1>2, BeforeIs
<1>7. \E x \in T : \A y \in T : <<x, y>> \in R
  BY <1>4, <1>5, <1>6, LeastElement
<1> QED
  BY <1>1, <1>7

LEMMA AppendIs ==
  ASSUME NEW S, NEW s \in Seq(S), NEW b \in S
  PROVE  Append(s, b) \in Seq(S) /\ Elements(Append(s, b)) = Elements(s) \cup {b}
<1>1. /\ Append(s, b) \in Seq(S) /\ DOMAIN Append(s, b) = 1..(Len(s) + 1) /\ DOMAIN s = 1..Len(s)
      /\ Len(s) \in Nat
      /\ \A k \in 1..Len(s) : Append(s, b)[k] = s[k]
      /\ Append(s, b)[Len(s) + 1] = b
  OBVIOUS
<1>2. 1..(Len(s) + 1) = (1..Len(s)) \cup {Len(s) + 1}
  BY <1>1
<1> QED
  BY <1>1, <1>2 DEF Elements

\* InOrder lists the boxes of a set, each of them.
LEMMA InOrderIs ==
  ASSUME NEW S, Tidy(S)
  PROVE  InOrder(S) \in Seq(S) /\ Elements(InOrder(S)) = S
<1> DEFINE n == Cardinality(S)
           X == [k \in 0..n |-> {s \in Seq(S) : IsFiniteSet(Elements(s)) /\ Cardinality(Elements(s)) = k}]
           G == [k \in 1..n |-> [s \in Seq(S) |-> Put(S, s)]]
           up == CHOOSE f : f = [k \in 0..n |-> IF k = 0 THEN <<>> ELSE Put(S, f[k - 1])]
<1>1. n \in Nat /\ IsFiniteSet(S)
  BY FS_CardinalityType DEF Tidy
<1>2. InOrder(S) = up[n]
  BY DEF InOrder, Put, Elements
<1>3. <<>> \in X[0]
  <2>1. Elements(<<>>) = {}
    BY DEF Elements
  <2> QED
    BY <1>1, <2>1, FS_EmptySet
<1>4. ASSUME NEW k \in 1..n, NEW s \in X[k - 1] PROVE s \in Seq(S) /\ Put(S, s) \in X[k]
  <2>0. k \in 0..n /\ k - 1 \in 0..n /\ k - 1 # n
    BY <1>1
  <2>1. s \in Seq(S) /\ IsFiniteSet(Elements(s)) /\ Cardinality(Elements(s)) = k - 1
    BY <2>0
  <2>2. Elements(s) \subseteq S
    BY <2>1 DEF Elements
  <2> DEFINE T == S \ Elements(s)
  <2>3. T # {}
    <3> SUFFICES ASSUME T = {} PROVE FALSE
      OBVIOUS
    <3>1. Elements(s) = S
      BY <2>2
    <3> QED
      BY <2>0, <2>1, <3>1
  <2> DEFINE b == CHOOSE x \in T : \A c \in T \ {x} : Before(x, c)
  <2>4. b \in T
    <3>1. T \subseteq S
      OBVIOUS
    <3> HIDE DEF T
    <3>2. \E x \in T : \A c \in T \ {x} : Before(x, c)
      BY <2>3, <3>1, FirstExists
    <3> QED
      BY <3>2
  <2>5. Put(S, s) = Append(s, b)
    BY DEF Put
  <2>6. b \in S /\ b \notin Elements(s)
    BY <2>4
  <2> HIDE DEF b, T
  <2>7. Append(s, b) \in Seq(S) /\ Elements(Append(s, b)) = Elements(s) \cup {b}
    BY <2>1, <2>6, AppendIs
  <2>8. IsFiniteSet(Elements(s) \cup {b}) /\ Cardinality(Elements(s) \cup {b}) = k
    <3>1. Cardinality(Elements(s) \cup {b}) = Cardinality(Elements(s)) + 1 /\ IsFiniteSet(Elements(s) \cup {b})
      BY <2>1, <2>6, FS_AddElement
    <3> QED
      BY <2>0, <2>1, <3>1
  <2> QED
    BY <2>0, <2>1, <2>5, <2>7, <2>8
<1>5. \A k \in 1..n, s \in Seq(S) : G[k][s] = Put(S, s)
  OBVIOUS
<1>6. DOMAIN X = 0..n
  OBVIOUS
<1> HIDE DEF n, X, G
<1>7. Leads(n, X, <<>>, G)
  BY <1>3, <1>4, <1>5 DEF Leads
<1>8. PICK f : Follows(f, n, <<>>, G) /\ f = [k \in 0..n |-> f[k]] /\ \A k \in 0..n : f[k] \in X[k]
  BY <1>1, <1>7, Recursion
<1>9. f = [k \in 0..n |-> IF k = 0 THEN <<>> ELSE Put(S, f[k - 1])]
  <2>1. ASSUME NEW k \in 0..n PROVE f[k] = IF k = 0 THEN <<>> ELSE Put(S, f[k - 1])
    <3>1. CASE k = 0
      BY <1>8, <3>1 DEF Follows
    <3>2. CASE k # 0
      <4>1. k \in 1..n /\ k - 1 \in 0..n
        BY <1>1, <3>2
      <4>2. f[k - 1] \in Seq(S)
        BY <1>4, <1>8, <4>1
      <4> QED
        BY <1>5, <1>8, <3>2, <4>1, <4>2 DEF Follows
    <3> QED
      BY <3>1, <3>2
  <2> QED
    BY <1>8, <2>1
<1>10. up = [k \in 0..n |-> IF k = 0 THEN <<>> ELSE Put(S, up[k - 1])]
  BY <1>9
<1> HIDE DEF up
<1>11. up[n] \in X[n]
  <2> DEFINE P == {k \in 0..n : up[k] \in X[k]}
  <2>1. 0 \in P
    BY <1>1, <1>3, <1>10
  <2>2. ASSUME NEW k \in 1..n, k - 1 \in P PROVE k \in P
    <3>1. k \in 0..n /\ k # 0 /\ k - 1 \in 0..n
      BY <1>1
    <3>2. up[k] = Put(S, up[k - 1])
      BY <1>10, <3>1
    <3> QED
      BY <1>4, <2>2, <3>1, <3>2
  <2> HIDE DEF P
  <2>3. \A k \in 0..n : k \in P
    BY <1>1, <2>1, <2>2, Induction
  <2>4. n \in P
    BY <1>1, <2>3
  <2> QED
    BY <2>4 DEF P
<1>12. up[n] \in Seq(S) /\ Cardinality(Elements(up[n])) = Cardinality(S)
  BY <1>1, <1>11 DEF X, n
<1>13. Elements(up[n]) \in SUBSET S
  BY <1>12 DEF Elements
<1>14. Elements(up[n]) = S
  BY <1>1, <1>12, <1>13, FS_Subset
<1> QED
  BY <1>2, <1>12, <1>14

\* UnionSubgridArray: disjoint boxes with the same cells.
LEMMA UnionIs ==
  ASSUME NEW S, Plain(S)
  PROVE  LET u == UnionSubgridArray(S)
         IN /\ u \in Seq(Boxes)
            /\ Tidy(Elements(u))
            /\ \A x \in Points : Covers(Elements(u), x) <=> Covers(S, x)
<1> DEFINE B == Blocks(S)
           C == Join(B, 1)
           D == Join(C, 2)
           E == Join(D, 3)
<1>1. Tidy(B) /\ \A x \in Points : Covers(B, x) <=> Covers(S, x)
  BY BlocksTidy
<1>2. UnionSubgridArray(S) = InOrder(E)
  BY DEF UnionSubgridArray
<1> HIDE DEF B
<1>3. Tidy(C) /\ \A x \in Points : Covers(C, x) <=> Covers(B, x)
  BY <1>1, JoinIs, AxesAre
<1> HIDE DEF C
<1>4. Tidy(D) /\ \A x \in Points : Covers(D, x) <=> Covers(C, x)
  BY <1>3, JoinIs, AxesAre
<1> HIDE DEF D
<1>5. Tidy(E) /\ \A x \in Points : Covers(E, x) <=> Covers(D, x)
  BY <1>4, JoinIs, AxesAre
<1> HIDE DEF E
<1>6. InOrder(E) \in Seq(E) /\ Elements(InOrder(E)) = E
  BY <1>5, InOrderIs
<1>7. InOrder(E) \in Seq(Boxes)
  <2>1. E \subseteq Boxes
    BY <1>5 DEF Tidy
  <2> QED
    BY <1>6, <2>1
<1> QED
  BY <1>1, <1>2, <1>3, <1>4, <1>5, <1>6, <1>7

-----------------------------------------------------------------------------
(* SubtractSubgrids cuts into disjoint pieces.                              *)

LEMMA CutSeparate ==
  ASSUME NEW s \in Boxes, NEW c \in Boxes, NEW a \in Axis, c.n[a] > 0
  PROVE  Separate(Cut(s, c, a).pieces)
<1> DEFINE t == RestAbove(s, c, a)
           below == Below(s, c, a)
           above == Above(t, c, a)
<1>1. Cut(s, c, a).pieces \subseteq {below, above}
  BY DEF Cut
<1>2. c.i[a] \in Int /\ c.n[a] \in Int /\ s.i[a] \in Int /\ Upper(c, a) \in Int /\ Upper(c, a) > c.i[a]
  BY BoxFacts DEF Upper
<1>3. Upper(below, a) = c.i[a]
  <2>1. below = Resized(s, a, c.i[a] - s.i[a]) /\ c.i[a] - s.i[a] \in Int
    BY <1>2 DEF Below, Resized
  <2>2. below.i[a] = s.i[a] /\ below.n[a] = c.i[a] - s.i[a]
    BY <2>1, ResizedIs
  <2> QED
    BY <1>2, <2>2 DEF Upper
<1>4. above.i[a] = Upper(c, a)
  <2>1. t \in Boxes
    <3>1. CASE CutBelow(s, c, a)
      <4>1. t = Rebounded(s, a, c.i[a], Upper(s, a) - c.i[a]) /\ Upper(s, a) - c.i[a] \in Int
        BY <1>2, <3>1, BoxFacts DEF RestAbove, Rebounded
      <4> QED
        BY <1>2, <4>1, ReboundedIs
    <3>2. CASE ~CutBelow(s, c, a)
      BY <3>2 DEF RestAbove
    <3> QED
      BY <3>1, <3>2
  <2> HIDE DEF t
  <2>2. above = Rebounded(t, a, Upper(c, a), Upper(t, a) - Upper(c, a)) /\ Upper(t, a) - Upper(c, a) \in Int
    BY <1>2, <2>1, BoxFacts DEF Above, Rebounded
  <2> QED
    BY <1>2, <2>1, <2>2, ReboundedIs
<1> HIDE DEF below, above
<1>5. ASSUME NEW x \in Points, Within(below, x), Within(above, x) PROVE FALSE
  <2>1. x[a] < c.i[a] /\ Upper(c, a) <= x[a] /\ x[a] \in Int
    BY <1>3, <1>4, <1>5, PointFacts DEF Within
  <2> QED
    BY <1>2, <2>1
<1> QED
  BY <1>1, <1>5 DEF Separate

LEMMA SubtractionSeparate ==
  ASSUME NEW b \in Boxes, NEW c \in Boxes, Solid(c)
  PROVE  Separate(SubtractSubgrids(b, c))
<1>0. \A a \in Axis : c.n[a] > 0
  BY DEF Solid
<1>1. CASE \E a \in Axis : c.i[a] >= Upper(b, a) \/ Upper(c, a) <= b.i[a]
  BY <1>1 DEF SubtractSubgrids, Separate
<1>2. CASE ~\E a \in Axis : c.i[a] >= Upper(b, a) \/ Upper(c, a) <= b.i[a]
  <2> DEFINE X == Cut(b, c, 1)
             Y == Cut(X.rest, c, 2)
             Z == Cut(Y.rest, c, 3)
             In(x, a) == c.i[a] <= x[a] /\ x[a] < Upper(c, a)
  <2>1. SubtractSubgrids(b, c) = X.pieces \cup Y.pieces \cup Z.pieces
    BY <1>2 DEF SubtractSubgrids
  <2>2. \A a \in Axis : c.i[a] < Upper(b, a) /\ b.i[a] < Upper(c, a)
    <3> TAKE a \in Axis
    <3>1. b.i[a] \in Int /\ Upper(b, a) \in Int /\ c.i[a] \in Int /\ Upper(c, a) \in Int
      BY BoxFacts
    <3> QED
      BY <1>2, <3>1
  <2>3. /\ X.rest \in Boxes /\ Separate(X.pieces)
        /\ \A o \in Axis \ {1} : X.rest.i[o] = b.i[o] /\ X.rest.n[o] = b.n[o]
        /\ \A x \in Points : /\ Within(X.rest, x) <=> Within(b, x) /\ In(x, 1)
                             /\ (\E d \in X.pieces : Within(d, x)) <=> Within(b, x) /\ ~In(x, 1)
    BY <1>0, <2>2, CutIs, CutSeparate, AxesAre
  <2> HIDE DEF X
  <2>4. c.i[2] < Upper(X.rest, 2) /\ X.rest.i[2] < Upper(c, 2)
    BY <2>2, <2>3, AxesAre DEF Upper
  <2>5. /\ Y.rest \in Boxes /\ Separate(Y.pieces)
        /\ \A o \in Axis \ {2} : Y.rest.i[o] = X.rest.i[o] /\ Y.rest.n[o] = X.rest.n[o]
        /\ \A x \in Points : /\ Within(Y.rest, x) <=> Within(X.rest, x) /\ In(x, 2)
                             /\ (\E d \in Y.pieces : Within(d, x)) <=> Within(X.rest, x) /\ ~In(x, 2)
    BY <1>0, <2>3, <2>4, CutIs, CutSeparate, AxesAre
  <2> HIDE DEF Y
  <2>6. c.i[3] < Upper(Y.rest, 3) /\ Y.rest.i[3] < Upper(c, 3)
    BY <2>2, <2>3, <2>5, AxesAre DEF Upper
  <2>7. /\ Separate(Z.pieces)
        /\ \A x \in Points :
             (\E d \in Z.pieces : Within(d, x)) <=> Within(Y.rest, x) /\ ~In(x, 3)
    BY <1>0, <2>5, <2>6, CutIs, CutSeparate, AxesAre
  <2> HIDE DEF Z, In
  <2> SUFFICES ASSUME NEW d \in X.pieces \cup Y.pieces \cup Z.pieces,
                      NEW f \in X.pieces \cup Y.pieces \cup Z.pieces,
                      NEW x \in Points, Within(d, x), Within(f, x)
               PROVE  d = f
    BY <2>1 DEF Separate
  <2>8. CASE d \in X.pieces
    BY <2>3, <2>5, <2>7, <2>8 DEF Separate
  <2>9. CASE d \in Y.pieces
    BY <2>3, <2>5, <2>7, <2>9 DEF Separate
  <2>10. CASE d \in Z.pieces
    BY <2>3, <2>5, <2>7, <2>10 DEF Separate
  <2> QED
    BY <2>8, <2>9, <2>10
<1> QED
  BY <1>1, <1>2

LEMMA SubtractionFinite ==
  ASSUME NEW b, NEW c
  PROVE  IsFiniteSet(SubtractSubgrids(b, c))
<1>1. \A x, y : IsFiniteSet({x, y})
  <2> TAKE x, y
  <2>1. {x, y} = {x} \cup {y}
    OBVIOUS
  <2>2. IsFiniteSet({x})
    BY FS_Singleton
  <2>3. IsFiniteSet({x} \cup {y})
    BY <2>2, FS_AddElement
  <2> QED
    BY <2>1, <2>3
<1>2. \A s, a : IsFiniteSet(Cut(s, c, a).pieces)
  <2> TAKE s, a
  <2>1. Cut(s, c, a).pieces \in SUBSET {Below(s, c, a), Above(RestAbove(s, c, a), c, a)}
    BY DEF Cut
  <2> QED
    BY <1>1, <2>1, FS_Subset
<1> DEFINE X == Cut(b, c, 1)
           Y == Cut(X.rest, c, 2)
           Z == Cut(Y.rest, c, 3)
           U == X.pieces \cup Y.pieces \cup Z.pieces
<1>3. SubtractSubgrids(b, c) = {b} \/ SubtractSubgrids(b, c) = U
  BY DEF SubtractSubgrids
<1>4. IsFiniteSet(X.pieces) /\ IsFiniteSet(Y.pieces) /\ IsFiniteSet(Z.pieces)
  BY <1>2
<1>5. IsFiniteSet(U)
  <2> HIDE DEF X, Y, Z
  <2>1. IsFiniteSet(X.pieces \cup Y.pieces)
    BY <1>4, FS_Union
  <2> QED
    BY <1>4, <2>1, FS_Union
<1> HIDE DEF U
<1> QED
  BY <1>3, <1>5, FS_Singleton

\* The boxes of R without the cells of c.
Less(R, c) == UNION {SubtractSubgrids(b, c) : b \in R}

LEMMA LessIs ==
  ASSUME NEW R, R \subseteq Boxes, Separate(R), NEW c \in Boxes, Solid(c)
  PROVE  /\ Less(R, c) \subseteq Boxes /\ Separate(Less(R, c))
         /\ \A x \in Points : Covers(Less(R, c), x) <=> Covers(R, x) /\ ~Within(c, x)
<1>1. \A b \in R : /\ SubtractSubgrids(b, c) \subseteq Boxes /\ Separate(SubtractSubgrids(b, c))
                   /\ \A x \in Points : (\E piece \in SubtractSubgrids(b, c) : Within(piece, x))
                                          <=> Within(b, x) /\ ~Within(c, x)
  BY SubtractionIs, SubtractionSeparate DEF Solid
<1>2. \A d : d \in Less(R, c) <=> \E b \in R : d \in SubtractSubgrids(b, c)
  BY DEF Less
<1>3. Less(R, c) \subseteq Boxes
  BY <1>1, <1>2
<1>4. Separate(Less(R, c))
  <2> SUFFICES ASSUME NEW d \in Less(R, c), NEW f \in Less(R, c), NEW x \in Points, Within(d, x), Within(f, x)
               PROVE  d = f
    BY DEF Separate
  <2>1. PICK b \in R : d \in SubtractSubgrids(b, c)
    BY <1>2
  <2>2. PICK g \in R : f \in SubtractSubgrids(g, c)
    BY <1>2
  <2>3. Within(b, x) /\ Within(g, x)
    BY <1>1, <2>1, <2>2
  <2>4. b = g
    BY <2>3 DEF Separate
  <2> QED
    BY <1>1, <2>1, <2>2, <2>4 DEF Separate
<1>5. \A x \in Points : Covers(Less(R, c), x) <=> Covers(R, x) /\ ~Within(c, x)
  BY <1>1, <1>2 DEF Covers
<1> QED
  BY <1>3, <1>4, <1>5

\* SubtractFrom: disjoint boxes that cover what ir covers and dr does not.
LEMMA SubtractFromIs ==
  ASSUME NEW ir, ir \subseteq Boxes, Separate(ir), NEW dr \in Seq(Boxes), \A k \in DOMAIN dr : Solid(dr[k])
  PROVE  LET R == SubtractFrom(ir, dr)
         IN /\ R \subseteq Boxes /\ Separate(R)
            /\ \A x \in Points : Covers(R, x) <=> Covers(ir, x) /\ ~Covers(Elements(dr), x)
<1> DEFINE n == Len(dr)
           Left(R, k) == /\ R \subseteq Boxes /\ Separate(R)
                         /\ \A x \in Points : Covers(R, x) <=>
                              Covers(ir, x) /\ \A j \in 1..n : j <= k => ~Within(dr[j], x)
           X == [k \in 0..n |-> {R \in SUBSET Boxes : Left(R, k)}]
           G == [k \in 1..n |-> [R \in SUBSET Boxes |-> Less(R, dr[k])]]
           after == CHOOSE f : f = [k \in 0..n |-> IF k = 0 THEN ir ELSE Less(f[k - 1], dr[k])]
<1>1. n \in Nat /\ DOMAIN dr = 1..n /\ \A k \in 1..n : dr[k] \in Boxes /\ Solid(dr[k])
  OBVIOUS
<1>2. SubtractFrom(ir, dr) = after[n]
  BY DEF SubtractFrom, Less
<1> HIDE DEF n, after
<1>3. ir \in X[0]
  <2>1. \A j \in 1..n : ~(j <= 0)
    OBVIOUS
  <2>2. Left(ir, 0)
    BY <2>1
  <2>3. 0 \in 0..n
    BY <1>1
  <2> HIDE DEF Left
  <2> QED
    BY <2>2, <2>3
<1>4. ASSUME NEW k \in 1..n, NEW R \in X[k - 1] PROVE R \in SUBSET Boxes /\ Less(R, dr[k]) \in X[k]
  <2>1. k \in 0..n /\ k - 1 \in 0..n
    BY <1>1
  <2>2. R \in SUBSET Boxes /\ Left(R, k - 1)
    <3> HIDE DEF Left
    <3> QED
      BY <2>1
  <2>3. /\ Less(R, dr[k]) \subseteq Boxes /\ Separate(Less(R, dr[k]))
        /\ \A x \in Points : Covers(Less(R, dr[k]), x) <=> Covers(R, x) /\ ~Within(dr[k], x)
    BY <1>1, <2>2, LessIs
  <2>4. \A j \in 1..n : j <= k <=> j <= k - 1 \/ j = k
    BY <1>1
  <2>5. Left(Less(R, dr[k]), k)
    <3>1. ASSUME NEW x \in Points
          PROVE  Covers(Less(R, dr[k]), x) <=> Covers(ir, x) /\ \A j \in 1..n : j <= k => ~Within(dr[j], x)
      <4>1. Covers(R, x) <=> Covers(ir, x) /\ \A j \in 1..n : j <= k - 1 => ~Within(dr[j], x)
        BY <2>2
      <4> QED
        BY <2>3, <2>4, <4>1
    <3> QED
      BY <2>3, <3>1
  <2> HIDE DEF Left
  <2> QED
    BY <2>1, <2>2, <2>3, <2>5
<1>5. \A k \in 1..n, R \in SUBSET Boxes : G[k][R] = Less(R, dr[k])
  OBVIOUS
<1>6. X[n] = {R \in SUBSET Boxes : Left(R, n)}
  BY <1>1
<1> HIDE DEF X, G
<1>7. Leads(n, X, ir, G)
  BY <1>3, <1>4, <1>5 DEF Leads
<1>8. PICK f : Follows(f, n, ir, G) /\ f = [k \in 0..n |-> f[k]] /\ \A k \in 0..n : f[k] \in X[k]
  BY <1>1, <1>7, Recursion
<1>9. f = [k \in 0..n |-> IF k = 0 THEN ir ELSE Less(f[k - 1], dr[k])]
  <2>1. ASSUME NEW k \in 0..n PROVE f[k] = IF k = 0 THEN ir ELSE Less(f[k - 1], dr[k])
    <3>1. CASE k = 0
      BY <1>8, <3>1 DEF Follows
    <3>2. CASE k # 0
      <4>1. k \in 1..n /\ k - 1 \in 0..n
        BY <1>1, <3>2
      <4>2. f[k - 1] \in SUBSET Boxes
        BY <1>4, <1>8, <4>1
      <4> QED
        BY <1>5, <1>8, <3>2, <4>1, <4>2 DEF Follows
    <3> QED
      BY <3>1, <3>2
  <2> QED
    BY <1>8, <2>1
<1>10. after = [k \in 0..n |-> IF k = 0 THEN ir ELSE Less(after[k - 1], dr[k])]
  BY <1>9 DEF after
<1>11. after[n] \in X[n]
  <2> DEFINE P == {k \in 0..n : after[k] \in X[k]}
  <2>1. 0 \in P
    BY <1>1, <1>3, <1>10
  <2>2. ASSUME NEW k \in 1..n, k - 1 \in P PROVE k \in P
    <3>1. k \in 0..n /\ k # 0 /\ k - 1 \in 0..n
      BY <1>1
    <3>2. after[k] = Less(after[k - 1], dr[k])
      BY <1>10, <3>1
    <3> QED
      BY <1>4, <2>2, <3>1, <3>2
  <2> HIDE DEF P
  <2>3. \A k \in 0..n : k \in P
    BY <1>1, <2>1, <2>2, Induction
  <2>4. n \in P
    BY <1>1, <2>3
  <2> QED
    BY <2>4 DEF P
<1>12. Left(after[n], n)
  BY <1>6, <1>11
<1>13. \A x : Covers(Elements(dr), x) <=> \E j \in 1..n : j <= n /\ Within(dr[j], x)
  BY <1>1 DEF Covers, Elements
<1> QED
  BY <1>2, <1>12, <1>13

-----------------------------------------------------------------------------
(* The cells that the regions of CommRegFromStencil cover.                  *)

\* The union of finitely many finite sets.
LEMMA FiniteUnion ==
  ASSUME NEW S, IsFiniteSet(S), NEW F, \A x \in S : IsFiniteSet(F[x])
  PROVE  IsFiniteSet(UNION {F[x] : x \in S})
<1> DEFINE n == Cardinality(S)
<1>1. n \in Nat /\ ExistsBijection(1..n, S)
  BY FS_CardinalityType
<1>2. PICK f \in [1..n -> S] : \A y \in S : \E j \in 1..n : f[j] = y
  BY <1>1 DEF ExistsBijection, Bijection, Surjection, Injection
<1> HIDE DEF n
<1> DEFINE U == [k \in 0..n |-> UNION {F[f[j]] : j \in {i \in 1..n : i <= k}}]
           P == {k \in 0..n : IsFiniteSet(U[k])}
<1>3. 0 \in P
  <2>1. 0 \in 0..n /\ U[0] = {}
    BY <1>1
  <2>2. IsFiniteSet(U[0])
    BY <2>1, FS_EmptySet
  <2> HIDE DEF U
  <2> QED
    BY <2>1, <2>2
<1>4. ASSUME NEW k \in 1..n, k - 1 \in P PROVE k \in P
  <2>1. {i \in 1..n : i <= k} = {i \in 1..n : i <= k - 1} \cup {k}
    BY <1>1
  <2>2. k \in 0..n /\ k - 1 \in 0..n
    BY <1>1
  <2>3. U[k] = U[k - 1] \cup F[f[k]]
    BY <2>1, <2>2
  <2> HIDE DEF U
  <2>4. IsFiniteSet(U[k - 1]) /\ IsFiniteSet(F[f[k]])
    BY <1>4
  <2>5. IsFiniteSet(U[k])
    BY <2>3, <2>4, FS_Union
  <2> QED
    BY <2>2, <2>5
<1>5. IsFiniteSet(U[n])
  <2> HIDE DEF P
  <2>1. \A k \in 0..n : k \in P
    BY <1>1, <1>3, <1>4, Induction
  <2>2. n \in P
    BY <1>1, <2>1
  <2> HIDE DEF U
  <2> QED
    BY <2>2 DEF P
<1>6. UNION {F[x] : x \in S} = U[n]
  <2>1. {i \in 1..n : i <= n} = 1..n /\ n \in 0..n
    BY <1>1
  <2>2. U[n] = UNION {F[f[j]] : j \in 1..n}
    BY <2>1
  <2> HIDE DEF U
  <2> QED
    BY <1>2, <2>2
<1> QED
  BY <1>5, <1>6

\* IntersectSubgrids: a box, not empty, that covers the common points.
LEMMA IntersectIs ==
  ASSUME NEW b \in Boxes, NEW c \in Boxes
  PROVE  /\ Plain(IntersectSubgrids(b, c))
         /\ \A x \in Points : Covers(IntersectSubgrids(b, c), x) <=> Within(b, x) /\ Within(c, x)
<1> DEFINE lo(a) == Greatest(b.i[a], c.i[a])
           hi(a) == Least(Upper(b, a), Upper(c, a))
           box == [b EXCEPT !.i = <<lo(1), lo(2), lo(3)>>, !.n = <<hi(1) - lo(1), hi(2) - lo(2), hi(3) - lo(3)>>]
<1>1. IntersectSubgrids(b, c) = IF \A a \in Axis : hi(a) > lo(a) THEN {box} ELSE {}
  BY DEF IntersectSubgrids, Each
<1>2. \A a \in Axis : /\ b.i[a] \in Int /\ Upper(b, a) \in Int
                      /\ c.i[a] \in Int /\ Upper(c, a) \in Int
  BY BoxFacts
<1>3. \A a \in Axis : /\ lo(a) \in Int /\ hi(a) \in Int
                      /\ \A x \in Int : (/\ b.i[a] <= x /\ x < Upper(b, a)
                                         /\ c.i[a] <= x /\ x < Upper(c, a))
                                          <=> lo(a) <= x /\ x < hi(a)
  BY <1>2 DEF Greatest, Least
<1> HIDE DEF lo, hi
<1>4. CASE \A a \in Axis : hi(a) > lo(a)
  <2>1. \A a \in Axis : hi(a) - lo(a) \in Int /\ hi(a) - lo(a) > 0 /\ lo(a) + (hi(a) - lo(a)) = hi(a)
    BY <1>3, <1>4
  <2>2. /\ <<lo(1), lo(2), lo(3)>> \in Triples
        /\ <<hi(1) - lo(1), hi(2) - lo(2), hi(3) - lo(3)>> \in Triples
    BY <1>3, <2>1, AxesAre, TripleIs
  <2>3. /\ box \in Boxes
        /\ box.i = <<lo(1), lo(2), lo(3)>>
        /\ box.n = <<hi(1) - lo(1), hi(2) - lo(2), hi(3) - lo(3)>>
    BY <2>2 DEF Boxes
  <2> HIDE DEF box
  <2>4. \A a \in Axis : box.i[a] = lo(a) /\ box.n[a] = hi(a) - lo(a)
    BY <2>3, AxesAre
  <2>5. \A a \in Axis : Upper(box, a) = hi(a) /\ box.n[a] > 0
    BY <2>1, <2>4 DEF Upper
  <2>6. \A x \in Points : Within(box, x) <=> Within(b, x) /\ Within(c, x)
    <3> TAKE x \in Points
    <3>1. \A a \in Axis : x[a] \in Int
      BY PointFacts
    <3> QED
      BY <1>3, <2>4, <2>5, <3>1 DEF Within
  <2>7. IntersectSubgrids(b, c) = {box}
    BY <1>1, <1>4
  <2>8. IsFiniteSet({box})
    BY FS_Singleton
  <2> QED
    BY <2>3, <2>5, <2>6, <2>7, <2>8 DEF Plain, Covers, Solid
<1>5. CASE ~\A a \in Axis : hi(a) > lo(a)
  <2>1. IntersectSubgrids(b, c) = {}
    BY <1>1, <1>5
  <2>2. ~\E x \in Points : Within(b, x) /\ Within(c, x)
    BY <2>1, IntersectionIs
  <2> QED
    BY <2>1, <2>2, FS_EmptySet DEF Plain, Covers
<1> QED
  BY <1>4, <1>5

LEMMA ClippedIs ==
  ASSUME NEW b \in Boxes, NEW T, T \subseteq Boxes, IsFiniteSet(T)
  PROVE  /\ Plain(Clipped(b, T))
         /\ \A x \in Points : Covers(Clipped(b, T), x) <=> Within(b, x) /\ Covers(T, x)
<1> DEFINE F == [c \in T |-> IntersectSubgrids(b, c)]
<1>1. \A c \in T : /\ F[c] = IntersectSubgrids(b, c) /\ Plain(F[c])
                   /\ \A x \in Points : Covers(F[c], x) <=> Within(b, x) /\ Within(c, x)
  BY IntersectIs
<1>2. Clipped(b, T) = UNION {F[c] : c \in T}
  BY DEF Clipped
<1> HIDE DEF F
<1>3. IsFiniteSet(Clipped(b, T))
  BY <1>1, <1>2, FiniteUnion DEF Plain
<1>4. \A d : d \in Clipped(b, T) <=> \E c \in T : d \in F[c]
  BY <1>2
<1>5. Plain(Clipped(b, T))
  BY <1>1, <1>3, <1>4 DEF Plain
<1>6. \A x \in Points : Covers(Clipped(b, T), x) <=> Within(b, x) /\ Covers(T, x)
  BY <1>1, <1>4 DEF Covers
<1> QED
  BY <1>5, <1>6

LEMMA ShiftedIs ==
  ASSUME NEW q \in Boxes, NEW st \in SUBSET Points, IsFiniteSet(st)
  PROVE  /\ Shifted(q, st) \subseteq Boxes /\ IsFiniteSet(Shifted(q, st))
         /\ \A x \in Points : Covers(Shifted(q, st), x)
                                <=> \E e \in st : Within(q, Minus(x, e)) /\ ~Within(q, x)
<1> DEFINE F == [e \in st |-> SubtractSubgrids(Move(q, e), q)]
<1>1. \A c : c \in Shifted(q, st) <=> \E e \in st : c \in SubtractSubgrids(Move(q, e), q)
  BY DEF Shifted, Move, Each
<1>2. \A e \in st : /\ Move(q, e) \in Boxes /\ SubtractSubgrids(Move(q, e), q) \subseteq Boxes
                    /\ \A x \in Points : (\E c \in SubtractSubgrids(Move(q, e), q) : Within(c, x))
                                          <=> Within(q, Minus(x, e)) /\ ~Within(q, x)
  BY MovedOutside
<1>3. \A e \in st : F[e] = SubtractSubgrids(Move(q, e), q) /\ IsFiniteSet(F[e])
  BY SubtractionFinite
<1> HIDE DEF F
<1>4. Shifted(q, st) = UNION {F[e] : e \in st}
  BY <1>1, <1>3
<1>5. IsFiniteSet(Shifted(q, st))
  BY <1>3, <1>4, FiniteUnion
<1>6. \A x \in Points : Covers(Shifted(q, st), x)
                          <=> \E e \in st : Within(q, Minus(x, e)) /\ ~Within(q, x)
  BY <1>1, <1>2 DEF Covers
<1> QED
  BY <1>1, <1>2, <1>5, <1>6

\* ByProcess: each process's boxes become a list of disjoint ones.
LEMMA ByProcessIs ==
  ASSUME NEW F, IsFiniteSet(DOMAIN F), \A p \in DOMAIN F : Plain(F[p])
  PROVE  /\ Plain(AllBoxes(ByProcess(F)))
         /\ \A p \in DOMAIN ByProcess(F) : ByProcess(F)[p] \in Seq(Boxes)
         /\ \A x \in Points : Covers(AllBoxes(ByProcess(F)), x) <=> \E p \in DOMAIN F : Covers(F[p], x)
<1> DEFINE B == ByProcess(F)
           D == DOMAIN B
           E == [p \in D |-> Elements(B[p])]
<1>1. D = {q \in DOMAIN F : F[q] # {}} /\ \A p \in D : B[p] = UnionSubgridArray(F[p])
  BY DEF ByProcess
<1>2. AllBoxes(B) = UNION {E[p] : p \in D}
  BY DEF AllBoxes, Elements
<1>3. \A p \in D : E[p] = Elements(B[p])
  OBVIOUS
<1> HIDE DEF B, D, E
<1>4. \A p \in D : /\ B[p] \in Seq(Boxes) /\ Tidy(E[p])
                   /\ \A x \in Points : Covers(E[p], x) <=> Covers(F[p], x)
  BY <1>1, <1>3, UnionIs
<1>5. IsFiniteSet(D)
  BY <1>1, FS_Subset
<1>6. IsFiniteSet(AllBoxes(B))
  BY <1>2, <1>4, <1>5, FiniteUnion DEF Tidy
<1>7. \A d : d \in AllBoxes(B) <=> \E p \in D : d \in E[p]
  BY <1>2
<1>8. Plain(AllBoxes(B))
  BY <1>4, <1>6, <1>7 DEF Plain, Tidy
<1>9. \A x \in Points : Covers(AllBoxes(B), x) <=> \E p \in DOMAIN F : Covers(F[p], x)
  BY <1>1, <1>4, <1>7 DEF Covers
<1> QED
  BY <1>4, <1>8, <1>9 DEF B, D

\* The send and receive regions of a subgrid.
LEMMA RegionsAre ==
  ASSUME NEW grid \in SUBSET Boxes, IsFiniteSet(grid), NEW m \in grid,
         NEW st \in SUBSET Points, IsFiniteSet(st)
  PROVE  LET comm == CommRegFromStencil(m, grid, st)
             near == GetGridNeighbors(m, grid, st)
         IN /\ Plain(AllBoxes(comm.send)) /\ Plain(AllBoxes(comm.recv))
            /\ \A p \in DOMAIN comm.send : comm.send[p] \in Seq(Boxes)
            /\ \A p \in DOMAIN comm.recv : comm.recv[p] \in Seq(Boxes)
            /\ \A x \in Points : Covers(AllBoxes(comm.send), x) <=>
                 \E b \in near, e \in st : Within(m, x) /\ Within(b, Minus(x, e)) /\ ~Within(b, x)
            /\ \A x \in Points : Covers(AllBoxes(comm.recv), x) <=>
                 \E b \in near, e \in st : Within(b, x) /\ Within(m, Minus(x, e)) /\ ~Within(m, x)
<1> DEFINE near == GetGridNeighbors(m, grid, st)
           S(b) == Clipped(m, Shifted(b, st))
           R(b) == Clipped(b, Shifted(m, st))
           bs == [k \in Processes(near) |-> UNION {S(b) : b \in On(near, k)}]
           br == [k \in Processes(near) |-> UNION {R(b) : b \in On(near, k)}]
           comm == CommRegFromStencil(m, grid, st)
<1>1. comm.send = ByProcess(bs) /\ comm.recv = ByProcess(br)
  BY DEF CommRegFromStencil
<1>2. near \subseteq grid /\ IsFiniteSet(near)
  <2>1. near \in SUBSET grid
    BY DEF GetGridNeighbors
  <2> QED
    BY <2>1, FS_Subset
<1>3. \A b \in near : /\ Plain(S(b)) /\ Plain(R(b))
                      /\ \A x \in Points : Covers(S(b), x) <=>
                           \E e \in st : Within(m, x) /\ Within(b, Minus(x, e)) /\ ~Within(b, x)
                      /\ \A x \in Points : Covers(R(b), x) <=>
                           \E e \in st : Within(b, x) /\ Within(m, Minus(x, e)) /\ ~Within(m, x)
  <2> SUFFICES ASSUME NEW b \in near
               PROVE  /\ Plain(S(b)) /\ Plain(R(b))
                      /\ \A x \in Points : Covers(S(b), x) <=>
                           \E e \in st : Within(m, x) /\ Within(b, Minus(x, e)) /\ ~Within(b, x)
                      /\ \A x \in Points : Covers(R(b), x) <=>
                           \E e \in st : Within(b, x) /\ Within(m, Minus(x, e)) /\ ~Within(m, x)
    OBVIOUS
  <2>1. b \in Boxes /\ m \in Boxes
    BY <1>2
  <2>2. /\ Shifted(b, st) \subseteq Boxes /\ IsFiniteSet(Shifted(b, st))
        /\ \A x \in Points : Covers(Shifted(b, st), x) <=> \E e \in st : Within(b, Minus(x, e)) /\ ~Within(b, x)
    BY <2>1, ShiftedIs
  <2>3. /\ Shifted(m, st) \subseteq Boxes /\ IsFiniteSet(Shifted(m, st))
        /\ \A x \in Points : Covers(Shifted(m, st), x) <=> \E e \in st : Within(m, Minus(x, e)) /\ ~Within(m, x)
    BY <2>1, ShiftedIs
  <2>4. Plain(S(b)) /\ \A x \in Points : Covers(S(b), x) <=> Within(m, x) /\ Covers(Shifted(b, st), x)
    BY <2>1, <2>2, ClippedIs
  <2>5. Plain(R(b)) /\ \A x \in Points : Covers(R(b), x) <=> Within(b, x) /\ Covers(Shifted(m, st), x)
    BY <2>1, <2>3, ClippedIs
  <2> HIDE DEF S, R
  <2> QED
    BY <2>2, <2>3, <2>4, <2>5
<1>4. IsFiniteSet(Processes(near))
  <2> DEFINE f == [b \in near |-> b.p]
  <2>1. DOMAIN f = near /\ Processes(near) = {f[b] : b \in near}
    BY DEF Processes
  <2> HIDE DEF f, near
  <2> QED
    BY <1>2, <2>1, ImageIsFinite
<1> HIDE DEF S, R, near
<1>5. \A k : On(near, k) \subseteq near /\ IsFiniteSet(On(near, k))
  <2> TAKE k
  <2>1. On(near, k) \in SUBSET near
    BY DEF On
  <2> QED
    BY <1>2, <2>1, FS_Subset
<1>6. \A k \in Processes(near) : Plain(bs[k]) /\ Plain(br[k])
  <2> SUFFICES ASSUME NEW k \in Processes(near) PROVE Plain(bs[k]) /\ Plain(br[k])
    OBVIOUS
  <2> DEFINE FS == [b \in near |-> S(b)]
             FR == [b \in near |-> R(b)]
             O == On(near, k)
  <2>1. O \subseteq near /\ IsFiniteSet(O)
    BY <1>5
  <2>2. \A b \in O : FS[b] = S(b) /\ FR[b] = R(b) /\ Plain(FS[b]) /\ Plain(FR[b])
    BY <1>3, <2>1
  <2>3. bs[k] = UNION {FS[b] : b \in O} /\ br[k] = UNION {FR[b] : b \in O}
    BY <2>1
  <2> HIDE DEF FS, FR, O, bs, br
  <2>4. IsFiniteSet(bs[k]) /\ IsFiniteSet(br[k])
    BY <2>1, <2>2, <2>3, FiniteUnion DEF Plain
  <2>5. \A d : (d \in bs[k] => \E b \in O : d \in FS[b]) /\ (d \in br[k] => \E b \in O : d \in FR[b])
    BY <2>3
  <2> QED
    BY <2>2, <2>4, <2>5 DEF Plain
<1>7. \A x : /\ (\E k \in Processes(near) : Covers(bs[k], x)) <=> \E b \in near : Covers(S(b), x)
             /\ (\E k \in Processes(near) : Covers(br[k], x)) <=> \E b \in near : Covers(R(b), x)
  <2> TAKE x
  <2>1. \A b \in near : b.p \in Processes(near) /\ b \in On(near, b.p)
    BY DEF Processes, On
  <2>2. \A k \in Processes(near) : \A d : /\ d \in bs[k] <=> \E b \in On(near, k) : d \in S(b)
                                          /\ d \in br[k] <=> \E b \in On(near, k) : d \in R(b)
    OBVIOUS
  <2> HIDE DEF bs, br
  <2> QED
    BY <1>5, <2>1, <2>2 DEF Covers
<1>8. DOMAIN bs = Processes(near) /\ DOMAIN br = Processes(near)
  OBVIOUS
<1> HIDE DEF bs, br
<1>9. /\ Plain(AllBoxes(comm.send))
      /\ \A p \in DOMAIN comm.send : comm.send[p] \in Seq(Boxes)
      /\ \A x \in Points : Covers(AllBoxes(comm.send), x) <=> \E p \in Processes(near) : Covers(bs[p], x)
  BY <1>1, <1>4, <1>6, <1>8, ByProcessIs
<1>10. /\ Plain(AllBoxes(comm.recv))
       /\ \A p \in DOMAIN comm.recv : comm.recv[p] \in Seq(Boxes)
       /\ \A x \in Points : Covers(AllBoxes(comm.recv), x) <=> \E p \in Processes(near) : Covers(br[p], x)
  BY <1>1, <1>4, <1>6, <1>8, ByProcessIs
<1> HIDE DEF comm
<1>11. \A x \in Points : Covers(AllBoxes(comm.send), x) <=>
         \E b \in near, e \in st : Within(m, x) /\ Within(b, Minus(x, e)) /\ ~Within(b, x)
  BY <1>3, <1>7, <1>9
<1>12. \A x \in Points : Covers(AllBoxes(comm.recv), x) <=>
         \E b \in near, e \in st : Within(b, x) /\ Within(m, Minus(x, e)) /\ ~Within(m, x)
  BY <1>3, <1>7, <1>10
<1> QED
  BY <1>9, <1>10, <1>11, <1>12 DEF comm, near

-----------------------------------------------------------------------------
(* What a rank computes before the messages are there, and after.           *)

LEMMA CoveredCells ==
  ASSUME NEW S, S \subseteq Boxes
  PROVE  \A x : x \in CellsOf(S) <=> x \in Points /\ Covers(S, x)
BY CellsAre DEF CellsOf, Covers

\* ComputeRegFromStencil: the dependent boxes cover what is sent, the independent
\* ones the rest of the subgrid, and all of them are disjoint.
LEMMA ComputeRegIs ==
  ASSUME NEW m \in Boxes, NEW send, Plain(AllBoxes(send))
  PROVE  LET reg == ComputeRegFromStencil(m, send)
         IN /\ Tidy(reg.dep)
            /\ reg.ind \subseteq Boxes /\ Separate(reg.ind)
            /\ \A x \in Points : Covers(reg.dep, x) <=> Covers(AllBoxes(send), x)
            /\ \A x \in Points : Covers(reg.ind, x) <=> Within(m, x) /\ ~Covers(AllBoxes(send), x)
<1> DEFINE A == AllBoxes(send)
           dep == IF A = {} THEN <<>> ELSE UnionSubgridArray(A)
           reg == ComputeRegFromStencil(m, send)
<1>1. reg.dep = Elements(dep) /\ reg.ind = SubtractFrom({m}, dep)
  BY DEF ComputeRegFromStencil
<1>2. dep \in Seq(Boxes) /\ Tidy(Elements(dep)) /\ \A x \in Points : Covers(Elements(dep), x) <=> Covers(A, x)
  <2>1. CASE A = {}
    <3>1. dep = <<>> /\ Elements(<<>>) = {}
      BY <2>1 DEF Elements
    <3>2. <<>> \in Seq(Boxes) /\ Tidy({}) /\ \A x : ~Covers({}, x)
      BY FS_EmptySet DEF Tidy, Separate, Covers
    <3> HIDE DEF dep, A
    <3> QED
      BY <2>1, <3>1, <3>2
  <2>2. CASE A # {}
    <3>1. dep = UnionSubgridArray(A)
      BY <2>2
    <3> HIDE DEF dep, A
    <3> QED
      BY <3>1, UnionIs DEF A
  <2> QED
    BY <2>1, <2>2
<1> HIDE DEF dep, A
<1>3. \A k \in DOMAIN dep : Solid(dep[k])
  BY <1>2 DEF Tidy, Elements
<1>4. {m} \subseteq Boxes /\ Separate({m}) /\ \A x : Covers({m}, x) <=> Within(m, x)
  BY DEF Separate, Covers
<1> DEFINE ind == SubtractFrom({m}, dep)
<1>5. /\ ind \subseteq Boxes /\ Separate(ind)
      /\ \A x \in Points : Covers(ind, x) <=> Covers({m}, x) /\ ~Covers(Elements(dep), x)
  BY <1>2, <1>3, <1>4, SubtractFromIs
<1> HIDE DEF ind
<1>6. \A x \in Points : Covers(ind, x) <=> Within(m, x) /\ ~Covers(A, x)
  BY <1>2, <1>4, <1>5
<1> QED
  BY <1>1, <1>2, <1>5, <1>6 DEF ind, A

\* The points one colour offset selects.
Class(x, off) == \A a \in Axis : (x[a] + off[a]) % 2 = 0

Offsets == [Axis -> {0, 1}]

\* RoundUp on one axis: the first index from i on that the stride meets, and
\* how many of n indices it meets.
FirstOf(i, o) == RoundUp(i + o, 2) - o
CountOf(i, n, o) == (RoundUp(i + o + n, 2) - o - FirstOf(i, o)) \div 2

LEMMA EvenLine ==
  ASSUME NEW i \in Int, NEW n \in Int, NEW o \in {0, 1}
  PROVE  /\ FirstOf(i, o) \in Int /\ CountOf(i, n, o) \in Int
         /\ \A x : (\E k \in 0..(CountOf(i, n, o) - 1) : x = FirstOf(i, o) + k * 2)
                     <=> x \in Int /\ i <= x /\ x < i + n /\ (x + o) % 2 = 0
         /\ \A x \in Int : i <= x /\ x < i + n /\ (x + o) % 2 = 0 => CountOf(i, n, o) > 0
<1> DEFINE p == (i + o + 1) \div 2
           q == (i + o + n + 1) \div 2
           lo == FirstOf(i, o)
           hi == RoundUp(i + o + n, 2) - o
           cnt == CountOf(i, n, o)
<1>1. p \in Int /\ q \in Int
  OBVIOUS
<1>2. i + o <= 2 * p /\ 2 * p <= i + o + 1 /\ i + o + n <= 2 * q /\ 2 * q <= i + o + n + 1
  OBVIOUS
<1>3. lo = 2 * p - o /\ hi = 2 * q - o
  <2>1. i + o + 2 - 1 = i + o + 1 /\ i + o + n + 2 - 1 = i + o + n + 1
    OBVIOUS
  <2>2. lo = p * 2 - o /\ hi = q * 2 - o
    BY <2>1 DEF RoundUp, FirstOf
  <2> HIDE DEF p, q, lo, hi
  <2> QED
    BY <1>1, <2>2
<1>0. cnt = (hi - lo) \div 2
  BY DEF CountOf
<1> HIDE DEF p, q, lo, hi, cnt
<1>4. cnt = q - p
  <2>1. hi - lo = 2 * (q - p)
    BY <1>1, <1>3
  <2>2. \A z \in Int : (2 * z) \div 2 = z
    OBVIOUS
  <2>3. q - p \in Int
    BY <1>1
  <2> QED
    BY <1>0, <2>1, <2>2, <2>3
<1>5. lo \in Int /\ cnt \in Int
  BY <1>1, <1>3, <1>4
<1>6. ASSUME NEW k \in 0..(cnt - 1), NEW x, x = lo + k * 2
      PROVE  x \in Int /\ i <= x /\ x < i + n /\ (x + o) % 2 = 0
  <2>1. x = 2 * (p + k) - o /\ k \in Int /\ 0 <= k /\ k < q - p
    BY <1>1, <1>3, <1>4, <1>6
  <2>2. x + o = 2 * (p + k) /\ p + k \in Int
    BY <1>1, <2>1
  <2>3. \A z \in Int : (2 * z) % 2 = 0
    OBVIOUS
  <2>4. (x + o) % 2 = 0
    BY <2>2, <2>3
  <2>5. x \in Int /\ i <= x /\ x < i + n
    BY <1>1, <1>2, <2>1
  <2> QED
    BY <2>4, <2>5
<1>7. ASSUME NEW x \in Int, i <= x, x < i + n, (x + o) % 2 = 0
      PROVE  cnt > 0 /\ \E k \in 0..(cnt - 1) : x = lo + k * 2
  <2> DEFINE z == (x + o) \div 2
  <2>1. z \in Int /\ x + o = 2 * z
    BY <1>7
  <2> HIDE DEF z
  <2>2. p <= z /\ z < q
    BY <1>1, <1>2, <1>7, <2>1
  <2>3. z - p \in 0..(cnt - 1)
    BY <1>1, <1>4, <2>1, <2>2
  <2>4. x = lo + (z - p) * 2
    BY <1>1, <1>3, <2>1
  <2>5. cnt > 0
    BY <1>1, <1>4, <2>1, <2>2
  <2> QED
    BY <2>3, <2>4, <2>5
<1> QED
  BY <1>5, <1>6, <1>7 DEF lo, cnt

\* ProjectSubgrid: the points of the box in the class of the offset.
LEMMA ProjectIs ==
  ASSUME NEW b \in Boxes, NEW off \in Offsets
  PROVE  \A x : (\E d \in ProjectSubgrid(b, 2, off) : x \in Cells(d))
                  <=> x \in Points /\ Within(b, x) /\ Class(x, off)
<1> DEFINE lo(a) == FirstOf(b.i[a], off[a])
           n(a) == CountOf(b.i[a], b.n[a], off[a])
           box == [b EXCEPT !.i = <<lo(1), lo(2), lo(3)>>, !.n = <<n(1), n(2), n(3)>>, !.s = <<2, 2, 2>>]
           L(a) == {lo(a) + k * 2 : k \in 0..(n(a) - 1)}
<1>1. ProjectSubgrid(b, 2, off) = IF \A a \in Axis : n(a) > 0 THEN {box} ELSE {}
  BY DEF ProjectSubgrid, Each, FirstOf, CountOf
<1>2. \A a \in Axis : b.i[a] \in Int /\ b.n[a] \in Int /\ off[a] \in {0, 1} /\ Upper(b, a) = b.i[a] + b.n[a]
  BY BoxFacts DEF Offsets, Upper
<1>3. \A a \in Axis : /\ lo(a) \in Int /\ n(a) \in Int
                      /\ \A x : (\E k \in 0..(n(a) - 1) : x = lo(a) + k * 2)
                                  <=> /\ x \in Int /\ b.i[a] <= x /\ x < b.i[a] + b.n[a]
                                      /\ (x + off[a]) % 2 = 0
                      /\ \A x \in Int : (/\ b.i[a] <= x /\ x < b.i[a] + b.n[a]
                                         /\ (x + off[a]) % 2 = 0) => n(a) > 0
  <2> TAKE a \in Axis
  <2> DEFINE i == b.i[a]
             m == b.n[a]
             o == off[a]
  <2>1. i \in Int /\ m \in Int /\ o \in {0, 1}
    BY <1>2
  <2> HIDE DEF i, m, o
  <2>2. /\ FirstOf(i, o) \in Int /\ CountOf(i, m, o) \in Int
        /\ \A x : (\E k \in 0..(CountOf(i, m, o) - 1) : x = FirstOf(i, o) + k * 2)
                     <=> x \in Int /\ i <= x /\ x < i + m /\ (x + o) % 2 = 0
        /\ \A x \in Int : i <= x /\ x < i + m /\ (x + o) % 2 = 0 => CountOf(i, m, o) > 0
    BY <2>1, EvenLine
  <2> QED
    BY <2>2 DEF i, m, o
<1> HIDE DEF lo, n
<1>4. \A a \in Axis : \A x : x \in L(a) <=> /\ x \in Int /\ b.i[a] <= x /\ x < Upper(b, a)
                                            /\ (x + off[a]) % 2 = 0
  <2> SUFFICES ASSUME NEW a \in Axis, NEW x
               PROVE  x \in L(a) <=> /\ x \in Int /\ b.i[a] <= x /\ x < Upper(b, a)
                                     /\ (x + off[a]) % 2 = 0
    OBVIOUS
  <2>1. x \in L(a) <=> \E k \in 0..(n(a) - 1) : x = lo(a) + k * 2
    OBVIOUS
  <2> QED
    BY <1>2, <1>3, <2>1
<1>5. Line(box, 1) = L(1) /\ Line(box, 2) = L(2) /\ Line(box, 3) = L(3)
  <2>1. /\ box.i = <<lo(1), lo(2), lo(3)>> /\ box.n = <<n(1), n(2), n(3)>> /\ box.s = <<2, 2, 2>>
    BY DEF Boxes
  <2> HIDE DEF box
  <2>2. /\ box.i[1] = lo(1) /\ box.i[2] = lo(2) /\ box.i[3] = lo(3)
        /\ box.n[1] = n(1) /\ box.n[2] = n(2) /\ box.n[3] = n(3)
        /\ box.s[1] = 2 /\ box.s[2] = 2 /\ box.s[3] = 2
    BY <2>1
  <2> QED
    BY <2>2 DEF Line
<1> HIDE DEF box, L
<1>6. \A x : x \in Cells(box) <=> x \in Points /\ Within(b, x) /\ Class(x, off)
  <2> TAKE x
  <2>1. x \in Cells(box) <=> x \in L(1) \X L(2) \X L(3)
    BY <1>5 DEF Cells
  <2>2. x \in L(1) \X L(2) \X L(3) => x \in Points /\ x[1] \in L(1) /\ x[2] \in L(2) /\ x[3] \in L(3)
    BY <1>4, AxesAre DEF Points
  <2>3. x \in Points /\ x[1] \in L(1) /\ x[2] \in L(2) /\ x[3] \in L(3) => x \in L(1) \X L(2) \X L(3)
    BY DEF Points
  <2>4. x \in Points => \A a \in Axis : x[a] \in Int
    BY PointFacts
  <2>5. x \in Points => (Within(b, x) /\ Class(x, off) <=> \A a \in Axis : x[a] \in L(a))
    BY <1>4, <2>4 DEF Within, Class
  <2>6. (\A a \in Axis : x[a] \in L(a)) <=> x[1] \in L(1) /\ x[2] \in L(2) /\ x[3] \in L(3)
    BY AxesAre
  <2> QED
    BY <2>1, <2>2, <2>3, <2>5, <2>6
<1>7. ASSUME NEW x \in Points, Within(b, x), Class(x, off), NEW a \in Axis PROVE n(a) > 0
  <2>1. x[a] \in Int /\ b.i[a] <= x[a] /\ x[a] < b.i[a] + b.n[a] /\ (x[a] + off[a]) % 2 = 0
    BY <1>2, <1>7, PointFacts DEF Within, Class
  <2> QED
    BY <1>3, <2>1
<1> QED
  BY <1>1, <1>6, <1>7

\* The points a colour selects.
Bright(x, colour) == \E k \in 1..4 : Class(x, colour[k])

\* Four offsets, no two of which select the same point.
Palette(colour) ==
  /\ \A k \in 1..4 : colour[k] \in Offsets
  /\ \A x \in Points : \A j, k \in 1..4 : Class(x, colour[j]) /\ Class(x, colour[k]) => j = k

LEMMA OffsetIs ==
  ASSUME NEW u \in {0, 1}, NEW v \in {0, 1}, NEW w \in {0, 1}
  PROVE  /\ <<u, v, w>> \in Offsets
         /\ \A x \in Points : Class(x, <<u, v, w>>) <=> x[1] % 2 = u /\ x[2] % 2 = v /\ x[3] % 2 = w
<1>1. <<u, v, w>> \in Offsets
  BY DEF Offsets, Axis
<1>2. \A y \in Int, o \in {0, 1} : (y + o) % 2 = 0 <=> y % 2 = o
  OBVIOUS
<1>3. ASSUME NEW x \in Points
      PROVE  Class(x, <<u, v, w>>) <=> x[1] % 2 = u /\ x[2] % 2 = v /\ x[3] % 2 = w
  <2>1. x[1] \in Int /\ x[2] \in Int /\ x[3] \in Int
    BY PointFacts, AxesAre
  <2>2. Class(x, <<u, v, w>>) <=> (x[1] + u) % 2 = 0 /\ (x[2] + v) % 2 = 0 /\ (x[3] + w) % 2 = 0
    BY AxesAre DEF Class
  <2> QED
    BY <1>2, <2>1, <2>2
<1> QED
  BY <1>1, <1>3

LEMMA ColoursAre ==
  /\ Palette(Red) /\ \A x \in Points : Bright(x, Red) <=> ~Even(x)
  /\ Palette(Black) /\ \A x \in Points : Bright(x, Black) <=> Even(x)
<1>1. \A k : k \in 1..4 <=> k = 1 \/ k = 2 \/ k = 3 \/ k = 4
  OBVIOUS
<1>2. /\ Red[1] = <<1, 0, 0>> /\ Red[2] = <<0, 1, 0>> /\ Red[3] = <<0, 0, 1>> /\ Red[4] = <<1, 1, 1>>
      /\ Black[1] = <<0, 0, 0>> /\ Black[2] = <<1, 1, 0>> /\ Black[3] = <<1, 0, 1>> /\ Black[4] = <<0, 1, 1>>
  BY DEF Red, Black
<1>3. \A k \in 1..4 : Red[k] \in Offsets /\ Black[k] \in Offsets
  BY <1>1, <1>2, OffsetIs
<1>4. ASSUME NEW x \in Points
      PROVE  /\ Class(x, Red[1]) <=> x[1] % 2 = 1 /\ x[2] % 2 = 0 /\ x[3] % 2 = 0
             /\ Class(x, Red[2]) <=> x[1] % 2 = 0 /\ x[2] % 2 = 1 /\ x[3] % 2 = 0
             /\ Class(x, Red[3]) <=> x[1] % 2 = 0 /\ x[2] % 2 = 0 /\ x[3] % 2 = 1
             /\ Class(x, Red[4]) <=> x[1] % 2 = 1 /\ x[2] % 2 = 1 /\ x[3] % 2 = 1
             /\ Class(x, Black[1]) <=> x[1] % 2 = 0 /\ x[2] % 2 = 0 /\ x[3] % 2 = 0
             /\ Class(x, Black[2]) <=> x[1] % 2 = 1 /\ x[2] % 2 = 1 /\ x[3] % 2 = 0
             /\ Class(x, Black[3]) <=> x[1] % 2 = 1 /\ x[2] % 2 = 0 /\ x[3] % 2 = 1
             /\ Class(x, Black[4]) <=> x[1] % 2 = 0 /\ x[2] % 2 = 1 /\ x[3] % 2 = 1
  BY <1>2, OffsetIs
<1>5. ASSUME NEW x \in Points
      PROVE  /\ x[1] % 2 \in {0, 1} /\ x[2] % 2 \in {0, 1} /\ x[3] % 2 \in {0, 1}
             /\ Even(x) <=> ((x[1] % 2) + (x[2] % 2) + (x[3] % 2)) % 2 = 0
  <2>1. x[1] \in Int /\ x[2] \in Int /\ x[3] \in Int
    BY PointFacts, AxesAre
  <2>2. \A u, v, w \in Int : /\ u % 2 \in {0, 1}
                             /\ (u + v + w) % 2 = 0 <=> ((u % 2) + (v % 2) + (w % 2)) % 2 = 0
    OBVIOUS
  <2> QED
    BY <2>1, <2>2 DEF Even
<1>6. \A u, v, w \in {0, 1} : (u + v + w) % 2 = 0 <=>
        \/ (u = 0 /\ v = 0 /\ w = 0) \/ (u = 1 /\ v = 1 /\ w = 0)
        \/ (u = 1 /\ v = 0 /\ w = 1) \/ (u = 0 /\ v = 1 /\ w = 1)
  <2> TAKE u, v, w \in {0, 1}
  <2>1. 0 % 2 = 0 /\ 1 % 2 = 1 /\ 2 % 2 = 0 /\ 3 % 2 = 1
    OBVIOUS
  <2>2. (u = 0 \/ u = 1) /\ (v = 0 \/ v = 1) /\ (w = 0 \/ w = 1)
    OBVIOUS
  <2>3. CASE u = 0
    BY <2>1, <2>2, <2>3
  <2>4. CASE u = 1
    BY <2>1, <2>2, <2>4
  <2> QED
    BY <2>2, <2>3, <2>4
<1>7. ASSUME NEW x \in Points
      PROVE  /\ Bright(x, Red) <=> ~Even(x)
             /\ Bright(x, Black) <=> Even(x)
             /\ \A j, k \in 1..4 : Class(x, Red[j]) /\ Class(x, Red[k]) => j = k
             /\ \A j, k \in 1..4 : Class(x, Black[j]) /\ Class(x, Black[k]) => j = k
  <2> DEFINE u == x[1] % 2
             v == x[2] % 2
             w == x[3] % 2
  <2>1. u \in {0, 1} /\ v \in {0, 1} /\ w \in {0, 1} /\ (Even(x) <=> (u + v + w) % 2 = 0)
    BY <1>5
  <2>2. /\ Class(x, Red[1]) <=> u = 1 /\ v = 0 /\ w = 0
        /\ Class(x, Red[2]) <=> u = 0 /\ v = 1 /\ w = 0
        /\ Class(x, Red[3]) <=> u = 0 /\ v = 0 /\ w = 1
        /\ Class(x, Red[4]) <=> u = 1 /\ v = 1 /\ w = 1
        /\ Class(x, Black[1]) <=> u = 0 /\ v = 0 /\ w = 0
        /\ Class(x, Black[2]) <=> u = 1 /\ v = 1 /\ w = 0
        /\ Class(x, Black[3]) <=> u = 1 /\ v = 0 /\ w = 1
        /\ Class(x, Black[4]) <=> u = 0 /\ v = 1 /\ w = 1
    BY <1>4
  <2> HIDE DEF u, v, w
  <2>3. Even(x) <=> \/ (u = 0 /\ v = 0 /\ w = 0) \/ (u = 1 /\ v = 1 /\ w = 0)
                    \/ (u = 1 /\ v = 0 /\ w = 1) \/ (u = 0 /\ v = 1 /\ w = 1)
    BY <1>6, <2>1
  <2>4. /\ Bright(x, Red) <=> Class(x, Red[1]) \/ Class(x, Red[2]) \/ Class(x, Red[3]) \/ Class(x, Red[4])
        /\ Bright(x, Black) <=> Class(x, Black[1]) \/ Class(x, Black[2]) \/ Class(x, Black[3]) \/ Class(x, Black[4])
    BY <1>1 DEF Bright
  <2>5. (Bright(x, Red) <=> ~Even(x)) /\ (Bright(x, Black) <=> Even(x))
    BY <2>1, <2>2, <2>3, <2>4
  <2>6. \A j, k \in 1..4 : Class(x, Red[j]) /\ Class(x, Red[k]) => j = k
    BY <1>1, <2>2
  <2>7. \A j, k \in 1..4 : Class(x, Black[j]) /\ Class(x, Black[k]) => j = k
    BY <1>1, <2>2
  <2> QED
    BY <2>5, <2>6, <2>7
<1> QED
  BY <1>3, <1>7 DEF Palette

\* ProjectRBPoint on a computed region: the points of the colour, each in one box.
LEMMA ProjectSetIs ==
  ASSUME NEW S, S \subseteq Boxes, NEW colour, Palette(colour)
  PROVE  /\ \A x : x \in CellsOf(ProjectRBSet(S, colour)) <=> x \in Points /\ Covers(S, x) /\ Bright(x, colour)
         /\ Separate(S) => \A d, f \in ProjectRBSet(S, colour) : d = f \/ Cells(d) \cap Cells(f) = {}
<1>1. \A d : d \in ProjectRBSet(S, colour) <=> \E b \in S, k \in 1..4 : d \in ProjectSubgrid(b, 2, colour[k])
  BY DEF ProjectRBSet
<1>2. \A b \in S, k \in 1..4 : \A x :
        (\E d \in ProjectSubgrid(b, 2, colour[k]) : x \in Cells(d))
           <=> x \in Points /\ Within(b, x) /\ Class(x, colour[k])
  <2> TAKE b \in S, k \in 1..4
  <2>1. b \in Boxes /\ colour[k] \in Offsets
    BY DEF Palette
  <2> QED
    BY <2>1, ProjectIs
<1>3. \A x : x \in CellsOf(ProjectRBSet(S, colour)) <=>
        \E b \in S, k \in 1..4 : \E d \in ProjectSubgrid(b, 2, colour[k]) : x \in Cells(d)
  <2> TAKE x
  <2>1. x \in CellsOf(ProjectRBSet(S, colour)) <=> \E d \in ProjectRBSet(S, colour) : x \in Cells(d)
    BY DEF CellsOf
  <2> QED
    BY <1>1, <2>1
<1>4. \A x : x \in CellsOf(ProjectRBSet(S, colour)) <=> x \in Points /\ Covers(S, x) /\ Bright(x, colour)
  BY <1>2, <1>3 DEF Covers, Bright
<1>5. ASSUME Separate(S), NEW d \in ProjectRBSet(S, colour), NEW f \in ProjectRBSet(S, colour),
             NEW x, x \in Cells(d), x \in Cells(f)
      PROVE  d = f
  <2>1. PICK b \in S, j \in 1..4 : d \in ProjectSubgrid(b, 2, colour[j])
    BY <1>1
  <2>2. PICK c \in S, k \in 1..4 : f \in ProjectSubgrid(c, 2, colour[k])
    BY <1>1
  <2>3. x \in Points /\ Within(b, x) /\ Class(x, colour[j])
    BY <1>2, <1>5, <2>1
  <2>4. Within(c, x) /\ Class(x, colour[k])
    BY <1>2, <1>5, <2>2
  <2>5. b = c
    BY <1>5, <2>3, <2>4 DEF Separate
  <2>6. j = k
    BY <2>3, <2>4 DEF Palette
  <2>7. \A g, h \in ProjectSubgrid(b, 2, colour[j]) : g = h
    BY DEF ProjectSubgrid
  <2> QED
    BY <2>1, <2>2, <2>5, <2>6, <2>7
<1> QED
  BY <1>4, <1>5

\* ProjectRegion keeps parts of the boxes of a list.
LEMMA ProjectSeqIs ==
  ASSUME NEW boxes \in Seq(Boxes), NEW off, NEW D,
         \A k \in DOMAIN boxes : ProjectSubgrid(boxes[k], 2, off) \subseteq D
  PROVE  ProjectSeq(boxes, off) \in Seq(D)
<1> DEFINE n == Len(boxes)
           proj(k) == ProjectSubgrid(boxes[k], 2, off)
           Step(k, s) == IF proj(k) = {} THEN s ELSE Append(s, CHOOSE b \in proj(k) : TRUE)
           X == [k \in 0..n |-> Seq(D)]
           G == [k \in 1..n |-> [s \in Seq(D) |-> Step(k, s)]]
           up == CHOOSE f : f = [k \in 0..n |-> IF k = 0 THEN <<>> ELSE Step(k, f[k - 1])]
<1>1. n \in Nat /\ DOMAIN boxes = 1..n
  OBVIOUS
<1>2. ProjectSeq(boxes, off) = up[n]
  BY DEF ProjectSeq
<1>3. \A k \in 1..n : proj(k) \subseteq D
  BY <1>1
<1> HIDE DEF n, proj
<1>4. \A k \in 1..n, s \in Seq(D) : Step(k, s) \in Seq(D)
  <2> TAKE k \in 1..n, s \in Seq(D)
  <2>1. CASE proj(k) = {}
    BY <2>1
  <2>2. CASE proj(k) # {}
    <3> DEFINE c == CHOOSE b \in proj(k) : TRUE
    <3>1. c \in D
      BY <1>3, <2>2
    <3>2. Step(k, s) = Append(s, c)
      BY <2>2
    <3> HIDE DEF c, Step
    <3> QED
      BY <3>1, <3>2
  <2> QED
    BY <2>1, <2>2
<1> HIDE DEF Step
<1>5. \A k \in 1..n, s \in Seq(D) : G[k][s] = Step(k, s)
  OBVIOUS
<1>6. \A k \in 0..n : X[k] = Seq(D)
  OBVIOUS
<1> HIDE DEF X, G
<1>7. Leads(n, X, <<>>, G)
  <2>1. \A k \in 1..n : k \in 0..n /\ k - 1 \in 0..n
    BY <1>1
  <2>2. 0 \in 0..n /\ <<>> \in Seq(D)
    BY <1>1
  <2>3. <<>> \in X[0]
    BY <1>6, <2>2
  <2>4. ASSUME NEW k \in 1..n, NEW s \in X[k - 1] PROVE G[k][s] \in X[k]
    BY <1>4, <1>5, <1>6, <2>1
  <2> QED
    BY <2>3, <2>4 DEF Leads
<1>8. PICK f : Follows(f, n, <<>>, G) /\ f = [k \in 0..n |-> f[k]] /\ \A k \in 0..n : f[k] \in X[k]
  BY <1>1, <1>7, Recursion
<1>9. f = [k \in 0..n |-> IF k = 0 THEN <<>> ELSE Step(k, f[k - 1])]
  <2>1. ASSUME NEW k \in 0..n PROVE f[k] = IF k = 0 THEN <<>> ELSE Step(k, f[k - 1])
    <3>1. CASE k = 0
      BY <1>8, <3>1 DEF Follows
    <3>2. CASE k # 0
      <4>1. k \in 1..n /\ k - 1 \in 0..n
        BY <1>1, <3>2
      <4>2. f[k - 1] \in Seq(D)
        BY <1>6, <1>8, <4>1
      <4> QED
        BY <1>5, <1>8, <3>2, <4>1, <4>2 DEF Follows
    <3> QED
      BY <3>1, <3>2
  <2> QED
    BY <1>8, <2>1
<1>10. up = [k \in 0..n |-> IF k = 0 THEN <<>> ELSE Step(k, up[k - 1])]
  BY <1>9
<1> HIDE DEF up
<1>11. up[n] \in Seq(D)
  <2> DEFINE P == {k \in 0..n : up[k] \in Seq(D)}
  <2>1. 0 \in P
    BY <1>1, <1>10
  <2>2. ASSUME NEW k \in 1..n, k - 1 \in P PROVE k \in P
    <3>1. k \in 0..n /\ k # 0 /\ k - 1 \in 0..n
      BY <1>1
    <3>2. up[k] = Step(k, up[k - 1])
      BY <1>10, <3>1
    <3> QED
      BY <1>4, <2>2, <3>1, <3>2
  <2> HIDE DEF P
  <2>3. \A k \in 0..n : k \in P
    BY <1>1, <2>1, <2>2, Induction
  <2>4. n \in P
    BY <1>1, <2>3
  <2> QED
    BY <2>4 DEF P
<1> QED
  BY <1>2, <1>11

\* ProjectRBPoint on a send or receive region: no point is added.
LEMMA ProjectRegionIs ==
  ASSUME NEW region, \A p \in DOMAIN region : region[p] \in Seq(Boxes), NEW colour, Palette(colour)
  PROVE  \A x : x \in CellsOf(AllBoxes(ProjectRBRegion(region, colour)))
                  => x \in Points /\ Covers(AllBoxes(region), x)
<1> DEFINE reg == ProjectRBRegion(region, colour)
<1>1. \A p \in DOMAIN reg : p \in DOMAIN region /\ reg[p] = ProjectRB(region[p], colour)
  BY DEF ProjectRBRegion
<1> HIDE DEF reg
<1> SUFFICES ASSUME NEW p \in DOMAIN reg, NEW k \in DOMAIN reg[p], NEW x \in Cells(reg[p][k])
             PROVE  x \in Points /\ Covers(AllBoxes(region), x)
  BY DEF CellsOf, AllBoxes, reg
<1> DEFINE boxes == region[p]
           D == UNION {ProjectSubgrid(boxes[j], 2, colour[i]) : j \in DOMAIN boxes, i \in 1..4}
<1>2. boxes \in Seq(Boxes) /\ p \in DOMAIN region
  BY <1>1
<1>3. \A i \in 1..4 : ProjectSeq(boxes, colour[i]) \in Seq(D)
  <2> TAKE i \in 1..4
  <2>1. \A j \in DOMAIN boxes : ProjectSubgrid(boxes[j], 2, colour[i]) \subseteq D
    OBVIOUS
  <2> HIDE DEF D, boxes
  <2> QED
    BY <1>2, <2>1, ProjectSeqIs
<1>4. \A d \in D : \E j \in DOMAIN boxes, i \in 1..4 : d \in ProjectSubgrid(boxes[j], 2, colour[i])
  OBVIOUS
<1>5. ProjectRB(boxes, colour) \in Seq(D)
  <2> HIDE DEF D, boxes
  <2> DEFINE s(i) == ProjectSeq(boxes, colour[i])
  <2>1. s(1) \in Seq(D) /\ s(2) \in Seq(D) /\ s(3) \in Seq(D) /\ s(4) \in Seq(D)
    BY <1>3
  <2>2. ProjectRB(boxes, colour) = s(1) \o s(2) \o s(3) \o s(4)
    BY DEF ProjectRB
  <2> HIDE DEF s
  <2>3. s(1) \o s(2) \in Seq(D)
    BY <2>1
  <2>4. s(1) \o s(2) \o s(3) \in Seq(D)
    BY <2>1, <2>3
  <2>5. s(1) \o s(2) \o s(3) \o s(4) \in Seq(D)
    BY <2>1, <2>4
  <2> QED
    BY <2>2, <2>5
<1>6. reg[p][k] \in D
  <2> HIDE DEF D
  <2>1. reg[p] \in Seq(D)
    BY <1>1, <1>5
  <2> QED
    BY <2>1
<1>7. PICK j \in DOMAIN boxes, i \in 1..4 : reg[p][k] \in ProjectSubgrid(boxes[j], 2, colour[i])
  BY <1>4, <1>6
<1>8. boxes[j] \in Boxes /\ colour[i] \in Offsets
  BY <1>2 DEF Palette
<1>9. x \in Points /\ Within(boxes[j], x)
  BY <1>7, <1>8, ProjectIs
<1>10. boxes[j] \in AllBoxes(region)
  BY <1>2 DEF AllBoxes
<1> QED
  BY <1>9, <1>10 DEF Covers

-----------------------------------------------------------------------------
(* The independent region meets neither what is sent nor what is received.  *)

LEMMA StencilsAreFinite ==
  ASSUME NEW mode \in Modes
  PROVE  IsFiniteSet(Stencil(mode))
<1>1. \A k \in Nat : IsFiniteSet(Cube(k))
  <2> TAKE k \in Nat
  <2>1. IsFiniteSet((-k)..k)
    BY FS_Interval
  <2> QED
    BY <2>1, FiniteTriples DEF Cube
<1>2. \A k \in Nat : \A S \in SUBSET Cube(k) : IsFiniteSet(S)
  BY <1>1, FS_Subset
<1>3. Star \subseteq Cube(2)
  BY DEF Star, Cube
<1>4. CASE mode \in {"All", "RPoint", "BPoint"}
  BY <1>2, <1>3, <1>4 DEF Stencil, Each
<1>5. CASE mode = "All2"
  <2> DEFINE D == {Each(LAMBDA a : 2 * e[a]) : e \in Star}
  <2>1. Stencil(mode) = Star \cup D
    BY <1>5 DEF Stencil, Each
  <2>2. D \subseteq Cube(2)
    <3> SUFFICES ASSUME NEW e \in Star PROVE <<2 * e[1], 2 * e[2], 2 * e[3]>> \in Cube(2)
      BY DEF Each
    <3>1. e[1] \in (-1)..1 /\ e[2] \in (-1)..1 /\ e[3] \in (-1)..1
      BY DEF Star
    <3>2. 2 * e[1] \in (-2)..2 /\ 2 * e[2] \in (-2)..2 /\ 2 * e[3] \in (-2)..2
      BY <3>1
    <3> QED
      BY <3>2 DEF Cube
  <2> HIDE DEF D
  <2> QED
    BY <1>2, <1>3, <2>1, <2>2
<1>6. CASE mode = "VelZ"
  <2>1. Stencil(mode) = Star \cup {<<0, 0, 2>>, <<0, 0, -2>>}
    BY <1>6 DEF Stencil, Each
  <2>2. {<<0, 0, 2>>, <<0, 0, -2>>} \subseteq Cube(2)
    BY DEF Cube
  <2> QED
    BY <1>2, <1>3, <2>1, <2>2
<1>7. CASE mode = "Godunov"
  <2>1. Cube(1) \subseteq Cube(3)
    BY DEF Cube
  <2>2. Stencil(mode) \subseteq Cube(3)
    BY <1>7, <2>1 DEF Stencil, Each, Godunov
  <2> QED
    BY <1>2, <2>2
<1>8. CASE mode = "PGS1"
  BY <1>1, <1>8 DEF Stencil, Each
<1>9. CASE mode = "PGS2"
  BY <1>1, <1>9 DEF Stencil, Each
<1>10. CASE mode = "PGS3"
  BY <1>1, <1>10 DEF Stencil, Each
<1>11. CASE mode = "PGS4"
  BY <1>1, <1>11 DEF Stencil, Each
<1> QED
  BY <1>4, <1>5, <1>6, <1>7, <1>8, <1>9, <1>10, <1>11 DEF Modes

LEMMA MovedIs ==
  ASSUME NEW c \in Points, NEW e \in Points
  PROVE  /\ Moved(c, e) \in Points /\ Minus(Moved(c, e), e) = c
         /\ Opposite(e) \in Points /\ Minus(c, Opposite(e)) = Moved(c, e)
<1>1. PICK c1 \in Int, c2 \in Int, c3 \in Int : c = <<c1, c2, c3>>
  BY DEF Points
<1>2. PICK e1 \in Int, e2 \in Int, e3 \in Int : e = <<e1, e2, e3>>
  BY DEF Points
<1>3. Moved(c, e) = <<c1 + e1, c2 + e2, c3 + e3>> /\ Opposite(e) = <<-e1, -e2, -e3>>
  BY <1>1, <1>2 DEF Moved, Each, Opposite
<1>4. Moved(c, e) \in Points /\ Opposite(e) \in Points
  BY <1>3 DEF Points
<1>5. /\ Minus(Moved(c, e), e) = <<(c1 + e1) - e1, (c2 + e2) - e2, (c3 + e3) - e3>>
      /\ Minus(c, Opposite(e)) = <<c1 - (-e1), c2 - (-e2), c3 - (-e3)>>
  BY <1>1, <1>2, <1>3 DEF Minus
<1>6. /\ (c1 + e1) - e1 = c1 /\ (c2 + e2) - e2 = c2 /\ (c3 + e3) - e3 = c3
      /\ c1 - (-e1) = c1 + e1 /\ c2 - (-e2) = c2 + e2 /\ c3 - (-e3) = c3 + e3
  OBVIOUS
<1> QED
  BY <1>1, <1>3, <1>4, <1>5, <1>6

\* The regions before the colours are taken into account.  What is received lies in a
\* neighbour, apart from m; with the stencil, its opposite leads back, so every cell
\* of m that reads it is one that the neighbour needs, and so it is sent.
LEMMA RegionsAreSafe ==
  ASSUME NEW grid \in SUBSET Boxes, IsFiniteSet(grid), NEW m \in grid,
         \A b \in grid : Apart(b, m), NEW mode \in Modes
  PROVE  LET comm == CommRegFromStencil(m, grid, Stencil(mode))
             reg == ComputeRegFromStencil(m, comm.send)
         IN /\ \A p \in DOMAIN comm.send : comm.send[p] \in Seq(Boxes)
            /\ \A p \in DOMAIN comm.recv : comm.recv[p] \in Seq(Boxes)
            /\ AllBoxes(comm.send) \subseteq Boxes /\ AllBoxes(comm.recv) \subseteq Boxes
            /\ reg.ind \subseteq Boxes /\ reg.dep \subseteq Boxes
            /\ Separate(reg.ind \cup reg.dep)
            /\ \A x \in Points : ~(Covers(reg.ind, x) /\ Covers(reg.dep, x))
            /\ \A x \in Points : Covers(reg.ind, x) \/ Covers(reg.dep, x) <=> Within(m, x)
            /\ \A x \in Points : ~(Covers(reg.ind, x) /\ Covers(AllBoxes(comm.send), x))
            /\ \A x \in Points, e \in Stencil(mode) :
                 Covers(reg.ind, x) => ~Covers(AllBoxes(comm.recv), Moved(x, e))
<1> DEFINE st == Stencil(mode)
           comm == CommRegFromStencil(m, grid, st)
           reg == ComputeRegFromStencil(m, comm.send)
           near == GetGridNeighbors(m, grid, st)
           send == AllBoxes(comm.send)
           recv == AllBoxes(comm.recv)
<1>1. Symmetric(st) /\ IsFiniteSet(st) /\ m \in Boxes
  BY StencilsAreSymmetric, StencilsAreFinite
<1> HIDE DEF st
<1>2. /\ Plain(send) /\ Plain(recv)
      /\ \A p \in DOMAIN comm.send : comm.send[p] \in Seq(Boxes)
      /\ \A p \in DOMAIN comm.recv : comm.recv[p] \in Seq(Boxes)
      /\ \A x \in Points : Covers(send, x) <=>
           \E b \in near, e \in st : Within(m, x) /\ Within(b, Minus(x, e)) /\ ~Within(b, x)
      /\ \A x \in Points : Covers(recv, x) <=>
           \E b \in near, e \in st : Within(b, x) /\ Within(m, Minus(x, e)) /\ ~Within(m, x)
  BY <1>1, RegionsAre DEF Symmetric
<1>3. near \subseteq grid
  BY DEF GetGridNeighbors
<1> HIDE DEF near
<1>4. /\ Tidy(reg.dep) /\ reg.ind \subseteq Boxes /\ Separate(reg.ind)
      /\ \A x \in Points : Covers(reg.dep, x) <=> Covers(send, x)
      /\ \A x \in Points : Covers(reg.ind, x) <=> Within(m, x) /\ ~Covers(send, x)
  BY <1>1, <1>2, ComputeRegIs
<1> HIDE DEF comm, reg, send, recv
<1>5. ASSUME NEW x \in Points, NEW e \in st, Covers(reg.ind, x), Covers(recv, Moved(x, e))
      PROVE  FALSE
  <2>1. e \in Points /\ Opposite(e) \in st
    BY <1>1 DEF Symmetric
  <2>2. /\ Moved(x, e) \in Points /\ Minus(x, Opposite(e)) = Moved(x, e)
    BY <2>1, MovedIs
  <2>3. PICK b \in near : Within(b, Moved(x, e)) /\ ~Within(m, Moved(x, e))
    BY <1>2, <1>5, <2>2
  <2>4. \A y \in Points : ~(Within(b, y) /\ Within(m, y))
    BY <1>3, <2>2, <2>3 DEF Apart
  <2>5. Within(m, x) /\ ~Covers(send, x)
    BY <1>4, <1>5
  <2>6. ~Within(b, x)
    BY <2>4, <2>5
  <2>7. Covers(send, x)
    BY <1>2, <2>1, <2>2, <2>3, <2>5, <2>6
  <2> QED
    BY <2>5, <2>7
<1>6. \A x \in Points : Covers(send, x) => Within(m, x)
  BY <1>2
<1>7. \A x \in Points : ~(Covers(reg.ind, x) /\ Covers(reg.dep, x))
  BY <1>4
<1>8. Separate(reg.ind \cup reg.dep)
  <2> SUFFICES ASSUME NEW b \in reg.ind \cup reg.dep, NEW c \in reg.ind \cup reg.dep,
                      NEW x \in Points, Within(b, x), Within(c, x)
               PROVE  b = c
    BY DEF Separate
  <2>1. (b \in reg.ind /\ c \in reg.ind) \/ (b \in reg.dep /\ c \in reg.dep)
    BY <1>7 DEF Covers
  <2> QED
    BY <1>4, <2>1 DEF Separate, Tidy
<1>9. \A x \in Points : Covers(reg.ind, x) \/ Covers(reg.dep, x) <=> Within(m, x)
  BY <1>4, <1>6
<1>10. \A x \in Points : ~(Covers(reg.ind, x) /\ Covers(send, x))
  BY <1>4
<1>11. send \subseteq Boxes /\ recv \subseteq Boxes /\ reg.dep \subseteq Boxes
  BY <1>2, <1>4 DEF Plain, Tidy
<1> QED
  BY <1>2, <1>4, <1>5, <1>7, <1>8, <1>9, <1>10, <1>11 DEF st, comm, reg, send, recv

\* What OverlapIsSafe asks of the package k of the rank that has the subgrid m.
SafePackage(k, m) ==
  LET ind == CellsOf(k.ind)
      dep == CellsOf(k.dep)
      sent == CellsOf(AllBoxes(k.send))
      received == CellsOf(AllBoxes(k.recv))
  IN /\ ind \cap sent = {}
     /\ \A c \in ind, e \in Stencil(deck.mode) : Moved(c, e) \notin received
     /\ ind \cup dep = {c \in Cells(m) : Computed(c)}
     /\ ind \cap dep = {}
     /\ \A b, c \in k.ind \cup k.dep : b = c \/ Cells(b) \cap Cells(c) = {}

\* It follows from what the regions cover, whatever the boxes are.
LEMMA SafeCells ==
  ASSUME NEW k, NEW m \in Boxes, NEW ind, NEW dep, NEW send, NEW recv,
         \A x : x \in CellsOf(k.ind) <=> x \in Points /\ Covers(ind, x) /\ Computed(x),
         \A x : x \in CellsOf(k.dep) <=> x \in Points /\ Covers(dep, x) /\ Computed(x),
         \A x : x \in CellsOf(AllBoxes(k.send)) => Covers(send, x),
         \A x : x \in CellsOf(AllBoxes(k.recv)) => Covers(recv, x),
         \A x \in Points : ~(Covers(ind, x) /\ Covers(dep, x)),
         \A x \in Points : Covers(ind, x) \/ Covers(dep, x) <=> Within(m, x),
         \A x \in Points : ~(Covers(ind, x) /\ Covers(send, x)),
         \A x \in Points, e \in Stencil(deck.mode) : Covers(ind, x) => ~Covers(recv, Moved(x, e)),
         \A b, c \in k.ind \cup k.dep : b = c \/ Cells(b) \cap Cells(c) = {}
  PROVE  SafePackage(k, m)
<1> DEFINE I == CellsOf(k.ind)
           D == CellsOf(k.dep)
           S == CellsOf(AllBoxes(k.send))
           R == CellsOf(AllBoxes(k.recv))
<1>1. /\ \A x : x \in I <=> x \in Points /\ Covers(ind, x) /\ Computed(x)
      /\ \A x : x \in D <=> x \in Points /\ Covers(dep, x) /\ Computed(x)
      /\ \A x : x \in S => Covers(send, x)
      /\ \A x : x \in R => Covers(recv, x)
  OBVIOUS
<1> HIDE DEF I, D, S, R
<1>2. I \cap S = {}
  BY <1>1
<1>3. \A c \in I, e \in Stencil(deck.mode) : Moved(c, e) \notin R
  BY <1>1
<1>4. I \cap D = {}
  BY <1>1
<1>5. I \cup D = {c \in Cells(m) : Computed(c)}
  <2>1. \A x : x \in Cells(m) <=> x \in Points /\ Within(m, x)
    BY CellsAre
  <2>2. \A x : x \in I \cup D <=> x \in Cells(m) /\ Computed(x)
    BY <1>1, <2>1
  <2> QED
    BY <2>2
<1> QED
  BY <1>2, <1>3, <1>4, <1>5 DEF SafePackage, I, D, S, R

LEMMA PackageIsSafe ==
  ASSUME NEW grid \in SUBSET Boxes, IsFiniteSet(grid), NEW m \in grid,
         \A b \in grid : Apart(b, m), deck.mode \in Modes
  PROVE  SafePackage(ComputePkg(m, grid, deck.mode), m)
<1> DEFINE comm == CommRegFromStencil(m, grid, Stencil(deck.mode))
           reg == ComputeRegFromStencil(m, comm.send)
           pk == ComputePkg(m, grid, deck.mode)
           send == AllBoxes(comm.send)
           recv == AllBoxes(comm.recv)
<1>1. /\ \A p \in DOMAIN comm.send : comm.send[p] \in Seq(Boxes)
      /\ \A p \in DOMAIN comm.recv : comm.recv[p] \in Seq(Boxes)
      /\ send \subseteq Boxes /\ recv \subseteq Boxes
      /\ reg.ind \subseteq Boxes /\ reg.dep \subseteq Boxes
      /\ Separate(reg.ind \cup reg.dep)
      /\ \A x \in Points : ~(Covers(reg.ind, x) /\ Covers(reg.dep, x))
      /\ \A x \in Points : Covers(reg.ind, x) \/ Covers(reg.dep, x) <=> Within(m, x)
      /\ \A x \in Points : ~(Covers(reg.ind, x) /\ Covers(send, x))
      /\ \A x \in Points, e \in Stencil(deck.mode) : Covers(reg.ind, x) => ~Covers(recv, Moved(x, e))
  BY RegionsAreSafe
<1>2. /\ deck.mode = "RPoint" =>
           pk = [send |-> ProjectRBRegion(comm.send, Black), recv |-> ProjectRBRegion(comm.recv, Black),
                 dep |-> ProjectRBSet(reg.dep, Red), ind |-> ProjectRBSet(reg.ind, Red)]
      /\ deck.mode = "BPoint" =>
           pk = [send |-> ProjectRBRegion(comm.send, Red), recv |-> ProjectRBRegion(comm.recv, Red),
                 dep |-> ProjectRBSet(reg.dep, Black), ind |-> ProjectRBSet(reg.ind, Black)]
      /\ deck.mode \notin {"RPoint", "BPoint"} =>
           pk = [send |-> comm.send, recv |-> comm.recv, dep |-> reg.dep, ind |-> reg.ind]
  BY DEF ComputePkg
<1> HIDE DEF comm, reg, pk
<1>3. m \in Boxes
  OBVIOUS
\* The two colours: cells of the one are computed while those of the other travel.
<1>4. ASSUME NEW sent, NEW computed, Palette(sent), Palette(computed),
             \A x \in Points : Bright(x, computed) <=> Computed(x),
             pk.send = ProjectRBRegion(comm.send, sent), pk.recv = ProjectRBRegion(comm.recv, sent),
             pk.dep = ProjectRBSet(reg.dep, computed), pk.ind = ProjectRBSet(reg.ind, computed)
      PROVE  SafePackage(pk, m)
  <2>1. \A x : x \in CellsOf(AllBoxes(pk.send)) => Covers(send, x)
    BY <1>1, <1>4, ProjectRegionIs
  <2>2. \A x : x \in CellsOf(AllBoxes(pk.recv)) => Covers(recv, x)
    BY <1>1, <1>4, ProjectRegionIs
  <2>3. \A x : x \in CellsOf(pk.ind) <=> x \in Points /\ Covers(reg.ind, x) /\ Computed(x)
    BY <1>1, <1>4, ProjectSetIs
  <2>4. \A x : x \in CellsOf(pk.dep) <=> x \in Points /\ Covers(reg.dep, x) /\ Computed(x)
    BY <1>1, <1>4, ProjectSetIs
  <2>5. pk.ind \cup pk.dep = ProjectRBSet(reg.ind \cup reg.dep, computed)
    BY <1>4 DEF ProjectRBSet
  <2>6. \A b, c \in pk.ind \cup pk.dep : b = c \/ Cells(b) \cap Cells(c) = {}
    <3> DEFINE U == reg.ind \cup reg.dep
    <3>1. U \subseteq Boxes /\ Separate(U) /\ pk.ind \cup pk.dep = ProjectRBSet(U, computed)
      BY <1>1, <2>5
    <3> HIDE DEF U
    <3>2. \A d, f \in ProjectRBSet(U, computed) : d = f \/ Cells(d) \cap Cells(f) = {}
      BY <1>4, <3>1, ProjectSetIs
    <3> QED
      BY <3>1, <3>2
  <2> HIDE DEF send, recv
  <2> QED
    BY <1>1, <1>3, <2>1, <2>2, <2>3, <2>4, <2>6, SafeCells
<1>5. CASE deck.mode = "RPoint"
  <2>1. \A x : Computed(x) <=> ~Even(x)
    BY <1>5 DEF Computed
  <2>2. /\ pk.send = ProjectRBRegion(comm.send, Black) /\ pk.recv = ProjectRBRegion(comm.recv, Black)
        /\ pk.dep = ProjectRBSet(reg.dep, Red) /\ pk.ind = ProjectRBSet(reg.ind, Red)
    BY <1>2, <1>5
  <2>3. Palette(Black) /\ Palette(Red) /\ \A x \in Points : Bright(x, Red) <=> Computed(x)
    BY <2>1, ColoursAre
  <2> QED
    BY <1>4, <2>2, <2>3 DEF pk
<1>6. CASE deck.mode = "BPoint"
  <2>1. \A x : Computed(x) <=> Even(x)
    BY <1>6 DEF Computed
  <2>2. /\ pk.send = ProjectRBRegion(comm.send, Red) /\ pk.recv = ProjectRBRegion(comm.recv, Red)
        /\ pk.dep = ProjectRBSet(reg.dep, Black) /\ pk.ind = ProjectRBSet(reg.ind, Black)
    BY <1>2, <1>6
  <2>3. Palette(Red) /\ Palette(Black) /\ \A x \in Points : Bright(x, Black) <=> Computed(x)
    BY <2>1, ColoursAre
  <2> QED
    BY <1>4, <2>2, <2>3 DEF pk
<1>7. CASE deck.mode \notin {"RPoint", "BPoint"}
  <2>1. \A x : Computed(x)
    BY <1>7 DEF Computed
  <2>2. pk.send = comm.send /\ pk.recv = comm.recv /\ pk.dep = reg.dep /\ pk.ind = reg.ind
    BY <1>2, <1>7
  <2>3. /\ \A x : x \in CellsOf(send) <=> x \in Points /\ Covers(send, x)
        /\ \A x : x \in CellsOf(recv) <=> x \in Points /\ Covers(recv, x)
        /\ \A x : x \in CellsOf(reg.ind) <=> x \in Points /\ Covers(reg.ind, x)
        /\ \A x : x \in CellsOf(reg.dep) <=> x \in Points /\ Covers(reg.dep, x)
    <3> HIDE DEF send, recv
    <3> QED
      BY <1>1, CoveredCells
  <2>4. \A b, c \in reg.ind \cup reg.dep : b = c \/ Cells(b) \cap Cells(c) = {}
    <3> TAKE b, c \in reg.ind \cup reg.dep
    <3>1. \A x : (x \in Cells(b) => x \in Points /\ Within(b, x)) /\ (x \in Cells(c) => x \in Points /\ Within(c, x))
      BY <1>1, CellsAre
    <3> QED
      BY <1>1, <3>1 DEF Separate
  <2>5. /\ \A x : x \in CellsOf(pk.ind) <=> x \in Points /\ Covers(reg.ind, x) /\ Computed(x)
        /\ \A x : x \in CellsOf(pk.dep) <=> x \in Points /\ Covers(reg.dep, x) /\ Computed(x)
        /\ \A x : x \in CellsOf(AllBoxes(pk.send)) => Covers(send, x)
        /\ \A x : x \in CellsOf(AllBoxes(pk.recv)) => Covers(recv, x)
        /\ \A b, c \in pk.ind \cup pk.dep : b = c \/ Cells(b) \cap Cells(c) = {}
    BY <2>1, <2>2, <2>3, <2>4
  <2> HIDE DEF send, recv
  <2> QED
    BY <1>1, <1>3, <2>5, SafeCells DEF pk
<1> QED
  BY <1>5, <1>6, <1>7 DEF pk

-----------------------------------------------------------------------------
(* The agreement of the ranks on their messages, and their computations.    *)

\* A deck for which both are claimed.  A face grid made from a topology
\* needs a cell of every axis for each process.  Subgrids given one by one must
\* be sound: no two of the derived ones share some, but not all, of their cells.
FittingDeck(dk) ==
  /\ dk.mode \in Modes /\ dk.kind \in Kinds
  /\ dk.boxes = <<>> => \/ dk.kind \in {"grid", "grid2d"}
                        \/ \A t \in Topologies(dk), a \in Axis : t[a] <= dk.n[a]
  /\ dk.boxes # <<>> =>
       /\ dk.boxes \in Seq(Boxes)
       /\ \A b, c \in {Derived(e, dk.kind) : e \in Elements(dk.boxes)} :
            Cells(b) = Cells(c) \/ Cells(b) \cap Cells(c) = {}

\* The kinds of grid on which no two ranks share cells.
Divided(kind) == kind \in {"grid", "grid2d"}

FitInv ==
  /\ deck \in Decks
  /\ DOMAIN stage = Ranks
  /\ all \subseteq Boxes
  /\ IsFiniteSet(all)
  /\ \A b, c \in all : Related(b, c)
  /\ Divided(deck.kind) => \A b, c \in all : Apart(b, c)
  /\ MessagesFit
  /\ OverlapIsSafe

LEMMA FitInvInit == Init => FitInv
<1> SUFFICES ASSUME Init PROVE FitInv
  OBVIOUS
<1>1. deck \in Decks /\ DOMAIN stage = Ranks /\ 0 \in Ranks /\ all = {}
  BY RankZero DEF Init
<1>2. stage[0] = "start"
  BY <1>1 DEF Init
<1>3. IsFiniteSet(all)
  BY <1>1, FS_EmptySet
<1> QED
  BY <1>1, <1>2, <1>3 DEF FitInv, MessagesFit, OverlapIsSafe

\* CreateGrid and the grids derived from its result.
LEMMA CreatedGridFits ==
  ASSUME FitInv, FittingDeck(deck), CreateGrid
  PROVE  /\ all' \subseteq Boxes /\ IsFiniteSet(all') /\ \A b, c \in all' : Related(b, c)
         /\ Divided(deck.kind) => \A b, c \in all' : Apart(b, c)
<1>1. deck \in Decks /\ deck.kind \in Kinds /\ deck.boxes = <<>>
  BY DEF FitInv, FittingDeck, CreateGrid
<1>2. PICK t \in Topologies(deck) :
        all' = {Derived(b, deck.kind) : b \in TopologySubgrids(deck.n, t)}
  BY DEF CreateGrid
<1>3. t \in Grids /\ deck.n \in Grids
  BY <1>1, <1>2, TopologiesAreGrids, DecksAssumption DEF Grids
<1>4. deck.kind \in {"grid", "grid2d"} \/ \A a \in Axis : t[a] <= deck.n[a]
  BY <1>1, <1>2 DEF FittingDeck
<1> DEFINE subgrids == TopologySubgrids(deck.n, t)
           kind == deck.kind
<1>5. subgrids \subseteq Boxes
  BY <1>3, BlockOnAxes
<1>6. \A b \in subgrids : Derived(b, kind) \in Boxes
  BY <1>1, <1>5, DerivedIs
<1>7. \A b, c \in subgrids : Related(Derived(b, kind), Derived(c, kind))
  BY <1>1, <1>3, <1>4, DerivedRelated
<1>8. IsFiniteSet({Derived(b, kind) : b \in subgrids})
  BY <1>3, TopologySubgridsFinite, DerivedIsFinite
<1>9. Divided(kind) => \A b, c \in subgrids : Apart(Derived(b, kind), Derived(c, kind))
  BY <1>3, DerivedApart DEF Divided
<1> HIDE DEF subgrids, kind
<1> QED
  BY <1>2, <1>6, <1>7, <1>8, <1>9 DEF subgrids, kind

LEMMA GivenGridFits ==
  ASSUME FitInv, FittingDeck(deck), ReadProcessGrid
  PROVE  /\ all' \subseteq Boxes /\ IsFiniteSet(all') /\ \A b, c \in all' : Related(b, c)
         /\ Divided(deck.kind) => \A b, c \in all' : Apart(b, c)
<1> DEFINE E == Elements(deck.boxes)
           S == {Derived(b, deck.kind) : b \in E}
<1>1. /\ deck.kind \in Kinds /\ deck.boxes \in Seq(Boxes) /\ all' = S
      /\ \A b, c \in S : Cells(b) = Cells(c) \/ Cells(b) \cap Cells(c) = {}
  BY DEF FittingDeck, ReadProcessGrid
<1>2. E \subseteq Boxes /\ IsFiniteSet(E)
  <2>1. Len(deck.boxes) \in Nat /\ DOMAIN deck.boxes = 1..Len(deck.boxes)
    BY <1>1
  <2>2. IsFiniteSet(1..Len(deck.boxes))
    BY <2>1, FS_Interval
  <2>3. deck.boxes \in Surjection(1..Len(deck.boxes), E)
    BY <1>1, <2>1 DEF Surjection, Elements
  <2>4. E \subseteq Boxes
    BY <1>1 DEF Elements
  <2> QED
    BY <2>2, <2>3, <2>4, FS_Surjection
<1>3. IsFiniteSet(S)
  BY <1>2, DerivedIsFinite
<1>4. S \subseteq Boxes
  BY <1>1, <1>2, DerivedIs
<1> HIDE DEF S
<1>5. ASSUME NEW b \in S, NEW c \in S PROVE Apart(b, c)
  <2>1. \A x : (x \in Cells(b) <=> x \in Points /\ Within(b, x))
               /\ (x \in Cells(c) <=> x \in Points /\ Within(c, x))
    BY <1>4, CellsAre
  <2>2. Cells(b) = Cells(c) \/ Cells(b) \cap Cells(c) = {}
    BY <1>1
  <2> QED
    BY <2>1, <2>2 DEF Apart
<1> QED
  BY <1>1, <1>3, <1>4, <1>5 DEF Related

\* CreateComputePkgs: the subgrid of a rank.
LEMMA RanksHaveOne ==
  ASSUME FitInv, CreateComputePkgs, NEW r \in Ranks
  PROVE  Sole(all, r, Mine(r))
<1>1. Own(r) \subseteq all /\ Cardinality(Own(r)) = 1
  BY DEF CreateComputePkgs, Own
<1>2. IsFiniteSet(Own(r))
  BY <1>1, FS_Subset DEF FitInv
<1>3. PICK b : Own(r) = {b}
  BY <1>1, <1>2, FS_Singleton
<1>4. Mine(r) \in Own(r)
  BY <1>3 DEF Mine
<1>5. Own(r) = {Mine(r)} /\ Mine(r) \in all
  BY <1>1, <1>3, <1>4
<1> QED
  BY <1>5 DEF Sole, Own

\* CreateComputePkgs: each rank for itself, and yet they agree.
LEMMA PackagesFit ==
  ASSUME FitInv, FittingDeck(deck), CreateComputePkgs
  PROVE  MessagesFit'
<1>1. /\ all \subseteq Boxes /\ IsFiniteSet(all) /\ \A b, c \in all : Related(b, c)
      /\ deck.mode \in Modes
  BY DEF FitInv, FittingDeck
<1>2. /\ comp' = [r \in Ranks |-> ComputePkg(Mine(r), all, deck.mode)]
      /\ Ranks' = Ranks
  BY DEF CreateComputePkgs, Ranks
<1>3. ASSUME NEW p \in Ranks, NEW q \in Ranks
      PROVE  Agree(comp'[p].send, comp'[q].recv, p, q)
  <2>1. Sole(all, p, Mine(p)) /\ Sole(all, q, Mine(q)) /\ Related(Mine(p), Mine(q))
    BY <1>1, RanksHaveOne DEF Sole
  <2>2. comp'[p] = ComputePkg(Mine(p), all, deck.mode) /\ comp'[q] = ComputePkg(Mine(q), all, deck.mode)
    BY <1>2
  <2> QED
    BY <1>1, <2>1, <2>2, PackagesAgree
<1> QED
  BY <1>2, <1>3 DEF MessagesFit, Agree

LEMMA PackagesSafe ==
  ASSUME FitInv, FittingDeck(deck), CreateComputePkgs
  PROVE  OverlapIsSafe'
<1>1. /\ all \in SUBSET Boxes /\ IsFiniteSet(all) /\ deck.mode \in Modes
      /\ Divided(deck.kind) => \A b, c \in all : Apart(b, c)
  BY DEF FitInv, FittingDeck
<1>2. /\ comp' = [r \in Ranks |-> ComputePkg(Mine(r), all, deck.mode)]
      /\ Ranks' = Ranks /\ deck' = deck /\ all' = all
  BY DEF CreateComputePkgs, Ranks
<1>3. /\ \A r : Mine(r)' = Mine(r)
      /\ \A c : Computed(c)' <=> Computed(c)
  BY <1>2 DEF Mine, Own, Computed
<1>4. ASSUME Divided(deck.kind), NEW r \in Ranks
      PROVE  SafePackage(comp'[r], Mine(r))
  <2>1. Mine(r) \in all
    BY RanksHaveOne DEF Sole
  <2>2. SafePackage(ComputePkg(Mine(r), all, deck.mode), Mine(r))
    BY <1>1, <1>4, <2>1, PackageIsSafe
  <2> QED
    BY <1>2, <2>2
<1> QED
  BY <1>2, <1>3, <1>4 DEF OverlapIsSafe, SafePackage, Divided

LEMMA FitInvStep ==
  ASSUME \A dk \in Decks : FittingDeck(dk)
  PROVE  FitInv /\ [Next]_vars => FitInv'
<1> SUFFICES ASSUME FitInv, [Next]_vars
             PROVE  FitInv'
  OBVIOUS
<1>1. deck' = deck /\ Ranks' = Ranks
  BY DEF vars, Next, ReadProcessGrid, CreateGrid, RefuseGrid, CreateComputePkgs, NewVector,
         RefuseVector, InitVectorUpdate, FinalizeVectorUpdate, Ended, Ranks
<1>2. deck \in Decks /\ DOMAIN stage = Ranks /\ 0 \in Ranks /\ FittingDeck(deck)
  BY RankZero DEF FitInv
<1>3. CASE CreateGrid
  <2>1. DOMAIN stage' = Ranks /\ stage'[0] = "grid"
    BY <1>2, <1>3 DEF CreateGrid
  <2>2. MessagesFit' /\ OverlapIsSafe'
    BY <2>1 DEF MessagesFit, OverlapIsSafe
  <2> QED
    BY <1>1, <1>2, <1>3, <2>1, <2>2, CreatedGridFits DEF FitInv
<1>4. CASE ReadProcessGrid
  <2>1. DOMAIN stage' = Ranks /\ stage'[0] = "grid"
    BY <1>2, <1>4 DEF ReadProcessGrid
  <2>2. MessagesFit' /\ OverlapIsSafe'
    BY <2>1 DEF MessagesFit, OverlapIsSafe
  <2> QED
    BY <1>1, <1>2, <1>4, <2>1, <2>2, GivenGridFits DEF FitInv
<1>5. CASE CreateComputePkgs
  <2>1. DOMAIN stage' = Ranks /\ all' = all
    BY <1>5 DEF CreateComputePkgs
  <2> QED
    BY <1>1, <1>2, <1>5, <2>1, PackagesFit, PackagesSafe DEF FitInv
<1>6. ASSUME all' = all, DOMAIN stage' = Ranks, stage'[0] = "regions" => stage[0] = "regions" /\ comp' = comp
      PROVE  FitInv'
  <2>1. MessagesFit'
    BY <1>1, <1>6 DEF FitInv, MessagesFit
  <2>2. /\ \A r : Mine(r)' = Mine(r)
        /\ \A c : Computed(c)' <=> Computed(c)
    BY <1>1, <1>6 DEF Mine, Own, Computed
  <2>3. OverlapIsSafe'
    BY <1>1, <1>6, <2>2 DEF FitInv, OverlapIsSafe
  <2> QED
    BY <1>1, <1>2, <1>6, <2>1, <2>3 DEF FitInv
<1>7. CASE RefuseGrid
  BY <1>2, <1>6, <1>7 DEF RefuseGrid
<1>8. CASE NewVector
  BY <1>2, <1>6, <1>8 DEF NewVector
<1>9. CASE RefuseVector
  BY <1>2, <1>6, <1>9 DEF RefuseVector
<1>10. ASSUME NEW r \in Ranks, InitVectorUpdate(r)
       PROVE  FitInv'
  BY <1>2, <1>6, <1>10 DEF InitVectorUpdate
<1>11. ASSUME NEW r \in Ranks, FinalizeVectorUpdate(r)
       PROVE  FitInv'
  BY <1>2, <1>6, <1>11 DEF FinalizeVectorUpdate
<1>12. CASE Ended \/ UNCHANGED vars
  BY <1>2, <1>6, <1>12 DEF Ended, vars
<1> QED
  BY <1>3, <1>4, <1>5, <1>7, <1>8, <1>9, <1>10, <1>11, <1>12 DEF Next

\* CommRegFromStencil, CreateComputePkgs, for every grid, number of processes and
\* update mode: each rank computes alone, from the list of subgrids, what it sends
\* and what it waits for, and the two ends of every message agree on its being
\* sent, on its boxes and on their order.
THEOREM EndsOfMessagesAgree ==
  ASSUME \A dk \in Decks : FittingDeck(dk)
  PROVE  Spec => []MessagesFit
<1>1. FitInv => MessagesFit
  BY DEF FitInv
<1>2. FitInv /\ [Next]_vars => FitInv'
  BY FitInvStep
<1> QED
  BY <1>1, <1>2, FitInvInit, PTL DEF Spec

\* ComputeRegFromStencil, ProjectRBPoint, for every division of a grid and every
\* update mode: what a rank computes between InitVectorUpdate and
\* FinalizeVectorUpdate neither writes a cell that is being sent nor reads one that
\* is being received, and with what it computes afterwards makes up its cells of the
\* mode's colour, each computed once.
THEOREM OverlappedComputationIsSafe ==
  ASSUME \A dk \in Decks : FittingDeck(dk)
  PROVE  Spec => []OverlapIsSafe
<1>1. FitInv => OverlapIsSafe
  BY DEF FitInv
<1>2. FitInv /\ [Next]_vars => FitInv'
  BY FitInvStep
<1> QED
  BY <1>1, <1>2, FitInvInit, PTL DEF Spec

-----------------------------------------------------------------------------
(* The array of a data space: positions and cells.                          *)

LEMMA DivisionIs ==
  ASSUME NEW m \in Nat \ {0}, NEW q \in Nat, NEW d \in 0..(m - 1)
  PROVE  (q * m + d) \div m = q /\ (q * m + d) % m = d
<1> DEFINE x == q * m + d
<1>1. q * m \in Nat
  OBVIOUS
<1>2. x \in Nat
  BY <1>1
<1> HIDE DEF x
<1>3. x \div m \in Nat /\ x % m \in 0..(m - 1) /\ x = (x \div m) * m + (x % m)
  BY <1>2, Digits
<1>4. (x \div m) * m + (x % m) = q * m + d
  BY <1>3 DEF x
<1>5. x \div m = q /\ x % m = d
  BY <1>3, <1>4, OneDigit
<1> QED
  BY <1>5 DEF x

\* A number of three digits: a values of the first, b of the second, c of the third.
Numeral(a, b, c, x, y, z) ==
  /\ a \in Nat \ {0} /\ b \in Nat \ {0} /\ c \in Nat \ {0}
  /\ x \in 0..(a - 1) /\ y \in 0..(b - 1) /\ z \in 0..(c - 1)

Value(a, b, x, y, z) == x + y * a + z * (a * b)

LEMMA ThreeDigits ==
  ASSUME NEW a, NEW b, NEW c, NEW x, NEW y, NEW z, Numeral(a, b, c, x, y, z)
  PROVE  LET k == Value(a, b, x, y, z)
         IN /\ k \in 0..(a * b * c - 1)
            /\ k % a = x /\ (k \div a) % b = y
            /\ k \div (a * b) = z /\ (k \div (a * b)) % c = z
<1> USE DEF Numeral
<1> DEFINE k == Value(a, b, x, y, z)
<1>0. k = x + y * a + z * (a * b)
  BY DEF Value
<1> HIDE DEF k
<1> USE <1>0
<1> DEFINE ab == a * b
           low == x + y * a
<1>1. ab \in Nat \ {0} /\ a * b * c = c * ab
  OBVIOUS
<1>2. low \in 0..(ab - 1)
  <2>1. y <= b - 1 /\ b - 1 \in Nat
    OBVIOUS
  <2>2. y * a \in Nat /\ y * a <= (b - 1) * a
    BY <2>1, Multiples
  <2>3. (b - 1) * a = ab - a
    OBVIOUS
  <2> HIDE DEF ab
  <2> DEFINE ya == y * a
  <2>4. ya \in Nat /\ ya <= ab - a
    BY <2>2, <2>3
  <2> HIDE DEF ya
  <2>5. x + ya \in 0..(ab - 1)
    BY <1>1, <2>4
  <2> QED
    BY <2>5 DEF ya
<1>3. k = z * ab + low
  <2>1. z * ab \in Int /\ y * a \in Int
    OBVIOUS
  <2> DEFINE ya == y * a
             zab == z * ab
  <2>2. k = x + ya + zab /\ low = x + ya
    OBVIOUS
  <2> HIDE DEF ya, zab, low, ab
  <2>3. k = zab + low
    BY <2>1, <2>2 DEF ya, zab
  <2> QED
    BY <2>3 DEF zab
<1>4. k = (y + z * b) * a + x
  <2>1. (y + z * b) * a = y * a + z * (a * b)
    OBVIOUS
  <2>2. y * a \in Int /\ z * (a * b) \in Int
    OBVIOUS
  <2> DEFINE ya == y * a
             zab == z * (a * b)
  <2>3. k = x + ya + zab /\ (y + z * b) * a = ya + zab
    BY <2>1
  <2> HIDE DEF ya, zab
  <2> QED
    BY <2>2, <2>3 DEF ya, zab
<1>5. y + z * b \in Nat /\ y + z * b = z * b + y
  <2>1. z * b \in Nat
    OBVIOUS
  <2> QED
    BY <2>1
<1>6. k \div a = z * b + y /\ k % a = x
  <2> DEFINE h == y + z * b
  <2>1. h \in Nat /\ k = h * a + x /\ h = z * b + y
    BY <1>4, <1>5
  <2> HIDE DEF h
  <2> QED
    BY <2>1, DivisionIs
<1>7. (k \div a) % b = y
  <2>1. z \in Nat
    OBVIOUS
  <2>2. (z * b + y) % b = y
    BY <2>1, DivisionIs
  <2> QED
    BY <1>6, <2>2
<1>8. k \div ab = z
  <2> HIDE DEF ab, low
  <2> QED
    BY <1>1, <1>2, <1>3, DivisionIs
<1>9. z % c = z
  <2>1. 0 * c + z = z
    OBVIOUS
  <2>2. (0 * c + z) % c = z
    BY DivisionIs
  <2> QED
    BY <2>1, <2>2
<1>10. k \in 0..(c * ab - 1)
  <2>1. z <= c - 1 /\ c - 1 \in Nat /\ z \in Nat
    OBVIOUS
  <2>2. ab \in Nat
    BY <1>1
  <2> HIDE DEF ab, low
  <2>3. z * ab \in Nat /\ z * ab <= (c - 1) * ab
    BY <2>1, <2>2, Multiples
  <2>4. (c - 1) * ab = c * ab - ab /\ c * ab \in Nat
    BY <2>2
  <2> DEFINE zab == z * ab
             cab == c * ab
  <2>5. zab \in Nat /\ cab \in Nat /\ zab <= cab - ab /\ k = zab + low
    BY <1>3, <2>3, <2>4
  <2> HIDE DEF zab, cab
  <2>6. k \in 0..(cab - 1)
    BY <1>1, <1>2, <2>5
  <2> QED
    BY <2>6 DEF cab
<1> QED
  BY <1>1, <1>6, <1>7, <1>8, <1>9, <1>10 DEF k

\* Every number is made of its digits.
LEMMA DigitsMake ==
  ASSUME NEW a \in Nat \ {0}, NEW b \in Nat \ {0}, NEW k \in Nat
  PROVE  k = (k % a) + ((k \div a) % b) * a + (k \div (a * b)) * (a * b)
<1> DEFINE h == k \div a
           y == h % b
           z == h \div b
           x == k % a
           ab == a * b
<1>1. h \in Nat /\ x \in 0..(a - 1) /\ k = h * a + x
  BY Digits
<1>2. y \in 0..(b - 1) /\ z \in Nat /\ h = z * b + y
  <2> HIDE DEF h
  <2> QED
    BY <1>1, Digits
<1> HIDE DEF h, x, y, z
<1>3. ab \in Nat \ {0}
  OBVIOUS
<1>4. x + y * a \in 0..(ab - 1)
  <2>1. y <= b - 1 /\ b - 1 \in Nat /\ y \in Nat
    BY <1>2
  <2>2. y * a \in Nat /\ y * a <= (b - 1) * a
    BY <2>1, Multiples
  <2>3. (b - 1) * a = ab - a
    OBVIOUS
  <2> DEFINE ya == y * a
  <2>4. ya \in Nat /\ ya <= ab - a
    BY <2>2, <2>3
  <2> HIDE DEF ya, ab
  <2>5. x + ya \in 0..(ab - 1)
    BY <1>1, <1>3, <2>4
  <2> QED
    BY <2>5 DEF ya
<1>5. k = z * ab + (x + y * a)
  <2>1. (z * b + y) * a = z * (a * b) + y * a
    BY <1>2
  <2>2. y * a \in Int /\ z * ab \in Int
    BY <1>2
  <2> DEFINE ya == y * a
             zab == z * ab
  <2>3. k = (zab + ya) + x
    BY <1>1, <1>2, <2>1
  <2> HIDE DEF ya, zab, ab
  <2>4. k = zab + (x + ya)
    BY <1>1, <2>2, <2>3 DEF ya, zab
  <2> QED
    BY <2>4 DEF ya, zab
<1> HIDE DEF ab
<1>6. k \div ab = z
  <2> DEFINE low == x + y * a
  <2>1. low \in 0..(ab - 1) /\ k = z * ab + low
    BY <1>4, <1>5
  <2> HIDE DEF low
  <2> QED
    BY <1>2, <1>3, <2>1, DivisionIs
<1>7. z * ab \in Int /\ y * a \in Int
  BY <1>2, <1>3
<1> DEFINE ya == y * a
           zab == z * ab
<1>8. k = zab + (x + ya) /\ ya \in Int /\ zab \in Int
  BY <1>5, <1>7
<1> HIDE DEF ya, zab
<1>9. k = x + ya + zab
  BY <1>1, <1>8
<1> QED
  BY <1>6, <1>9 DEF x, y, ya, zab, h, ab

\* The position of the cell x in the array of the data space d.
Place(d, x) ==
  (x[1] - d.i[1]) + (x[2] - d.i[2]) * d.n[1] + (x[3] - d.i[3]) * (d.n[1] * d.n[2])

LEMMA PlaceIs ==
  ASSUME NEW d \in Boxes, Solid(d), NEW x \in Points, Within(d, x)
  PROVE  Place(d, x) \in 0..(Volume(d.n) - 1) /\ CellAt(d, Place(d, x)) = x
<1> DEFINE a == d.n[1]
           b == d.n[2]
           c == d.n[3]
           u == x[1] - d.i[1]
           v == x[2] - d.i[2]
           w == x[3] - d.i[3]
           k == u + v * a + w * (a * b)
<1>1. \A o \in Axis : /\ d.n[o] \in Int /\ d.n[o] > 0 /\ d.i[o] \in Int /\ x[o] \in Int
                      /\ d.i[o] <= x[o] /\ x[o] < d.i[o] + d.n[o]
  BY BoxFacts, PointFacts DEF Solid, Within, Upper
<1>2. \A o \in Axis : /\ d.n[o] \in Nat \ {0} /\ x[o] - d.i[o] \in 0..(d.n[o] - 1)
                      /\ d.i[o] + (x[o] - d.i[o]) = x[o]
  BY <1>1
<1>3. /\ a \in Nat \ {0} /\ b \in Nat \ {0} /\ c \in Nat \ {0}
      /\ u \in 0..(a - 1) /\ v \in 0..(b - 1) /\ w \in 0..(c - 1)
      /\ d.i[1] + u = x[1] /\ d.i[2] + v = x[2] /\ d.i[3] + w = x[3]
  BY <1>2, AxesAre
<1>4. Place(d, x) = k /\ Volume(d.n) = a * b * c
  BY DEF Place, Volume
<1>5. CellAt(d, k) = <<d.i[1] + (k % a), d.i[2] + ((k \div a) % b), d.i[3] + (k \div (a * b))>>
  BY DEF CellAt
<1>6. x = <<x[1], x[2], x[3]>>
  BY DEF Points
<1> HIDE DEF a, b, c, u, v, w
<1>7. k = Value(a, b, u, v, w) /\ Numeral(a, b, c, u, v, w)
  BY <1>3 DEF Value, Numeral
<1> HIDE DEF k
<1>8. k \in 0..(a * b * c - 1) /\ k % a = u /\ (k \div a) % b = v /\ k \div (a * b) = w
  BY <1>7, ThreeDigits
<1> QED
  BY <1>3, <1>4, <1>5, <1>6, <1>8

LEMMA CellAtIs ==
  ASSUME NEW d \in Boxes, Solid(d), NEW k \in Nat
  PROVE  Place(d, CellAt(d, k)) = k
<1> DEFINE a == d.n[1]
           b == d.n[2]
           u == k % a
           v == (k \div a) % b
           w == k \div (a * b)
           x == CellAt(d, k)
<1>1. \A o \in Axis : d.n[o] \in Nat \ {0} /\ d.i[o] \in Int
  BY BoxFacts DEF Solid
<1>2. a \in Nat \ {0} /\ b \in Nat \ {0} /\ d.i[1] \in Int /\ d.i[2] \in Int /\ d.i[3] \in Int
  BY <1>1, AxesAre
<1>3. x[1] = d.i[1] + u /\ x[2] = d.i[2] + v /\ x[3] = d.i[3] + w
  BY DEF CellAt
<1>4. Place(d, x) = (x[1] - d.i[1]) + (x[2] - d.i[2]) * a + (x[3] - d.i[3]) * (a * b)
  BY DEF Place
<1> HIDE DEF a, b, x
<1>5. k = u + v * a + w * (a * b)
  BY <1>2, DigitsMake
<1>6. a * b \in Nat \ {0}
  BY <1>2
<1>7. u \in Int /\ v \in Int /\ w \in Int
  <2>1. k \div a \in Nat
    BY <1>2, Digits
  <2> DEFINE ab == a * b
  <2>2. ab \in Nat \ {0}
    BY <1>6
  <2> HIDE DEF ab
  <2>3. k \div ab \in Nat
    BY <2>2, Digits
  <2> QED
    BY <1>2, <2>1, <2>3, Digits DEF ab
<1> HIDE DEF u, v, w
<1>8. x[1] - d.i[1] = u /\ x[2] - d.i[2] = v /\ x[3] - d.i[3] = w
  BY <1>2, <1>3, <1>7
<1>9. Place(d, x) = u + v * a + w * (a * b)
  BY <1>4, <1>8
<1> QED
  BY <1>5, <1>9 DEF x

-----------------------------------------------------------------------------
(* The positions an invoice visits.                                         *)

\* A recursive function on numbers exists.
LEMMA NumbersRecur ==
  ASSUME NEW n \in Nat, NEW a \in Int, NEW G, \A k \in 1..n : G[k] \in [Int -> Int]
  PROVE  \E f \in [0..n -> Int] : Follows(f, n, a, G)
<1> DEFINE X == [k \in 0..n |-> Int]
<1>1. \A k \in 0..n : X[k] = Int
  OBVIOUS
<1> HIDE DEF X
<1>2. Leads(n, X, a, G)
  <2>1. 0 \in 0..n /\ \A k \in 1..n : k \in 0..n /\ k - 1 \in 0..n
    OBVIOUS
  <2>2. \A k \in 1..n : X[k] = Int /\ X[k - 1] = Int
    BY <1>1, <2>1
  <2>3. X[0] = Int
    BY <1>1, <2>1
  <2> QED
    BY <2>2, <2>3 DEF Leads
<1>3. PICK f : Follows(f, n, a, G) /\ f = [k \in 0..n |-> f[k]] /\ \A k \in 0..n : f[k] \in X[k]
  BY <1>2, Recursion
<1>4. f \in [0..n -> Int]
  BY <1>1, <1>3
<1> QED
  BY <1>3, <1>4

\* The loops of a part: how many, how long, how far from one turn to the next.
Loops(info) ==
  /\ info.dim \in 0..4
  /\ info.len \in [1..4 -> Int] /\ info.sa \in [1..4 -> Int]

LEMMA StridesAre ==
  ASSUME NEW info, Loops(info)
  PROVE  \E inner \in [0..4 -> Int] :
           /\ inner[0] = 0
           /\ \A i \in 1..4 : inner[i] = inner[i - 1] + info.sa[i] * (info.len[i] - 1)
           /\ Strides(info) = [i \in 1..info.dim |-> info.sa[i] - inner[i - 1]]
<1> DEFINE sa == info.sa
           len == info.len
           G == [i \in 1..4 |-> [x \in Int |-> x + sa[i] * (len[i] - 1)]]
           inner == CHOOSE g : g = [i \in 0..4 |-> IF i = 0 THEN 0 ELSE g[i - 1] + sa[i] * (len[i] - 1)]
<1>1. Strides(info) = [i \in 1..info.dim |-> sa[i] - inner[i - 1]]
  BY DEF Strides
<1>2. \A i \in 1..4 : sa[i] * (len[i] - 1) \in Int
  <2> TAKE i \in 1..4
  <2>1. sa[i] \in Int /\ len[i] - 1 \in Int
    BY DEF Loops
  <2> QED
    BY <2>1
<1> HIDE DEF sa, len
<1>3. \A i \in 1..4 : G[i] \in [Int -> Int]
  BY <1>2
<1>4. \A i \in 1..4, x \in Int : G[i][x] = x + sa[i] * (len[i] - 1)
  OBVIOUS
<1> HIDE DEF G
<1>5. PICK g \in [0..4 -> Int] : Follows(g, 4, 0, G)
  <2>1. 4 \in Nat /\ 0 \in Int
    OBVIOUS
  <2> QED
    BY <1>3, <2>1, NumbersRecur
<1>6. g = [i \in 0..4 |-> IF i = 0 THEN 0 ELSE g[i - 1] + sa[i] * (len[i] - 1)]
  <2>1. ASSUME NEW i \in 0..4
        PROVE  g[i] = IF i = 0 THEN 0 ELSE g[i - 1] + sa[i] * (len[i] - 1)
    <3>1. i # 0 => i \in 1..4 /\ g[i - 1] \in Int
      BY <1>5
    <3> QED
      BY <1>4, <1>5, <3>1 DEF Follows
  <2> QED
    BY <1>5, <2>1
<1>7. inner = [i \in 0..4 |-> IF i = 0 THEN 0 ELSE inner[i - 1] + sa[i] * (len[i] - 1)]
  BY <1>6
<1> HIDE DEF inner
<1>8. inner[0] = 0 /\ \A i \in 1..4 : inner[i] = inner[i - 1] + sa[i] * (len[i] - 1)
  <2>1. 0 \in 0..4 /\ \A i \in 1..4 : i \in 0..4 /\ i # 0
    OBVIOUS
  <2> QED
    BY <1>7, <2>1
<1>9. inner \in [0..4 -> Int]
  <2> DEFINE P == {i \in 0..4 : inner[i] \in Int}
  <2>1. 0 \in P
    BY <1>8
  <2>2. ASSUME NEW i \in 1..4, i - 1 \in P PROVE i \in P
    <3>1. i \in 0..4 /\ inner[i - 1] \in Int
      BY <2>2
    <3> QED
      BY <1>2, <1>8, <3>1
  <2> HIDE DEF P
  <2>3. \A i \in 0..4 : i \in P
    BY <2>1, <2>2, Induction
  <2>4. \A i \in 0..4 : inner[i] \in Int
    BY <2>3 DEF P
  <2>5. inner = [i \in 0..4 |-> inner[i]]
    BY <1>7
  <2> QED
    BY <2>4, <2>5
<1> QED
  BY <1>1, <1>8, <1>9 DEF sa, len

\* What a part with these loops visits, in terms of the loops: no stride is left.
Visits(w, o, D, len, sa) ==
  \E size \in [0..D -> Nat \ {0}] :
    /\ size[0] = 1
    /\ \A d \in 1..D : size[d] = size[d - 1] * len[d]
    /\ w \in [1..size[D] -> Int]
    /\ \A m \in 1..size[D] : \E at \in [0..D -> Int] :
         /\ at[0] = o /\ at[D] = w[m]
         /\ \A d \in 1..D : at[d] = at[d - 1] + (((m - 1) \div size[d - 1]) % len[d]) * sa[d]

LEMMA WalkVisits ==
  ASSUME NEW info, Loops(info), \A i \in 1..4 : info.len[i] >= 1, NEW o \in Int
  PROVE  Visits(Walk([offset |-> o, dim |-> info.dim, len |-> SubSeq(info.len, 1, info.dim),
                      stride |-> Strides(info)]), o, info.dim, info.len, info.sa)
<1> DEFINE len == info.len
           sa == info.sa
           part == [offset |-> o, dim |-> info.dim, len |-> SubSeq(len, 1, info.dim),
                    stride |-> Strides(info)]
           D == part.dim
           pl == part.len
           ps == part.stride
           size == CHOOSE g : g = [d \in 0..D |-> IF d = 0 THEN 1 ELSE g[d - 1] * pl[d]]
           extent == CHOOSE g : g = [d \in 0..D |->
                       IF d = 0 THEN 0 ELSE g[d - 1] + (pl[d] - 1) * (g[d - 1] + ps[d])]
           index(m, d) == (m \div size[d - 1]) % pl[d]
           upto(m) == CHOOSE g : g = [d \in 0..D |->
                        IF d = 0 THEN part.offset ELSE g[d - 1] + index(m, d) * (extent[d - 1] + ps[d])]
           w == Walk(part)
<1>1. /\ part.offset = o /\ D = info.dim
      /\ pl = SubSeq(len, 1, D) /\ ps = Strides(info)
  OBVIOUS
<1> HIDE DEF part
<1>2. w = [m \in 1..size[D] |-> upto(m - 1)[D]]
  BY DEF Walk
<1>3. D \in 0..4 /\ D \in Nat /\ len \in [1..4 -> Int] /\ sa \in [1..4 -> Int] /\ \A i \in 1..4 : len[i] >= 1
  BY <1>1 DEF Loops
<1>4. PICK inner \in [0..4 -> Int] :
           /\ inner[0] = 0
           /\ \A i \in 1..4 : inner[i] = inner[i - 1] + sa[i] * (len[i] - 1)
           /\ Strides(info) = [i \in 1..D |-> sa[i] - inner[i - 1]]
  BY <1>1, StridesAre
<1> HIDE DEF len, sa, D, w, pl, ps
<1>5. \A d \in 1..D : pl[d] = len[d] /\ ps[d] = sa[d] - inner[d - 1]
  <2>1. len \in Seq(Int) /\ Len(len) = 4
    <3>1. Seq(Int) = UNION {[1..n -> Int] : n \in Nat}
      OBVIOUS
    <3>2. len \in Seq(Int)
      BY <1>3, <3>1
    <3>3. DOMAIN len = 1..4
      BY <1>3
    <3> QED
      BY <3>2, <3>3
  <2>2. \A d \in 1..D : SubSeq(len, 1, D)[d] = len[d]
    BY <1>3, <2>1
  <2> QED
    BY <1>1, <1>4, <2>2
<1>6. \A d \in 1..D : /\ d \in 1..4 /\ d \in 0..D /\ d - 1 \in 0..D /\ d - 1 \in 0..4 /\ d # 0
                      /\ len[d] \in Nat \ {0} /\ sa[d] \in Int /\ inner[d - 1] \in Int /\ ps[d] \in Int
  <2> TAKE d \in 1..D
  <2>1. d \in 1..4 /\ d \in 0..D /\ d - 1 \in 0..D /\ d - 1 \in 0..4 /\ d # 0
    BY <1>3
  <2>2. len[d] \in Nat \ {0} /\ sa[d] \in Int /\ inner[d - 1] \in Int
    <3>1. len[d] \in Int /\ len[d] >= 1 /\ sa[d] \in Int
      BY <1>3, <2>1
    <3>2. inner[d - 1] \in Int
      BY <2>1
    <3> QED
      BY <3>1, <3>2
  <2> QED
    BY <1>5, <2>1, <2>2
\* size
<1>7. size = [d \in 0..D |-> IF d = 0 THEN 1 ELSE size[d - 1] * pl[d]]
  <2> DEFINE G == [d \in 1..D |-> [x \in Int |-> x * pl[d]]]
  <2>1. \A d \in 1..D : pl[d] \in Int
    BY <1>5, <1>6
  <2>2. \A d \in 1..D : G[d] \in [Int -> Int]
    BY <2>1
  <2>3. \A d \in 1..D, x \in Int : G[d][x] = x * pl[d]
    OBVIOUS
  <2> HIDE DEF G
  <2>4. 1 \in Int
    OBVIOUS
  <2>5. PICK g \in [0..D -> Int] : Follows(g, D, 1, G)
    BY <1>3, <2>2, <2>4, NumbersRecur
  <2>6. ASSUME NEW d \in 0..D PROVE g[d] = IF d = 0 THEN 1 ELSE g[d - 1] * pl[d]
    <3>1. d # 0 => d \in 1..D /\ g[d - 1] \in Int
      BY <1>3, <2>5
    <3> QED
      BY <2>3, <2>5, <3>1 DEF Follows
  <2>7. g = [d \in 0..D |-> IF d = 0 THEN 1 ELSE g[d - 1] * pl[d]]
    BY <2>5, <2>6
  <2> QED
    BY <2>7
<1> HIDE DEF size
<1>8. size[0] = 1 /\ \A d \in 1..D : size[d] = size[d - 1] * len[d]
  <2>1. 0 \in 0..D
    BY <1>3
  <2> QED
    BY <1>5, <1>6, <1>7, <2>1
<1>9. size \in [0..D -> Nat \ {0}]
  <2> DEFINE P == {d \in 0..D : size[d] \in Nat \ {0}}
  <2>1. 0 \in P
    BY <1>3, <1>8
  <2>2. ASSUME NEW d \in 1..D, d - 1 \in P PROVE d \in P
    <3>1. d \in 0..D /\ size[d - 1] \in Nat \ {0} /\ len[d] \in Nat \ {0} /\ size[d] = size[d - 1] * len[d]
      BY <1>6, <1>8, <2>2
    <3>2. \A x, y \in Nat \ {0} : x * y \in Nat \ {0}
      OBVIOUS
    <3> QED
      BY <3>1, <3>2
  <2> HIDE DEF P
  <2>3. \A d \in 0..D : d \in P
    BY <1>3, <2>1, <2>2, Induction
  <2>4. \A d \in 0..D : size[d] \in Nat \ {0}
    BY <2>3 DEF P
  <2>5. size = [d \in 0..D |-> size[d]]
    BY <1>7
  <2> QED
    BY <2>4, <2>5
\* extent
<1>10. extent = [d \in 0..D |-> IF d = 0 THEN 0 ELSE extent[d - 1] + (pl[d] - 1) * (extent[d - 1] + ps[d])]
  <2> DEFINE G == [d \in 1..D |-> [x \in Int |-> x + (pl[d] - 1) * (x + ps[d])]]
  <2>1. \A d \in 1..D : pl[d] - 1 \in Int /\ ps[d] \in Int
    BY <1>5, <1>6
  <2>2. \A d \in 1..D : G[d] \in [Int -> Int]
    <3>1. \A x, y, z \in Int : x + y * (x + z) \in Int
      OBVIOUS
    <3> QED
      BY <2>1, <3>1
  <2>3. \A d \in 1..D, x \in Int : G[d][x] = x + (pl[d] - 1) * (x + ps[d])
    OBVIOUS
  <2> HIDE DEF G
  <2>4. 0 \in Int
    OBVIOUS
  <2>5. PICK g \in [0..D -> Int] : Follows(g, D, 0, G)
    BY <1>3, <2>2, <2>4, NumbersRecur
  <2>6. ASSUME NEW d \in 0..D
        PROVE  g[d] = IF d = 0 THEN 0 ELSE g[d - 1] + (pl[d] - 1) * (g[d - 1] + ps[d])
    <3>1. d # 0 => d \in 1..D /\ g[d - 1] \in Int
      BY <1>3, <2>5
    <3> QED
      BY <2>3, <2>5, <3>1 DEF Follows
  <2>7. g = [d \in 0..D |-> IF d = 0 THEN 0 ELSE g[d - 1] + (pl[d] - 1) * (g[d - 1] + ps[d])]
    BY <2>5, <2>6
  <2> QED
    BY <2>7
<1> HIDE DEF extent
<1>11. \A d \in 0..D : extent[d] = inner[d]
  <2> DEFINE P == {d \in 0..D : extent[d] = inner[d]}
  <2>1. 0 \in P
    BY <1>3, <1>4, <1>10
  <2>2. ASSUME NEW d \in 1..D, d - 1 \in P PROVE d \in P
    <3>1. d \in 0..D /\ extent[d - 1] = inner[d - 1]
      BY <1>6, <2>2
    <3>2. extent[d] = inner[d - 1] + (len[d] - 1) * (inner[d - 1] + (sa[d] - inner[d - 1]))
      BY <1>5, <1>6, <1>10, <3>1
    <3>3. inner[d] = inner[d - 1] + sa[d] * (len[d] - 1)
      BY <1>4, <1>6
    <3>4. \A x, y, z \in Int : x + (y - 1) * (x + (z - x)) = x + z * (y - 1)
      <4> TAKE x, y, z \in Int
      <4>1. x + (z - x) = z
        OBVIOUS
      <4>2. (y - 1) * z = z * (y - 1)
        OBVIOUS
      <4> QED
        BY <4>1, <4>2
    <3>5. inner[d - 1] \in Int /\ len[d] \in Int /\ sa[d] \in Int
      BY <1>6
    <3> QED
      BY <3>1, <3>2, <3>3, <3>4, <3>5
  <2> HIDE DEF P
  <2>3. \A d \in 0..D : d \in P
    BY <1>3, <2>1, <2>2, Induction
  <2> QED
    BY <2>3 DEF P
<1>12. \A d \in 1..D : extent[d - 1] + ps[d] = sa[d]
  <2> TAKE d \in 1..D
  <2>1. extent[d - 1] = inner[d - 1] /\ ps[d] = sa[d] - inner[d - 1]
    BY <1>5, <1>6, <1>11
  <2> QED
    BY <1>6, <2>1
\* position
<1>13. ASSUME NEW m \in Nat
       PROVE  \E at \in [0..D -> Int] :
                /\ at[0] = o /\ at[D] = upto(m)[D]
                /\ \A d \in 1..D : at[d] = at[d - 1] + ((m \div size[d - 1]) % len[d]) * sa[d]
  <2> DEFINE F(d) == index(m, d) * (extent[d - 1] + ps[d])
             G == [d \in 1..D |-> [x \in Int |-> x + F(d)]]
             up == upto(m)
  <2>1. \A d \in 1..D : /\ F(d) = ((m \div size[d - 1]) % len[d]) * sa[d]
                        /\ F(d) \in Int
    <3> TAKE d \in 1..D
    <3>1. F(d) = ((m \div size[d - 1]) % len[d]) * sa[d]
      BY <1>5, <1>12
    <3>2. size[d - 1] \in Nat \ {0} /\ len[d] \in Nat \ {0} /\ sa[d] \in Int
      BY <1>6, <1>9
    <3>3. m \div size[d - 1] \in Nat
      BY <3>2, Digits
    <3>4. (m \div size[d - 1]) % len[d] \in Int
      <4> DEFINE h == m \div size[d - 1]
                 l == len[d]
      <4>1. h \in Nat /\ l \in Nat \ {0}
        BY <3>2, <3>3
      <4> HIDE DEF h, l
      <4>2. h % l \in 0..(l - 1)
        BY <4>1, Digits
      <4>3. h % l \in Int
        BY <4>2
      <4> QED
        BY <4>3 DEF h, l
    <3>5. \A x, y \in Int : x * y \in Int
      OBVIOUS
    <3> HIDE DEF F
    <3> QED
      BY <3>1, <3>2, <3>4, <3>5
  <2>2. up = CHOOSE g : g = [d \in 0..D |-> IF d = 0 THEN part.offset ELSE g[d - 1] + F(d)]
    OBVIOUS
  <2> HIDE DEF F, up
  <2>3. \A d \in 1..D : G[d] \in [Int -> Int]
    BY <2>1
  <2>4. \A d \in 1..D, x \in Int : G[d][x] = x + F(d)
    OBVIOUS
  <2> HIDE DEF G
  <2>5. PICK g \in [0..D -> Int] : Follows(g, D, o, G)
    BY <1>3, <2>3, NumbersRecur
  <2>6. ASSUME NEW d \in 0..D PROVE g[d] = IF d = 0 THEN o ELSE g[d - 1] + F(d)
    <3>1. d # 0 => d \in 1..D /\ g[d - 1] \in Int
      BY <1>3, <2>5
    <3> QED
      BY <2>4, <2>5, <3>1 DEF Follows
  <2>7. g = [d \in 0..D |-> IF d = 0 THEN part.offset ELSE g[d - 1] + F(d)]
    BY <1>1, <2>5, <2>6
  <2>8. up = [d \in 0..D |-> IF d = 0 THEN part.offset ELSE up[d - 1] + F(d)]
    BY <2>2, <2>7
  <2>9. up[0] = o /\ \A d \in 1..D : up[d] = up[d - 1] + F(d)
    <3>1. 0 \in 0..D
      BY <1>3
    <3> QED
      BY <1>1, <1>6, <2>8, <3>1
  <2>10. up \in [0..D -> Int]
    <3> DEFINE P == {d \in 0..D : up[d] \in Int}
    <3>1. 0 \in P
      <4>1. 0 \in 0..D
        BY <1>3
      <4> QED
        BY <2>9, <4>1
    <3>2. ASSUME NEW d \in 1..D, d - 1 \in P PROVE d \in P
      BY <1>6, <2>1, <2>9, <3>2
    <3> HIDE DEF P
    <3>3. \A d \in 0..D : d \in P
      BY <1>3, <3>1, <3>2, Induction
    <3>4. \A d \in 0..D : up[d] \in Int
      BY <3>3 DEF P
    <3>5. up = [d \in 0..D |-> up[d]]
      BY <2>8
    <3> QED
      BY <3>4, <3>5
  <2> QED
    BY <2>1, <2>9, <2>10 DEF up
<1> HIDE DEF upto
<1>14. size[D] \in Nat \ {0} /\ D \in 0..D
  BY <1>3, <1>9
<1>15. \A m \in 1..size[D] : m - 1 \in Nat /\ upto(m - 1)[D] \in Int
  <2> TAKE m \in 1..size[D]
  <2>1. m - 1 \in Nat
    BY <1>14
  <2> QED
    BY <1>13, <1>14, <2>1
<1>16. w \in [1..size[D] -> Int] /\ \A m \in 1..size[D] : w[m] = upto(m - 1)[D]
  BY <1>2, <1>15
<1>17. \A m \in 1..size[D] : \E at \in [0..D -> Int] :
         /\ at[0] = o /\ at[D] = w[m]
         /\ \A d \in 1..D : at[d] = at[d - 1] + (((m - 1) \div size[d - 1]) % len[d]) * sa[d]
  BY <1>13, <1>15, <1>16
<1>18. Visits(w, o, D, len, sa)
  BY <1>8, <1>9, <1>16, <1>17 DEF Visits
<1> QED
  BY <1>1, <1>18 DEF w, part, len, sa

\* An info with these loops.
Infos == [dim : Int, len : [1..4 -> Int], sa : [1..4 -> Int]]

Has(x, D, l1, l2, l3, l4, s1, s2, s3, s4) ==
  /\ x \in Infos /\ x.dim = D
  /\ x.len[1] = l1 /\ x.len[2] = l2 /\ x.len[3] = l3 /\ x.len[4] = l4
  /\ x.sa[1] = s1 /\ x.sa[2] = s2 /\ x.sa[3] = s3 /\ x.sa[4] = s4

LEMMA DropLoopIs ==
  ASSUME NEW x \in Infos, NEW i \in 1..4
  PROVE  /\ DropLoop(x, i) \in Infos /\ DropLoop(x, i).dim = x.dim - 1
         /\ \A j \in 1..4 : /\ DropLoop(x, i).len[j] = IF j >= i /\ j < 4 THEN x.len[j + 1] ELSE x.len[j]
                            /\ DropLoop(x, i).sa[j] = IF j >= i /\ j < 4 THEN x.sa[j + 1] ELSE x.sa[j]
<1> DEFINE l == [j \in 1..4 |-> IF j >= i /\ j < 4 THEN x.len[j + 1] ELSE x.len[j]]
           s == [j \in 1..4 |-> IF j >= i /\ j < 4 THEN x.sa[j + 1] ELSE x.sa[j]]
<1>1. DropLoop(x, i) = [x EXCEPT !.dim = x.dim - 1, !.len = l, !.sa = s]
  BY DEF DropLoop, Infos
<1>2. x.dim \in Int /\ x.len \in [1..4 -> Int] /\ x.sa \in [1..4 -> Int]
  BY DEF Infos
<1>3. \A j \in 1..4 : j >= i /\ j < 4 => j + 1 \in 1..4
  OBVIOUS
<1>4. l \in [1..4 -> Int] /\ s \in [1..4 -> Int]
  BY <1>2, <1>3
<1>5. \A j \in 1..4 : /\ l[j] = IF j >= i /\ j < 4 THEN x.len[j + 1] ELSE x.len[j]
                      /\ s[j] = IF j >= i /\ j < 4 THEN x.sa[j + 1] ELSE x.sa[j]
  OBVIOUS
<1> HIDE DEF l, s
<1>6. DropLoop(x, i) \in Infos /\ DropLoop(x, i).dim = x.dim - 1 /\ DropLoop(x, i).len = l /\ DropLoop(x, i).sa = s
  <2>1. x.dim - 1 \in Int
    BY <1>2
  <2>2. x = [dim |-> x.dim, len |-> x.len, sa |-> x.sa]
    BY DEF Infos
  <2>3. DropLoop(x, i) = [dim |-> x.dim - 1, len |-> l, sa |-> s]
    BY <1>1, <2>2
  <2> QED
    BY <1>4, <2>1, <2>3 DEF Infos
<1> QED
  BY <1>5, <1>6

\* One turn of the loop of NewCommPkgInfo.
Dropped(x, i) == IF i <= x.dim /\ x.len[i] = 1 THEN DropLoop(x, i) ELSE x

LEMMA DropLoopsIs ==
  ASSUME NEW x \in Infos
  PROVE  DropLoops(x) = Dropped(Dropped(Dropped(Dropped(x, 1), 2), 3), 4)
<1> DEFINE X == [k \in 0..4 |-> Infos]
           G == [i \in 1..4 |-> [y \in Infos |-> Dropped(y, i)]]
           after == CHOOSE f : f = [i \in 0..4 |-> IF i = 0 THEN x ELSE Dropped(f[i - 1], i)]
<1>1. DropLoops(x) = after[4]
  BY DEF DropLoops, Dropped
<1>2. \A i \in 1..4, y \in Infos : Dropped(y, i) \in Infos
  BY DropLoopIs DEF Dropped
<1>3. \A i \in 1..4, y \in Infos : G[i][y] = Dropped(y, i)
  OBVIOUS
<1>4. \A k \in 0..4 : X[k] = Infos
  OBVIOUS
<1> HIDE DEF X, G
<1>5. Leads(4, X, x, G)
  <2>1. 0 \in 0..4 /\ \A k \in 1..4 : k \in 0..4 /\ k - 1 \in 0..4
    OBVIOUS
  <2>2. X[0] = Infos /\ \A k \in 1..4 : X[k] = Infos /\ X[k - 1] = Infos
    BY <1>4, <2>1
  <2> QED
    BY <1>2, <1>3, <2>2 DEF Leads
<1>6. PICK f : Follows(f, 4, x, G) /\ f = [k \in 0..4 |-> f[k]] /\ \A k \in 0..4 : f[k] \in X[k]
  <2>1. 4 \in Nat
    OBVIOUS
  <2> QED
    BY <1>5, <2>1, Recursion
<1>7. f = [i \in 0..4 |-> IF i = 0 THEN x ELSE Dropped(f[i - 1], i)]
  <2>1. ASSUME NEW i \in 0..4 PROVE f[i] = IF i = 0 THEN x ELSE Dropped(f[i - 1], i)
    <3>1. i # 0 => i \in 1..4 /\ i - 1 \in 0..4
      OBVIOUS
    <3>2. i # 0 => f[i - 1] \in Infos
      BY <1>4, <1>6, <3>1
    <3> QED
      BY <1>3, <1>6, <3>1, <3>2 DEF Follows
  <2> QED
    BY <1>6, <2>1
<1>8. after = [i \in 0..4 |-> IF i = 0 THEN x ELSE Dropped(after[i - 1], i)]
  BY <1>7
<1> HIDE DEF after
<1>9. after[0] = x /\ \A i \in 1..4 : after[i] = Dropped(after[i - 1], i)
  <2>1. 0 \in 0..4 /\ \A i \in 1..4 : i \in 0..4 /\ i # 0
    OBVIOUS
  <2> QED
    BY <1>8, <2>1
<1>10. /\ after[1] = Dropped(after[0], 1) /\ after[2] = Dropped(after[1], 2)
       /\ after[3] = Dropped(after[2], 3) /\ after[4] = Dropped(after[3], 4)
  <2>1. /\ 1 \in 1..4 /\ 2 \in 1..4 /\ 3 \in 1..4 /\ 4 \in 1..4
        /\ 1 - 1 = 0 /\ 2 - 1 = 1 /\ 3 - 1 = 2 /\ 4 - 1 = 3
    OBVIOUS
  <2> QED
    BY <1>9, <2>1
<1> QED
  BY <1>1, <1>9, <1>10

LEMMA DroppedIs ==
  ASSUME NEW x, NEW D, NEW l1, NEW l2, NEW l3, NEW l4, NEW s1, NEW s2, NEW s3, NEW s4,
         Has(x, D, l1, l2, l3, l4, s1, s2, s3, s4)
  PROVE  /\ (D >= 1 /\ l1 = 1 => Has(Dropped(x, 1), D - 1, l2, l3, l4, l4, s2, s3, s4, s4)) /\ (~(D >= 1 /\ l1 = 1) => Dropped(x, 1) = x)
         /\ (D >= 2 /\ l2 = 1 => Has(Dropped(x, 2), D - 1, l1, l3, l4, l4, s1, s3, s4, s4)) /\ (~(D >= 2 /\ l2 = 1) => Dropped(x, 2) = x)
         /\ (D >= 3 /\ l3 = 1 => Has(Dropped(x, 3), D - 1, l1, l2, l4, l4, s1, s2, s4, s4)) /\ (~(D >= 3 /\ l3 = 1) => Dropped(x, 3) = x)
         /\ (D >= 4 /\ l4 = 1 => Has(Dropped(x, 4), D - 1, l1, l2, l3, l4, s1, s2, s3, s4)) /\ (~(D >= 4 /\ l4 = 1) => Dropped(x, 4) = x)
<1>1. /\ x \in Infos /\ x.dim = D /\ D \in Int
      /\ x.len[1] = l1 /\ x.len[2] = l2 /\ x.len[3] = l3 /\ x.len[4] = l4
      /\ x.sa[1] = s1 /\ x.sa[2] = s2 /\ x.sa[3] = s3 /\ x.sa[4] = s4
  BY DEF Has, Infos
<1>2. 1 \in 1..4 /\ 2 \in 1..4 /\ 3 \in 1..4 /\ 4 \in 1..4
  OBVIOUS
<1>3. ASSUME NEW i \in 1..4, i <= x.dim, x.len[i] = 1
      PROVE  /\ Dropped(x, i) \in Infos /\ Dropped(x, i).dim = D - 1
             /\ \A j \in 1..4 : /\ Dropped(x, i).len[j] = IF j >= i /\ j < 4 THEN x.len[j + 1] ELSE x.len[j]
                                /\ Dropped(x, i).sa[j] = IF j >= i /\ j < 4 THEN x.sa[j + 1] ELSE x.sa[j]
  BY <1>1, <1>3, DropLoopIs DEF Dropped
<1>4. D >= 1 /\ l1 = 1 => Has(Dropped(x, 1), D - 1, l2, l3, l4, l4, s2, s3, s4, s4)
  BY <1>1, <1>2, <1>3 DEF Has
<1>5. D >= 2 /\ l2 = 1 => Has(Dropped(x, 2), D - 1, l1, l3, l4, l4, s1, s3, s4, s4)
  BY <1>1, <1>2, <1>3 DEF Has
<1>6. D >= 3 /\ l3 = 1 => Has(Dropped(x, 3), D - 1, l1, l2, l4, l4, s1, s2, s4, s4)
  BY <1>1, <1>2, <1>3 DEF Has
<1>7. D >= 4 /\ l4 = 1 => Has(Dropped(x, 4), D - 1, l1, l2, l3, l4, s1, s2, s3, s4)
  BY <1>1, <1>2, <1>3 DEF Has
<1>8. /\ ~(D >= 1 /\ l1 = 1) => Dropped(x, 1) = x
      /\ ~(D >= 2 /\ l2 = 1) => Dropped(x, 2) = x
      /\ ~(D >= 3 /\ l3 = 1) => Dropped(x, 3) = x
      /\ ~(D >= 4 /\ l4 = 1) => Dropped(x, 4) = x
  BY <1>1 DEF Dropped
<1> QED
  BY <1>4, <1>5, <1>6, <1>7, <1>8

\* The loops that are left of those over a box of n1 by n2 by n3 cells.
LEMMA LoopsLeft ==
  ASSUME NEW n1 \in Nat \ {0}, NEW n2 \in Nat \ {0}, NEW n3 \in Nat \ {0},
         NEW a1, NEW a2, NEW a3, NEW a4, NEW x, Has(x, 4, n1, n2, n3, 1, a1, a2, a3, a4)
  PROVE  /\ n1 # 1 /\ n2 # 1 /\ n3 # 1 => Has(DropLoops(x), 3, n1, n2, n3, 1, a1, a2, a3, a4)
         /\ n1 # 1 /\ n2 # 1 /\ n3 = 1 => Has(DropLoops(x), 3, n1, n2, 1, 1, a1, a2, a4, a4)
         /\ n1 # 1 /\ n2 = 1 => Has(DropLoops(x), 2, n1, n3, 1, 1, a1, a3, a4, a4)
         /\ n1 = 1 /\ n3 # 1 => Has(DropLoops(x), 2, n2, n3, 1, 1, a2, a3, a4, a4)
         /\ n1 = 1 /\ n3 = 1 => Has(DropLoops(x), 2, n2, 1, 1, 1, a2, a4, a4, a4)
<1> DEFINE y1 == Dropped(x, 1)
           y2 == Dropped(y1, 2)
           y3 == Dropped(y2, 3)
           y4 == Dropped(y3, 4)
<1>1. DropLoops(x) = y4
  BY DropLoopsIs DEF Has
<1>2. /\ 4 >= 1 /\ 4 >= 2 /\ 4 >= 3 /\ 4 >= 4 /\ 3 >= 2 /\ 3 >= 3 /\ ~(3 >= 4) /\ ~(2 >= 3) /\ ~(2 >= 4)
      /\ 4 - 1 = 3 /\ 3 - 1 = 2
  OBVIOUS
<1>3. CASE n1 # 1
  <2>1. y1 = x
    BY <1>3 DEF Has, Dropped
  <2>2. CASE n2 # 1
    <3>1. y2 = x
      BY <2>1, <2>2 DEF Has, Dropped
    <3>2. CASE n3 # 1
      <4>0. Dropped(x, 3) = x
        BY <3>2 DEF Has, Dropped
      <4>1. y3 = x
        BY <3>1, <4>0
      <4>2. Has(y4, 3, n1, n2, n3, 1, a1, a2, a3, a4)
        BY <1>2, <4>1, DroppedIs
      <4> QED
        BY <1>1, <1>3, <2>2, <3>2, <4>2
    <3>3. CASE n3 = 1
      <4>1. Has(y3, 3, n1, n2, 1, 1, a1, a2, a4, a4)
        BY <1>2, <3>1, <3>3, DroppedIs
      <4> HIDE DEF y3
      <4>2. y4 = y3
        BY <1>2, <4>1, DroppedIs
      <4> QED
        BY <1>1, <1>3, <2>2, <3>3, <4>1, <4>2
    <3> QED
      BY <3>2, <3>3
  <2>3. CASE n2 = 1
    <3>1. Has(y2, 3, n1, n3, 1, 1, a1, a3, a4, a4)
      BY <1>2, <2>1, <2>3, DroppedIs
    <3> HIDE DEF y2
    <3>2. Has(y3, 2, n1, n3, 1, 1, a1, a3, a4, a4)
      BY <1>2, <3>1, DroppedIs
    <3> HIDE DEF y3
    <3>3. y4 = y3
      BY <1>2, <3>2, DroppedIs
    <3> QED
      BY <1>1, <1>3, <2>3, <3>2, <3>3
  <2> QED
    BY <2>2, <2>3
<1>4. CASE n1 = 1
  <2>1. Has(y1, 3, n2, n3, 1, 1, a2, a3, a4, a4)
    BY <1>2, <1>4, DroppedIs
  <2> HIDE DEF y1
  <2>2. CASE n3 # 1
    <3>1. y2 = y1
      BY <2>1, <2>2 DEF Has, Dropped
    <3>2. Has(y3, 2, n2, n3, 1, 1, a2, a3, a4, a4)
      BY <1>2, <2>1, <3>1, DroppedIs
    <3> HIDE DEF y3
    <3>3. y4 = y3
      BY <1>2, <3>2, DroppedIs
    <3> QED
      BY <1>1, <1>4, <2>2, <3>2, <3>3
  <2>3. CASE n3 = 1
    <3>1. Has(y2, 2, n2, 1, 1, 1, a2, a4, a4, a4)
      BY <1>2, <2>1, <2>3, DroppedIs
    <3> HIDE DEF y2
    <3>2. y3 = y2
      BY <1>2, <3>1, DroppedIs
    <3>3. y4 = y2
      BY <1>2, <3>1, <3>2, DroppedIs
    <3> QED
      BY <1>1, <1>4, <2>3, <3>1, <3>3
  <2> QED
    BY <2>2, <2>3
<1> QED
  BY <1>3, <1>4

\* How far the cell number m of a box lies from the first one.
Along(m, n1, n2, n3, a1, a2, a3) ==
  (m % n1) * a1 + ((m \div n1) % n2) * a2 + ((m \div (n1 * n2)) % n3) * a3

\* What two or three loops visit from o on.
ThreeLoops(w, o, l1, l2, l3, b1, b2, b3) ==
  /\ w \in [1..(l1 * l2 * l3) -> Int]
  /\ \A m \in 1..(l1 * l2 * l3) : w[m] = o + Along(m - 1, l1, l2, l3, b1, b2, b3)

TwoLoops(w, o, l1, l2, b1, b2) ==
  /\ w \in [1..(l1 * l2) -> Int]
  /\ \A m \in 1..(l1 * l2) : w[m] = o + (((m - 1) % l1) * b1 + (((m - 1) \div l1) % l2) * b2)

LEMMA VisitsOfThree ==
  ASSUME NEW w, NEW o \in Int, NEW len, NEW sa, Visits(w, o, 3, len, sa),
         len[1] \in Nat \ {0}, len[2] \in Nat \ {0}, len[3] \in Nat \ {0},
         sa[1] \in Int, sa[2] \in Int, sa[3] \in Int
  PROVE  ThreeLoops(w, o, len[1], len[2], len[3], sa[1], sa[2], sa[3])
<1> DEFINE l1 == len[1]
           l2 == len[2]
           l3 == len[3]
<1>1. PICK size \in [0..3 -> Nat \ {0}] :
        /\ size[0] = 1
        /\ \A d \in 1..3 : size[d] = size[d - 1] * len[d]
        /\ w \in [1..size[3] -> Int]
        /\ \A m \in 1..size[3] : \E at \in [0..3 -> Int] :
             /\ at[0] = o /\ at[3] = w[m]
             /\ \A d \in 1..3 : at[d] = at[d - 1] + (((m - 1) \div size[d - 1]) % len[d]) * sa[d]
  BY DEF Visits
<1>2. /\ 1 \in 1..3 /\ 2 \in 1..3 /\ 3 \in 1..3 /\ 1 - 1 = 0 /\ 2 - 1 = 1 /\ 3 - 1 = 2
  OBVIOUS
<1>3. size[1] = 1 * l1 /\ size[2] = size[1] * l2 /\ size[3] = size[2] * l3
  BY <1>1, <1>2
<1>4. l1 \in Nat \ {0} /\ l2 \in Nat \ {0} /\ l3 \in Nat \ {0}
  OBVIOUS
<1> HIDE DEF l1, l2, l3
<1>5. size[1] = l1 /\ size[2] = l1 * l2 /\ size[3] = l1 * l2 * l3
  BY <1>3, <1>4
<1>6. ASSUME NEW m \in 1..size[3] PROVE w[m] = o + Along(m - 1, l1, l2, l3, sa[1], sa[2], sa[3])
  <2>1. PICK at \in [0..3 -> Int] :
             /\ at[0] = o /\ at[3] = w[m]
             /\ \A d \in 1..3 : at[d] = at[d - 1] + (((m - 1) \div size[d - 1]) % len[d]) * sa[d]
    BY <1>1
  <2> DEFINE k == m - 1
             t1 == (k % l1) * sa[1]
             t2 == ((k \div l1) % l2) * sa[2]
             t3 == ((k \div (l1 * l2)) % l3) * sa[3]
  <2>2. k \in Nat
    BY <1>1
  <2>3. k \div 1 = k
    BY <2>2
  <2>4. /\ at[1] = at[0] + ((k \div size[0]) % len[1]) * sa[1]
        /\ at[2] = at[1] + ((k \div size[1]) % len[2]) * sa[2]
        /\ at[3] = at[2] + ((k \div size[2]) % len[3]) * sa[3]
    BY <1>2, <2>1
  <2>5. at[1] = at[0] + t1 /\ at[2] = at[1] + t2 /\ at[3] = at[2] + t3
    BY <1>1, <1>5, <2>3, <2>4 DEF l1, l2, l3
  <2>6. t1 \in Int /\ t2 \in Int /\ t3 \in Int
    <3>1. \A x \in Nat, y \in Nat \ {0} : x \div y \in Nat /\ x % y \in Int
      <4> TAKE x \in Nat, y \in Nat \ {0}
      <4>1. x \div y \in Nat /\ x % y \in 0..(y - 1)
        BY Digits
      <4> QED
        BY <4>1
    <3>2. \A x, y \in Int : x * y \in Int
      OBVIOUS
    <3>3. l1 * l2 \in Nat \ {0}
      BY <1>4
    <3> DEFINE l12 == l1 * l2
    <3>4. l12 \in Nat \ {0} /\ t3 = ((k \div l12) % l3) * sa[3]
      BY <3>3
    <3> HIDE DEF k, l12
    <3>5. k % l1 \in Int /\ (k \div l1) % l2 \in Int /\ (k \div l12) % l3 \in Int
      BY <1>4, <2>2, <3>1, <3>4
    <3> QED
      BY <3>2, <3>4, <3>5 DEF l12
  <2>7. Along(k, l1, l2, l3, sa[1], sa[2], sa[3]) = t1 + t2 + t3
    BY DEF Along
  <2> HIDE DEF t1, t2, t3, k
  <2>8. at[3] = o + (t1 + t2 + t3)
    BY <2>1, <2>5, <2>6
  <2> QED
    BY <2>1, <2>7, <2>8 DEF k
<1>7. ThreeLoops(w, o, l1, l2, l3, sa[1], sa[2], sa[3])
  BY <1>1, <1>5, <1>6 DEF ThreeLoops
<1> QED
  BY <1>7 DEF l1, l2, l3

LEMMA VisitsOfTwo ==
  ASSUME NEW w, NEW o \in Int, NEW len, NEW sa, Visits(w, o, 2, len, sa),
         len[1] \in Nat \ {0}, len[2] \in Nat \ {0}, sa[1] \in Int, sa[2] \in Int
  PROVE  TwoLoops(w, o, len[1], len[2], sa[1], sa[2])
<1> DEFINE l1 == len[1]
           l2 == len[2]
<1>1. PICK size \in [0..2 -> Nat \ {0}] :
        /\ size[0] = 1
        /\ \A d \in 1..2 : size[d] = size[d - 1] * len[d]
        /\ w \in [1..size[2] -> Int]
        /\ \A m \in 1..size[2] : \E at \in [0..2 -> Int] :
             /\ at[0] = o /\ at[2] = w[m]
             /\ \A d \in 1..2 : at[d] = at[d - 1] + (((m - 1) \div size[d - 1]) % len[d]) * sa[d]
  BY DEF Visits
<1>2. /\ 1 \in 1..2 /\ 2 \in 1..2 /\ 1 - 1 = 0 /\ 2 - 1 = 1
  OBVIOUS
<1>3. size[1] = 1 * l1 /\ size[2] = size[1] * l2
  BY <1>1, <1>2
<1>4. l1 \in Nat \ {0} /\ l2 \in Nat \ {0}
  OBVIOUS
<1> HIDE DEF l1, l2
<1>5. size[1] = l1 /\ size[2] = l1 * l2
  BY <1>3, <1>4
<1>6. ASSUME NEW m \in 1..size[2] PROVE w[m] = o + (((m - 1) % l1) * sa[1] + (((m - 1) \div l1) % l2) * sa[2])
  <2>1. PICK at \in [0..2 -> Int] :
             /\ at[0] = o /\ at[2] = w[m]
             /\ \A d \in 1..2 : at[d] = at[d - 1] + (((m - 1) \div size[d - 1]) % len[d]) * sa[d]
    BY <1>1
  <2> DEFINE k == m - 1
             t1 == (k % l1) * sa[1]
             t2 == ((k \div l1) % l2) * sa[2]
  <2>2. k \in Nat
    BY <1>1
  <2>3. k \div 1 = k
    BY <2>2
  <2>4. /\ at[1] = at[0] + ((k \div size[0]) % len[1]) * sa[1]
        /\ at[2] = at[1] + ((k \div size[1]) % len[2]) * sa[2]
    BY <1>2, <2>1
  <2>5. at[1] = at[0] + t1 /\ at[2] = at[1] + t2
    BY <1>1, <1>5, <2>3, <2>4 DEF l1, l2
  <2>6. t1 \in Int /\ t2 \in Int
    <3>1. \A x \in Nat, y \in Nat \ {0} : x \div y \in Nat /\ x % y \in Int
      <4> TAKE x \in Nat, y \in Nat \ {0}
      <4>1. x \div y \in Nat /\ x % y \in 0..(y - 1)
        BY Digits
      <4> QED
        BY <4>1
    <3>2. \A x, y \in Int : x * y \in Int
      OBVIOUS
    <3> HIDE DEF k
    <3>3. k % l1 \in Int /\ (k \div l1) % l2 \in Int
      BY <1>4, <2>2, <3>1
    <3> QED
      BY <3>2, <3>3
  <2> HIDE DEF t1, t2, k
  <2>7. at[2] = o + (t1 + t2)
    BY <2>1, <2>5, <2>6
  <2> QED
    BY <2>1, <2>7 DEF k, t1, t2
<1>7. TwoLoops(w, o, l1, l2, sa[1], sa[2])
  BY <1>1, <1>5, <1>6 DEF TwoLoops
<1> QED
  BY <1>7 DEF l1, l2

\* A loop of length 1 adds nothing.
Thin(m, n1, n2, n3, a1, a2, a3, a4) ==
  LET all3 == Along(m, n1, n2, n3, a1, a2, a3)
  IN /\ all3 \in Int
     /\ n3 = 1 => Along(m, n1, n2, 1, a1, a2, a4) = all3
     /\ n2 = 1 => (m % n1) * a1 + ((m \div n1) % n3) * a3 = all3
     /\ n1 = 1 => (m % n2) * a2 + ((m \div n2) % n3) * a3 = all3
     /\ n1 = 1 /\ n3 = 1 => (m % n2) * a2 + ((m \div n2) % 1) * a4 = all3

LEMMA LoopOfOne ==
  ASSUME NEW n1 \in Nat \ {0}, NEW n2 \in Nat \ {0}, NEW n3 \in Nat \ {0}, NEW m \in Nat,
         NEW a1 \in Int, NEW a2 \in Int, NEW a3 \in Int, NEW a4 \in Int
  PROVE  Thin(m, n1, n2, n3, a1, a2, a3, a4)
<1>1. \A x \in Nat : x % 1 = 0 /\ x \div 1 = x
  OBVIOUS
<1>2. \A a \in Int : 0 * a = 0
  OBVIOUS
<1>3. \A x \in Nat, y \in Nat \ {0} : x \div y \in Nat /\ x % y \in Nat
  <2> TAKE x \in Nat, y \in Nat \ {0}
  <2>1. x \div y \in Nat /\ x % y \in 0..(y - 1)
    BY Digits
  <2> QED
    BY <2>1
<1> DEFINE n12 == n1 * n2
           u == m % n1
           v == (m \div n1) % n2
           w == (m \div n12) % n3
           U == u * a1
           V == v * a2
           W == w * a3
<1>4. n12 \in Nat \ {0}
  OBVIOUS
<1>5. n1 * 1 = n1 /\ 1 * n2 = n2
  OBVIOUS
<1>6. Along(m, n1, n2, n3, a1, a2, a3) = U + V + W
  BY DEF Along
<1>7. Along(m, n1, n2, 1, a1, a2, a4) = U + V + ((m \div n12) % 1) * a4
  BY DEF Along
<1>8. u \in Nat /\ v \in Nat /\ w \in Nat /\ m \div n12 \in Nat /\ m \div n1 \in Nat
  <2> HIDE DEF n12
  <2> QED
    BY <1>3, <1>4
<1>9. U \in Int /\ V \in Int /\ W \in Int
  <2> HIDE DEF u, v, w
  <2> QED
    BY <1>8
<1>10. n3 = 1 => w = 0 /\ W = 0
  <2> HIDE DEF n12
  <2> QED
    BY <1>1, <1>2, <1>8
<1>11. n2 = 1 => v = 0 /\ V = 0 /\ n12 = n1
  BY <1>1, <1>2, <1>5, <1>8
<1>12. n1 = 1 => u = 0 /\ U = 0 /\ n12 = n2 /\ v = m % n2
  BY <1>1, <1>2, <1>5, <1>8
<1>13. ((m \div n12) % 1) * a4 = 0
  <2> HIDE DEF n12
  <2> QED
    BY <1>1, <1>2, <1>8
<1>14. \A x, y \in Int : x + y + 0 = x + y /\ x + 0 + y = x + y /\ 0 + x + y = x + y /\ 0 + x + 0 = x + 0
  OBVIOUS
<1>15. n2 = 1 => (m % n1) * a1 + ((m \div n1) % n3) * a3 = U + V + W
  <2> SUFFICES ASSUME n2 = 1 PROVE (m % n1) * a1 + ((m \div n1) % n3) * a3 = U + V + W
    OBVIOUS
  <2>1. (m % n1) * a1 = U /\ ((m \div n1) % n3) * a3 = W
    <3>1. n12 = n1
      BY <1>11
    <3> HIDE DEF n12
    <3> QED
      BY <3>1
  <2> HIDE DEF U, V, W
  <2> QED
    BY <1>9, <1>11, <1>14, <2>1
<1>16. n1 = 1 => (m % n2) * a2 + ((m \div n2) % n3) * a3 = U + V + W
  <2> SUFFICES ASSUME n1 = 1 PROVE (m % n2) * a2 + ((m \div n2) % n3) * a3 = U + V + W
    OBVIOUS
  <2>1. (m % n2) * a2 = V /\ ((m \div n2) % n3) * a3 = W
    <3>1. n12 = n2 /\ v = m % n2
      BY <1>12
    <3> HIDE DEF n12, v
    <3> QED
      BY <3>1
  <2> HIDE DEF U, V, W
  <2> QED
    BY <1>9, <1>12, <1>14, <2>1
<1>17. n1 = 1 /\ n3 = 1 => (m % n2) * a2 + ((m \div n2) % 1) * a4 = U + V + W
  <2> SUFFICES ASSUME n1 = 1, n3 = 1 PROVE (m % n2) * a2 + ((m \div n2) % 1) * a4 = U + V + W
    OBVIOUS
  <2>1. (m % n2) * a2 = V /\ ((m \div n2) % 1) * a4 = 0
    <3>1. n12 = n2 /\ v = m % n2
      BY <1>12
    <3> HIDE DEF n12, v
    <3> QED
      BY <1>13, <3>1
  <2> HIDE DEF U, V, W
  <2> QED
    BY <1>9, <1>10, <1>12, <1>14, <2>1
<1>18. n3 = 1 => U + V + ((m \div n12) % 1) * a4 = U + V + W
  BY <1>10, <1>13
<1>19. U + V + W \in Int
  <2> HIDE DEF U, V, W
  <2> QED
    BY <1>9
<1> QED
  BY <1>6, <1>7, <1>15, <1>16, <1>17, <1>18, <1>19 DEF Thin

\* The part of an invoice made of these loops.
PartOf(o, y) == [offset |-> o, dim |-> y.dim, len |-> SubSeq(y.len, 1, y.dim), stride |-> Strides(y)]

LEMMA PartVisits ==
  ASSUME NEW y, NEW D \in {2, 3}, NEW l1 \in Nat \ {0}, NEW l2 \in Nat \ {0}, NEW l3 \in Nat \ {0},
         NEW b1 \in Int, NEW b2 \in Int, NEW b3 \in Int, NEW b4, NEW o \in Int,
         Has(y, D, l1, l2, l3, 1, b1, b2, b3, b4)
  PROVE  /\ D = 3 => ThreeLoops(Walk(PartOf(o, y)), o, l1, l2, l3, b1, b2, b3)
         /\ D = 2 => TwoLoops(Walk(PartOf(o, y)), o, l1, l2, b1, b2)
<1> DEFINE w == Walk(PartOf(o, y))
           len == y.len
           sa == y.sa
<1>1. /\ y.dim = D /\ len \in [1..4 -> Int] /\ sa \in [1..4 -> Int]
      /\ len[1] = l1 /\ len[2] = l2 /\ len[3] = l3 /\ len[4] = 1
      /\ sa[1] = b1 /\ sa[2] = b2 /\ sa[3] = b3
  BY DEF Has, Infos
<1>2. Loops(y)
  BY <1>1 DEF Loops
<1>3. \A i \in 1..4 : len[i] >= 1
  <2>1. \A i \in 1..4 : i = 1 \/ i = 2 \/ i = 3 \/ i = 4
    OBVIOUS
  <2> QED
    BY <1>1, <2>1
<1>4. Visits(w, o, y.dim, len, sa)
  BY <1>2, <1>3, WalkVisits DEF PartOf
<1> HIDE DEF w, len, sa
<1>5. Visits(w, o, D, len, sa)
  BY <1>1, <1>4
<1>6. /\ len[1] \in Nat \ {0} /\ len[2] \in Nat \ {0} /\ len[3] \in Nat \ {0}
      /\ sa[1] \in Int /\ sa[2] \in Int /\ sa[3] \in Int
  BY <1>1
<1>7. D = 3 => ThreeLoops(w, o, len[1], len[2], len[3], sa[1], sa[2], sa[3])
  BY <1>5, <1>6, VisitsOfThree
<1>8. D = 2 => TwoLoops(w, o, len[1], len[2], sa[1], sa[2])
  BY <1>5, <1>6, VisitsOfTwo
<1> QED
  BY <1>1, <1>7, <1>8 DEF w

\* Whichever loops are left, the same positions are visited.
LEMMA LoopsVisit ==
  ASSUME NEW n1 \in Nat \ {0}, NEW n2 \in Nat \ {0}, NEW n3 \in Nat \ {0},
         NEW a1 \in Int, NEW a2 \in Int, NEW a3 \in Int, NEW a4 \in Int, NEW o \in Int,
         NEW x, Has(x, 4, n1, n2, n3, 1, a1, a2, a3, a4)
  PROVE  ThreeLoops(Walk(PartOf(o, DropLoops(x))), o, n1, n2, n3, a1, a2, a3)
<1> DEFINE y == DropLoops(x)
           w == Walk(PartOf(o, y))
           N == n1 * n2 * n3
<1>1. /\ n1 # 1 /\ n2 # 1 /\ n3 # 1 => Has(y, 3, n1, n2, n3, 1, a1, a2, a3, a4)
      /\ n1 # 1 /\ n2 # 1 /\ n3 = 1 => Has(y, 3, n1, n2, 1, 1, a1, a2, a4, a4)
      /\ n1 # 1 /\ n2 = 1 => Has(y, 2, n1, n3, 1, 1, a1, a3, a4, a4)
      /\ n1 = 1 /\ n3 # 1 => Has(y, 2, n2, n3, 1, 1, a2, a3, a4, a4)
      /\ n1 = 1 /\ n3 = 1 => Has(y, 2, n2, 1, 1, 1, a2, a4, a4, a4)
  BY LoopsLeft
<1>2. 1 \in Nat \ {0} /\ 2 \in {2, 3} /\ 3 \in {2, 3}
  OBVIOUS
<1>3. N \in Nat
  OBVIOUS
<1>4. \A m \in 1..N : m - 1 \in Nat
  BY <1>3
<1>5. \A k \in Nat : Thin(k, n1, n2, n3, a1, a2, a3, a4)
  BY LoopOfOne
<1> HIDE DEF y
<1>6. CASE n1 # 1 /\ n2 # 1 /\ n3 # 1
  <2>1. Has(y, 3, n1, n2, n3, 1, a1, a2, a3, a4)
    BY <1>1, <1>6
  <2> QED
    BY <1>2, <2>1, PartVisits DEF y
<1>7. CASE n1 # 1 /\ n2 # 1 /\ n3 = 1
  <2>1. Has(y, 3, n1, n2, 1, 1, a1, a2, a4, a4)
    BY <1>1, <1>7
  <2>2. ThreeLoops(w, o, n1, n2, 1, a1, a2, a4)
    BY <1>2, <2>1, PartVisits
  <2>3. n1 * n2 * 1 = N
    BY <1>7
  <2> HIDE DEF w, N
  <2>4. w \in [1..N -> Int] /\ \A m \in 1..N : w[m] = o + Along(m - 1, n1, n2, 1, a1, a2, a4)
    BY <2>2, <2>3 DEF ThreeLoops
  <2>5. \A m \in 1..N : Along(m - 1, n1, n2, 1, a1, a2, a4) = Along(m - 1, n1, n2, n3, a1, a2, a3)
    BY <1>4, <1>5, <1>7 DEF Thin
  <2> QED
    BY <2>4, <2>5 DEF w, N, y, ThreeLoops
<1>8. CASE n1 # 1 /\ n2 = 1
  <2>1. Has(y, 2, n1, n3, 1, 1, a1, a3, a4, a4)
    BY <1>1, <1>8
  <2>2. TwoLoops(w, o, n1, n3, a1, a3)
    BY <1>2, <2>1, PartVisits
  <2>3. n1 * n3 = N
    BY <1>8
  <2> HIDE DEF w, N
  <2>4. w \in [1..N -> Int]
        /\ \A m \in 1..N : w[m] = o + (((m - 1) % n1) * a1 + (((m - 1) \div n1) % n3) * a3)
    BY <2>2, <2>3 DEF TwoLoops
  <2>5. \A m \in 1..N : ((m - 1) % n1) * a1 + (((m - 1) \div n1) % n3) * a3
                          = Along(m - 1, n1, n2, n3, a1, a2, a3)
    BY <1>4, <1>5, <1>8 DEF Thin
  <2> QED
    BY <2>4, <2>5 DEF w, N, y, ThreeLoops
<1>9. CASE n1 = 1 /\ n3 # 1
  <2>1. Has(y, 2, n2, n3, 1, 1, a2, a3, a4, a4)
    BY <1>1, <1>9
  <2>2. TwoLoops(w, o, n2, n3, a2, a3)
    BY <1>2, <2>1, PartVisits
  <2>3. n2 * n3 = N
    BY <1>9
  <2> HIDE DEF w, N
  <2>4. w \in [1..N -> Int]
        /\ \A m \in 1..N : w[m] = o + (((m - 1) % n2) * a2 + (((m - 1) \div n2) % n3) * a3)
    BY <2>2, <2>3 DEF TwoLoops
  <2>5. \A m \in 1..N : ((m - 1) % n2) * a2 + (((m - 1) \div n2) % n3) * a3
                          = Along(m - 1, n1, n2, n3, a1, a2, a3)
    BY <1>4, <1>5, <1>9 DEF Thin
  <2> QED
    BY <2>4, <2>5 DEF w, N, y, ThreeLoops
<1>10. CASE n1 = 1 /\ n3 = 1
  <2>1. Has(y, 2, n2, 1, 1, 1, a2, a4, a4, a4)
    BY <1>1, <1>10
  <2>2. TwoLoops(w, o, n2, 1, a2, a4)
    BY <1>2, <2>1, PartVisits
  <2>3. n2 * 1 = N
    BY <1>10
  <2> HIDE DEF w, N
  <2>4. w \in [1..N -> Int]
        /\ \A m \in 1..N : w[m] = o + (((m - 1) % n2) * a2 + (((m - 1) \div n2) % 1) * a4)
    BY <2>2, <2>3 DEF TwoLoops
  <2>5. \A m \in 1..N : ((m - 1) % n2) * a2 + (((m - 1) \div n2) % 1) * a4
                          = Along(m - 1, n1, n2, n3, a1, a2, a3)
    BY <1>4, <1>5, <1>10 DEF Thin
  <2> QED
    BY <2>4, <2>5 DEF w, N, y, ThreeLoops
<1> QED
  BY <1>6, <1>7, <1>8, <1>9, <1>10

\* A box, perhaps with strides, that has cells.
Walkable(c) == \A a \in Axis : c.i[a] \in Int /\ c.n[a] \in Nat \ {0} /\ c.s[a] \in Int

\* Its cells by number: x runs fastest, then y, then z.
CellNo(c, m) ==
  <<c.i[1] + (m % c.n[1]) * c.s[1],
    c.i[2] + ((m \div c.n[1]) % c.n[2]) * c.s[2],
    c.i[3] + ((m \div (c.n[1] * c.n[2])) % c.n[3]) * c.s[3]>>

LEMMA WalkableIs ==
  ASSUME NEW c, Walkable(c)
  PROVE  /\ c.i[1] \in Int /\ c.i[2] \in Int /\ c.i[3] \in Int
         /\ c.n[1] \in Nat \ {0} /\ c.n[2] \in Nat \ {0} /\ c.n[3] \in Nat \ {0}
         /\ c.s[1] \in Int /\ c.s[2] \in Int /\ c.s[3] \in Int
BY AxesAre DEF Walkable

\* The digits of a cell's number.
LEMMA NumberHasDigits ==
  ASSUME NEW n1 \in Nat \ {0}, NEW n2 \in Nat \ {0}, NEW n3 \in Nat \ {0}, NEW m \in Nat
  PROVE  /\ m % n1 \in 0..(n1 - 1) /\ (m \div n1) % n2 \in 0..(n2 - 1)
         /\ (m \div (n1 * n2)) % n3 \in 0..(n3 - 1)
<1> DEFINE n12 == n1 * n2
<1>1. n12 \in Nat \ {0}
  OBVIOUS
<1> HIDE DEF n12
<1>2. m \div n1 \in Nat /\ m \div n12 \in Nat /\ m % n1 \in 0..(n1 - 1)
  BY <1>1, Digits
<1>3. (m \div n1) % n2 \in 0..(n2 - 1) /\ (m \div n12) % n3 \in 0..(n3 - 1)
  BY <1>2, Digits
<1> QED
  BY <1>2, <1>3 DEF n12

LEMMA CellNoIs ==
  ASSUME NEW c, Walkable(c), NEW m \in Nat
  PROVE  CellNo(c, m) \in Cells(c) /\ CellNo(c, m) \in Points
<1> DEFINE u == m % c.n[1]
           v == (m \div c.n[1]) % c.n[2]
           w == (m \div (c.n[1] * c.n[2])) % c.n[3]
<1>1. /\ c.i[1] \in Int /\ c.i[2] \in Int /\ c.i[3] \in Int
      /\ c.n[1] \in Nat \ {0} /\ c.n[2] \in Nat \ {0} /\ c.n[3] \in Nat \ {0}
      /\ c.s[1] \in Int /\ c.s[2] \in Int /\ c.s[3] \in Int
  BY WalkableIs
<1>2. u \in 0..(c.n[1] - 1) /\ v \in 0..(c.n[2] - 1) /\ w \in 0..(c.n[3] - 1)
  BY <1>1, NumberHasDigits
<1>3. CellNo(c, m) = <<c.i[1] + u * c.s[1], c.i[2] + v * c.s[2], c.i[3] + w * c.s[3]>>
  BY DEF CellNo
<1> HIDE DEF u, v, w
<1>4. c.i[1] + u * c.s[1] \in Line(c, 1) /\ c.i[2] + v * c.s[2] \in Line(c, 2) /\ c.i[3] + w * c.s[3] \in Line(c, 3)
  BY <1>2 DEF Line
<1>5. u \in Int /\ v \in Int /\ w \in Int
  BY <1>2
<1>6. c.i[1] + u * c.s[1] \in Int /\ c.i[2] + v * c.s[2] \in Int /\ c.i[3] + w * c.s[3] \in Int
  <2>1. \A x, y, z \in Int : x + y * z \in Int
    OBVIOUS
  <2> QED
    BY <1>1, <1>5, <2>1
<1> QED
  BY <1>3, <1>4, <1>6 DEF Cells, Points

LEMMA EveryCellHasNumber ==
  ASSUME NEW c, Walkable(c), NEW x \in Cells(c)
  PROVE  \E m \in 1..Volume(c.n) : x = CellNo(c, m - 1)
<1> DEFINE n1 == c.n[1]
           n2 == c.n[2]
           n3 == c.n[3]
<1>1. n1 \in Nat \ {0} /\ n2 \in Nat \ {0} /\ n3 \in Nat \ {0}
  BY WalkableIs
<1>2. PICK x1 \in Line(c, 1), x2 \in Line(c, 2), x3 \in Line(c, 3) : x = <<x1, x2, x3>>
  BY DEF Cells
<1>3. PICK u \in 0..(n1 - 1) : x1 = c.i[1] + u * c.s[1]
  BY DEF Line
<1>4. PICK v \in 0..(n2 - 1) : x2 = c.i[2] + v * c.s[2]
  BY DEF Line
<1>5. PICK w \in 0..(n3 - 1) : x3 = c.i[3] + w * c.s[3]
  BY DEF Line
<1> DEFINE k == Value(n1, n2, u, v, w)
<1>6. \A m : CellNo(c, m) = <<c.i[1] + (m % n1) * c.s[1], c.i[2] + ((m \div n1) % n2) * c.s[2],
                              c.i[3] + ((m \div (n1 * n2)) % n3) * c.s[3]>>
  BY DEF CellNo
<1>7. Volume(c.n) = n1 * n2 * n3
  BY DEF Volume
<1> HIDE DEF n1, n2, n3, k
<1>8. Numeral(n1, n2, n3, u, v, w)
  BY <1>1 DEF Numeral
<1>9. /\ k \in 0..(n1 * n2 * n3 - 1) /\ k % n1 = u /\ (k \div n1) % n2 = v
      /\ (k \div (n1 * n2)) % n3 = w
  BY <1>8, ThreeDigits DEF k
<1>10. CellNo(c, k) = x
  BY <1>2, <1>3, <1>4, <1>5, <1>6, <1>9
<1> DEFINE N == n1 * n2 * n3
<1>11. N \in Nat
  BY <1>1
<1>12. k \in 0..(N - 1)
  BY <1>9
<1> HIDE DEF N
<1>13. k + 1 \in 1..N /\ (k + 1) - 1 = k
  BY <1>11, <1>12
<1>14. k + 1 \in 1..Volume(c.n)
  BY <1>7, <1>13 DEF N
<1> QED
  BY <1>10, <1>13, <1>14

\* NewCommPkgInfo, amps_create_mpi_type: a part visits the cells of its box in order.
LEMMA WalkIs ==
  ASSUME NEW d \in Boxes, NEW c, Walkable(c)
  PROVE  Walk(NewCommPkgInfo(d, c)) = [m \in 1..Volume(c.n) |-> Place(d, CellNo(c, m - 1))]
<1> DEFINE nx == d.n[1]
           ny == d.n[2]
           nz == d.n[3]
           n1 == c.n[1]
           n2 == c.n[2]
           n3 == c.n[3]
           s1 == c.s[1]
           s2 == c.s[2]
           s3 == c.s[3]
           p1 == c.i[1] - d.i[1]
           p2 == c.i[2] - d.i[2]
           p3 == c.i[3] - d.i[3]
           a1 == s1
           a2 == s2 * nx
           a3 == s3 * ny * nx
           a4 == nz * ny * nx
           o == p1 + p2 * nx + p3 * nx * ny
           x == [dim |-> 4, len |-> <<n1, n2, n3, 1>>, sa |-> <<a1, a2, a3, a4>>]
           w == Walk(PartOf(o, DropLoops(x)))
<1>1. NewCommPkgInfo(d, c) = PartOf(o, DropLoops(x))
  BY DEF NewCommPkgInfo, PartOf
<1>2. /\ n1 \in Nat \ {0} /\ n2 \in Nat \ {0} /\ n3 \in Nat \ {0}
      /\ s1 \in Int /\ s2 \in Int /\ s3 \in Int
      /\ c.i[1] \in Int /\ c.i[2] \in Int /\ c.i[3] \in Int
  BY WalkableIs
<1>3. /\ nx \in Int /\ ny \in Int /\ nz \in Int
      /\ d.i[1] \in Int /\ d.i[2] \in Int /\ d.i[3] \in Int
  BY BoxFacts, AxesAre
<1>4. p1 \in Int /\ p2 \in Int /\ p3 \in Int
  BY <1>2, <1>3
<1>5. \A m : CellNo(c, m) = <<c.i[1] + (m % n1) * s1, c.i[2] + ((m \div n1) % n2) * s2,
                              c.i[3] + ((m \div (n1 * n2)) % n3) * s3>>
  BY DEF CellNo
<1>6. \A m : Place(d, CellNo(c, m)) = (CellNo(c, m)[1] - d.i[1]) + (CellNo(c, m)[2] - d.i[2]) * nx
                                        + (CellNo(c, m)[3] - d.i[3]) * (nx * ny)
  BY DEF Place
<1>7. Volume(c.n) = n1 * n2 * n3
  BY DEF Volume
<1>8. p1 + d.i[1] = c.i[1] /\ p2 + d.i[2] = c.i[2] /\ p3 + d.i[3] = c.i[3]
  BY <1>2, <1>3
<1> HIDE DEF nx, ny, nz, n1, n2, n3, s1, s2, s3, p1, p2, p3
<1>9. a1 \in Int /\ a2 \in Int /\ a3 \in Int /\ a4 \in Int /\ o \in Int
  BY <1>2, <1>3, <1>4
<1>10. Has(x, 4, n1, n2, n3, 1, a1, a2, a3, a4)
  <2> HIDE DEF a1, a2, a3, a4
  <2>1. <<n1, n2, n3, 1>> \in [1..4 -> Int] /\ <<a1, a2, a3, a4>> \in [1..4 -> Int]
    BY <1>2, <1>9
  <2>2. x \in Infos
    BY <2>1 DEF Infos
  <2>3. x.dim = 4 /\ x.len = <<n1, n2, n3, 1>> /\ x.sa = <<a1, a2, a3, a4>>
    OBVIOUS
  <2> QED
    BY <2>2, <2>3 DEF Has
<1>11. ThreeLoops(w, o, n1, n2, n3, a1, a2, a3)
  <2> HIDE DEF a1, a2, a3, a4, o, x
  <2> QED
    BY <1>2, <1>9, <1>10, LoopsVisit
<1>12. ASSUME NEW m \in Nat
       PROVE  Place(d, CellNo(c, m)) = o + Along(m, n1, n2, n3, a1, a2, a3)
  <2> DEFINE u == m % n1
             v == (m \div n1) % n2
             z == (m \div (n1 * n2)) % n3
  <2>1. u \in Int /\ v \in Int /\ z \in Int
    <3>1. u \in 0..(n1 - 1) /\ v \in 0..(n2 - 1) /\ z \in 0..(n3 - 1)
      BY <1>2, NumberHasDigits
    <3> QED
      BY <3>1
  <2>2. Along(m, n1, n2, n3, a1, a2, a3) = u * s1 + v * (s2 * nx) + z * (s3 * ny * nx)
    BY DEF Along
  <2>3. CellNo(c, m) = <<c.i[1] + u * s1, c.i[2] + v * s2, c.i[3] + z * s3>>
    BY <1>5
  <2> HIDE DEF u, v, z
  <2> DEFINE U == u * s1
             V == v * s2
             Z == z * s3
  <2>4. U \in Int /\ V \in Int /\ Z \in Int
    BY <1>2, <2>1
  <2>a. CellNo(c, m)[1] = c.i[1] + U /\ CellNo(c, m)[2] = c.i[2] + V /\ CellNo(c, m)[3] = c.i[3] + Z
    BY <2>3
  <2>5. Place(d, CellNo(c, m)) = (c.i[1] + U - d.i[1]) + (c.i[2] + V - d.i[2]) * nx
                                        + (c.i[3] + Z - d.i[3]) * (nx * ny)
    <3> DEFINE y == CellNo(c, m)
    <3>1. Place(d, y) = (y[1] - d.i[1]) + (y[2] - d.i[2]) * nx + (y[3] - d.i[3]) * (nx * ny)
      BY <1>6
    <3> HIDE DEF y, U, V, Z
    <3>2. y[1] = c.i[1] + U /\ y[2] = c.i[2] + V /\ y[3] = c.i[3] + Z
      BY <2>a DEF y
    <3> DEFINE y1 == y[1] - d.i[1]
               y2 == y[2] - d.i[2]
               y3 == y[3] - d.i[3]
    <3>3. y1 = c.i[1] + U - d.i[1] /\ y2 = c.i[2] + V - d.i[2] /\ y3 = c.i[3] + Z - d.i[3]
      BY <1>2, <1>3, <2>4, <3>2
    <3>4. Place(d, y) = y1 + y2 * nx + y3 * (nx * ny)
      BY <3>1
    <3> HIDE DEF y1, y2, y3
    <3> QED
      BY <3>3, <3>4 DEF y
  <2>6. c.i[1] + U - d.i[1] = p1 + U /\ c.i[2] + V - d.i[2] = p2 + V /\ c.i[3] + Z - d.i[3] = p3 + Z
    <3> HIDE DEF U, V, Z
    <3> QED
      BY <1>2, <1>3, <1>4, <1>8, <2>4
  <2>7. Place(d, CellNo(c, m)) = (p1 + U) + (p2 + V) * nx + (p3 + Z) * (nx * ny)
    BY <2>5, <2>6
  <2>8. v * (s2 * nx) = V * nx /\ z * (s3 * ny * nx) = Z * (nx * ny)
    BY <1>2, <1>3, <2>1
  <2>9. (p2 + V) * nx = p2 * nx + V * nx /\ (p3 + Z) * (nx * ny) = p3 * nx * ny + Z * (nx * ny)
    <3> HIDE DEF U, V, Z
    <3> QED
      BY <1>3, <1>4, <2>4
  <2> DEFINE A == p2 * nx
             B == V * nx
             C == p3 * nx * ny
             D == Z * (nx * ny)
  <2>10. A \in Int /\ B \in Int /\ C \in Int /\ D \in Int
    <3> HIDE DEF U, V, Z
    <3> QED
      BY <1>3, <1>4, <2>4
  <2>11. /\ Place(d, CellNo(c, m)) = (p1 + U) + (A + B) + (C + D)
         /\ o + Along(m, n1, n2, n3, a1, a2, a3) = (p1 + A + C) + (U + B + D)
    BY <2>2, <2>7, <2>8, <2>9
  <2> HIDE DEF A, B, C, D, U, o
  <2> QED
    BY <1>4, <2>4, <2>10, <2>11
<1> HIDE DEF w, a1, a2, a3, a4, o, x
<1> DEFINE N == n1 * n2 * n3
<1>13. N \in Nat
  BY <1>2
<1>14. w \in [1..N -> Int] /\ \A m \in 1..N : w[m] = o + Along(m - 1, n1, n2, n3, a1, a2, a3)
  BY <1>11 DEF ThreeLoops
<1> HIDE DEF N
<1>15. \A m \in 1..N : m - 1 \in Nat
  BY <1>13
<1>16. w = [m \in 1..N |-> Place(d, CellNo(c, m - 1))]
  BY <1>12, <1>14, <1>15
<1> QED
  BY <1>1, <1>7, <1>16 DEF w, N

-----------------------------------------------------------------------------
(* A whole message.                                                         *)

\* Boxes with cells, in message order.
Parcel(s) == /\ Len(s) \in Nat /\ DOMAIN s = 1..Len(s)
             /\ \A k \in DOMAIN s : Walkable(s[k])

\* The parts of its invoice in the data space d.
Parts(d, s) == [k \in DOMAIN s |-> NewCommPkgInfo(d, s[k])]

\* The positions of a list of cells.
Placed(d, L) == [m \in 1..Len(L) |-> Place(d, L[m])]

LEMMA FunctionIsSequence ==
  ASSUME NEW n \in Nat, NEW S, NEW f \in [1..n -> S]
  PROVE  f \in Seq(S) /\ Len(f) = n
<1>1. Seq(S) = UNION {[1..k -> S] : k \in Nat}
  OBVIOUS
<1>2. f \in Seq(S)
  BY <1>1
<1>3. DOMAIN f = 1..n
  OBVIOUS
<1> QED
  BY <1>2, <1>3

\* The sequence j is s and then t.
IsJoined(j, s, t, S) ==
  /\ j \in Seq(S) /\ Len(j) = Len(s) + Len(t)
  /\ \A i \in 1..Len(s) : j[i] = s[i]
  /\ \A i \in 1..Len(t) : j[Len(s) + i] = t[i]

LEMMA JoinedIs ==
  ASSUME NEW S, NEW s \in Seq(S), NEW t \in Seq(S)
  PROVE  IsJoined(s \o t, s, t, S)
BY DEF IsJoined

LEMMA ElementsJoin ==
  ASSUME NEW S, NEW s \in Seq(S), NEW t \in Seq(S)
  PROVE  s \o t \in Seq(S) /\ Elements(s \o t) = Elements(s) \cup Elements(t)
<1> DEFINE j == s \o t
           n == Len(s)
           k == Len(t)
<1>1. /\ j \in Seq(S) /\ Len(j) = n + k /\ n \in Nat /\ k \in Nat
      /\ DOMAIN j = 1..(n + k) /\ DOMAIN s = 1..n /\ DOMAIN t = 1..k
  OBVIOUS
<1>2. \A i \in 1..n : j[i] = s[i]
  OBVIOUS
<1>3. \A i \in 1..k : j[n + i] = t[i] /\ n + i \in 1..(n + k)
  OBVIOUS
<1>4. \A i \in 1..(n + k) : i \in 1..n \/ (i - n \in 1..k /\ n + (i - n) = i)
  BY <1>1
<1> HIDE DEF j, n, k
<1>5. ASSUME NEW x \in Elements(j) PROVE x \in Elements(s) \cup Elements(t)
  <2>1. PICK i \in 1..(n + k) : x = j[i]
    BY <1>1 DEF Elements
  <2>2. CASE i \in 1..n
    BY <1>1, <1>2, <2>1, <2>2 DEF Elements
  <2>3. CASE i - n \in 1..k /\ n + (i - n) = i
    <3>1. x = t[i - n]
      BY <1>3, <2>1, <2>3
    <3> QED
      BY <1>1, <2>3, <3>1 DEF Elements
  <2> QED
    BY <1>4, <2>2, <2>3
<1>6. ASSUME NEW x \in Elements(s) PROVE x \in Elements(j)
  <2>1. PICK i \in 1..n : x = s[i]
    BY <1>1 DEF Elements
  <2>2. i \in 1..(n + k)
    BY <1>1
  <2> QED
    BY <1>1, <1>2, <2>1, <2>2 DEF Elements
<1>7. ASSUME NEW x \in Elements(t) PROVE x \in Elements(j)
  <2>1. PICK i \in 1..k : x = t[i]
    BY <1>1 DEF Elements
  <2> QED
    BY <1>1, <1>3, <2>1 DEF Elements
<1>8. Elements(j) = Elements(s) \cup Elements(t)
  BY <1>5, <1>6, <1>7
<1> QED
  BY <1>1, <1>8 DEF j

LEMMA PlaceIsNumber ==
  ASSUME NEW d \in Boxes, NEW x \in Points
  PROVE  Place(d, x) \in Int
<1>1. /\ x[1] \in Int /\ x[2] \in Int /\ x[3] \in Int /\ d.n[1] \in Int /\ d.n[2] \in Int
      /\ d.i[1] \in Int /\ d.i[2] \in Int /\ d.i[3] \in Int
  BY PointFacts, BoxFacts, AxesAre
<1> DEFINE u == x[1] - d.i[1]
           v == x[2] - d.i[2]
           w == x[3] - d.i[3]
           a == d.n[1]
           b == d.n[2]
<1>2. u \in Int /\ v \in Int /\ w \in Int /\ a \in Int /\ b \in Int
  BY <1>1
<1>3. Place(d, x) = u + v * a + w * (a * b)
  BY DEF Place
<1> HIDE DEF u, v, w, a, b
<1> QED
  BY <1>2, <1>3

LEMMA PlacedIs ==
  ASSUME NEW d \in Boxes, NEW s \in Seq(Points)
  PROVE  Placed(d, s) \in Seq(Int) /\ Len(Placed(d, s)) = Len(s)
<1>1. Len(s) \in Nat /\ DOMAIN s = 1..Len(s) /\ \A m \in 1..Len(s) : s[m] \in Points
  OBVIOUS
<1>2. \A m \in 1..Len(s) : Place(d, s[m]) \in Int
  BY <1>1, PlaceIsNumber
<1>3. Placed(d, s) \in [1..Len(s) -> Int]
  BY <1>2 DEF Placed
<1> QED
  BY <1>1, <1>3, FunctionIsSequence

LEMMA PlacedJoin ==
  ASSUME NEW d \in Boxes, NEW s \in Seq(Points), NEW t \in Seq(Points)
  PROVE  Placed(d, s \o t) = Placed(d, s) \o Placed(d, t)
<1> DEFINE j == s \o t
           P == Placed(d, s)
           Q == Placed(d, t)
           R == Placed(d, j)
           n == Len(s)
           k == Len(t)
<1>1. /\ j \in Seq(Points) /\ Len(j) = n + k /\ n \in Nat /\ k \in Nat
      /\ \A i \in 1..n : j[i] = s[i]
      /\ \A i \in 1..k : j[n + i] = t[i]
  OBVIOUS
<1> HIDE DEF j, n, k
<1>2. P \in Seq(Int) /\ Len(P) = n /\ Q \in Seq(Int) /\ Len(Q) = k
  BY PlacedIs DEF n, k
<1>3. R \in Seq(Int) /\ Len(R) = n + k
  BY <1>1, PlacedIs
<1>4. /\ \A i \in 1..n : P[i] = Place(d, s[i])
      /\ \A i \in 1..k : Q[i] = Place(d, t[i])
      /\ \A i \in 1..(n + k) : R[i] = Place(d, j[i])
  BY <1>1 DEF Placed, n, k
<1> HIDE DEF P, Q, R
<1>5. /\ P \o Q \in Seq(Int) /\ Len(P \o Q) = n + k
      /\ \A i \in 1..n : (P \o Q)[i] = P[i]
      /\ \A i \in 1..k : (P \o Q)[n + i] = Q[i]
  <2>1. IsJoined(P \o Q, P, Q, Int)
    BY <1>2, JoinedIs
  <2> QED
    BY <1>2, <2>1 DEF IsJoined
<1>6. \A i \in 1..n : i \in 1..(n + k)
  BY <1>1
<1>7. \A i \in 1..k : n + i \in 1..(n + k)
  BY <1>1
<1>8. \A i \in 1..(n + k) : i \in 1..n \/ (i - n \in 1..k /\ n + (i - n) = i)
  BY <1>1
<1>9. ASSUME NEW i \in 1..(n + k) PROVE R[i] = (P \o Q)[i]
  <2>1. CASE i \in 1..n
    BY <1>1, <1>4, <1>5, <1>6, <2>1
  <2>2. CASE i - n \in 1..k /\ n + (i - n) = i
    <3> DEFINE h == i - n
    <3>1. h \in 1..k /\ n + h = i
      BY <2>2
    <3> HIDE DEF h
    <3>2. R[n + h] = Place(d, t[h]) /\ (P \o Q)[n + h] = Place(d, t[h])
      BY <1>1, <1>4, <1>5, <1>7, <3>1
    <3> QED
      BY <3>1, <3>2
  <2> QED
    BY <1>8, <2>1, <2>2
<1>10. R = P \o Q
  <2>1. DOMAIN R = 1..(n + k) /\ DOMAIN (P \o Q) = 1..(n + k)
    BY <1>3, <1>5
  <2> DEFINE J == P \o Q
  <2>2. R = [i \in 1..(n + k) |-> R[i]]
    BY <1>3, <2>1
  <2>3. J \in Seq(Int) /\ DOMAIN J = 1..(n + k)
    BY <1>5, <2>1
  <2>4. \A i \in 1..(n + k) : R[i] = J[i]
    BY <1>9
  <2> HIDE DEF J
  <2>6. J = [i \in 1..(n + k) |-> J[i]]
    BY <2>3
  <2>5. R = J
    BY <2>2, <2>4, <2>6
  <2> QED
    BY <2>5 DEF J
<1> QED
  BY <1>10 DEF P, Q, R, j

\* The cells of a box by number.
CellList(c) == [m \in 1..Volume(c.n) |-> CellNo(c, m - 1)]

LEMMA CellListIs ==
  ASSUME NEW c, Walkable(c)
  PROVE  /\ CellList(c) \in Seq(Points) /\ Elements(CellList(c)) = Cells(c)
         /\ \A d \in Boxes : Walk(NewCommPkgInfo(d, c)) = Placed(d, CellList(c))
<1> DEFINE N == Volume(c.n)
           C == CellList(c)
<1>1. N \in Nat
  <2>1. c.n[1] \in Nat \ {0} /\ c.n[2] \in Nat \ {0} /\ c.n[3] \in Nat \ {0}
    BY WalkableIs
  <2> QED
    BY <2>1 DEF Volume
<1>2. C = [m \in 1..N |-> CellNo(c, m - 1)]
  BY DEF CellList
<1> HIDE DEF N, C
<1>3. \A m \in 1..N : m - 1 \in Nat
  BY <1>1
<1>4. \A m \in 1..N : CellNo(c, m - 1) \in Points /\ CellNo(c, m - 1) \in Cells(c)
  BY <1>3, CellNoIs
<1>5. C \in [1..N -> Points]
  BY <1>2, <1>4
<1>6. C \in Seq(Points) /\ Len(C) = N
  BY <1>1, <1>5, FunctionIsSequence
<1>7. Elements(C) = Cells(c)
  <2>1. Elements(C) \subseteq Cells(c)
    BY <1>2, <1>4 DEF Elements
  <2>2. ASSUME NEW x \in Cells(c) PROVE x \in Elements(C)
    <3>1. PICK m \in 1..N : x = CellNo(c, m - 1)
      BY EveryCellHasNumber DEF N
    <3> QED
      BY <1>2, <3>1 DEF Elements
  <2> QED
    BY <2>1, <2>2
<1>8. ASSUME NEW d \in Boxes PROVE Walk(NewCommPkgInfo(d, c)) = Placed(d, C)
  <2>1. Walk(NewCommPkgInfo(d, c)) = [m \in 1..N |-> Place(d, CellNo(c, m - 1))]
    BY WalkIs DEF N
  <2> QED
    BY <1>2, <1>6, <2>1 DEF Placed
<1> QED
  BY <1>6, <1>7, <1>8 DEF C

LEMMA WalkAllUnfolds ==
  ASSUME NEW d \in Boxes, NEW s, Parcel(s)
  PROVE  \E up : /\ up[0] = <<>>
                 /\ \A k \in 1..Len(s) : up[k] = up[k - 1] \o Placed(d, CellList(s[k]))
                 /\ WalkAll(Parts(d, s)) = up[Len(s)]
<1> DEFINE n == Len(s)
           ps == Parts(d, s)
           W(k) == Placed(d, CellList(s[k]))
           X == [k \in 0..n |-> Seq(Int)]
           G == [k \in 1..n |-> [t \in Seq(Int) |-> t \o W(k)]]
           Step(k, t) == t \o Walk(ps[k])
           up == CHOOSE f : f = [k \in 0..n |-> IF k = 0 THEN <<>> ELSE Step(k, f[k - 1])]
<1>1. n \in Nat /\ DOMAIN s = 1..n /\ \A k \in 1..n : Walkable(s[k])
  BY DEF Parcel
<1>2. Len(ps) = n /\ \A k \in 1..n : ps[k] = NewCommPkgInfo(d, s[k])
  <2> DEFINE S == {NewCommPkgInfo(d, s[k]) : k \in 1..n}
  <2>1. ps \in [1..n -> S]
    BY <1>1 DEF Parts
  <2>2. Len(ps) = n
    <3> HIDE DEF S, ps, n
    <3> QED
      BY <1>1, <2>1, FunctionIsSequence
  <2> QED
    BY <1>1, <2>2 DEF Parts
<1>3. WalkAll(ps) = up[n]
  BY <1>2 DEF WalkAll
<1>4. \A k \in 1..n : W(k) \in Seq(Int) /\ Walk(ps[k]) = W(k)
  <2> TAKE k \in 1..n
  <2>1. CellList(s[k]) \in Seq(Points) /\ Walk(NewCommPkgInfo(d, s[k])) = Placed(d, CellList(s[k]))
    BY <1>1, CellListIs
  <2> QED
    BY <1>2, <2>1, PlacedIs
<1> HIDE DEF n, ps, W
<1>5. \A k \in 1..n, t \in Seq(Int) : t \o W(k) \in Seq(Int)
  BY <1>4
<1>6. \A k \in 1..n, t \in Seq(Int) : G[k][t] = t \o W(k)
  OBVIOUS
<1>7. \A k \in 0..n : X[k] = Seq(Int)
  OBVIOUS
<1> HIDE DEF X, G
<1>8. Leads(n, X, <<>>, G)
  <2>1. \A k \in 1..n : k \in 0..n /\ k - 1 \in 0..n
    BY <1>1
  <2>2. 0 \in 0..n /\ <<>> \in Seq(Int)
    BY <1>1
  <2>3. <<>> \in X[0]
    BY <1>7, <2>2
  <2>4. ASSUME NEW k \in 1..n, NEW t \in X[k - 1] PROVE G[k][t] \in X[k]
    <3>1. X[k] = Seq(Int) /\ X[k - 1] = Seq(Int)
      BY <1>7, <2>1
    <3>2. t \in Seq(Int)
      BY <3>1
    <3> QED
      BY <1>5, <1>6, <3>1, <3>2
  <2> QED
    BY <2>3, <2>4 DEF Leads
<1>9. PICK f : Follows(f, n, <<>>, G) /\ f = [k \in 0..n |-> f[k]] /\ \A k \in 0..n : f[k] \in X[k]
  BY <1>1, <1>8, Recursion
<1>10. f = [k \in 0..n |-> IF k = 0 THEN <<>> ELSE Step(k, f[k - 1])]
  <2>1. ASSUME NEW k \in 0..n PROVE f[k] = IF k = 0 THEN <<>> ELSE Step(k, f[k - 1])
    <3>1. CASE k = 0
      BY <1>9, <3>1 DEF Follows
    <3>2. CASE k # 0
      <4>1. k \in 1..n /\ k - 1 \in 0..n
        BY <1>1, <3>2
      <4>2. f[k - 1] \in Seq(Int)
        BY <1>7, <1>9, <4>1
      <4> QED
        BY <1>4, <1>6, <1>9, <3>2, <4>1, <4>2 DEF Follows
    <3> QED
      BY <3>1, <3>2
  <2> QED
    BY <1>9, <2>1
<1>11. up = [k \in 0..n |-> IF k = 0 THEN <<>> ELSE Step(k, up[k - 1])]
  <2> HIDE DEF Step
  <2> QED
    BY <1>10
<1> HIDE DEF up
<1>12. up[0] = <<>> /\ \A k \in 1..n : up[k] = up[k - 1] \o W(k)
  <2>1. 0 \in 0..n /\ \A k \in 1..n : k \in 0..n /\ k # 0
    BY <1>1
  <2> QED
    BY <1>4, <1>11, <2>1
<1> QED
  BY <1>3, <1>12 DEF n, ps, W

\* Two data spaces: the same cells in the same order, each at its place.
LEMMA WalkAllIs ==
  ASSUME NEW d \in Boxes, NEW e \in Boxes, NEW s, Parcel(s)
  PROVE  \E L \in Seq(Points) : /\ WalkAll(Parts(d, s)) = Placed(d, L)
                                /\ WalkAll(Parts(e, s)) = Placed(e, L)
                                /\ Elements(L) = CellsOf(Elements(s))
<1> DEFINE n == Len(s)
           C(k) == CellList(s[k])
           Upto(k) == UNION {Cells(s[j]) : j \in 1..k}
<1>1. n \in Nat /\ DOMAIN s = 1..n /\ \A k \in 1..n : Walkable(s[k])
  BY DEF Parcel
<1>2. PICK f : /\ f[0] = <<>> /\ \A k \in 1..n : f[k] = f[k - 1] \o Placed(d, C(k))
               /\ WalkAll(Parts(d, s)) = f[n]
  BY WalkAllUnfolds
<1>3. PICK g : /\ g[0] = <<>> /\ \A k \in 1..n : g[k] = g[k - 1] \o Placed(e, C(k))
               /\ WalkAll(Parts(e, s)) = g[n]
  BY WalkAllUnfolds
<1>4. \A k \in 1..n : C(k) \in Seq(Points) /\ Elements(C(k)) = Cells(s[k])
  BY <1>1, CellListIs
<1>5. CellsOf(Elements(s)) = Upto(n)
  BY <1>1 DEF CellsOf, Elements
<1>6. Upto(0) = {}
  OBVIOUS
<1>7. \A k \in 1..n : Upto(k) = Upto(k - 1) \cup Cells(s[k])
  <2> TAKE k \in 1..n
  <2>1. \A j : j \in 1..k <=> j \in 1..(k - 1) \/ j = k
    BY <1>1
  <2> QED
    BY <2>1
<1> HIDE DEF n, C, Upto
<1> DEFINE P == {k \in 0..n : \E L \in Seq(Points) : /\ f[k] = Placed(d, L) /\ g[k] = Placed(e, L)
                                                     /\ Elements(L) = Upto(k)}
<1>8. 0 \in P
  <2>1. <<>> \in Seq(Points) /\ Elements(<<>>) = {} /\ 0 \in 0..n
    BY <1>1 DEF Elements
  <2>2. Placed(d, <<>>) = <<>> /\ Placed(e, <<>>) = <<>>
    BY DEF Placed
  <2> QED
    BY <1>2, <1>3, <1>6, <2>1, <2>2
<1>9. ASSUME NEW k \in 1..n, k - 1 \in P PROVE k \in P
  <2>1. PICK L \in Seq(Points) : /\ f[k - 1] = Placed(d, L) /\ g[k - 1] = Placed(e, L)
                                 /\ Elements(L) = Upto(k - 1)
    BY <1>9
  <2> DEFINE K == L \o C(k)
  <2>2. K \in Seq(Points) /\ Elements(K) = Upto(k)
    <3>1. C(k) \in Seq(Points) /\ Elements(C(k)) = Cells(s[k]) /\ Upto(k) = Upto(k - 1) \cup Cells(s[k])
      BY <1>4, <1>7
    <3> DEFINE c == C(k)
    <3> HIDE DEF c
    <3>2. c \in Seq(Points)
      BY <3>1 DEF c
    <3>3. L \o c \in Seq(Points) /\ Elements(L \o c) = Elements(L) \cup Elements(c)
      BY <3>2, ElementsJoin
    <3> QED
      BY <2>1, <3>1, <3>3 DEF c
  <2>3. f[k] = Placed(d, K) /\ g[k] = Placed(e, K)
    BY <1>2, <1>3, <1>4, <2>1, PlacedJoin
  <2>4. k \in 0..n
    BY <1>1
  <2> HIDE DEF K
  <2> QED
    BY <2>2, <2>3, <2>4
<1> HIDE DEF P
<1>10. n \in P
  <2>1. \A k \in 0..n : k \in P
    BY <1>1, <1>8, <1>9, Induction
  <2> QED
    BY <1>1, <2>1
<1>11. PICK L \in Seq(Points) : f[n] = Placed(d, L) /\ g[n] = Placed(e, L) /\ Elements(L) = Upto(n)
  BY <1>10 DEF P
<1> QED
  BY <1>2, <1>3, <1>5, <1>11

-----------------------------------------------------------------------------
(* What a package sends and receives.                                       *)

LEMMA ProjectedWalkable ==
  ASSUME NEW b \in Boxes, NEW off \in Offsets, NEW d \in ProjectSubgrid(b, 2, off)
  PROVE  Walkable(d)
<1> DEFINE lo(a) == FirstOf(b.i[a], off[a])
           n(a) == CountOf(b.i[a], b.n[a], off[a])
           box == [b EXCEPT !.i = <<lo(1), lo(2), lo(3)>>, !.n = <<n(1), n(2), n(3)>>, !.s = <<2, 2, 2>>]
<1>1. ProjectSubgrid(b, 2, off) = IF \A a \in Axis : n(a) > 0 THEN {box} ELSE {}
  BY DEF ProjectSubgrid, Each, FirstOf, CountOf
<1>2. d = box /\ \A a \in Axis : n(a) > 0
  BY <1>1
<1>3. \A a \in Axis : b.i[a] \in Int /\ b.n[a] \in Int /\ off[a] \in {0, 1}
  BY BoxFacts DEF Offsets
<1>4. \A a \in Axis : lo(a) \in Int /\ n(a) \in Int
  BY <1>3, EvenLine
<1> HIDE DEF lo, n
<1>5. d.i = <<lo(1), lo(2), lo(3)>> /\ d.n = <<n(1), n(2), n(3)>> /\ d.s = <<2, 2, 2>>
  BY <1>2 DEF Boxes
<1>6. \A a \in Axis : d.i[a] = lo(a) /\ d.n[a] = n(a) /\ d.s[a] = 2
  BY <1>5, AxesAre
<1> QED
  BY <1>2, <1>4, <1>6 DEF Walkable

LEMMA OneProjection ==
  ASSUME NEW x, NEW off
  PROVE  \A b, c \in ProjectSubgrid(x, 2, off) : b = c
<1> DEFINE lo(a) == FirstOf(x.i[a], off[a])
           n(a) == CountOf(x.i[a], x.n[a], off[a])
           box == [x EXCEPT !.i = <<lo(1), lo(2), lo(3)>>, !.n = <<n(1), n(2), n(3)>>, !.s = <<2, 2, 2>>]
<1>1. ProjectSubgrid(x, 2, off) = IF \A a \in Axis : n(a) > 0 THEN {box} ELSE {}
  BY DEF ProjectSubgrid, Each, FirstOf, CountOf
<1> HIDE DEF box, n
<1> QED
  BY <1>1

\* ProjectRegion: the list has every box that has points of the colour.
LEMMA ProjectSeqHasAll ==
  ASSUME NEW boxes \in Seq(Boxes), NEW off
  PROVE  LET D == UNION {ProjectSubgrid(boxes[k], 2, off) : k \in DOMAIN boxes}
         IN ProjectSeq(boxes, off) \in Seq(D) /\ Elements(ProjectSeq(boxes, off)) = D
<1> DEFINE n == Len(boxes)
           proj(k) == ProjectSubgrid(boxes[k], 2, off)
           D == UNION {proj(k) : k \in DOMAIN boxes}
           Upto(k) == UNION {proj(j) : j \in 1..k}
           Step(k, s) == IF proj(k) = {} THEN s ELSE Append(s, CHOOSE b \in proj(k) : TRUE)
           X == [k \in 0..n |-> Seq(D)]
           G == [k \in 1..n |-> [s \in Seq(D) |-> Step(k, s)]]
           up == CHOOSE f : f = [k \in 0..n |-> IF k = 0 THEN <<>> ELSE Step(k, f[k - 1])]
<1>1. n \in Nat /\ DOMAIN boxes = 1..n
  OBVIOUS
<1>2. ProjectSeq(boxes, off) = up[n]
  BY DEF ProjectSeq
<1>3. \A k \in 1..n : proj(k) \subseteq D
  BY <1>1
<1>a. D = Upto(n) /\ Upto(0) = {}
  BY <1>1
<1>b. \A k \in 1..n : Upto(k) = Upto(k - 1) \cup proj(k)
  <2> TAKE k \in 1..n
  <2>1. \A j : j \in 1..k <=> j \in 1..(k - 1) \/ j = k
    BY <1>1
  <2> QED
    BY <2>1
<1>c. ASSUME NEW k PROVE \A b, c \in proj(k) : b = c
  <2> DEFINE x == boxes[k]
  <2> HIDE DEF x
  <2>1. \A b, c \in ProjectSubgrid(x, 2, off) : b = c
    BY OneProjection
  <2> QED
    BY <2>1 DEF x
<1> HIDE DEF n, proj, D, Upto
<1>4. \A k \in 1..n, s \in Seq(D) : Step(k, s) \in Seq(D) /\ Elements(Step(k, s)) = Elements(s) \cup proj(k)
  <2> TAKE k \in 1..n, s \in Seq(D)
  <2>1. CASE proj(k) = {}
    BY <2>1
  <2>2. CASE proj(k) # {}
    <3> DEFINE c == CHOOSE b \in proj(k) : TRUE
    <3>1. c \in D /\ c \in proj(k)
      BY <1>3, <2>2
    <3>2. Step(k, s) = Append(s, c)
      BY <2>2
    <3>3. proj(k) = {c}
      BY <1>c, <3>1
    <3> HIDE DEF c, Step
    <3>4. Append(s, c) \in Seq(D) /\ Elements(Append(s, c)) = Elements(s) \cup {c}
      BY <3>1, AppendIs
    <3> QED
      BY <3>2, <3>3, <3>4
  <2> QED
    BY <2>1, <2>2
<1> HIDE DEF Step
<1>5. \A k \in 1..n, s \in Seq(D) : G[k][s] = Step(k, s)
  OBVIOUS
<1>6. \A k \in 0..n : X[k] = Seq(D)
  OBVIOUS
<1> HIDE DEF X, G
<1>7. Leads(n, X, <<>>, G)
  <2>1. \A k \in 1..n : k \in 0..n /\ k - 1 \in 0..n
    BY <1>1
  <2>2. 0 \in 0..n /\ <<>> \in Seq(D)
    BY <1>1
  <2>3. <<>> \in X[0]
    BY <1>6, <2>2
  <2>4. ASSUME NEW k \in 1..n, NEW s \in X[k - 1] PROVE G[k][s] \in X[k]
    BY <1>4, <1>5, <1>6, <2>1
  <2> QED
    BY <2>3, <2>4 DEF Leads
<1>8. PICK f : Follows(f, n, <<>>, G) /\ f = [k \in 0..n |-> f[k]] /\ \A k \in 0..n : f[k] \in X[k]
  BY <1>1, <1>7, Recursion
<1>9. f = [k \in 0..n |-> IF k = 0 THEN <<>> ELSE Step(k, f[k - 1])]
  <2>1. ASSUME NEW k \in 0..n PROVE f[k] = IF k = 0 THEN <<>> ELSE Step(k, f[k - 1])
    <3>1. CASE k = 0
      BY <1>8, <3>1 DEF Follows
    <3>2. CASE k # 0
      <4>1. k \in 1..n /\ k - 1 \in 0..n
        BY <1>1, <3>2
      <4>2. f[k - 1] \in Seq(D)
        BY <1>6, <1>8, <4>1
      <4> QED
        BY <1>5, <1>8, <3>2, <4>1, <4>2 DEF Follows
    <3> QED
      BY <3>1, <3>2
  <2> QED
    BY <1>8, <2>1
<1>10. up = [k \in 0..n |-> IF k = 0 THEN <<>> ELSE Step(k, up[k - 1])]
  BY <1>9
<1> HIDE DEF up
<1>11. up[n] \in Seq(D) /\ Elements(up[n]) = Upto(n)
  <2> DEFINE P == {k \in 0..n : up[k] \in Seq(D) /\ Elements(up[k]) = Upto(k)}
  <2>1. 0 \in P
    <3>1. 0 \in 0..n /\ up[0] = <<>> /\ <<>> \in Seq(D) /\ Elements(<<>>) = {}
      BY <1>1, <1>10 DEF Elements
    <3> QED
      BY <1>a, <3>1
  <2>2. ASSUME NEW k \in 1..n, k - 1 \in P PROVE k \in P
    <3>1. k \in 0..n /\ k # 0 /\ k - 1 \in 0..n
      BY <1>1
    <3>2. up[k] = Step(k, up[k - 1])
      BY <1>10, <3>1
    <3>3. up[k - 1] \in Seq(D) /\ Elements(up[k - 1]) = Upto(k - 1)
      BY <2>2
    <3> DEFINE t == up[k - 1]
    <3> HIDE DEF t
    <3>4. t \in Seq(D)
      BY <3>3 DEF t
    <3>5. Step(k, t) \in Seq(D) /\ Elements(Step(k, t)) = Elements(t) \cup proj(k)
      BY <1>4, <3>4
    <3>6. up[k] \in Seq(D) /\ Elements(up[k]) = Upto(k - 1) \cup proj(k)
      BY <3>2, <3>3, <3>5 DEF t
    <3> QED
      BY <1>b, <3>1, <3>6
  <2> HIDE DEF P
  <2>3. \A k \in 0..n : k \in P
    BY <1>1, <2>1, <2>2, Induction
  <2>4. n \in P
    BY <1>1, <2>3
  <2> QED
    BY <2>4 DEF P
<1> QED
  BY <1>2, <1>11, <1>a DEF D, proj

\* ProjectRB: the boxes of the four offsets, one after the other.
LEMMA ProjectRBHasAll ==
  ASSUME NEW boxes \in Seq(Boxes), NEW colour, Palette(colour)
  PROVE  /\ Parcel(ProjectRB(boxes, colour))
         /\ \A x : x \in CellsOf(Elements(ProjectRB(boxes, colour)))
                     <=> x \in Points /\ Covers(Elements(boxes), x) /\ Bright(x, colour)
<1> DEFINE E(i) == UNION {ProjectSubgrid(boxes[k], 2, colour[i]) : k \in DOMAIN boxes}
           D == E(1) \cup E(2) \cup E(3) \cup E(4)
           s(i) == ProjectSeq(boxes, colour[i])
           r == ProjectRB(boxes, colour)
<1>1. \A i \in 1..4 : s(i) \in Seq(E(i)) /\ Elements(s(i)) = E(i)
  BY ProjectSeqHasAll
<1>2. r = s(1) \o s(2) \o s(3) \o s(4)
  BY DEF ProjectRB
<1>3. \A d : d \in D <=> \E j \in DOMAIN boxes, i \in 1..4 : d \in ProjectSubgrid(boxes[j], 2, colour[i])
  <2>1. \A i : i \in 1..4 <=> i = 1 \/ i = 2 \/ i = 3 \/ i = 4
    OBVIOUS
  <2> QED
    BY <2>1
<1>4. r \in Seq(D) /\ Elements(r) = D
  <2> HIDE DEF s, E
  <2>1. /\ E(1) \subseteq D /\ E(2) \subseteq D /\ E(3) \subseteq D /\ E(4) \subseteq D
        /\ D = E(1) \cup E(2) \cup E(3) \cup E(4)
    OBVIOUS
  <2> HIDE DEF D
  <2>2. s(1) \in Seq(D) /\ s(2) \in Seq(D) /\ s(3) \in Seq(D) /\ s(4) \in Seq(D)
    BY <1>1, <2>1
  <2> DEFINE t == s(1) \o s(2)
             u == t \o s(3)
             v == u \o s(4)
  <2>3. t \in Seq(D) /\ Elements(t) = Elements(s(1)) \cup Elements(s(2))
    BY <2>2, ElementsJoin
  <2>7. r = v
    BY <1>2
  <2> HIDE DEF t
  <2>4. u \in Seq(D) /\ Elements(u) = Elements(t) \cup Elements(s(3))
    BY <2>2, <2>3, ElementsJoin
  <2> HIDE DEF u
  <2>5. v \in Seq(D) /\ Elements(v) = Elements(u) \cup Elements(s(4))
    BY <2>2, <2>4, ElementsJoin
  <2> HIDE DEF v, r
  <2>6. Elements(s(1)) = E(1) /\ Elements(s(2)) = E(2) /\ Elements(s(3)) = E(3) /\ Elements(s(4)) = E(4)
    BY <1>1
  <2> QED
    BY <2>1, <2>3, <2>4, <2>5, <2>6, <2>7
<1> HIDE DEF D, r
<1>5. \A j \in DOMAIN boxes, i \in 1..4 : boxes[j] \in Boxes /\ colour[i] \in Offsets
  BY DEF Palette
<1>6. \A d \in D : Walkable(d)
  BY <1>3, <1>5, ProjectedWalkable
<1>7. Parcel(r)
  BY <1>4, <1>6 DEF Parcel
<1>8. ASSUME NEW x
      PROVE  x \in CellsOf(D) <=> x \in Points /\ Covers(Elements(boxes), x) /\ Bright(x, colour)
  <2>1. x \in CellsOf(D) <=> \E j \in DOMAIN boxes, i \in 1..4 :
                               \E d \in ProjectSubgrid(boxes[j], 2, colour[i]) : x \in Cells(d)
    BY <1>3 DEF CellsOf
  <2>2. x \in CellsOf(D) <=> \E j \in DOMAIN boxes, i \in 1..4 :
                               x \in Points /\ Within(boxes[j], x) /\ Class(x, colour[i])
    BY <1>5, <2>1, ProjectIs
  <2>3. Covers(Elements(boxes), x) <=> \E j \in DOMAIN boxes : Within(boxes[j], x)
    BY DEF Covers, Elements
  <2> QED
    BY <2>2, <2>3 DEF Bright
<1> QED
  BY <1>4, <1>7, <1>8 DEF r

\* ProjectRBPoint on a send or receive region.
LEMMA ColouredRegionIs ==
  ASSUME NEW region, \A p \in DOMAIN region : region[p] \in Seq(Boxes), NEW colour, Palette(colour)
  PROVE  LET reg == ProjectRBRegion(region, colour)
         IN /\ \A p \in DOMAIN reg : Parcel(reg[p])
            /\ \A x : x \in CellsOf(AllBoxes(reg))
                        <=> x \in Points /\ Covers(AllBoxes(region), x) /\ Bright(x, colour)
<1> DEFINE reg == ProjectRBRegion(region, colour)
           rb(p) == ProjectRB(region[p], colour)
<1>1. /\ \A p : p \in DOMAIN reg <=> p \in DOMAIN region /\ rb(p) # <<>>
      /\ \A p \in DOMAIN reg : reg[p] = rb(p)
  BY DEF ProjectRBRegion
<1> HIDE DEF reg
<1>2. \A p \in DOMAIN region : /\ Parcel(rb(p))
                               /\ \A x : x \in CellsOf(Elements(rb(p)))
                                           <=> x \in Points /\ Covers(Elements(region[p]), x) /\ Bright(x, colour)
  BY ProjectRBHasAll
<1> HIDE DEF rb
<1>3. \A p \in DOMAIN reg : Parcel(reg[p])
  BY <1>1, <1>2
<1>4. \A p \in DOMAIN region : rb(p) = <<>> => CellsOf(Elements(rb(p))) = {}
  BY DEF CellsOf, Elements
<1>5. ASSUME NEW x
      PROVE  x \in CellsOf(AllBoxes(reg)) <=> \E p \in DOMAIN region : x \in CellsOf(Elements(rb(p)))
  <2>1. x \in CellsOf(AllBoxes(reg)) <=> \E p \in DOMAIN reg : x \in CellsOf(Elements(reg[p]))
    BY DEF CellsOf, AllBoxes, Elements
  <2> QED
    BY <1>1, <1>4, <2>1
<1>6. \A x : Covers(AllBoxes(region), x) <=> \E p \in DOMAIN region : Covers(Elements(region[p]), x)
  BY DEF Covers, AllBoxes, Elements
<1>7. \A x : x \in CellsOf(AllBoxes(reg))
               <=> x \in Points /\ Covers(AllBoxes(region), x) /\ Bright(x, colour)
  BY <1>2, <1>5, <1>6
<1> QED
  BY <1>3, <1>7 DEF reg

\* The stencil of the deck's mode reaches x from m.
Wanted(m, grid, x) ==
  /\ Communicated(x) /\ ~Within(m, x) /\ Covers(grid, x)
  /\ \E e \in Stencil(deck.mode) : Within(m, Moved(x, e))

\* The package k sends cells of m, and receives those the stencil reaches from m.
RightPackage(k, m, grid) ==
  /\ \A p \in DOMAIN k.send : Parcel(k.send[p])
  /\ \A p \in DOMAIN k.recv : Parcel(k.recv[p])
  /\ \A x \in CellsOf(AllBoxes(k.send)) : x \in Points /\ Within(m, x)
  /\ \A x : x \in CellsOf(AllBoxes(k.recv)) <=> x \in Points /\ Wanted(m, grid, x)

LEMMA SolidIsWalkable ==
  ASSUME NEW b \in Boxes, Solid(b)
  PROVE  Walkable(b)
<1>1. \A a \in Axis : b.i[a] \in Int /\ b.n[a] \in Int /\ b.n[a] > 0 /\ b.s[a] = 1
  BY BoxFacts DEF Solid
<1> QED
  BY <1>1 DEF Walkable

LEMMA PlainRegionIs ==
  ASSUME NEW region, \A p \in DOMAIN region : region[p] \in Seq(Boxes), Plain(AllBoxes(region))
  PROVE  /\ \A p \in DOMAIN region : Parcel(region[p])
         /\ \A x : x \in CellsOf(AllBoxes(region)) <=> x \in Points /\ Covers(AllBoxes(region), x)
<1>1. AllBoxes(region) \subseteq Boxes /\ \A b \in AllBoxes(region) : Solid(b)
  BY DEF Plain
<1>2. ASSUME NEW p \in DOMAIN region PROVE Parcel(region[p])
  <2>1. \A k \in DOMAIN region[p] : region[p][k] \in AllBoxes(region)
    BY DEF AllBoxes
  <2>2. \A k \in DOMAIN region[p] : Walkable(region[p][k])
    BY <1>1, <2>1, SolidIsWalkable
  <2>3. region[p] \in Seq(Boxes)
    OBVIOUS
  <2> DEFINE s == region[p]
  <2> HIDE DEF s
  <2>4. Len(s) \in Nat /\ DOMAIN s = 1..Len(s)
    BY <2>3 DEF s
  <2> QED
    BY <2>2, <2>4 DEF Parcel, s
<1>3. \A x : x \in CellsOf(AllBoxes(region)) <=> x \in Points /\ Covers(AllBoxes(region), x)
  BY <1>1, CoveredCells
<1> QED
  BY <1>2, <1>3

LEMMA PackageIsRight ==
  ASSUME NEW grid \in SUBSET Boxes, IsFiniteSet(grid), NEW m \in grid, deck.mode \in Modes
  PROVE  RightPackage(ComputePkg(m, grid, deck.mode), m, grid)
<1> DEFINE st == Stencil(deck.mode)
           comm == CommRegFromStencil(m, grid, st)
           pk == ComputePkg(m, grid, deck.mode)
           near == GetGridNeighbors(m, grid, st)
           send == AllBoxes(comm.send)
           recv == AllBoxes(comm.recv)
<1>1. Symmetric(st) /\ IsFiniteSet(st) /\ m \in Boxes
  BY StencilsAreSymmetric, StencilsAreFinite
<1>2. /\ deck.mode = "RPoint" =>
           pk.send = ProjectRBRegion(comm.send, Black) /\ pk.recv = ProjectRBRegion(comm.recv, Black)
      /\ deck.mode = "BPoint" =>
           pk.send = ProjectRBRegion(comm.send, Red) /\ pk.recv = ProjectRBRegion(comm.recv, Red)
      /\ deck.mode \notin {"RPoint", "BPoint"} => pk.send = comm.send /\ pk.recv = comm.recv
  BY DEF ComputePkg
<1>3. \A x : Wanted(m, grid, x) <=> /\ Communicated(x) /\ ~Within(m, x) /\ Covers(grid, x)
                                    /\ \E e \in st : Within(m, Moved(x, e))
  BY DEF Wanted
<1> HIDE DEF st
<1>4. /\ Plain(send) /\ Plain(recv)
      /\ \A p \in DOMAIN comm.send : comm.send[p] \in Seq(Boxes)
      /\ \A p \in DOMAIN comm.recv : comm.recv[p] \in Seq(Boxes)
      /\ \A x \in Points : Covers(send, x) <=>
           \E b \in near, e \in st : Within(m, x) /\ Within(b, Minus(x, e)) /\ ~Within(b, x)
      /\ \A x \in Points : Covers(recv, x) <=>
           \E b \in near, e \in st : Within(b, x) /\ Within(m, Minus(x, e)) /\ ~Within(m, x)
  BY <1>1, RegionsAre DEF Symmetric
<1>5. \A b : b \in near <=> b \in grid /\ Reaches(b, m, st)
  <2>1. st \in SUBSET Points
    BY <1>1 DEF Symmetric
  <2> QED
    BY <1>1, <2>1, ShiftedReaches DEF GetGridNeighbors
<1> HIDE DEF comm, pk, near
<1>6. ASSUME NEW x \in Points
      PROVE  Covers(recv, x) <=> /\ ~Within(m, x) /\ Covers(grid, x)
                                 /\ \E e \in st : Within(m, Moved(x, e))
  <2>1. \A e \in st : /\ e \in Points /\ Opposite(e) \in st
                      /\ Minus(x, Opposite(e)) = Moved(x, e)
    BY <1>1, MovedIs DEF Symmetric
  <2>2. \A e \in st : Moved(x, Opposite(e)) = Minus(x, e)
    <3> TAKE e \in st
    <3>1. e \in Points /\ Opposite(e) \in Points
      BY <2>1, MinusIs
    <3>2. PICK e1 \in Int, e2 \in Int, e3 \in Int : e = <<e1, e2, e3>>
      BY <3>1 DEF Points
    <3>3. PICK x1 \in Int, x2 \in Int, x3 \in Int : x = <<x1, x2, x3>>
      BY DEF Points
    <3>4. Moved(x, Opposite(e)) = <<x1 + (-e1), x2 + (-e2), x3 + (-e3)>>
      BY <3>2, <3>3 DEF Moved, Each, Opposite
    <3>5. Minus(x, e) = <<x1 - e1, x2 - e2, x3 - e3>>
      BY <3>2, <3>3 DEF Minus
    <3>6. x1 + (-e1) = x1 - e1 /\ x2 + (-e2) = x2 - e2 /\ x3 + (-e3) = x3 - e3
      OBVIOUS
    <3> QED
      BY <3>4, <3>5, <3>6
  <2>3. (\E e \in st : Within(m, Moved(x, e))) <=> \E e \in st : Within(m, Minus(x, e))
    BY <2>1, <2>2
  <2>4. \A b \in grid, e \in st : Within(b, x) /\ Within(m, Minus(x, e)) /\ ~Within(m, x) => b \in near
    BY <1>5 DEF Reaches
  <2> HIDE DEF recv
  <2> QED
    BY <1>4, <1>5, <2>3, <2>4 DEF Covers
<1>7. \A x \in Points : Covers(send, x) => Within(m, x)
  BY <1>4
<1>8. ASSUME NEW colour, Palette(colour), \A x \in Points : Bright(x, colour) <=> Communicated(x),
             pk.send = ProjectRBRegion(comm.send, colour), pk.recv = ProjectRBRegion(comm.recv, colour)
      PROVE  RightPackage(pk, m, grid)
  <2>1. /\ \A p \in DOMAIN pk.send : Parcel(pk.send[p])
        /\ \A x : x \in CellsOf(AllBoxes(pk.send)) <=> x \in Points /\ Covers(send, x) /\ Bright(x, colour)
    BY <1>4, <1>8, ColouredRegionIs
  <2>2. /\ \A p \in DOMAIN pk.recv : Parcel(pk.recv[p])
        /\ \A x : x \in CellsOf(AllBoxes(pk.recv)) <=> x \in Points /\ Covers(recv, x) /\ Bright(x, colour)
    BY <1>4, <1>8, ColouredRegionIs
  <2> HIDE DEF send, recv
  <2>3. \A x \in CellsOf(AllBoxes(pk.send)) : x \in Points /\ Within(m, x)
    BY <1>7, <2>1
  <2>4. \A x : x \in CellsOf(AllBoxes(pk.recv)) <=> x \in Points /\ Wanted(m, grid, x)
    BY <1>3, <1>6, <1>8, <2>2
  <2> QED
    BY <2>1, <2>2, <2>3, <2>4 DEF RightPackage
<1>9. CASE deck.mode = "RPoint"
  <2>1. \A x : Communicated(x) <=> Even(x)
    BY <1>9 DEF Communicated
  <2>2. Palette(Black) /\ \A x \in Points : Bright(x, Black) <=> Communicated(x)
    BY <2>1, ColoursAre
  <2> QED
    BY <1>2, <1>8, <1>9, <2>2 DEF pk
<1>10. CASE deck.mode = "BPoint"
  <2>1. \A x : Communicated(x) <=> ~Even(x)
    BY <1>10 DEF Communicated
  <2>2. Palette(Red) /\ \A x \in Points : Bright(x, Red) <=> Communicated(x)
    BY <2>1, ColoursAre
  <2> QED
    BY <1>2, <1>8, <1>10, <2>2 DEF pk
<1>11. CASE deck.mode \notin {"RPoint", "BPoint"}
  <2>1. \A x : Communicated(x)
    BY <1>11 DEF Communicated
  <2>2. pk.send = comm.send /\ pk.recv = comm.recv
    BY <1>2, <1>11
  <2>3. /\ \A p \in DOMAIN pk.send : Parcel(pk.send[p])
        /\ \A x : x \in CellsOf(AllBoxes(pk.send)) <=> x \in Points /\ Covers(send, x)
    BY <1>4, <2>2, PlainRegionIs
  <2>4. /\ \A p \in DOMAIN pk.recv : Parcel(pk.recv[p])
        /\ \A x : x \in CellsOf(AllBoxes(pk.recv)) <=> x \in Points /\ Covers(recv, x)
    BY <1>4, <2>2, PlainRegionIs
  <2> HIDE DEF send, recv
  <2>5. \A x \in CellsOf(AllBoxes(pk.send)) : x \in Points /\ Within(m, x)
    BY <1>7, <2>3
  <2>6. \A x : x \in CellsOf(AllBoxes(pk.recv)) <=> x \in Points /\ Wanted(m, grid, x)
    BY <1>3, <1>6, <2>1, <2>4
  <2>7. RightPackage(pk, m, grid)
    BY <2>3, <2>4, <2>5, <2>6 DEF RightPackage
  <2> QED
    BY <2>7 DEF pk
<1> QED
  BY <1>9, <1>10, <1>11

-----------------------------------------------------------------------------
(* An update of the vector.                                                 *)

\* A deck for which the update is claimed to be complete: the vector has the ghost
\* layers its mode needs, and subgrids given one by one are on ranks of the run.
GhostDeck(dk) ==
  /\ FittingDeck(dk)
  /\ dk.ghost \in Nat
  /\ \A e \in Stencil(dk.mode), a \in Axis : -dk.ghost <= e[a] /\ e[a] <= dk.ghost
  /\ dk.boxes # <<>> => \A b \in Elements(dk.boxes) :
                          b.p \in 0..(dk.procs - 1) /\ \A a \in Axis : b.n[a] >= 0

\* A subgrid of a rank of the run.
Placeable(b) == b \in Boxes /\ b.p \in Ranks /\ \A a \in Axis : b.n[a] >= 0

LEMMA GhostLayers ==
  ASSUME GhostDeck(deck)
  PROVE  deck.ghost \in Nat \ {0}
<1>1. <<1, 0, 0>> \in Stencil(deck.mode)
  BY StencilsReachFaces DEF Star, GhostDeck, FittingDeck
<1>2. <<1, 0, 0>>[1] <= deck.ghost
  BY <1>1, AxesAre DEF GhostDeck
<1> QED
  BY <1>2 DEF GhostDeck

\* NewTempVector: the data space has room for the subgrid and its ghost layers.
LEMMA DataSpaceIs ==
  ASSUME GhostDeck(deck), NEW b, Placeable(b)
  PROVE  LET d == DataSpace(b)
         IN /\ d \in Boxes /\ Solid(d)
            /\ \A a \in Axis : d.i[a] = b.i[a] - deck.ghost /\ Upper(d, a) = Upper(b, a) + deck.ghost
            /\ \A x \in Points : Within(b, x) => Within(d, x)
<1> DEFINE g == deck.ghost
           d == DataSpace(b)
<1>1. g \in Nat \ {0}
  BY GhostLayers
<1>2. \A a \in Axis : b.i[a] \in Int /\ b.n[a] \in Int /\ b.n[a] >= 0
  BY BoxFacts DEF Placeable
<1>3. /\ b.i[1] \in Int /\ b.i[2] \in Int /\ b.i[3] \in Int
      /\ b.n[1] \in Int /\ b.n[2] \in Int /\ b.n[3] \in Int
  BY <1>2, AxesAre
<1> DEFINE i == <<b.i[1] - g, b.i[2] - g, b.i[3] - g>>
           n == <<b.n[1] + 2 * g, b.n[2] + 2 * g, b.n[3] + 2 * g>>
<1>4. d = [b EXCEPT !.i = i, !.n = n]
  BY DEF DataSpace, Each
<1>5. b \in Boxes
  BY DEF Placeable
<1>6. i \in Triples /\ n \in Triples
  BY <1>1, <1>3, TripleIs
<1> HIDE DEF i, n, d
<1>7. d \in Boxes /\ d.i = i /\ d.n = n
  BY <1>4, <1>5, <1>6 DEF Boxes
<1>8. \A a \in Axis : i[a] = b.i[a] - g /\ n[a] = b.n[a] + 2 * g
  BY AxesAre DEF i, n
<1> HIDE DEF g
<1>9. \A a \in Axis : d.n[a] > 0
  BY <1>1, <1>2, <1>7, <1>8
<1>10. \A a \in Axis : d.i[a] = b.i[a] - g /\ Upper(d, a) = Upper(b, a) + g
  BY <1>1, <1>2, <1>7, <1>8 DEF Upper
<1>11. ASSUME NEW x \in Points, Within(b, x) PROVE Within(d, x)
  BY <1>1, <1>2, <1>10, <1>11, PointFacts DEF Within, Upper
<1> QED
  BY <1>7, <1>9, <1>10, <1>11 DEF Solid, d, g

\* The ghost layers hold every cell that the stencil reaches.
LEMMA WantedWithin ==
  ASSUME GhostDeck(deck), NEW b, Placeable(b), NEW grid, NEW x \in Points, Wanted(b, grid, x)
  PROVE  Within(DataSpace(b), x)
<1> DEFINE g == deck.ghost
           d == DataSpace(b)
<1>1. PICK e \in Stencil(deck.mode) : Within(b, Moved(x, e))
  BY DEF Wanted
<1>2. \A a \in Axis : -g <= e[a] /\ e[a] <= g
  BY <1>1 DEF GhostDeck
<1>3. e \in Points
  BY <1>1, StencilsAreSymmetric DEF Symmetric, GhostDeck, FittingDeck
<1>4. \A a \in Axis : Moved(x, e)[a] = x[a] + e[a]
  BY AxesAre DEF Moved, Each
<1>5. \A a \in Axis : d.i[a] = b.i[a] - g /\ Upper(d, a) = Upper(b, a) + g
  BY DataSpaceIs
<1>6. \A a \in Axis : x[a] \in Int /\ e[a] \in Int /\ b.i[a] \in Int /\ Upper(b, a) \in Int
  BY <1>3, PointFacts, BoxFacts DEF Placeable
<1>7. g \in Nat
  BY DEF GhostDeck
<1> HIDE DEF d, g
<1> SUFFICES ASSUME NEW a \in Axis PROVE d.i[a] <= x[a] /\ x[a] < Upper(d, a)
  BY DEF Within, d
<1>8. b.i[a] <= x[a] + e[a] /\ x[a] + e[a] < Upper(b, a)
  BY <1>1, <1>4 DEF Within
<1> QED
  BY <1>2, <1>5, <1>6, <1>7, <1>8

LEMMA NeededIs ==
  ASSUME all \subseteq Boxes, NEW r, Mine(r) \in Boxes, deck.mode \in Modes
  PROVE  \A x : x \in Needed(r) <=> x \in Points /\ Wanted(Mine(r), all, x)
<1> DEFINE m == Mine(r)
           st == Stencil(deck.mode)
<1>1. \A x : x \in CellsOf(all) <=> x \in Points /\ Covers(all, x)
  BY CoveredCells
<1>2. \A x : x \in Cells(m) <=> x \in Points /\ Within(m, x)
  BY CellsAre
<1>3. st \subseteq Points
  BY StencilsAreSymmetric DEF Symmetric
<1>4. \A x \in Points, e \in st : Moved(x, e) \in Points
  BY <1>3, MovedIs
<1>5. \A x : x \in Needed(r) <=> /\ x \in CellsOf(all) /\ x \notin Cells(m) /\ Communicated(x)
                                /\ \E e \in st : Moved(x, e) \in Cells(m)
  BY DEF Needed
<1> HIDE DEF m, st
<1>6. \A x : Wanted(m, all, x) <=> /\ Communicated(x) /\ ~Within(m, x) /\ Covers(all, x)
                                  /\ \E e \in st : Within(m, Moved(x, e))
  BY DEF Wanted, st
<1> QED
  BY <1>1, <1>2, <1>4, <1>5, <1>6 DEF m

\* Before the update: a rank's own cells are at their places.
LEMMA FreshDataIs ==
  ASSUME GhostDeck(deck), NEW r, Placeable(Mine(r)), NEW x \in Points, Within(Mine(r), x)
  PROVE  FreshData(r)[Place(DataSpace(Mine(r)), x)] = x
<1> DEFINE d == DataSpace(Mine(r))
           k == Place(d, x)
<1>1. d \in Boxes /\ Solid(d) /\ Within(d, x)
  BY DataSpaceIs
<1>2. k \in 0..(Volume(d.n) - 1) /\ CellAt(d, k) = x
  BY <1>1, PlaceIs
<1>3. x \in Cells(Mine(r))
  BY CellsAre DEF Placeable
<1> HIDE DEF k
<1>4. FreshData(r)[k] = IF CellAt(d, k) \in Cells(Mine(r)) THEN CellAt(d, k) ELSE Stale
  BY <1>2 DEF FreshData
<1> QED
  BY <1>2, <1>3, <1>4 DEF k

\* The messages of a package come from processes that have subgrids.
LEMMA SendersHaveSubgrids ==
  ASSUME NEW m, NEW grid, NEW mode
  PROVE  DOMAIN ComputePkg(m, grid, mode).recv \subseteq Processes(grid)
<1> DEFINE comm == CommRegFromStencil(m, grid, Stencil(mode))
           near == GetGridNeighbors(m, grid, Stencil(mode))
           pk == ComputePkg(m, grid, mode)
<1>1. near \subseteq grid
  BY DEF GetGridNeighbors
<1>2. comm.recv = ByProcess([p \in Processes(near) |->
                    UNION {Clipped(b, Shifted(m, Stencil(mode))) : b \in On(near, p)}])
  BY DEF CommRegFromStencil
<1>3. DOMAIN comm.recv \subseteq Processes(near)
  BY <1>2 DEF ByProcess
<1>4. Processes(near) \subseteq Processes(grid)
  BY <1>1 DEF Processes
<1>5. \/ pk.recv = comm.recv \/ \E colour : pk.recv = ProjectRBRegion(comm.recv, colour)
  <2>1. CASE mode = "RPoint"
    BY <2>1 DEF ComputePkg
  <2>2. CASE mode = "BPoint"
    BY <2>2 DEF ComputePkg
  <2>3. CASE mode \notin {"RPoint", "BPoint"}
    BY <2>3 DEF ComputePkg
  <2> QED
    BY <2>1, <2>2, <2>3
<1> HIDE DEF comm, pk, near
<1>6. \A colour : DOMAIN ProjectRBRegion(comm.recv, colour) \subseteq DOMAIN comm.recv
  BY DEF ProjectRBRegion
<1> QED
  BY <1>3, <1>4, <1>5, <1>6 DEF pk

\* The grid of the vector, for the ranks of the run.
Settled ==
  /\ all \in SUBSET Boxes /\ IsFiniteSet(all) /\ deck.mode \in Modes
  /\ \A b, c \in all : Related(b, c)
  /\ \A b \in all : Placeable(b)
  /\ \A r \in Ranks : Sole(all, r, Mine(r))

\* Every rank has its package.
Packaged ==
  /\ Settled
  /\ comp = [r \in Ranks |-> ComputePkg(Mine(r), all, deck.mode)]

Space(r) == DataSpace(Mine(r))

\* Every rank has its invoices.
Invoiced ==
  /\ Packaged
  /\ pkg = [r \in Ranks |-> [send |-> NewCommPkg(comp[r].send, Space(r)),
                             recv |-> NewCommPkg(comp[r].recv, Space(r))]]

\* The message from p to q: the values before the update.
Letter(p, q) == LET w == WalkAll(pkg[p].send[q]) IN [m \in DOMAIN w |-> FreshData(p)[w[m]]]

LEMMA PackageOf ==
  ASSUME Packaged, NEW r \in Ranks
  PROVE  /\ Placeable(Mine(r)) /\ Mine(r) \in all
         /\ RightPackage(comp[r], Mine(r), all)
         /\ DOMAIN comp[r].recv \subseteq Ranks
         /\ \A p \in Ranks : Agree(comp[p].send, comp[r].recv, p, r)
<1>1. Sole(all, r, Mine(r)) /\ Mine(r) \in all /\ Placeable(Mine(r))
  BY DEF Packaged, Settled, Sole
<1>2. comp[r] = ComputePkg(Mine(r), all, deck.mode)
  BY DEF Packaged
<1>3. RightPackage(comp[r], Mine(r), all)
  BY <1>1, <1>2, PackageIsRight DEF Packaged, Settled
<1>4. Processes(all) \subseteq Ranks
  BY DEF Packaged, Settled, Processes, Placeable
<1>5. DOMAIN comp[r].recv \subseteq Ranks
  BY <1>2, <1>4, SendersHaveSubgrids
<1>6. ASSUME NEW p \in Ranks PROVE Agree(comp[p].send, comp[r].recv, p, r)
  <2>1. Sole(all, p, Mine(p)) /\ Related(Mine(p), Mine(r))
    BY <1>1 DEF Packaged, Settled, Sole
  <2>2. comp[p] = ComputePkg(Mine(p), all, deck.mode)
    BY DEF Packaged
  <2> QED
    BY <1>1, <1>2, <2>1, <2>2, PackagesAgree DEF Packaged, Settled
<1> QED
  BY <1>1, <1>3, <1>5, <1>6

\* What comes from p belongs at these positions of the array of r.
Delivered(p, r) == {<<Place(Space(r), x), x>> : x \in CellsOf(Elements(comp[r].recv[p]))}

\* Pack and unpack: whatever the arrays and the order, each value comes to its cell.
LEMMA LetterArrives ==
  ASSUME GhostDeck(deck), Invoiced, NEW r \in Ranks, NEW p \in DOMAIN comp[r].recv
  PROVE  LET w == WalkAll(pkg[r].recv[p])
         IN {<<w[m], Letter(p, r)[m]>> : m \in DOMAIN w} = Delivered(p, r)
<1> DEFINE s == comp[r].recv[p]
           dp == Space(p)
           dr == Space(r)
<1>1. Packaged
  BY DEF Invoiced
<1>2. p \in Ranks
  BY <1>1, PackageOf
<1>3. /\ Placeable(Mine(p)) /\ Placeable(Mine(r))
      /\ RightPackage(comp[p], Mine(p), all) /\ RightPackage(comp[r], Mine(r), all)
      /\ Agree(comp[p].send, comp[r].recv, p, r)
  BY <1>1, <1>2, PackageOf
<1>4. r \in DOMAIN comp[p].send /\ comp[p].send[r] = s
  BY <1>3 DEF Agree
<1>5. dp \in Boxes /\ dr \in Boxes
  BY <1>3, DataSpaceIs DEF Space
<1>6. Parcel(s)
  BY <1>3 DEF RightPackage
<1>7. pkg[r].recv[p] = Parts(dr, s)
  <2>1. pkg[r].recv = NewCommPkg(comp[r].recv, Space(r))
    BY DEF Invoiced
  <2> QED
    BY <2>1 DEF NewCommPkg, Parts
<1>8. pkg[p].send[r] = Parts(dp, s)
  <2>1. pkg[p].send = NewCommPkg(comp[p].send, Space(p))
    BY <1>2 DEF Invoiced
  <2> QED
    BY <1>4, <2>1 DEF NewCommPkg, Parts
<1>9. \A x \in CellsOf(Elements(s)) : x \in Points /\ Within(Mine(p), x)
  <2>1. Elements(s) \subseteq AllBoxes(comp[p].send)
    BY <1>4 DEF Elements, AllBoxes
  <2>2. CellsOf(Elements(s)) \subseteq CellsOf(AllBoxes(comp[p].send))
    BY <2>1 DEF CellsOf
  <2> QED
    BY <1>3, <2>2 DEF RightPackage
<1> HIDE DEF s, dp, dr
<1>10. PICK L \in Seq(Points) : /\ WalkAll(Parts(dp, s)) = Placed(dp, L)
                                /\ WalkAll(Parts(dr, s)) = Placed(dr, L)
                                /\ Elements(L) = CellsOf(Elements(s))
  BY <1>5, <1>6, WalkAllIs
<1>11. /\ Len(L) \in Nat /\ DOMAIN L = 1..Len(L)
       /\ \A m \in 1..Len(L) : L[m] \in Points /\ Within(Mine(p), L[m])
  <2>1. Len(L) \in Nat /\ DOMAIN L = 1..Len(L)
    OBVIOUS
  <2>2. \A m \in 1..Len(L) : L[m] \in Elements(L)
    BY <2>1 DEF Elements
  <2> QED
    BY <1>9, <1>10, <2>1, <2>2
<1>12. \A m \in 1..Len(L) : FreshData(p)[Place(dp, L[m])] = L[m]
  BY <1>3, <1>11, FreshDataIs DEF dp, Space
<1>13. Letter(p, r) = [m \in 1..Len(L) |-> L[m]]
  <2> DEFINE w == WalkAll(pkg[p].send[r])
             F == FreshData(p)
  <2>1. DOMAIN w = 1..Len(L) /\ \A m \in 1..Len(L) : w[m] = Place(dp, L[m])
    BY <1>8, <1>10 DEF Placed
  <2>2. Letter(p, r) = [m \in DOMAIN w |-> F[w[m]]]
    BY DEF Letter
  <2>3. \A m \in 1..Len(L) : F[Place(dp, L[m])] = L[m]
    BY <1>12
  <2> HIDE DEF w, F
  <2> QED
    BY <2>1, <2>2, <2>3
<1> DEFINE v == WalkAll(pkg[r].recv[p])
<1>14. DOMAIN v = 1..Len(L) /\ \A m \in 1..Len(L) : v[m] = Place(dr, L[m])
  BY <1>7, <1>10 DEF Placed
<1>15. Delivered(p, r) = {<<Place(dr, x), x>> : x \in Elements(L)}
  BY <1>10 DEF Delivered, s, dr
<1>16. Elements(L) = {L[m] : m \in 1..Len(L)}
  BY <1>11 DEF Elements
<1> HIDE DEF v
<1>17. {<<v[m], Letter(p, r)[m]>> : m \in DOMAIN v} = {<<Place(dr, L[m]), L[m]>> : m \in 1..Len(L)}
  BY <1>13, <1>14
<1>18. {<<Place(dr, L[m]), L[m]>> : m \in 1..Len(L)} = {<<Place(dr, x), x>> : x \in Elements(L)}
  BY <1>16
<1> QED
  BY <1>15, <1>17, <1>18 DEF v

\* What is on its way was packed before the update.
Posted == \A p, q \in Ranks : wire[p][q] \in {NoMessage, Letter(p, q)}

\* The array f of r holds its cells and the ones it needs, and nothing else.
Current(r, f) ==
  \A k \in DOMAIN f :
    f[k] = IF CellAt(Space(r), k) \in Cells(Mine(r)) \cup Needed(r)
           THEN CellAt(Space(r), k) ELSE Stale

\* The messages to r together deliver the cells it needs.
LEMMA NeededDelivered ==
  ASSUME Packaged, NEW r \in Ranks
  PROVE  UNION {Delivered(p, r) : p \in DOMAIN comp[r].recv}
           = {<<Place(Space(r), x), x>> : x \in Needed(r)}
<1> DEFINE recv == comp[r].recv
           D(p) == CellsOf(Elements(recv[p]))
<1>1. Placeable(Mine(r)) /\ RightPackage(comp[r], Mine(r), all) /\ all \subseteq Boxes /\ deck.mode \in Modes
  BY PackageOf DEF Packaged, Settled
<1>2. \A x : x \in CellsOf(AllBoxes(recv)) <=> x \in Needed(r)
  <2>1. \A x : x \in CellsOf(AllBoxes(recv)) <=> x \in Points /\ Wanted(Mine(r), all, x)
    BY <1>1 DEF RightPackage
  <2>2. \A x : x \in Needed(r) <=> x \in Points /\ Wanted(Mine(r), all, x)
    BY <1>1, NeededIs DEF Placeable
  <2> QED
    BY <2>1, <2>2
<1>3. \A x : x \in CellsOf(AllBoxes(recv)) <=> \E p \in DOMAIN recv : x \in D(p)
  <2>1. AllBoxes(recv) = UNION {Elements(recv[p]) : p \in DOMAIN recv}
    BY DEF AllBoxes, Elements
  <2> QED
    BY <2>1 DEF CellsOf
<1>4. \A p \in DOMAIN recv : Delivered(p, r) = {<<Place(Space(r), x), x>> : x \in D(p)}
  BY DEF Delivered
<1> DEFINE at(x) == <<Place(Space(r), x), x>>
           U == UNION {Delivered(p, r) : p \in DOMAIN recv}
<1>5. \A y : y \in U <=> \E p \in DOMAIN recv : y \in Delivered(p, r)
  OBVIOUS
<1>6. \A p \in DOMAIN recv : \A y : y \in Delivered(p, r) <=> \E x \in D(p) : y = at(x)
  BY <1>4
<1> HIDE DEF recv, D, at, U
<1>7. \A y : y \in U <=> \E x \in Needed(r) : y = at(x)
  BY <1>2, <1>3, <1>5, <1>6
<1>8. U = {at(x) : x \in Needed(r)}
  BY <1>7
<1> QED
  BY <1>8 DEF U, recv, at

\* FinalizeVectorUpdate: the array it leaves.
LEMMA UnpackedIsCurrent ==
  ASSUME GhostDeck(deck), Invoiced, Posted, NEW r \in Ranks, Arrived(r), data[r] = FreshData(r)
  PROVE  Current(r, Unpacked(r))
<1> DEFINE recv == comp[r].recv
           d == Space(r)
           own == Cells(Mine(r))
           placed(q) == LET w == WalkAll(pkg[r].recv[q])
                        IN {<<w[m], wire[q][r][m]>> : m \in DOMAIN w}
           written == UNION {placed(q) : q \in DOMAIN pkg[r].recv}
<1>1. Packaged
  BY DEF Invoiced
<1>2. Placeable(Mine(r)) /\ DOMAIN recv \subseteq Ranks
  BY <1>1, PackageOf
<1>3. DOMAIN pkg[r].recv = DOMAIN recv
  <2>1. pkg[r].recv = NewCommPkg(recv, Space(r))
    BY DEF Invoiced
  <2> QED
    BY <2>1 DEF NewCommPkg
<1>4. \A q \in DOMAIN recv : wire[q][r] = Letter(q, r)
  <2> TAKE q \in DOMAIN recv
  <2>1. q \in Ranks /\ q \in DOMAIN pkg[r].recv
    BY <1>2, <1>3
  <2>2. wire[q][r] # NoMessage
    BY <2>1 DEF Arrived
  <2> QED
    BY <2>1, <2>2 DEF Posted
<1>5. \A q \in DOMAIN recv : placed(q) = Delivered(q, r)
  <2> TAKE q \in DOMAIN recv
  <2>1. wire[q][r] = Letter(q, r)
    BY <1>4
  <2>2. placed(q) = LET w == WalkAll(pkg[r].recv[q]) IN {<<w[m], Letter(q, r)[m]>> : m \in DOMAIN w}
    BY <2>1
  <2> QED
    BY <2>2, LetterArrives
<1>6. written = UNION {Delivered(p, r) : p \in DOMAIN recv}
  <2> HIDE DEF placed
  <2> QED
    BY <1>3, <1>5
<1>7. written = {<<Place(d, x), x>> : x \in Needed(r)}
  BY <1>1, <1>6, NeededDelivered
<1>8. Unpacked(r) = [k \in DOMAIN data[r] |->
                       IF \E x \in written : x[1] = k
                       THEN (CHOOSE x \in written : x[1] = k)[2] ELSE data[r][k]]
  BY DEF Unpacked
<1>9. d \in Boxes /\ Solid(d)
  BY <1>2, DataSpaceIs DEF Space
<1>10. \A x \in Needed(r) : CellAt(d, Place(d, x)) = x
  <2> TAKE x \in Needed(r)
  <2>1. x \in Points /\ Wanted(Mine(r), all, x)
    BY <1>1, <1>2, NeededIs DEF Packaged, Settled, Placeable
  <2>2. Within(d, x)
    BY <1>2, <2>1, WantedWithin DEF Space
  <2> QED
    BY <1>9, <2>1, <2>2, PlaceIs
<1> HIDE DEF written, placed, recv
<1>11. ASSUME NEW k \in DOMAIN Unpacked(r)
       PROVE  Unpacked(r)[k] = IF CellAt(d, k) \in own \cup Needed(r) THEN CellAt(d, k) ELSE Stale
  <2> DEFINE c == CellAt(d, k)
  <2>1. k \in DOMAIN data[r]
    BY <1>8, <1>11
  <2>2. k \in 0..(Volume(d.n) - 1) /\ data[r][k] = (IF c \in own THEN c ELSE Stale)
    BY <2>1 DEF FreshData, Space
  <2>3. Place(d, c) = k
    <3>1. k \in Nat
      BY <2>2
    <3> QED
      BY <1>9, <3>1, CellAtIs
  <2>4. \A y \in written : y[1] = k => y[2] = c /\ c \in Needed(r)
    BY <1>7, <1>10
  <2> HIDE DEF c
  <2>5. CASE c \in Needed(r)
    <3>1. <<k, c>> \in written
      BY <1>7, <2>3, <2>5
    <3>2. \E y \in written : y[1] = k
      BY <3>1
    <3> DEFINE z == CHOOSE y \in written : y[1] = k
    <3>3. z \in written /\ z[1] = k
      BY <3>2
    <3>4. Unpacked(r)[k] = z[2]
      BY <1>8, <2>1, <3>2
    <3> HIDE DEF z
    <3> QED
      BY <2>4, <2>5, <3>3, <3>4 DEF c
  <2>6. CASE c \notin Needed(r)
    <3>1. ~\E y \in written : y[1] = k
      BY <2>4, <2>6
    <3>2. Unpacked(r)[k] = data[r][k]
      BY <1>8, <2>1, <3>1
    <3> QED
      BY <2>2, <2>6, <3>2 DEF c
  <2> QED
    BY <2>5, <2>6
<1> QED
  BY <1>11 DEF Current

-----------------------------------------------------------------------------
(* The invariant of the update.                                             *)

\* pqr_to_process: the number of a place of the topology is one of its ranks.
LEMMA PlacesAreRanks ==
  ASSUME NEW t \in Grids,
         NEW p \in 0..(t[1] - 1), NEW q \in 0..(t[2] - 1), NEW r \in 0..(t[3] - 1)
  PROVE  pqr_to_process(p, q, r, t) \in 0..(Volume(t) - 1)
<1> DEFINE P == t[1]
           Q == t[2]
           R == t[3]
<1>1. P \in Nat \ {0} /\ Q \in Nat \ {0} /\ R \in Nat \ {0}
  BY AxesOfGrid
<1>2. Numeral(P, Q, R, p, q, r)
  BY <1>1 DEF Numeral
<1>3. pqr_to_process(p, q, r, t) = (r * Q + q) * P + p /\ Volume(t) = P * Q * R
  BY DEF pqr_to_process, Volume
<1> HIDE DEF P, Q, R
<1>4. Value(P, Q, p, q, r) \in 0..(P * Q * R - 1)
  BY <1>2, ThreeDigits
<1>5. (r * Q + q) * P + p = p + q * P + r * (P * Q)
  BY <1>1, <1>2 DEF Numeral
<1> QED
  BY <1>3, <1>4, <1>5 DEF Value

LEMMA DerivedPlaceable ==
  ASSUME NEW kind \in Kinds, NEW b, Placeable(b)
  PROVE  Placeable(Derived(b, kind))
<1>1. b \in Boxes /\ b.p \in Ranks /\ \A a \in Axis : b.n[a] \in Int /\ b.n[a] >= 0
  BY BoxFacts DEF Placeable
<1>2. Derived(b, kind) \in Boxes /\ Derived(b, kind).p = b.p
  BY <1>1, DerivedIs
<1>3. \A a \in Axis : Derived(b, kind).n[a] >= 0
  <2>1. CASE kind = "grid"
    BY <1>1, <2>1, DerivedIs
  <2>2. CASE kind = "grid2d"
    <3>1. \A a \in Axis : Derived(b, kind).n[a] = (IF a = 3 THEN 1 ELSE b.n[a])
      BY <1>1, <2>2, DerivedIs
    <3> QED
      BY <1>1, <3>1
  <2>3. CASE kind \notin {"grid", "grid2d"}
    <3>1. \A a \in Axis : Derived(b, kind).n[a] = (IF a = FaceAxis(kind) THEN b.n[a] + 1 ELSE b.n[a])
      BY <1>1, <2>3, DerivedIs
    <3> QED
      BY <1>1, <3>1
  <2> QED
    BY <2>1, <2>2, <2>3
<1> QED
  BY <1>1, <1>2, <1>3 DEF Placeable

LEMMA CreatedGridPlaceable ==
  ASSUME deck \in Decks, FittingDeck(deck), CreateGrid
  PROVE  \A b \in all' : Placeable(b)
<1>1. PICK t \in Topologies(deck) :
        Volume(t) = deck.procs /\ all' = {Derived(b, deck.kind) : b \in TopologySubgrids(deck.n, t)}
  BY DEF CreateGrid
<1>2. t \in Grids /\ deck.n \in Grids /\ deck.kind \in Kinds
  BY <1>1, TopologiesAreGrids, DecksAssumption DEF Grids, FittingDeck
<1>3. ASSUME NEW b \in TopologySubgrids(deck.n, t) PROVE Placeable(b)
  <2>1. PICK p \in 0..(t[1] - 1), q \in 0..(t[2] - 1), r \in 0..(t[3] - 1) :
          b = Block(deck.n, t, p, q, r)
    BY SubgridsAreBlocks
  <2>2. b \in Boxes /\ b.p = pqr_to_process(p, q, r, t) /\ \A a \in Axis : b.n[a] \in Nat
    BY <1>2, <2>1, BlockFacts
  <2>3. b.p \in Ranks
    BY <1>1, <1>2, <2>1, <2>2, PlacesAreRanks DEF Ranks
  <2> QED
    BY <2>2, <2>3 DEF Placeable
<1> QED
  BY <1>1, <1>2, <1>3, DerivedPlaceable

LEMMA GivenGridPlaceable ==
  ASSUME GhostDeck(deck), ReadProcessGrid
  PROVE  \A b \in all' : Placeable(b)
<1>1. all' = {Derived(b, deck.kind) : b \in Elements(deck.boxes)} /\ deck.boxes # <<>>
  BY DEF ReadProcessGrid
<1>2. deck.kind \in Kinds /\ deck.boxes \in Seq(Boxes)
  BY <1>1 DEF GhostDeck, FittingDeck
<1>3. ASSUME NEW b \in Elements(deck.boxes) PROVE Placeable(b)
  <2>1. b \in Boxes
    BY <1>2 DEF Elements
  <2> QED
    BY <1>1, <2>1 DEF GhostDeck, Placeable, Ranks
<1> QED
  BY <1>1, <1>2, <1>3, DerivedPlaceable

\* No message is on its way.
Quiet == \A p, q \in Ranks : wire[p][q] = NoMessage

Shapes ==
  /\ DOMAIN stage = Ranks /\ DOMAIN wire = Ranks
  /\ \A p \in Ranks : DOMAIN wire[p] = Ranks

\* Before the vector, and with it.
Preparing == /\ \A r \in Ranks : stage[r] \in {"start", "grid", "exit"}
             /\ Quiet
Planned == /\ \A r \in Ranks : stage[r] = "regions"
           /\ Packaged
           /\ Quiet
Updating == /\ \A r \in Ranks : stage[r] \in {"vector", "sent", "done"}
            /\ Invoiced
            /\ Posted
            /\ DOMAIN data = Ranks
            /\ \A r \in Ranks : IF stage[r] = "done" THEN Current(r, data[r])
                                ELSE data[r] = FreshData(r)

GhostInv ==
  /\ FitInv
  /\ Shapes
  /\ \A b \in all : Placeable(b)
  /\ Preparing \/ Planned \/ Updating

LEMMA GhostInvInit == Init => GhostInv
<1> SUFFICES ASSUME Init PROVE GhostInv
  OBVIOUS
<1>1. FitInv
  BY FitInvInit
<1>2. Shapes /\ all = {}
  BY DEF Init, Shapes
<1>3. Preparing
  BY DEF Init, Preparing, Quiet
<1> QED
  BY <1>1, <1>2, <1>3 DEF GhostInv

LEMMA GhostInvHolds == GhostInv => GhostsCurrent
<1> SUFFICES ASSUME GhostInv, NEW r \in Ranks, stage[r] = "done"
             PROVE  \A held \in {Cells(Mine(r)) \cup Needed(r)}, k \in DOMAIN data[r] :
                      LET c == CellAt(DataSpace(Mine(r)), k)
                      IN data[r][k] = IF c \in held THEN c ELSE Stale
  BY DEF GhostsCurrent
<1>1. ~Preparing /\ ~Planned
  BY DEF Preparing, Planned
<1>2. Updating
  BY <1>1 DEF GhostInv
<1>3. Current(r, data[r])
  BY <1>2 DEF Updating
<1> QED
  BY <1>3 DEF Current, Space

LEMMA NoMessageIsConstant == NoMessage' = NoMessage
BY DEF NoMessage

\* A subgrid and g layers around it.
Widened(b, g) == [b EXCEPT !.i = <<b.i[1] - g, b.i[2] - g, b.i[3] - g>>,
                           !.n = <<b.n[1] + 2 * g, b.n[2] + 2 * g, b.n[3] + 2 * g>>]

\* Steps that leave the grid alone leave alone what depends on it.
LEMMA SameGrid ==
  ASSUME deck' = deck, all' = all
  PROVE  /\ Ranks' = Ranks
         /\ \A r : /\ Mine(r)' = Mine(r) /\ Space(r)' = Space(r)
                   /\ FreshData(r)' = FreshData(r) /\ Needed(r)' = Needed(r)
         /\ \A b : Placeable(b)' <=> Placeable(b)
         /\ Settled' <=> Settled
<1>1. Ranks' = Ranks
  BY DEF Ranks
<1>2. \A r : Mine(r)' = Mine(r)
  BY DEF Mine, Own
<1>3. \A r : Space(r)' = Space(r)
  <2> TAKE r
  <2>1. /\ Space(r) = Widened(Mine(r), deck.ghost)
        /\ Space(r)' = Widened(Mine(r)', deck'.ghost)
    BY DEF Space, DataSpace, Each, Widened
  <2> QED
    BY <1>2, <2>1
<1>4. \A r : FreshData(r)' = FreshData(r)
  BY <1>2, <1>3 DEF FreshData, Space, CellAt, Stale
<1>5. \A r : Needed(r)' = Needed(r)
  BY <1>2 DEF Needed, Communicated
<1>6. \A b : Placeable(b)' <=> Placeable(b)
  BY <1>1 DEF Placeable
<1>7. Settled' <=> Settled
  BY <1>1, <1>2, <1>6 DEF Settled
<1> QED
  BY <1>1, <1>2, <1>3, <1>4, <1>5, <1>6, <1>7

LEMMA SamePackages ==
  ASSUME deck' = deck, all' = all, comp' = comp
  PROVE  /\ Packaged' <=> Packaged
         /\ pkg' = pkg => (Invoiced' <=> Invoiced) /\ \A p, q : Letter(p, q)' = Letter(p, q)
<1>1. /\ Ranks' = Ranks /\ (Settled' <=> Settled)
      /\ \A r : Mine(r)' = Mine(r) /\ Space(r)' = Space(r) /\ FreshData(r)' = FreshData(r)
  BY SameGrid
<1>2. Packaged' <=> Packaged
  BY <1>1 DEF Packaged
<1>3. ASSUME pkg' = pkg PROVE (Invoiced' <=> Invoiced) /\ \A p, q : Letter(p, q)' = Letter(p, q)
  BY <1>1, <1>2, <1>3 DEF Invoiced, Letter
<1> QED
  BY <1>2, <1>3

\* CreateComputePkgs
LEMMA PlannedStep ==
  ASSUME GhostInv, GhostDeck(deck), CreateComputePkgs
  PROVE  Shapes' /\ Planned'
<1>1. /\ deck' = deck /\ all' = all /\ wire' = wire
      /\ comp' = [r \in Ranks |-> ComputePkg(Mine(r), all, deck.mode)]
      /\ stage' = [r \in Ranks |-> "regions"]
      /\ \A r \in Ranks : stage[r] = "grid"
  BY DEF CreateComputePkgs
<1>2. Ranks' = Ranks /\ (\A r : Mine(r)' = Mine(r)) /\ (Settled' <=> Settled)
  BY <1>1, SameGrid
<1>3. Quiet
  <2>1. 0 \in Ranks
    BY RankZero DEF GhostInv, FitInv
  <2> QED
    BY <1>1, <2>1 DEF GhostInv, Preparing, Planned, Updating
<1>4. Settled
  <2>1. \A r \in Ranks : Sole(all, r, Mine(r))
    BY RanksHaveOne DEF GhostInv
  <2> QED
    BY <2>1 DEF Settled, GhostInv, FitInv, GhostDeck, FittingDeck
<1>5. Packaged'
  BY <1>1, <1>2, <1>4 DEF Packaged
<1>6. Shapes'
  BY <1>1, <1>2 DEF GhostInv, Shapes
<1> QED
  BY <1>1, <1>2, <1>3, <1>5, <1>6, NoMessageIsConstant DEF Planned, Quiet

\* NewVector
LEMMA UpdatingBegins ==
  ASSUME GhostInv, NewVector
  PROVE  Shapes' /\ Updating'
<1>1. /\ deck' = deck /\ all' = all /\ comp' = comp /\ wire' = wire
      /\ pkg' = [r \in Ranks |-> [send |-> NewCommPkg(comp[r].send, Space(r)),
                                  recv |-> NewCommPkg(comp[r].recv, Space(r))]]
      /\ data' = [r \in Ranks |-> FreshData(r)]
      /\ stage' = [r \in Ranks |-> "vector"]
      /\ \A r \in Ranks : stage[r] = "regions"
  BY DEF NewVector, Space
<1>2. /\ Ranks' = Ranks
      /\ \A r : Space(r)' = Space(r) /\ FreshData(r)' = FreshData(r)
  BY <1>1, SameGrid
<1>3. Packaged /\ Quiet
  <2>1. 0 \in Ranks
    BY RankZero DEF GhostInv, FitInv
  <2> QED
    BY <1>1, <2>1 DEF GhostInv, Preparing, Planned, Updating
<1>4. Packaged'
  BY <1>1, <1>3, SamePackages
<1>5. Invoiced'
  BY <1>1, <1>2, <1>4 DEF Invoiced
<1>6. Posted'
  BY <1>1, <1>2, <1>3, NoMessageIsConstant DEF Posted, Quiet
<1>7. Shapes'
  BY <1>1, <1>2 DEF GhostInv, Shapes
<1> QED
  BY <1>1, <1>2, <1>5, <1>6, <1>7 DEF Updating

\* The arrays of the ranks, in a state after a step that keeps grid and packages.
LEMMA UpdatingGoesOn ==
  ASSUME Updating, deck' = deck, all' = all, comp' = comp, pkg' = pkg,
         Shapes', Posted', DOMAIN data' = Ranks,
         \A r \in Ranks : /\ stage'[r] \in {"vector", "sent", "done"}
                          /\ IF stage'[r] = "done" THEN Current(r, data'[r])
                             ELSE data'[r] = FreshData(r)
  PROVE  Updating'
<1>1. /\ Ranks' = Ranks
      /\ \A r : /\ Mine(r)' = Mine(r) /\ Space(r)' = Space(r)
                /\ FreshData(r)' = FreshData(r) /\ Needed(r)' = Needed(r)
  BY SameGrid
<1>2. Invoiced'
  BY SamePackages DEF Updating
<1>3. \A r \in Ranks : stage'[r] = "done" => Current(r, data[r])'
  BY <1>1 DEF Current, CellAt, Stale
<1>4. \A r \in Ranks : stage'[r] # "done" => data'[r] = FreshData(r)'
  BY <1>1
<1> QED
  BY <1>1, <1>2, <1>3, <1>4 DEF Updating

LEMMA InitVectorUpdateStep ==
  ASSUME GhostInv, NEW r \in Ranks, InitVectorUpdate(r)
  PROVE  Shapes' /\ Updating'
<1>1. /\ deck' = deck /\ all' = all /\ comp' = comp /\ pkg' = pkg /\ data' = data
      /\ stage[r] = "vector" /\ stage' = [stage EXCEPT ![r] = "sent"]
      /\ wire' = [wire EXCEPT ![r] = [q \in Ranks |->
                    IF q \in DOMAIN pkg[r].send THEN Pack(r, pkg[r].send[q]) ELSE @[q]]]
  BY DEF InitVectorUpdate
<1>2. Updating
  BY <1>1 DEF GhostInv, Preparing, Planned
<1>3. Ranks' = Ranks
  BY <1>1, SameGrid
<1>4. /\ DOMAIN stage = Ranks /\ DOMAIN wire = Ranks
      /\ \A p \in Ranks : DOMAIN wire[p] = Ranks
  BY DEF GhostInv, Shapes
<1>5. data[r] = FreshData(r)
  BY <1>1, <1>2 DEF Updating
<1>6. \A q : Pack(r, pkg[r].send[q]) = Letter(r, q)
  BY <1>5 DEF Pack, Letter
<1>7. \A p, q \in Ranks : wire'[p][q] = IF p = r /\ q \in DOMAIN pkg[r].send
                                        THEN Letter(r, q) ELSE wire[p][q]
  BY <1>1, <1>4, <1>6
<1>8. Posted'
  <2>1. \A p, q : Letter(p, q)' = Letter(p, q)
    BY <1>1, SamePackages
  <2>2. \A p, q \in Ranks : wire[p][q] \in {NoMessage, Letter(p, q)}
    BY <1>2 DEF Updating, Posted
  <2> QED
    BY <1>3, <1>7, <2>1, <2>2, NoMessageIsConstant DEF Posted
<1>9. DOMAIN wire' = Ranks /\ \A p \in Ranks : DOMAIN wire'[p] = Ranks
  BY <1>1, <1>4
<1>10. Shapes'
  BY <1>1, <1>3, <1>4, <1>9 DEF Shapes
<1>11. ASSUME NEW p \in Ranks
       PROVE  /\ stage'[p] \in {"vector", "sent", "done"}
              /\ IF stage'[p] = "done" THEN Current(p, data'[p]) ELSE data'[p] = FreshData(p)
  BY <1>1, <1>2, <1>4 DEF Updating
<1>12. DOMAIN data' = Ranks
  BY <1>1, <1>2 DEF Updating
<1> QED
  BY <1>1, <1>2, <1>8, <1>10, <1>11, <1>12, UpdatingGoesOn

LEMMA FinalizeVectorUpdateStep ==
  ASSUME GhostInv, GhostDeck(deck), NEW r \in Ranks, FinalizeVectorUpdate(r)
  PROVE  Shapes' /\ Updating'
<1>1. /\ deck' = deck /\ all' = all /\ comp' = comp /\ pkg' = pkg
      /\ stage[r] = "sent" /\ stage' = [stage EXCEPT ![r] = "done"]
      /\ Arrived(r) /\ data' = [data EXCEPT ![r] = Unpacked(r)]
      /\ wire' = [q \in Ranks |-> [wire[q] EXCEPT ![r] =
                    IF q \in DOMAIN pkg[r].recv THEN NoMessage ELSE @]]
  BY DEF FinalizeVectorUpdate
<1>2. Updating
  BY <1>1 DEF GhostInv, Preparing, Planned
<1>3. Ranks' = Ranks
  BY <1>1, SameGrid
<1>4. /\ DOMAIN stage = Ranks /\ DOMAIN wire = Ranks /\ DOMAIN data = Ranks
      /\ \A p \in Ranks : DOMAIN wire[p] = Ranks
  BY <1>2 DEF GhostInv, Shapes, Updating
<1>5. \A p, q \in Ranks : wire'[p][q] \in {NoMessage, wire[p][q]}
  BY <1>1, <1>4
<1>6. Posted'
  <2>1. \A p, q : Letter(p, q)' = Letter(p, q)
    BY <1>1, SamePackages
  <2>2. \A p, q \in Ranks : wire[p][q] \in {NoMessage, Letter(p, q)}
    BY <1>2 DEF Updating, Posted
  <2> QED
    BY <1>3, <1>5, <2>1, <2>2, NoMessageIsConstant DEF Posted
<1>7. DOMAIN wire' = Ranks /\ \A p \in Ranks : DOMAIN wire'[p] = Ranks
  BY <1>1, <1>4
<1>8. Shapes'
  BY <1>1, <1>3, <1>4, <1>7 DEF Shapes
<1>9. Current(r, Unpacked(r))
  BY <1>1, <1>2, UnpackedIsCurrent DEF Updating
<1>10. ASSUME NEW p \in Ranks
       PROVE  /\ stage'[p] \in {"vector", "sent", "done"}
              /\ IF stage'[p] = "done" THEN Current(p, data'[p]) ELSE data'[p] = FreshData(p)
  <2>1. CASE p = r
    BY <1>1, <1>4, <1>9, <2>1
  <2>2. CASE p # r
    <3>1. stage'[p] = stage[p] /\ data'[p] = data[p]
      BY <1>1, <1>4, <2>2
    <3> QED
      BY <1>2, <3>1 DEF Updating
  <2> QED
    BY <2>1, <2>2
<1>11. DOMAIN data' = Ranks
  BY <1>1, <1>4
<1> QED
  BY <1>1, <1>2, <1>6, <1>8, <1>10, <1>11, UpdatingGoesOn

LEMMA GhostInvStep ==
  ASSUME \A dk \in Decks : GhostDeck(dk)
  PROVE  GhostInv /\ [Next]_vars => GhostInv'
<1> SUFFICES ASSUME GhostInv, [Next]_vars
             PROVE  GhostInv'
  OBVIOUS
<1>1. deck' = deck
  BY DEF vars, Next, ReadProcessGrid, CreateGrid, RefuseGrid, CreateComputePkgs, NewVector,
         RefuseVector, InitVectorUpdate, FinalizeVectorUpdate, Ended
<1>2. /\ deck \in Decks /\ 0 \in Ranks /\ GhostDeck(deck) /\ FittingDeck(deck) /\ FitInv
      /\ Ranks' = Ranks /\ \A b : Placeable(b)' <=> Placeable(b)
  BY <1>1, RankZero DEF GhostInv, FitInv, GhostDeck, Ranks, Placeable
<1>3. FitInv'
  BY <1>2, FitInvStep DEF GhostDeck
<1>4. ASSUME \A b \in all' : Placeable(b), Shapes', Preparing' \/ Planned' \/ Updating'
      PROVE  GhostInv'
  BY <1>2, <1>3, <1>4 DEF GhostInv
<1>5. \A b \in all : Placeable(b)
  BY DEF GhostInv
\* The steps before there are regions.
<1>6. ASSUME \A r \in Ranks : stage[r] \in {"start", "grid"}, wire' = wire,
             NEW s \in {"grid", "exit"}, stage' = [r \in Ranks |-> s]
      PROVE  Shapes' /\ Preparing'
  <2>1. Quiet
    BY <1>2, <1>6 DEF GhostInv, Preparing, Planned, Updating
  <2>2. Shapes'
    BY <1>2, <1>6 DEF GhostInv, Shapes
  <2> QED
    BY <1>2, <1>6, <2>1, <2>2, NoMessageIsConstant DEF Preparing, Quiet
<1>7. CASE CreateGrid
  BY <1>2, <1>4, <1>6, <1>7, CreatedGridPlaceable DEF CreateGrid
<1>8. CASE ReadProcessGrid
  BY <1>2, <1>4, <1>6, <1>8, GivenGridPlaceable DEF ReadProcessGrid
<1>9. CASE RefuseGrid
  BY <1>4, <1>5, <1>6, <1>9 DEF RefuseGrid
<1>10. CASE RefuseVector
  BY <1>4, <1>5, <1>6, <1>10 DEF RefuseVector
<1>11. CASE CreateComputePkgs
  <2>1. Shapes' /\ Planned' /\ all' = all
    BY <1>2, <1>11, PlannedStep DEF CreateComputePkgs
  <2> QED
    BY <1>4, <1>5, <2>1
<1>12. CASE NewVector
  <2>1. Shapes' /\ Updating' /\ all' = all
    BY <1>12, UpdatingBegins DEF NewVector
  <2> QED
    BY <1>4, <1>5, <2>1
<1>13. ASSUME NEW r \in Ranks, InitVectorUpdate(r)
       PROVE  GhostInv'
  <2>1. Shapes' /\ Updating' /\ all' = all
    BY <1>13, InitVectorUpdateStep DEF InitVectorUpdate
  <2> QED
    BY <1>4, <1>5, <2>1
<1>14. ASSUME NEW r \in Ranks, FinalizeVectorUpdate(r)
       PROVE  GhostInv'
  <2>1. Shapes' /\ Updating' /\ all' = all
    BY <1>2, <1>14, FinalizeVectorUpdateStep DEF FinalizeVectorUpdate
  <2> QED
    BY <1>4, <1>5, <2>1
<1>15. CASE Ended \/ UNCHANGED vars
  <2>1. /\ all' = all /\ stage' = stage /\ wire' = wire /\ comp' = comp /\ pkg' = pkg /\ data' = data
    BY <1>15 DEF Ended, vars
  <2>2. Shapes'
    BY <1>2, <2>1 DEF GhostInv, Shapes
  <2>3. (Packaged' <=> Packaged) /\ \A p, q : Letter(p, q)' = Letter(p, q)
    BY <1>1, <2>1, SamePackages
  <2>4. Preparing => Preparing'
    BY <1>2, <2>1, NoMessageIsConstant DEF Preparing, Quiet
  <2>5. Planned => Planned'
    BY <1>2, <2>1, <2>3, NoMessageIsConstant DEF Planned, Quiet
  <2>6. ASSUME Updating PROVE Updating'
    <3>1. Posted'
      BY <1>2, <2>1, <2>3, <2>6, NoMessageIsConstant DEF Updating, Posted
    <3>2. DOMAIN data' = Ranks
      BY <2>1, <2>6 DEF Updating
    <3>3. \A r \in Ranks : /\ stage'[r] \in {"vector", "sent", "done"}
                           /\ IF stage'[r] = "done" THEN Current(r, data'[r])
                              ELSE data'[r] = FreshData(r)
      BY <2>1, <2>6 DEF Updating
    <3> QED
      BY <1>1, <2>1, <2>2, <2>6, <3>1, <3>2, <3>3, UpdatingGoesOn
  <2> QED
    BY <1>4, <1>5, <2>1, <2>2, <2>4, <2>5, <2>6 DEF GhostInv
<1> QED
  BY <1>7, <1>8, <1>9, <1>10, <1>11, <1>12, <1>13, <1>14, <1>15 DEF Next

\* InitVectorUpdate, FinalizeVectorUpdate, for every grid, number of processes and
\* update mode, in every order of the ranks' steps: when a rank has finished its
\* update its array holds the owner's value of every cell the stencil reaches from
\* its own cells, at the position of that cell, and nothing else has changed.
THEOREM UpdatedGhostsAreCurrent ==
  ASSUME \A dk \in Decks : GhostDeck(dk)
  PROVE  Spec => []GhostsCurrent
<1>1. GhostInv /\ [Next]_vars => GhostInv'
  BY GhostInvStep
<1> QED
  BY <1>1, GhostInvInit, GhostInvHolds, PTL DEF Spec

=============================================================================
