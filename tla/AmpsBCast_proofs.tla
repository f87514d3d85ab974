---------------------------- MODULE AmpsBCast_proofs ----------------------------
(***************************************************************************)
(* Proof that every rank leaves each amps_BCast with the data of that       *)
(* broadcast, for every number of ranks up to 32768 and every sequence of   *)
(* sources, however far the ranks run ahead of each other.                  *)
(***************************************************************************)
EXTENDS AmpsBCast, TLAPS

Pow == {1, 2, 4, 8, 16, 32, 64, 128, 256, 512, 1024, 2048, 4096, 8192, 16384, 32768}

Multiple(x, c) == \E e \in Nat : x = c * e

-----------------------------------------------------------------------------
(* Powers of two.                                                           *)

LEMMA PowFacts ==
  /\ Pow \subseteq Nat \ {0}
  /\ \A c \in Pow : c # 1 => c \div 2 \in Pow /\ c = 2 * (c \div 2)
  /\ 1 \div 2 = 0 /\ 0 \div 2 = 0
  BY DEF Pow

\* A smaller power of two divides half of a larger one.
LEMMA PowDivides ==
  ASSUME NEW b \in Pow, NEW c \in Pow, b < c
  PROVE  \E e \in Nat \ {0} : c = 2 * b * e
<1>1. \/ c = 2 * b \/ c = 4 * b \/ c = 8 * b \/ c = 16 * b \/ c = 32 * b \/ c = 64 * b
      \/ c = 128 * b \/ c = 256 * b \/ c = 512 * b \/ c = 1024 * b \/ c = 2048 * b
      \/ c = 4096 * b \/ c = 8192 * b \/ c = 16384 * b \/ c = 32768 * b
  BY DEF Pow
<1>2. b \in Nat
  BY DEF Pow
<1>3. \E e \in {1, 2, 4, 8, 16, 32, 64, 128, 256, 512, 1024, 2048, 4096, 8192, 16384} : c = 2 * b * e
  BY <1>1, <1>2
<1> QED
  BY <1>3

\* amps_FindPowers: the tree has the largest power of two that fits the ranks.
LEMMA TreeSize == Poft \in Pow /\ Poft <= N /\ N < 2 * Poft
<1>1. N \in Int /\ 1 <= N /\ N <= 32768
  BY BCastAssumption
<1>2. /\ HighAfter(0) = 2147483647 /\ LowAfter(0) = 1
      /\ HighAfter(1) = 1073741823 /\ LowAfter(1) = 2
      /\ HighAfter(2) = 536870911 /\ LowAfter(2) = 4
      /\ HighAfter(3) = 268435455 /\ LowAfter(3) = 8
      /\ HighAfter(4) = 134217727 /\ LowAfter(4) = 16
      /\ HighAfter(5) = 67108863 /\ LowAfter(5) = 32
      /\ HighAfter(6) = 33554431 /\ LowAfter(6) = 64
      /\ HighAfter(7) = 16777215 /\ LowAfter(7) = 128
      /\ HighAfter(8) = 8388607 /\ LowAfter(8) = 256
      /\ HighAfter(9) = 4194303 /\ LowAfter(9) = 512
      /\ HighAfter(10) = 2097151 /\ LowAfter(10) = 1024
      /\ HighAfter(11) = 1048575 /\ LowAfter(11) = 2048
      /\ HighAfter(12) = 524287 /\ LowAfter(12) = 4096
      /\ HighAfter(13) = 262143 /\ LowAfter(13) = 8192
      /\ HighAfter(14) = 131071 /\ LowAfter(14) = 16384
      /\ HighAfter(15) = 65535 /\ LowAfter(15) = 32768
  BY DEF HighAfter, LowAfter, AMPS_HIGHEST_LONG
<1>3. \A i \in 0..15 : HighAfter(i) > N /\ (LoopEnds(N, i) <=> LowAfter(i) >= N)
  <2> TAKE i \in 0..15
  <2>1. HighAfter(i) \in Int /\ HighAfter(i) >= 65535
    BY <1>2
  <2> QED
    BY <1>1, <2>1 DEF LoopEnds
<1>4. ASSUME NEW i \in 0..15, LowAfter(i) >= N, \A j \in 0..(i - 1) : ~(LowAfter(j) >= N)
      PROVE  Nnext(N) = LowAfter(i)
  <2> DEFINE First(k) == LoopEnds(N, k) /\ \A j \in 0..(k - 1) : ~LoopEnds(N, j)
  <2>1. i \in 0..30 /\ First(i)
    BY <1>3, <1>4
  <2>2. ASSUME NEW k \in 0..30, First(k) PROVE k = i
    <3>1. ~(k < i)
      BY <2>1, <2>2
    <3>2. ~(i < k)
      BY <2>1, <2>2
    <3> QED
      BY <3>1, <3>2
  <2>3. Iterations(N) = i
    <3>1. Iterations(N) = CHOOSE k \in 0..30 : First(k)
      BY DEF Iterations
    <3> HIDE DEF First
    <3> QED
      BY <2>1, <2>2, <3>1
  <2>4. HighAfter(i) > N /\ HighAfter(i) \in Int
    BY <1>2, <1>3
  <2> QED
    BY <1>1, <2>3, <2>4 DEF Nnext
<1>5. \E i \in 0..15 : LowAfter(i) >= N /\ \A j \in 0..(i - 1) : ~(LowAfter(j) >= N)
  BY <1>1, <1>2
<1>6. PICK i \in 0..15 : Nnext(N) = LowAfter(i) /\ LowAfter(i) >= N /\ \A j \in 0..(i - 1) : ~(LowAfter(j) >= N)
  BY <1>4, <1>5
<1>7. CASE LowAfter(i) = N
  BY <1>1, <1>2, <1>6, <1>7 DEF Poft, Nprev, Pow
<1>8. CASE LowAfter(i) # N
  <2>1. i # 0
    BY <1>1, <1>2, <1>6, <1>8
  <2>2. LowAfter(i) \in Pow /\ LowAfter(i - 1) \in Pow /\ LowAfter(i) = 2 * LowAfter(i - 1)
    BY <1>2, <2>1 DEF Pow
  <2>3. LowAfter(i - 1) < N
    BY <1>1, <1>6, <2>1, <2>2 DEF Pow
  <2>4. Poft = LowAfter(i) \div 2
    BY <1>6, <1>8 DEF Poft, Nprev
  <2> DEFINE h == LowAfter(i)
             l == LowAfter(i - 1)
  <2>5. h \in Pow /\ l \in Pow /\ h = 2 * l /\ h >= N /\ h # N /\ l < N /\ Poft = h \div 2
    BY <1>6, <1>8, <2>2, <2>3, <2>4
  <2> HIDE DEF h, l
  <2>6. h \in Int /\ l \in Int
    BY <2>5, PowFacts
  <2>7. Poft = l
    BY <2>5, <2>6
  <2> QED
    BY <1>1, <2>5, <2>6, <2>7
<1> QED
  BY <1>7, <1>8

-----------------------------------------------------------------------------
(* Multiples.                                                               *)

LEMMA TwoTimes ==
  ASSUME NEW c \in Pow
  PROVE  2 * c \in Nat \ {0} /\ c \in Nat \ {0}
  BY PowFacts

\* An odd multiple of a power of two is no multiple of a larger one.
LEMMA OddMultiple ==
  ASSUME NEW b \in Pow, NEW c \in Pow, b <= c, NEW m \in Nat, Multiple(m, 2 * b)
  PROVE  ~Multiple(m + b, 2 * c)
<1> SUFFICES ASSUME Multiple(m + b, 2 * c) PROVE FALSE
  OBVIOUS
<1>1. PICK e \in Nat : m = (2 * b) * e
  BY DEF Multiple
<1>2. PICK f \in Nat : m + b = (2 * c) * f
  BY DEF Multiple
<1>3. b \in Nat \ {0} /\ c \in Nat \ {0}
  BY TwoTimes
<1>4. PICK g \in Nat : c = b * g
  <2>1. CASE b = c
    BY <1>3, <2>1
  <2>2. CASE b < c
    <3>1. PICK h \in Nat \ {0} : c = 2 * b * h
      BY <2>2, PowDivides
    <3>2. c = b * (2 * h) /\ 2 * h \in Nat
      BY <1>3, <3>1
    <3> QED
      BY <3>2
  <2> QED
    BY <1>3, <2>1, <2>2
<1> DEFINE x == 2 * e + 1
           y == 2 * (g * f)
<1>5. m + b = b * x
  BY <1>1, <1>3
<1>6. m + b = b * y
  BY <1>2, <1>3, <1>4
<1>7. x \in Nat /\ y \in Nat /\ g * f \in Nat
  OBVIOUS
<1>8. x = y
  <2> HIDE DEF x, y
  <2> QED
    BY <1>3, <1>5, <1>6, <1>7
<1> DEFINE z == g * f
<1>9. 2 * e + 1 = 2 * z /\ z \in Nat
  BY <1>7, <1>8
<1> HIDE DEF z
<1> QED
  BY <1>9

\* A multiple below a larger power of two leaves room for one more.
LEMMA RoomBelow ==
  ASSUME NEW c \in Pow, NEW p \in Pow, 2 * c <= p, NEW m \in Nat, Multiple(m, 2 * c), m < p
  PROVE  m + 2 * c <= p
<1>1. c \in Nat \ {0} /\ p \in Nat \ {0}
  BY TwoTimes
<1>2. PICK e \in Nat : m = (2 * c) * e
  BY DEF Multiple
<1>3. PICK f \in Nat : p = (2 * c) * f
  <2>1. c < p
    BY <1>1
  <2>2. PICK h \in Nat \ {0} : p = 2 * c * h
    BY <2>1, PowDivides
  <2> QED
    BY <2>2
<1> DEFINE b == 2 * c
<1>4. b \in Nat \ {0} /\ m = b * e /\ p = b * f
  BY <1>1, <1>2, <1>3
<1> HIDE DEF b
<1>5. e < f
  <2> SUFFICES ASSUME f <= e PROVE FALSE
    OBVIOUS
  <2>1. b * f <= b * e
    BY <1>4
  <2> QED
    BY <1>1, <1>4, <2>1
<1>6. b * (e + 1) <= b * f
  BY <1>4, <1>5
<1>7. b * (e + 1) = b * e + b
  BY <1>4
<1> QED
  BY <1>4, <1>6, <1>7 DEF b

\* Half of the distance: a multiple of a number is one of its half.
LEMMA HalfMultiple ==
  ASSUME NEW c \in Nat, NEW m \in Nat, Multiple(m, 2 * c)
  PROVE  Multiple(m, c) /\ Multiple(m + c, c)
<1>1. PICK e \in Nat : m = (2 * c) * e
  BY DEF Multiple
<1>2. m = c * (2 * e) /\ m + c = c * (2 * e + 1) /\ 2 * e \in Nat /\ 2 * e + 1 \in Nat
  BY <1>1
<1> QED
  BY <1>2 DEF Multiple

\* Exclusive or sets the bit in a multiple of the next power of two.
LEMMA XorIs ==
  ASSUME NEW c \in Pow, NEW m \in Nat, Multiple(m, 2 * c)
  PROVE  Xor(m, c) = m + c
<1>1. PICK e \in Nat : m = (2 * c) * e
  BY DEF Multiple
<1>2. c \in Nat \ {0}
  BY TwoTimes
<1>3. m \div c = 2 * e
  <2> DEFINE k == m \div c
             r == m % c
  <2>1. k \in Int /\ r \in Int /\ 0 <= r /\ r < c /\ m = c * k + r
    BY <1>2
  <2> HIDE DEF k, r
  <2>2. m = c * (2 * e) /\ 2 * e \in Nat
    BY <1>1, <1>2
  <2> DEFINE f == 2 * e
  <2>3. f \in Nat /\ c * f = c * k + r
    BY <2>1, <2>2
  <2> HIDE DEF f
  <2>4. ~(k < f)
    <3> SUFFICES ASSUME k + 1 <= f PROVE FALSE
      BY <2>1, <2>3
    <3>1. c * (k + 1) <= c * f /\ c * (k + 1) = c * k + c /\ c * k \in Int /\ c * f \in Int
      BY <1>2, <2>1, <2>3
    <3> QED
      BY <1>2, <2>1, <2>3, <3>1
  <2>5. ~(f < k)
    <3> SUFFICES ASSUME f + 1 <= k PROVE FALSE
      BY <2>1, <2>3
    <3>1. c * (f + 1) <= c * k /\ c * (f + 1) = c * f + c /\ c * k \in Int /\ c * f \in Int
      BY <1>2, <2>1, <2>3
    <3> QED
      BY <1>2, <2>1, <2>3, <3>1
  <2>6. k = f
    BY <2>1, <2>3, <2>4, <2>5
  <2> QED
    BY <2>6 DEF k, f
<1>4. (2 * e) % 2 = 0
  OBVIOUS
<1> QED
  BY <1>3, <1>4 DEF Xor

\* The powers of two from half of one on.
LEMMA NextPower ==
  ASSUME NEW b \in Pow, NEW c \in Pow
  PROVE  b > c \div 2 <=> b >= c
<1>1. b \in Nat /\ c \in Nat /\ c # 0
  BY TwoTimes
<1>2. CASE c = 1
  BY <1>1, <1>2, PowFacts
<1>3. CASE c # 1
  <2> DEFINE h == c \div 2
  <2>1. h \in Nat /\ c = 2 * h
    BY <1>3, PowFacts
  <2>2. b < c => 2 * b <= c
    BY PowFacts DEF Pow
  <2> HIDE DEF h
  <2>3. b >= c => b > h
    BY <1>1, <2>1
  <2>4. ~(b >= c) => ~(b > h)
    BY <1>1, <2>1, <2>2
  <2> QED
    BY <2>3, <2>4 DEF h
<1> QED
  BY <1>2, <1>3

-----------------------------------------------------------------------------
(* The renumbering of the ranks.                                            *)

LEMMA RanksAre == N \in Nat \ {0} /\ Ranks = 0..(N - 1) /\ Sources \in Seq(Ranks)
  BY BCastAssumption DEF Ranks

LEMMA RtovIs ==
  ASSUME NEW c \in Ranks
  PROVE  /\ \A r \in Ranks : Rtov(c, r) \in Ranks
         /\ \A n \in Ranks : Vtor(c, n) \in Ranks /\ Rtov(c, Vtor(c, n)) = n
         /\ \A r, s \in Ranks : Rtov(c, r) = Rtov(c, s) => r = s
         /\ \A r \in Ranks : Rtov(c, r) = 0 <=> r = c
  BY RanksAre DEF Rtov, Vtor

-----------------------------------------------------------------------------
(* The tree of a broadcast and who has got as far in it.                    *)

Broadcasts == 1..Len(Sources)

\* The node that rank r is in broadcast k.
NodeIn(k, r) == Rtov(Sources[k], r)

\* In broadcast k rank s sends to rank r: across a power of two inside the tree,
\* or to the node beyond it.
Edge(k, s, r) ==
  LET m == NodeIn(k, s)
      n == NodeIn(k, r)
  IN \/ n < Poft /\ \E c \in Pow : Multiple(m, 2 * c) /\ n = m + c
     \/ n >= Poft /\ n = m + Poft

\* Rank r has the data of the broadcast it is in.
GotNow(r) ==
  LET n == NodeIn(bcast[r], r)
  IN n = 0 \/ (n < Poft /\ recvd_flag[r]) \/ (n >= Poft /\ stage[r] # "leaf")

Got(k, r) == k < bcast[r] \/ (k = bcast[r] /\ (stage[r] = "left" \/ GotNow(r)))

\* Rank s has sent r its message of the broadcast that s is in.
SentNow(s, r) ==
  LET m == NodeIn(bcast[s], s)
      n == NodeIn(bcast[s], r)
  IN \/ n < Poft /\ recvd_flag[s] /\ n - m > d[s]
     \/ n >= Poft /\ (stage[s] = "last" \/ (stage[s] = "sending" /\ back[s] = "last"))

Sent(k, s, r) == k < bcast[s] \/ (k = bcast[s] /\ (stage[s] = "left" \/ SentNow(s, r)))

-----------------------------------------------------------------------------
(* The tree.                                                                *)

LEMMA NodesAre ==
  ASSUME NEW k \in Broadcasts
  PROVE  /\ Sources[k] \in Ranks
         /\ \A r \in Ranks : NodeIn(k, r) \in Ranks /\ NodeIn(k, r) \in Nat /\ NodeIn(k, r) < N
         /\ \A n \in Ranks : Vtor(Sources[k], n) \in Ranks /\ NodeIn(k, Vtor(Sources[k], n)) = n
         /\ \A r, s \in Ranks : NodeIn(k, r) = NodeIn(k, s) => r = s
         /\ \A r \in Ranks : NodeIn(k, r) = 0 <=> r = Sources[k]
<1>1. Sources[k] \in Ranks
  BY RanksAre DEF Broadcasts
<1>2. Ranks \subseteq Nat /\ \A r \in Ranks : r < N
  BY RanksAre
<1> QED
  BY <1>1, <1>2, RtovIs DEF NodeIn

LEMMA PoftIs == Poft \in Pow /\ Poft \in Nat \ {0} /\ Poft <= N /\ N < 2 * Poft
  BY TreeSize, TwoTimes

LEMMA SumOfMultiples ==
  ASSUME NEW b \in Pow, NEW c \in Pow, b < c, NEW m \in Nat, Multiple(m, 2 * c)
  PROVE  Multiple(m + c, 2 * b)
<1>1. PICK e \in Nat : m = (2 * c) * e
  BY DEF Multiple
<1>2. PICK h \in Nat \ {0} : c = 2 * b * h
  BY PowDivides
<1>3. b \in Nat
  BY TwoTimes
<1>4. m + c = (2 * b) * (2 * h * e + h) /\ 2 * h * e + h \in Nat
  BY <1>1, <1>2, <1>3
<1> QED
  BY <1>4 DEF Multiple

\* A node is one power of two away from its parent, and from no other node that
\* is a multiple of twice that power.
LEMMA OneParent ==
  ASSUME NEW m \in Nat, NEW b \in Pow, Multiple(m, 2 * b),
         NEW n \in Nat, NEW c \in Pow, Multiple(n, 2 * c), m + b = n + c
  PROVE  m = n /\ b = c
<1>1. b \in Nat /\ c \in Nat
  BY TwoTimes
<1>2. ~(b < c)
  <2> SUFFICES ASSUME b < c PROVE FALSE
    OBVIOUS
  <2>1. Multiple(n + c, 2 * b)
    BY SumOfMultiples
  <2>2. ~Multiple(m + b, 2 * b)
    BY <1>1, OddMultiple
  <2> QED
    BY <2>1, <2>2
<1>3. ~(c < b)
  <2> SUFFICES ASSUME c < b PROVE FALSE
    OBVIOUS
  <2>1. Multiple(m + b, 2 * c)
    BY SumOfMultiples
  <2>2. ~Multiple(n + c, 2 * c)
    BY <1>1, OddMultiple
  <2> QED
    BY <2>1, <2>2
<1> QED
  BY <1>1, <1>2, <1>3

\* Nobody gets a broadcast from two ranks.
LEMMA EdgeUnique ==
  ASSUME NEW k \in Broadcasts, NEW s \in Ranks, NEW z \in Ranks, NEW r \in Ranks,
         Edge(k, s, r), Edge(k, z, r)
  PROVE  s = z
<1>1. NodeIn(k, s) \in Nat /\ NodeIn(k, z) \in Nat /\ NodeIn(k, r) \in Nat
  BY NodesAre
<1>2. NodeIn(k, s) = NodeIn(k, z)
  <2>1. CASE NodeIn(k, r) < Poft
    <3>1. ~(NodeIn(k, r) >= Poft)
      BY <1>1, <2>1, PoftIs
    <3>2. PICK b \in Pow : Multiple(NodeIn(k, s), 2 * b) /\ NodeIn(k, r) = NodeIn(k, s) + b
      BY <3>1 DEF Edge
    <3>3. PICK c \in Pow : Multiple(NodeIn(k, z), 2 * c) /\ NodeIn(k, r) = NodeIn(k, z) + c
      BY <3>1 DEF Edge
    <3> QED
      BY <1>1, <3>2, <3>3, OneParent
  <2>2. CASE ~(NodeIn(k, r) < Poft)
    <3>1. NodeIn(k, r) = NodeIn(k, s) + Poft /\ NodeIn(k, r) = NodeIn(k, z) + Poft
      BY <2>2 DEF Edge
    <3> QED
      BY <1>1, <3>1, PoftIs
  <2> QED
    BY <2>1, <2>2
<1> QED
  BY <1>2, NodesAre

\* The distance across which a node of the tree gets the data.
LEMMA EdgeInTree ==
  ASSUME NEW k \in Broadcasts, NEW s \in Ranks, NEW r \in Ranks,
         Edge(k, s, r), NodeIn(k, r) < Poft
  PROVE  /\ NodeIn(k, r) - NodeIn(k, s) \in Pow
         /\ Multiple(NodeIn(k, s), 2 * (NodeIn(k, r) - NodeIn(k, s)))
         /\ NodeIn(k, s) < Poft
<1>1. NodeIn(k, s) \in Nat /\ NodeIn(k, r) \in Nat
  BY NodesAre
<1>2. ~(NodeIn(k, r) >= Poft)
  BY <1>1, PoftIs
<1>3. PICK b \in Pow : Multiple(NodeIn(k, s), 2 * b) /\ NodeIn(k, r) = NodeIn(k, s) + b
  BY <1>2 DEF Edge
<1>4. b \in Nat /\ NodeIn(k, r) - NodeIn(k, s) = b
  BY <1>1, <1>3, TwoTimes
<1> QED
  BY <1>1, <1>3, <1>4, PoftIs

\* The rank to which a node sends across a distance c is the one that node is
\* the parent of.
LEMMA ChildInTree ==
  ASSUME NEW k \in Broadcasts, NEW s \in Ranks, NEW c \in Pow,
         NodeIn(k, s) < Poft, 2 * c <= Poft, Multiple(NodeIn(k, s), 2 * c)
  PROVE  LET to == Vtor(Sources[k], Xor(NodeIn(k, s), c))
         IN /\ to \in Ranks /\ Edge(k, s, to)
            /\ NodeIn(k, to) = NodeIn(k, s) + c /\ NodeIn(k, to) < Poft
<1> DEFINE m == NodeIn(k, s)
<1>1. m \in Nat
  BY NodesAre
<1>2. Xor(m, c) = m + c
  BY <1>1, XorIs
<1>3. m + 2 * c <= Poft /\ c \in Nat \ {0}
  BY <1>1, RoomBelow, PoftIs, TwoTimes
<1> HIDE DEF m
<1>4. m + c \in Ranks /\ m + c < Poft
  BY <1>1, <1>3, PoftIs, RanksAre
<1>5. /\ Vtor(Sources[k], m + c) \in Ranks
      /\ NodeIn(k, Vtor(Sources[k], m + c)) = m + c
  BY <1>4, NodesAre
<1>6. Edge(k, s, Vtor(Sources[k], m + c))
  BY <1>4, <1>5 DEF Edge, m
<1> QED
  BY <1>2, <1>4, <1>5, <1>6 DEF m

\* A node that waits gets the data across the distance that meets it.
LEMMA ParentInTree ==
  ASSUME NEW k \in Broadcasts, NEW r \in Ranks, NEW c \in Pow, NEW b \in Nat,
         Multiple(b, 2 * c), NodeIn(k, r) = b + c, NodeIn(k, r) < Poft
  PROVE  LET from == Vtor(Sources[k], b)
         IN from \in Ranks /\ Edge(k, from, r) /\ NodeIn(k, from) = b
<1>1. c \in Nat /\ NodeIn(k, r) \in Nat /\ NodeIn(k, r) < N
  BY TwoTimes, NodesAre
<1>2. b \in Ranks
  BY <1>1, RanksAre
<1>3. Vtor(Sources[k], b) \in Ranks /\ NodeIn(k, Vtor(Sources[k], b)) = b
  BY <1>2, NodesAre
<1> QED
  BY <1>3 DEF Edge

-----------------------------------------------------------------------------
(* Queues of messages.                                                      *)

\* The elements of q are those of K, in increasing order.
Lists(q, K) ==
  /\ \A i \in 1..Len(q) : q[i] \in K
  /\ \A k \in K : \E i \in 1..Len(q) : q[i] = k
  /\ \A i, j \in 1..Len(q) : i < j => q[i] < q[j]

LEMMA ListsAppend ==
  ASSUME NEW q \in Seq(Nat), NEW K \in SUBSET Nat, Lists(q, K),
         NEW e \in Nat, \A k \in K : k < e
  PROVE  Lists(Append(q, e), K \cup {e})
<1> DEFINE p == Append(q, e)
           n == Len(q)
<1>1. /\ n \in Nat /\ Len(p) = n + 1 /\ p[n + 1] = e
      /\ \A i \in 1..n : p[i] = q[i]
  OBVIOUS
<1>2. \A i \in 1..(n + 1) : i \in 1..n \/ i = n + 1
  BY <1>1
<1>3. \A i \in 1..n : q[i] \in K
  BY DEF Lists
<1> HIDE DEF p
<1>4. \A i \in 1..(n + 1) : p[i] \in K \cup {e}
  BY <1>1, <1>2, <1>3
<1>5. ASSUME NEW k \in K \cup {e} PROVE \E i \in 1..(n + 1) : p[i] = k
  <2>1. CASE k = e
    BY <1>1, <2>1
  <2>2. CASE k \in K
    <3>1. PICK i \in 1..n : q[i] = k
      BY <2>2 DEF Lists
    <3> QED
      BY <1>1, <3>1
  <2> QED
    BY <2>1, <2>2
<1>6. ASSUME NEW i \in 1..(n + 1), NEW j \in 1..(n + 1), i < j PROVE p[i] < p[j]
  <2>1. i \in 1..n
    BY <1>1, <1>6
  <2>2. CASE j = n + 1
    BY <1>1, <1>3, <2>1, <2>2
  <2>3. CASE j \in 1..n
    BY <1>1, <1>6, <2>1, <2>3 DEF Lists
  <2> QED
    BY <1>2, <2>2, <2>3
<1>7. Lists(p, K \cup {e})
  BY <1>1, <1>4, <1>5, <1>6 DEF Lists
<1> QED
  BY <1>7 DEF p

LEMMA ListsTail ==
  ASSUME NEW q \in Seq(Nat), NEW K \in SUBSET Nat, Lists(q, K), q # << >>,
         NEW e \in K, \A k \in K : e <= k
  PROVE  Head(q) = e /\ Lists(Tail(q), K \ {e})
<1> DEFINE p == Tail(q)
           n == Len(q)
<1>1. /\ n \in Nat \ {0} /\ Head(q) = q[1] /\ Len(p) = n - 1
      /\ \A i \in 1..(n - 1) : p[i] = q[i + 1]
  OBVIOUS
<1>2. \A i \in 1..n : q[i] \in Nat
  OBVIOUS
<1>3. /\ \A i \in 1..n : q[i] \in K
      /\ \A k \in K : \E i \in 1..n : q[i] = k
      /\ \A i, j \in 1..n : i < j => q[i] < q[j]
  BY DEF Lists
<1> HIDE DEF p, n
<1>4. q[1] = e
  <2>1. PICK i \in 1..n : q[i] = e
    BY <1>3
  <2>2. 1 \in 1..n /\ q[1] \in K /\ e <= q[1]
    BY <1>1, <1>3
  <2>3. CASE i = 1
    BY <2>1, <2>3
  <2>4. CASE i # 1
    <3>1. 1 < i
      BY <1>1, <2>4
    <3>2. q[1] < q[i]
      BY <1>3, <2>2, <3>1
    <3> QED
      BY <1>2, <2>1, <2>2, <3>2
  <2> QED
    BY <2>3, <2>4
<1>5. \A i \in 1..(n - 1) : i + 1 \in 1..n /\ 1 < i + 1
  BY <1>1
<1>6. ASSUME NEW i \in 1..(n - 1) PROVE p[i] \in K \ {e}
  <2>1. q[i + 1] \in K /\ q[1] < q[i + 1] /\ q[1] \in Nat
    BY <1>1, <1>2, <1>3, <1>5
  <2> QED
    BY <1>1, <1>4, <2>1
<1>7. ASSUME NEW k \in K \ {e} PROVE \E i \in 1..(n - 1) : p[i] = k
  <2>1. PICK i \in 1..n : q[i] = k
    BY <1>3
  <2>2. i # 1
    BY <1>4, <2>1
  <2>3. i - 1 \in 1..(n - 1) /\ (i - 1) + 1 = i
    BY <1>1, <2>2
  <2>4. p[i - 1] = q[i]
    BY <1>1, <2>3
  <2> QED
    BY <2>1, <2>3, <2>4
<1>8. ASSUME NEW i \in 1..(n - 1), NEW j \in 1..(n - 1), i < j PROVE p[i] < p[j]
  <2>1. i + 1 \in 1..n /\ j + 1 \in 1..n /\ i + 1 < j + 1
    BY <1>1, <1>8
  <2>2. q[i + 1] < q[j + 1]
    BY <1>3, <2>1
  <2> QED
    BY <1>1, <2>2
<1>9. Lists(p, K \ {e})
  BY <1>1, <1>6, <1>7, <1>8 DEF Lists
<1> QED
  BY <1>1, <1>4, <1>9 DEF p

-----------------------------------------------------------------------------
(* The inductive invariant.                                                 *)

TypeInv ==
  /\ bcast \in [Ranks -> 0..Len(Sources)]
  /\ stage \in [Ranks -> Stages]
  /\ d \in [Ranks -> {0} \cup Pow]
  /\ start \in [Ranks -> Nat]
  /\ recvd_flag \in [Ranks -> BOOLEAN]
  /\ back \in [Ranks -> Stages]
  /\ peer \in [Ranks -> Ranks]
  /\ invoice \in [Ranks -> Nat]
  /\ network \in [Ranks -> [Ranks -> Seq(Nat)]]
  /\ received \in [Ranks -> Seq(Nat)]

\* Where a rank is in the tree: a node that waits is inside the block from start
\* on, but not its first node; a node that has the data sends across ever smaller
\* distances, all smaller than the one it got the data across.
PlaceInv(r) ==
  stage[r] # "left" =>
    LET n == NodeIn(bcast[r], r)
    IN /\ bcast[r] \in Broadcasts
       /\ n >= Poft => stage[r] \in {"leaf", "last"}
       /\ n < Poft =>
            /\ stage[r] \in {"loop", "sending", "last"}
            /\ stage[r] = "sending" => back[r] \in {"loop", "last"}
            /\ (stage[r] = "last" \/ (stage[r] = "sending" /\ back[r] = "last")) => d[r] = 0
            /\ 2 * d[r] <= Poft
            /\ recvd_flag[r] => d[r] = 0 \/ Multiple(n, 2 * d[r])
            /\ ~recvd_flag[r] => /\ stage[r] = "loop" /\ d[r] # 0
                                 /\ Multiple(start[r], 2 * d[r])
                                 /\ start[r] < n /\ n < start[r] + 2 * d[r]

\* The invoice of a rank that has the data holds the data of this broadcast.
InvoiceInv(r) ==
  /\ stage[r] # "left" /\ GotNow(r) => invoice[r] = bcast[r]
  /\ Len(received[r]) = IF stage[r] = "left" THEN bcast[r] ELSE bcast[r] - 1
  /\ \A k \in DOMAIN received[r] : received[r][k] = k

\* The broadcasts in which s has sent r its message and r has not got it.
Waiting(s, r) == {k \in Broadcasts : Edge(k, s, r) /\ Sent(k, s, r) /\ ~Got(k, r)}

\* The messages from s to r in transit are those, in the order of the broadcasts.
ChannelInv(s, r) == Lists(network[s][r], Waiting(s, r))

\* Nobody has a message before it is sent.
CausalInv(s, r) == \A k \in Broadcasts : Edge(k, s, r) /\ Got(k, r) => Sent(k, s, r)

Channels == \A s, r \in Ranks : ChannelInv(s, r) /\ CausalInv(s, r)

IInv ==
  /\ TypeInv
  /\ \A r \in Ranks : PlaceInv(r) /\ InvoiceInv(r)
  /\ Channels

-----------------------------------------------------------------------------
(* A step of one rank, and the others.                                      *)

\* Only rank a runs.
Others(a) ==
  \A r \in Ranks \ {a} :
    /\ bcast'[r] = bcast[r] /\ stage'[r] = stage[r] /\ d'[r] = d[r] /\ start'[r] = start[r]
    /\ recvd_flag'[r] = recvd_flag[r] /\ back'[r] = back[r]
    /\ invoice'[r] = invoice[r] /\ received'[r] = received[r]

LEMMA OthersKeep ==
  ASSUME NEW a \in Ranks, Others(a), NEW r \in Ranks \ {a}
  PROVE  /\ PlaceInv(r) => PlaceInv(r)'
         /\ InvoiceInv(r) => InvoiceInv(r)'
         /\ \A k \in Broadcasts : Got(k, r)' <=> Got(k, r)
         /\ \A k \in Broadcasts, z \in Ranks : Sent(k, r, z)' <=> Sent(k, r, z)
<1>1. /\ bcast'[r] = bcast[r] /\ stage'[r] = stage[r] /\ d'[r] = d[r] /\ start'[r] = start[r]
      /\ recvd_flag'[r] = recvd_flag[r] /\ back'[r] = back[r]
      /\ invoice'[r] = invoice[r] /\ received'[r] = received[r]
  BY DEF Others
<1>2. GotNow(r)' <=> GotNow(r)
  BY <1>1 DEF GotNow
<1>3. PlaceInv(r) => PlaceInv(r)'
  BY <1>1 DEF PlaceInv
<1>4. InvoiceInv(r) => InvoiceInv(r)'
  BY <1>1, <1>2 DEF InvoiceInv
<1>5. \A k \in Broadcasts : Got(k, r)' <=> Got(k, r)
  BY <1>1, <1>2 DEF Got
<1>6. \A z \in Ranks : SentNow(r, z)' <=> SentNow(r, z)
  BY <1>1 DEF SentNow
<1>7. \A k \in Broadcasts, z \in Ranks : Sent(k, r, z)' <=> Sent(k, r, z)
  BY <1>1, <1>6 DEF Sent
<1> QED
  BY <1>3, <1>4, <1>5, <1>7

\* What rank a has got, and sent, of the tree's messages.
SameGot(a)  == \A k \in Broadcasts, s \in Ranks : Edge(k, s, a) => (Got(k, a)' <=> Got(k, a))
SameSent(a) == \A k \in Broadcasts, r \in Ranks : Edge(k, a, r) => (Sent(k, a, r)' <=> Sent(k, a, r))

LEMMA AllGot ==
  ASSUME NEW a \in Ranks, Others(a), SameGot(a)
  PROVE  \A k \in Broadcasts, s, r \in Ranks : Edge(k, s, r) => (Got(k, r)' <=> Got(k, r))
  BY OthersKeep DEF SameGot

LEMMA AllSent ==
  ASSUME NEW a \in Ranks, Others(a), SameSent(a)
  PROVE  \A k \in Broadcasts, s, r \in Ranks : Edge(k, s, r) => (Sent(k, s, r)' <=> Sent(k, s, r))
  BY OthersKeep DEF SameSent

\* A step without a message.
LEMMA QuietStep ==
  ASSUME NEW a \in Ranks, Others(a), SameGot(a), SameSent(a), network' = network, Channels
  PROVE  Channels'
<1> SUFFICES ASSUME NEW s \in Ranks, NEW r \in Ranks PROVE ChannelInv(s, r)' /\ CausalInv(s, r)'
  BY DEF Channels
<1>1. ChannelInv(s, r) /\ CausalInv(s, r)
  BY DEF Channels
<1>2. Waiting(s, r)' = Waiting(s, r)
  BY AllGot, AllSent DEF Waiting
<1>3. ChannelInv(s, r)'
  BY <1>1, <1>2 DEF ChannelInv
<1>4. CausalInv(s, r)'
  BY <1>1, AllGot, AllSent DEF CausalInv
<1> QED
  BY <1>3, <1>4

\* Rank a sends its message of the broadcast it is in.
LEMMA SendStep ==
  ASSUME NEW a \in Ranks, NEW to \in Ranks, Others(a), SameGot(a), TypeInv, Channels,
         bcast[a] \in Broadcasts, Edge(bcast[a], a, to), ~Sent(bcast[a], a, to),
         \A k \in Broadcasts, r \in Ranks :
           Edge(k, a, r) => (Sent(k, a, r)' <=> Sent(k, a, r) \/ (k = bcast[a] /\ r = to)),
         network' = [network EXCEPT ![a][to] = Append(@, bcast[a])]
  PROVE  Channels'
<1> DEFINE b == bcast[a]
<1> SUFFICES ASSUME NEW s \in Ranks, NEW r \in Ranks PROVE ChannelInv(s, r)' /\ CausalInv(s, r)'
  BY DEF Channels
<1>1. ChannelInv(s, r) /\ CausalInv(s, r)
  BY DEF Channels
<1>2. \A k \in Broadcasts : Edge(k, s, r) =>
        (Sent(k, s, r)' <=> Sent(k, s, r) \/ (k = b /\ s = a /\ r = to))
  BY OthersKeep
<1>3. CausalInv(s, r)'
  BY <1>1, <1>2, AllGot DEF CausalInv
<1>4. network[s][r] \in Seq(Nat)
  BY DEF TypeInv
<1>5. CASE s = a /\ r = to
  <2>1. network'[s][r] = Append(network[s][r], b)
    BY <1>5 DEF TypeInv
  <2>2. ~Got(b, r)
    BY <1>1, <1>5 DEF CausalInv
  <2>3. Waiting(s, r)' = Waiting(s, r) \cup {b}
    BY <1>2, <1>5, <2>2, AllGot DEF Waiting
  <2>4. Broadcasts \subseteq Nat
    BY DEF Broadcasts
  <2>5. ASSUME NEW k \in Waiting(s, r) PROVE k < b
    <3>1. k \in Broadcasts /\ Sent(k, s, r)
      BY DEF Waiting
    <3>2. k # b
      BY <1>5, <3>1
    <3> QED
      BY <1>5, <3>1, <3>2 DEF Sent
  <2>6. Waiting(s, r) \in SUBSET Nat /\ b \in Nat
    BY <2>4 DEF Waiting
  <2>7. Lists(network[s][r], Waiting(s, r))
    BY <1>1 DEF ChannelInv
  <2> HIDE DEF b
  <2>8. Lists(Append(network[s][r], b), Waiting(s, r) \cup {b})
    BY <1>4, <2>5, <2>6, <2>7, ListsAppend
  <2>9. ChannelInv(s, r)'
    BY <2>1, <2>3, <2>8 DEF ChannelInv
  <2> QED
    BY <1>3, <2>9
<1>6. CASE ~(s = a /\ r = to)
  <2>1. network'[s][r] = network[s][r]
    BY <1>6 DEF TypeInv
  <2>2. Waiting(s, r)' = Waiting(s, r)
    BY <1>2, <1>6, AllGot DEF Waiting
  <2>3. ChannelInv(s, r)'
    BY <1>1, <2>1, <2>2 DEF ChannelInv
  <2> QED
    BY <1>3, <2>3
<1> QED
  BY <1>5, <1>6

\* Rank a waits for its message of the broadcast it is in: that is the first
\* message there.
LEMMA FirstMessage ==
  ASSUME NEW a \in Ranks, NEW from \in Ranks, TypeInv, Channels,
         bcast[a] \in Broadcasts, Edge(bcast[a], from, a), ~Got(bcast[a], a),
         network[from][a] # << >>
  PROVE  /\ Head(network[from][a]) = bcast[a]
         /\ Lists(Tail(network[from][a]), Waiting(from, a) \ {bcast[a]})
         /\ Sent(bcast[a], from, a)
<1> DEFINE b == bcast[a]
           q == network[from][a]
           K == Waiting(from, a)
<1>1. q \in Seq(Nat) /\ Lists(q, K)
  BY DEF TypeInv, Channels, ChannelInv
<1>2. K \in SUBSET Nat /\ b \in Nat /\ bcast[from] \in Nat
  BY DEF Waiting, Broadcasts, TypeInv
<1>3. ASSUME NEW k \in K PROVE b <= k /\ k <= bcast[from] /\ (k = bcast[from] => Sent(k, from, a))
  <2>1. k \in Broadcasts /\ Sent(k, from, a) /\ ~Got(k, a)
    BY DEF Waiting
  <2>2. ~(k < b) /\ k \in Nat
    BY <1>2, <2>1 DEF Got
  <2>3. k <= bcast[from]
    BY <1>2, <2>1, <2>2 DEF Sent
  <2> QED
    BY <1>2, <2>1, <2>2, <2>3
<1>4. PICK k \in K : TRUE
  <2>1. 1 \in 1..Len(q)
    BY <1>1
  <2> QED
    BY <1>1, <2>1 DEF Lists
<1>5. Sent(b, from, a)
  <2>1. k \in Nat /\ b <= k /\ k <= bcast[from]
    BY <1>2, <1>3
  <2>2. CASE b = k
    BY <2>2, <1>4 DEF Waiting
  <2>3. CASE b # k
    BY <1>2, <2>1, <2>3 DEF Sent
  <2> QED
    BY <2>2, <2>3
<1>6. b \in K
  BY <1>5 DEF Waiting
<1> HIDE DEF b, q, K
<1>7. Head(q) = b /\ Lists(Tail(q), K \ {b})
  BY <1>1, <1>2, <1>3, <1>6, ListsTail DEF q
<1> QED
  BY <1>5, <1>7 DEF b, q, K

LEMMA RecvStep ==
  ASSUME NEW a \in Ranks, NEW from \in Ranks, Others(a), SameSent(a), TypeInv, Channels,
         bcast[a] \in Broadcasts, Edge(bcast[a], from, a), ~Got(bcast[a], a),
         network[from][a] # << >>,
         \A k \in Broadcasts, s \in Ranks :
           Edge(k, s, a) => (Got(k, a)' <=> Got(k, a) \/ k = bcast[a]),
         network' = [network EXCEPT ![from][a] = Tail(@)]
  PROVE  Channels'
<1> DEFINE b == bcast[a]
<1> SUFFICES ASSUME NEW s \in Ranks, NEW r \in Ranks PROVE ChannelInv(s, r)' /\ CausalInv(s, r)'
  BY DEF Channels
<1>1. ChannelInv(s, r) /\ CausalInv(s, r)
  BY DEF Channels
<1>2. \A k \in Broadcasts : Edge(k, s, r) =>
        (Got(k, r)' <=> Got(k, r) \/ (k = b /\ s = from /\ r = a))
  BY OthersKeep, EdgeUnique
<1>3. /\ Lists(Tail(network[from][a]), Waiting(from, a) \ {b})
      /\ Sent(b, from, a)
  BY FirstMessage
<1>4. CausalInv(s, r)'
  BY <1>1, <1>2, <1>3, AllSent DEF CausalInv
<1>5. CASE s = from /\ r = a
  <2>1. network'[s][r] = Tail(network[from][a])
    BY <1>5 DEF TypeInv
  <2>2. Waiting(s, r)' = Waiting(from, a) \ {b}
    BY <1>2, <1>5, AllSent DEF Waiting
  <2>3. ChannelInv(s, r)'
    BY <1>3, <2>1, <2>2 DEF ChannelInv
  <2> QED
    BY <1>4, <2>3
<1>6. CASE ~(s = from /\ r = a)
  <2>1. network'[s][r] = network[s][r]
    BY <1>6 DEF TypeInv
  <2>2. Waiting(s, r)' = Waiting(s, r)
    BY <1>2, <1>6, AllSent DEF Waiting
  <2>3. ChannelInv(s, r)'
    BY <1>1, <2>1, <2>2 DEF ChannelInv
  <2> QED
    BY <1>4, <2>3
<1> QED
  BY <1>5, <1>6

-----------------------------------------------------------------------------
(* The actions.                                                             *)

LEMMA StepKeeps ==
  ASSUME IInv, NEW a \in Ranks, Others(a), TypeInv', PlaceInv(a)', InvoiceInv(a)', Channels'
  PROVE  IInv'
<1>1. \A r \in Ranks : PlaceInv(r)' /\ InvoiceInv(r)'
  BY OthersKeep DEF IInv
<1> QED
  BY <1>1 DEF IInv

\* What the invariant says of the rank that takes a step.
LEMMA Here ==
  ASSUME IInv, NEW a \in Ranks
  PROVE  /\ TypeInv /\ Channels /\ PlaceInv(a) /\ InvoiceInv(a)
         /\ bcast[a] \in Nat /\ d[a] \in {0} \cup Pow /\ d[a] \in Nat /\ start[a] \in Nat
         /\ recvd_flag[a] \in BOOLEAN /\ stage[a] \in Stages
         /\ stage[a] # "left" =>
              /\ bcast[a] \in Broadcasts
              /\ Node(a) = NodeIn(bcast[a], a) /\ Source(a) = Sources[bcast[a]]
              /\ NodeIn(bcast[a], a) \in Nat /\ NodeIn(bcast[a], a) < N
<1>1. TypeInv /\ Channels /\ PlaceInv(a) /\ InvoiceInv(a)
  BY DEF IInv
<1>2. /\ bcast[a] \in Nat /\ d[a] \in {0} \cup Pow /\ start[a] \in Nat
      /\ recvd_flag[a] \in BOOLEAN /\ stage[a] \in Stages
  BY <1>1 DEF TypeInv
<1>3. d[a] \in Nat
  BY <1>2, TwoTimes
<1>4. ASSUME stage[a] # "left" PROVE bcast[a] \in Broadcasts
  BY <1>1, <1>4 DEF PlaceInv
<1>5. Node(a) = NodeIn(bcast[a], a) /\ Source(a) = Sources[bcast[a]]
  BY DEF Node, Source, NodeIn
<1> QED
  BY <1>1, <1>2, <1>3, <1>4, <1>5, NodesAre

\* Distances in the loop stay powers of two until they are 0.
LEMMA HalfDistance ==
  ASSUME NEW c \in Pow
  PROVE  /\ c \div 2 \in {0} \cup Pow /\ c \div 2 \in Nat /\ 2 * (c \div 2) <= c
         /\ c \div 2 # 0 => 2 * (c \div 2) = c
         /\ c # 1 => c \div 2 # 0
  BY PowFacts

LEMMA EnterKeeps ==
  ASSUME IInv, NEW a \in Ranks, Enter(a)
  PROVE  IInv'
<1> DEFINE b == bcast[a]
           n == NodeIn(b + 1, a)
<1>1. TypeInv /\ Channels /\ InvoiceInv(a) /\ stage[a] = "left" /\ b \in Nat
  BY Here DEF Enter
<1>2. b + 1 \in Broadcasts /\ b + 1 \in 0..Len(Sources)
  BY <1>1, RanksAre DEF Enter, Broadcasts
<1>3. n \in Nat /\ n < N /\ (n = 0 <=> a = Sources[b + 1])
  BY <1>2, NodesAre
<1>4. n = Rtov(Sources[b + 1], a)
  BY DEF NodeIn
<1>5. /\ bcast'[a] = b + 1 /\ invoice'[a] = IF n = 0 THEN b + 1 ELSE 0
      /\ start'[a] = 0 /\ recvd_flag'[a] = (n = 0) /\ d'[a] = Poft \div 2
      /\ stage'[a] = IF n >= Poft THEN "leaf" ELSE "loop"
      /\ received'[a] = received[a] /\ network' = network
  BY <1>1, <1>3, <1>4 DEF Enter, TypeInv
<1>6. Others(a)
  BY <1>1 DEF Others, Enter, TypeInv
<1>7. Poft \div 2 \in {0} \cup Pow /\ Poft \div 2 \in Nat
  BY PoftIs, HalfDistance
<1>8. TypeInv'
  <2>1. /\ invoice' \in [Ranks -> Nat] /\ start' \in [Ranks -> Nat]
        /\ bcast' \in [Ranks -> 0..Len(Sources)]
    BY <1>1, <1>2 DEF Enter, TypeInv
  <2>2. d' \in [Ranks -> {0} \cup Pow]
    BY <1>1, <1>7 DEF Enter, TypeInv
  <2>3. recvd_flag' \in [Ranks -> BOOLEAN]
    BY <1>1 DEF Enter, TypeInv
  <2>4. stage' \in [Ranks -> Stages]
    BY <1>1 DEF Enter, TypeInv, Stages
  <2>5. UNCHANGED <<back, peer, network, received>>
    BY DEF Enter
  <2> QED
    BY <1>1, <2>1, <2>2, <2>3, <2>4, <2>5 DEF TypeInv
<1> HIDE DEF n
<1>9. PlaceInv(a)'
  <2>1. NodeIn(bcast'[a], a) = n
    BY <1>5 DEF n
  <2>2. n >= Poft => stage'[a] = "leaf"
    BY <1>5
  <2>3. ASSUME n < Poft
        PROVE  /\ stage'[a] = "loop" /\ 2 * d'[a] <= Poft
               /\ n = 0 => d'[a] = 0 \/ Multiple(n, 2 * d'[a])
               /\ n # 0 => /\ d'[a] # 0 /\ Multiple(start'[a], 2 * d'[a])
                           /\ start'[a] < n /\ n < start'[a] + 2 * d'[a]
    <3>1. stage'[a] = "loop"
      BY <1>3, <1>5, <2>3, PoftIs
    <3>2. 2 * (Poft \div 2) <= Poft
      BY PoftIs, HalfDistance
    <3>3. Multiple(0, 2 * d'[a])
      <4>1. (2 * d'[a]) * 0 = 0
        BY <1>5, <1>7
      <4> QED
        BY <4>1 DEF Multiple
    <3>4. n # 0 => Poft # 1
      BY <1>3, <2>3
    <3>5. Poft # 1 => d'[a] # 0 /\ 2 * d'[a] = Poft
      BY <1>5, PoftIs, HalfDistance
    <3>6. start'[a] = 0 /\ d'[a] = Poft \div 2
      BY <1>5
    <3>7. n = 0 => Multiple(n, 2 * d'[a])
      BY <3>3
    <3>8. n # 0 => start'[a] < n /\ n < start'[a] + 2 * d'[a]
      BY <1>3, <2>3, <3>4, <3>5, <3>6, PoftIs
    <3> QED
      BY <3>1, <3>2, <3>3, <3>4, <3>5, <3>6, <3>7, <3>8
  <2> QED
    BY <1>2, <1>3, <1>5, <2>1, <2>2, <2>3, PoftIs DEF PlaceInv
<1>10. GotNow(a)' <=> n = 0
  BY <1>5, <1>3, PoftIs DEF GotNow, n
<1>11. InvoiceInv(a)'
  <2>1. (stage[a] # "left")' /\ (stage[a] = "left")
    BY <1>1, <1>5
  <2> QED
    BY <1>1, <1>5, <1>10, <2>1 DEF InvoiceInv
<1>12. SameGot(a)
  <2> SUFFICES ASSUME NEW k \in Broadcasts, NEW s \in Ranks, Edge(k, s, a)
               PROVE  Got(k, a)' <=> Got(k, a)
    BY DEF SameGot
  <2>1. k \in Nat /\ (Got(k, a) <=> k <= b)
    BY <1>1 DEF Got, Broadcasts
  <2>2. stage'[a] # "left"
    BY <1>5
  <2>3. k = b + 1 => n # 0
    <3>1. NodeIn(k, s) \in Nat
      BY NodesAre
    <3>2. NodeIn(k, a) # 0
      BY <3>1, PoftIs, TwoTimes DEF Edge
    <3> QED
      BY <3>2 DEF n
  <2> QED
    BY <1>1, <1>5, <1>10, <2>1, <2>2, <2>3 DEF Got
<1>13. SameSent(a)
  <2> SUFFICES ASSUME NEW k \in Broadcasts, NEW r \in Ranks, Edge(k, a, r)
               PROVE  Sent(k, a, r)' <=> Sent(k, a, r)
    BY DEF SameSent
  <2>1. k \in Nat /\ (Sent(k, a, r) <=> k <= b)
    BY <1>1 DEF Sent, Broadcasts
  <2>2. stage'[a] \in {"leaf", "loop"}
    BY <1>5
  <2>3. ASSUME k = b + 1 PROVE ~SentNow(a, r)'
    <3> DEFINE m == NodeIn(k, r)
    <3>1. m \in Nat /\ n = NodeIn(k, a)
      BY <2>3, NodesAre DEF n
    <3>2. ASSUME m < Poft PROVE ~(m - n > Poft \div 2)
      <4>1. m - n \in Pow
        BY <3>1, <3>2, EdgeInTree
      <4>2. ~(m - n >= Poft)
        BY <1>3, <3>1, <3>2, PoftIs
      <4> QED
        BY <4>1, <4>2, PoftIs, NextPower
    <3> QED
      BY <1>5, <2>2, <2>3, <3>1, <3>2 DEF SentNow
  <2> QED
    BY <1>1, <1>5, <2>1, <2>2, <2>3 DEF Sent
<1>14. Channels'
  BY <1>1, <1>5, <1>6, <1>12, <1>13, QuietStep
<1> QED
  BY <1>6, <1>8, <1>9, <1>11, <1>14, StepKeeps

LEMMA SendReturnsKeeps ==
  ASSUME IInv, NEW a \in Ranks, SendReturns(a)
  PROVE  IInv'
<1> DEFINE n == NodeIn(bcast[a], a)
<1>1. /\ TypeInv /\ Channels /\ InvoiceInv(a) /\ PlaceInv(a) /\ stage[a] = "sending"
      /\ n \in Nat /\ bcast[a] \in Broadcasts
  BY Here DEF SendReturns
<1>2. n < Poft /\ back[a] \in {"loop", "last"} /\ recvd_flag[a]
  BY <1>1, PoftIs DEF PlaceInv
<1>3. /\ stage'[a] = back[a] /\ bcast' = bcast /\ d' = d /\ start' = start
      /\ recvd_flag' = recvd_flag /\ back' = back /\ invoice' = invoice
      /\ received' = received /\ network' = network /\ peer' = peer
  BY <1>1 DEF SendReturns, TypeInv
<1>4. Others(a)
  BY <1>1 DEF Others, SendReturns, TypeInv
<1>5. TypeInv'
  BY <1>1, <1>3 DEF TypeInv, SendReturns
<1>6. PlaceInv(a)'
  BY <1>1, <1>2, <1>3, PoftIs DEF PlaceInv
<1>7. GotNow(a)' /\ GotNow(a)
  BY <1>2, <1>3 DEF GotNow
<1>8. InvoiceInv(a)'
  BY <1>1, <1>2, <1>3, <1>7 DEF InvoiceInv
<1>9. SameGot(a)
  BY <1>3, <1>7 DEF SameGot, Got
<1>10. \A r \in Ranks : SentNow(a, r)' <=> SentNow(a, r)
  BY <1>1, <1>2, <1>3 DEF SentNow
<1>11. SameSent(a)
  BY <1>1, <1>2, <1>3, <1>10 DEF SameSent, Sent
<1>12. Channels'
  BY <1>1, <1>3, <1>4, <1>9, <1>11, QuietStep
<1> QED
  BY <1>4, <1>5, <1>6, <1>8, <1>12, StepKeeps

\* The rank waits in the loop: its node is in the block and not its first one.
LEMMA InLoop ==
  ASSUME IInv, NEW a \in Ranks, stage[a] = "loop"
  PROVE  /\ NodeIn(bcast[a], a) < Poft /\ 2 * d[a] <= Poft
         /\ d[a] >= 1 => d[a] \in Pow
         /\ recvd_flag[a] => d[a] = 0 \/ Multiple(NodeIn(bcast[a], a), 2 * d[a])
         /\ ~recvd_flag[a] =>
              /\ d[a] \in Pow /\ Multiple(start[a], 2 * d[a])
              /\ start[a] < NodeIn(bcast[a], a) /\ NodeIn(bcast[a], a) < start[a] + 2 * d[a]
              /\ Xor(start[a], d[a]) = start[a] + d[a]
<1>1. /\ PlaceInv(a) /\ NodeIn(bcast[a], a) \in Nat /\ d[a] \in {0} \cup Pow /\ d[a] \in Nat
      /\ start[a] \in Nat
  BY Here
<1>2. NodeIn(bcast[a], a) < Poft
  BY <1>1, PoftIs DEF PlaceInv
<1>3. d[a] # 0 => d[a] \in Pow
  BY <1>1
<1>4. /\ 2 * d[a] <= Poft
      /\ recvd_flag[a] => d[a] = 0 \/ Multiple(NodeIn(bcast[a], a), 2 * d[a])
      /\ ~recvd_flag[a] =>
           /\ d[a] # 0 /\ Multiple(start[a], 2 * d[a])
           /\ start[a] < NodeIn(bcast[a], a) /\ NodeIn(bcast[a], a) < start[a] + 2 * d[a]
  BY <1>1, <1>2 DEF PlaceInv
<1>5. ~recvd_flag[a] => Xor(start[a], d[a]) = start[a] + d[a]
  BY <1>1, <1>3, <1>4, XorIs
<1>6. d[a] >= 1 => d[a] # 0
  BY <1>1
<1> QED
  BY <1>2, <1>3, <1>4, <1>5, <1>6

LEMMA SkipKeeps ==
  ASSUME IInv, NEW a \in Ranks, Skip(a)
  PROVE  IInv'
<1> DEFINE n == NodeIn(bcast[a], a)
           c == d[a]
           b == start[a]
<1>1. /\ TypeInv /\ Channels /\ InvoiceInv(a) /\ PlaceInv(a) /\ stage[a] = "loop"
      /\ n \in Nat /\ bcast[a] \in Broadcasts /\ b \in Nat /\ ~recvd_flag[a] /\ Node(a) = n
  BY Here DEF Skip
<1>2. /\ n < Poft /\ c \in Pow /\ 2 * c <= Poft /\ Multiple(b, 2 * c)
      /\ b < n /\ n < b + 2 * c /\ Xor(b, c) = b + c
  BY <1>1, InLoop
<1>3. /\ n # b + c
      /\ start'[a] = IF n >= b + c THEN b + c ELSE b
      /\ d'[a] = c \div 2 /\ stage' = stage /\ bcast' = bcast
      /\ recvd_flag' = recvd_flag /\ back' = back /\ invoice' = invoice
      /\ received' = received /\ network' = network /\ peer' = peer
  BY <1>1, <1>2 DEF Skip, TypeInv
<1>4. Others(a)
  BY <1>1 DEF Others, Skip, TypeInv
<1>5. c \in Nat \ {0} /\ c \div 2 \in {0} \cup Pow
  BY <1>2, TwoTimes, HalfDistance
<1>6. TypeInv'
  <2>1. start' \in [Ranks -> Nat]
    <3>1. b + c \in Nat
      BY <1>1, <1>5
    <3>2. start' = [start EXCEPT ![a] = IF n >= b + c THEN b + c ELSE b]
      BY <1>1, <1>2 DEF Skip
    <3> HIDE DEF b, n, c
    <3> QED
      BY <1>1, <3>1, <3>2 DEF TypeInv
  <2>2. d' \in [Ranks -> {0} \cup Pow]
    BY <1>1, <1>5 DEF Skip, TypeInv
  <2> QED
    BY <1>1, <1>3, <2>1, <2>2 DEF TypeInv
<1>7. PlaceInv(a)'
  <2> DEFINE h == c \div 2
  <2>1. c # 1
    BY <1>1, <1>2, <1>3
  <2>2. h \in Nat \ {0} /\ 2 * h = c
    BY <1>2, <2>1, HalfDistance
  <2>3. Multiple(b, c) /\ Multiple(b + c, c)
    BY <1>1, <1>2, <1>5, HalfMultiple
  <2>4. start'[a] \in {b, b + c} /\ start'[a] < n /\ n < start'[a] + c
    BY <1>1, <1>2, <1>3, <1>5
  <2>5. NodeIn(bcast'[a], a) = n /\ d'[a] = h /\ ~recvd_flag'[a]
    BY <1>1, <1>3
  <2> HIDE DEF n, c, b, h
  <2>6. c <= Poft
    BY <1>2, <1>5, PoftIs
  <2>7. Multiple(start'[a], 2 * h) /\ n < start'[a] + 2 * h /\ 2 * h <= Poft
    BY <2>2, <2>3, <2>4, <2>6
  <2>8. ~(n >= Poft)
    BY <1>1, <1>2, PoftIs
  <2> QED
    BY <1>1, <1>2, <1>3, <2>2, <2>4, <2>5, <2>7, <2>8 DEF PlaceInv
<1>8. ~GotNow(a)' /\ ~GotNow(a)
  BY <1>1, <1>2, <1>3, PoftIs DEF GotNow
<1>9. InvoiceInv(a)'
  BY <1>1, <1>3, <1>8 DEF InvoiceInv
<1>10. SameGot(a)
  BY <1>3, <1>8 DEF SameGot, Got
<1>11. SameSent(a)
  <2>1. \A r \in Ranks : ~SentNow(a, r)' /\ ~SentNow(a, r)
    BY <1>1, <1>3 DEF SentNow
  <2> QED
    BY <1>3, <2>1 DEF SameSent, Sent
<1>12. Channels'
  BY <1>1, <1>3, <1>4, <1>10, <1>11, QuietStep
<1> QED
  BY <1>4, <1>6, <1>7, <1>9, <1>12, StepKeeps

\* amps_Send, seen from the rank that sends.
LEMMA SendIs ==
  ASSUME TypeInv, NEW a \in Ranks, NEW to \in Ranks, NEW buffered \in BOOLEAN,
         NEW then \in Stages, Send(a, to, buffered, then)
  PROVE  /\ stage' \in [Ranks -> Stages] /\ back' \in [Ranks -> Stages]
         /\ peer' \in [Ranks -> Ranks] /\ network' \in [Ranks -> [Ranks -> Seq(Nat)]]
         /\ stage'[a] \in {then, "sending"} /\ back'[a] = then
         /\ \A r \in Ranks \ {a} : stage'[r] = stage[r] /\ back'[r] = back[r]
         /\ network' = [network EXCEPT ![a][to] = Append(@, invoice[a])]
<1>1. Append(network[a][to], invoice[a]) \in Seq(Nat)
  BY DEF TypeInv
<1>2. network' = [network EXCEPT ![a] = [network[a] EXCEPT ![to] = Append(network[a][to], invoice[a])]]
  BY DEF Send
<1>3. network' \in [Ranks -> [Ranks -> Seq(Nat)]]
  BY <1>1, <1>2 DEF TypeInv
<1>4. stage' \in [Ranks -> Stages] /\ stage'[a] \in {then, "sending"}
  BY DEF Send, TypeInv, Stages
<1>5. /\ back' \in [Ranks -> Stages] /\ peer' \in [Ranks -> Ranks] /\ back'[a] = then
      /\ \A r \in Ranks \ {a} : stage'[r] = stage[r] /\ back'[r] = back[r]
      /\ network' = [network EXCEPT ![a][to] = Append(@, invoice[a])]
  BY DEF Send, TypeInv
<1> QED
  BY <1>3, <1>4, <1>5

LEMMA SendInLoopKeeps ==
  ASSUME IInv, NEW a \in Ranks, NEW buffered \in BOOLEAN, SendInLoop(a, buffered)
  PROVE  IInv'
<1> DEFINE k == bcast[a]
           n == NodeIn(k, a)
           c == d[a]
           to == Vtor(Sources[k], Xor(n, c))
<1>1. /\ TypeInv /\ Channels /\ InvoiceInv(a) /\ PlaceInv(a) /\ stage[a] = "loop"
      /\ n \in Nat /\ k \in Broadcasts /\ recvd_flag[a] /\ Node(a) = n
      /\ Source(a) = Sources[k] /\ c >= 1 /\ c \in Nat
  BY Here DEF SendInLoop
<1>2. n < Poft /\ c \in Pow /\ 2 * c <= Poft /\ c # 0 /\ Multiple(n, 2 * c)
  BY <1>1, InLoop
<1>3. to \in Ranks /\ Edge(k, a, to) /\ NodeIn(k, to) = n + c /\ NodeIn(k, to) < Poft
  BY <1>1, <1>2, ChildInTree
<1>4. Send(a, to, buffered, "loop")
  BY <1>1 DEF SendInLoop
<1> HIDE DEF to
<1>5. "loop" \in Stages
  BY DEF Stages
<1>6. /\ stage' \in [Ranks -> Stages] /\ back' \in [Ranks -> Stages]
      /\ peer' \in [Ranks -> Ranks] /\ network' \in [Ranks -> [Ranks -> Seq(Nat)]]
      /\ stage'[a] \in {"loop", "sending"} /\ back'[a] = "loop"
      /\ \A r \in Ranks \ {a} : stage'[r] = stage[r] /\ back'[r] = back[r]
      /\ network' = [network EXCEPT ![a][to] = Append(@, invoice[a])]
  BY <1>1, <1>3, <1>4, <1>5, SendIs
<1>7. /\ d'[a] = c \div 2 /\ bcast' = bcast /\ start' = start
      /\ recvd_flag' = recvd_flag /\ invoice' = invoice /\ received' = received
  BY <1>1 DEF SendInLoop, TypeInv
<1>8. Others(a)
  BY <1>1, <1>6, <1>7 DEF Others, SendInLoop, TypeInv
<1>9. c \div 2 \in {0} \cup Pow /\ c \div 2 \in Nat
  BY <1>2, HalfDistance
<1>10. TypeInv'
  <2>1. d' \in [Ranks -> {0} \cup Pow]
    BY <1>1, <1>9 DEF SendInLoop, TypeInv
  <2> QED
    BY <1>1, <1>6, <1>7, <2>1 DEF TypeInv
<1>11. PlaceInv(a)'
  <2> DEFINE h == c \div 2
  <2>1. h \in Nat /\ 2 * h <= c /\ (h # 0 => 2 * h = c)
    BY <1>2, HalfDistance
  <2>2. Multiple(n, c)
    BY <1>1, <1>2, HalfMultiple
  <2>3. NodeIn(bcast'[a], a) = n /\ d'[a] = h /\ recvd_flag'[a]
    BY <1>1, <1>7
  <2> HIDE DEF n, c, h
  <2>4. 2 * h <= Poft /\ (h = 0 \/ Multiple(n, 2 * h))
    BY <1>1, <1>2, <2>1, <2>2, PoftIs
  <2>5. ~(n >= Poft)
    BY <1>1, <1>2, PoftIs
  <2> QED
    BY <1>1, <1>2, <1>6, <1>7, <2>3, <2>4, <2>5 DEF PlaceInv
<1>12. GotNow(a)' /\ GotNow(a)
  BY <1>1, <1>2, <1>7 DEF GotNow
<1>13. InvoiceInv(a)' /\ invoice[a] = k
  BY <1>1, <1>6, <1>7, <1>12 DEF InvoiceInv
<1>14. SameGot(a)
  BY <1>7, <1>12 DEF SameGot, Got
<1>15. ~Sent(k, a, to)
  <2>1. ~SentNow(a, to)
    BY <1>1, <1>3, PoftIs DEF SentNow
  <2> QED
    BY <1>1, <2>1, Here DEF Sent
<1>16. ASSUME NEW j \in Broadcasts, NEW r \in Ranks, Edge(j, a, r)
       PROVE  Sent(j, a, r)' <=> Sent(j, a, r) \/ (j = k /\ r = to)
  <2>1. CASE j = k
    <3> DEFINE m == NodeIn(k, r)
    <3>1. m \in Nat
      BY <1>1, NodesAre
    <3>2. CASE m < Poft
      <4>1. m - n \in Pow
        BY <1>1, <1>16, <2>1, <3>2, EdgeInTree
      <4>2. m - n > c \div 2 <=> m - n >= c
        BY <1>2, <4>1, NextPower
      <4>3. m = n + c <=> r = to
        <5>1. NodeIn(k, r) = NodeIn(k, to) => r = to
          BY <1>1, <1>3, NodesAre
        <5> QED
          BY <1>3, <5>1
      <4>4. m - n >= c <=> m - n > c \/ r = to
        BY <1>1, <3>1, <4>3
      <4>5. ~(m >= Poft)
        BY <3>1, <3>2, PoftIs
      <4>6. (SentNow(a, r) <=> m - n > c) /\ (SentNow(a, r)' <=> m - n > c \div 2)
        BY <1>1, <1>7, <3>2, <4>5 DEF SentNow
      <4>7. stage'[a] # "left" /\ bcast'[a] = k
        BY <1>6, <1>7
      <4> QED
        BY <1>1, <2>1, <4>2, <4>4, <4>6, <4>7, Here DEF Sent
    <3>3. CASE ~(m < Poft)
      <4>1. ~SentNow(a, r) /\ ~SentNow(a, r)'
        BY <1>1, <1>6, <1>7, <3>3 DEF SentNow
      <4>2. r # to
        BY <1>3, <3>3
      <4> QED
        BY <1>1, <1>6, <1>7, <2>1, <4>1, <4>2 DEF Sent
    <3> QED
      BY <3>2, <3>3
  <2>2. CASE j # k
    BY <1>7, <2>2 DEF Sent
  <2> QED
    BY <2>1, <2>2
<1>17. Channels'
  BY <1>1, <1>3, <1>6, <1>8, <1>13, <1>14, <1>15, <1>16, SendStep
<1> QED
  BY <1>8, <1>10, <1>11, <1>13, <1>17, StepKeeps

LEMMA SendBeyondKeeps ==
  ASSUME IInv, NEW a \in Ranks, NEW buffered \in BOOLEAN, SendBeyond(a, buffered)
  PROVE  IInv'
<1> DEFINE k == bcast[a]
           n == NodeIn(k, a)
           to == Vtor(Sources[k], Poft + n)
<1>1. /\ TypeInv /\ Channels /\ InvoiceInv(a) /\ PlaceInv(a) /\ stage[a] = "loop"
      /\ n \in Nat /\ k \in Broadcasts /\ Node(a) = n
      /\ Source(a) = Sources[k] /\ d[a] = 0 /\ n < N - Poft
  BY Here DEF SendBeyond
<1>2. n < Poft /\ recvd_flag[a]
  <2>1. 0 \notin Pow
    BY DEF Pow
  <2> QED
    BY <1>1, <2>1, InLoop
<1>3. to \in Ranks /\ NodeIn(k, to) = Poft + n
  <2>1. Poft + n \in Ranks
    BY <1>1, PoftIs, RanksAre
  <2> QED
    BY <1>1, <2>1, NodesAre
<1>4. Send(a, to, buffered, "last")
  BY <1>1 DEF SendBeyond
<1> HIDE DEF to
<1>5. Edge(k, a, to) /\ NodeIn(k, to) >= Poft /\ NodeIn(k, to) = n + Poft /\ ~(NodeIn(k, to) < Poft)
  BY <1>1, <1>3, PoftIs DEF Edge
<1>6. "last" \in Stages
  BY DEF Stages
<1>7. /\ stage' \in [Ranks -> Stages] /\ back' \in [Ranks -> Stages]
      /\ peer' \in [Ranks -> Ranks] /\ network' \in [Ranks -> [Ranks -> Seq(Nat)]]
      /\ stage'[a] \in {"last", "sending"} /\ back'[a] = "last"
      /\ \A r \in Ranks \ {a} : stage'[r] = stage[r] /\ back'[r] = back[r]
      /\ network' = [network EXCEPT ![a][to] = Append(@, invoice[a])]
  BY <1>1, <1>3, <1>4, <1>6, SendIs
<1>8. /\ d' = d /\ bcast' = bcast /\ start' = start
      /\ recvd_flag' = recvd_flag /\ invoice' = invoice /\ received' = received
  BY DEF SendBeyond
<1>9. Others(a)
  BY <1>7, <1>8 DEF Others
<1>10. TypeInv'
  BY <1>1, <1>7, <1>8 DEF TypeInv
<1>11. PlaceInv(a)'
  BY <1>1, <1>2, <1>7, <1>8, PoftIs DEF PlaceInv
<1>12. GotNow(a)' /\ GotNow(a)
  BY <1>2, <1>8 DEF GotNow
<1>13. InvoiceInv(a)' /\ invoice[a] = k
  BY <1>1, <1>7, <1>8, <1>12 DEF InvoiceInv
<1>14. SameGot(a)
  BY <1>8, <1>12 DEF SameGot, Got
<1>15. ~Sent(k, a, to)
  <2>1. ~SentNow(a, to)
    BY <1>1, <1>5 DEF SentNow
  <2> QED
    BY <1>1, <2>1, Here DEF Sent
<1>16. ASSUME NEW j \in Broadcasts, NEW r \in Ranks, Edge(j, a, r)
       PROVE  Sent(j, a, r)' <=> Sent(j, a, r) \/ (j = k /\ r = to)
  <2>1. CASE j = k
    <3> DEFINE m == NodeIn(k, r)
    <3>1. m \in Nat
      BY <1>1, NodesAre
    <3>2. stage'[a] # "left" /\ bcast'[a] = k
      BY <1>7, <1>8
    <3>3. CASE m < Poft
      <4>1. r # to
        BY <1>5, <3>3
      <4>2. ~(m >= Poft)
        BY <3>1, <3>3, PoftIs
      <4>3. SentNow(a, r)' <=> SentNow(a, r)
        BY <1>8, <3>3, <4>2 DEF SentNow
      <4> QED
        BY <1>1, <2>1, <3>2, <4>1, <4>3 DEF Sent
    <3>4. CASE ~(m < Poft)
      <4>1. m >= Poft
        BY <3>1, <3>4, PoftIs
      <4>2. m = n + Poft
        BY <1>16, <2>1, <3>4 DEF Edge
      <4>3. NodeIn(k, r) = NodeIn(k, to)
        BY <1>5, <4>2
      <4>4. r = to
        BY <1>1, <1>3, <4>3, NodesAre
      <4>5. SentNow(a, r)'
        BY <1>7, <1>8, <4>1 DEF SentNow
      <4> QED
        BY <2>1, <3>2, <4>4, <4>5 DEF Sent
    <3> QED
      BY <3>3, <3>4
  <2>2. CASE j # k
    BY <1>8, <2>2 DEF Sent
  <2> QED
    BY <2>1, <2>2
<1>17. Channels'
  BY <1>1, <1>3, <1>5, <1>7, <1>9, <1>13, <1>14, <1>15, <1>16, SendStep
<1> QED
  BY <1>9, <1>10, <1>11, <1>13, <1>17, StepKeeps

\* amps_Recv, seen from a rank that waits for the message of its broadcast.
LEMMA RecvIs ==
  ASSUME TypeInv, Channels, NEW a \in Ranks, NEW from \in Ranks, Recv(a, from),
         bcast[a] \in Broadcasts, Edge(bcast[a], from, a), ~Got(bcast[a], a)
  PROVE  /\ network[from][a] # << >> /\ network' = [network EXCEPT ![from][a] = Tail(@)]
         /\ network' \in [Ranks -> [Ranks -> Seq(Nat)]]
         /\ invoice' \in [Ranks -> Nat] /\ invoice'[a] = bcast[a]
         /\ \A r \in Ranks \ {a} : invoice'[r] = invoice[r]
<1>1. /\ network[from][a] # << >> /\ network' = [network EXCEPT ![from][a] = Tail(@)]
      /\ invoice' = [invoice EXCEPT ![a] = Head(network[from][a])]
  BY DEF Recv
<1>2. Head(network[from][a]) = bcast[a] /\ bcast[a] \in Nat
  <2>1. Head(network[from][a]) = bcast[a]
    BY <1>1, FirstMessage
  <2>2. bcast[a] \in Nat
    BY DEF Broadcasts
  <2> QED
    BY <2>1, <2>2
<1>3. network[from][a] \in Seq(Nat)
  BY DEF TypeInv
<1>4. Tail(network[from][a]) \in Seq(Nat)
  BY <1>1, <1>3
<1>5. network' = [network EXCEPT ![from] = [network[from] EXCEPT ![a] = Tail(network[from][a])]]
  BY <1>1
<1>6. network' \in [Ranks -> [Ranks -> Seq(Nat)]]
  BY <1>4, <1>5 DEF TypeInv
<1>7. invoice' = [invoice EXCEPT ![a] = bcast[a]]
  BY <1>1, <1>2
<1> QED
  BY <1>1, <1>2, <1>6, <1>7 DEF TypeInv

LEMMA RecvInLoopKeeps ==
  ASSUME IInv, NEW a \in Ranks, RecvInLoop(a)
  PROVE  IInv'
<1> DEFINE k == bcast[a]
           n == NodeIn(k, a)
           c == d[a]
           b == start[a]
           from == Vtor(Sources[k], b)
<1>1. /\ TypeInv /\ Channels /\ InvoiceInv(a) /\ PlaceInv(a) /\ stage[a] = "loop"
      /\ n \in Nat /\ k \in Broadcasts /\ b \in Nat /\ ~recvd_flag[a] /\ Node(a) = n
      /\ Source(a) = Sources[k]
  BY Here DEF RecvInLoop
<1>2. /\ n < Poft /\ c \in Pow /\ 2 * c <= Poft /\ Multiple(b, 2 * c) /\ b < n
      /\ Xor(b, c) = b + c
  BY <1>1, InLoop
<1>3. n = b + c
  BY <1>1, <1>2 DEF RecvInLoop
<1>4. from \in Ranks /\ Edge(k, from, a)
  BY <1>1, <1>2, <1>3, ParentInTree
<1>5. Recv(a, from)
  BY <1>1 DEF RecvInLoop
<1> HIDE DEF from
<1>6. ~GotNow(a)
  BY <1>1, <1>2, PoftIs DEF GotNow
<1>7. ~Got(k, a)
  BY <1>1, <1>6, Here DEF Got
<1>8. /\ network[from][a] # << >> /\ network' = [network EXCEPT ![from][a] = Tail(@)]
      /\ network' \in [Ranks -> [Ranks -> Seq(Nat)]]
      /\ invoice' \in [Ranks -> Nat] /\ invoice'[a] = k
      /\ \A r \in Ranks \ {a} : invoice'[r] = invoice[r]
  BY <1>1, <1>4, <1>5, <1>7, RecvIs
<1>9. /\ d'[a] = c \div 2 /\ recvd_flag'[a] = TRUE
      /\ stage' = stage /\ bcast' = bcast /\ start' = start /\ back' = back
      /\ received' = received /\ peer' = peer
  BY <1>1 DEF RecvInLoop, TypeInv
<1>10. Others(a)
  BY <1>1, <1>8 DEF Others, RecvInLoop, TypeInv
<1>11. c \in Nat \ {0} /\ c \div 2 \in {0} \cup Pow
  BY <1>2, TwoTimes, HalfDistance
<1>12. TypeInv'
  <2>1. d' \in [Ranks -> {0} \cup Pow]
    BY <1>1, <1>11 DEF RecvInLoop, TypeInv
  <2>2. recvd_flag' \in [Ranks -> BOOLEAN]
    BY <1>1 DEF RecvInLoop, TypeInv
  <2> QED
    BY <1>1, <1>8, <1>9, <2>1, <2>2 DEF TypeInv
<1>13. PlaceInv(a)'
  <2> DEFINE h == c \div 2
  <2>1. h \in Nat /\ 2 * h <= c /\ (h # 0 => 2 * h = c)
    BY <1>2, HalfDistance
  <2>2. Multiple(n, c)
    BY <1>1, <1>2, <1>3, <1>11, HalfMultiple
  <2>3. NodeIn(bcast'[a], a) = n /\ d'[a] = h /\ recvd_flag'[a]
    BY <1>9
  <2> HIDE DEF n, c, h
  <2>4. 2 * h <= Poft /\ (h = 0 \/ Multiple(n, 2 * h))
    BY <1>1, <1>2, <1>11, <2>1, <2>2, PoftIs
  <2>5. ~(n >= Poft)
    BY <1>1, <1>2, PoftIs
  <2> QED
    BY <1>1, <1>9, <2>3, <2>4, <2>5 DEF PlaceInv
<1>14. GotNow(a)'
  BY <1>2, <1>9 DEF GotNow
<1>15. InvoiceInv(a)'
  BY <1>1, <1>8, <1>9, <1>14 DEF InvoiceInv
<1>16. ASSUME NEW j \in Broadcasts, NEW s \in Ranks, Edge(j, s, a)
       PROVE  Got(j, a)' <=> Got(j, a) \/ j = k
  BY <1>9, <1>14 DEF Got
<1>17. SameSent(a)
  <2> SUFFICES ASSUME NEW r \in Ranks, Edge(k, a, r)
               PROVE  ~SentNow(a, r)' /\ ~SentNow(a, r)
    BY <1>9 DEF SameSent, Sent
  <2> DEFINE m == NodeIn(k, r)
  <2>1. ~SentNow(a, r)
    BY <1>1 DEF SentNow
  <2>2. ASSUME m < Poft, m - n > c \div 2 PROVE FALSE
    <3>1. m - n \in Pow /\ Multiple(n, 2 * (m - n))
      BY <1>1, <2>2, EdgeInTree
    <3>2. m - n >= c
      BY <1>2, <2>2, <3>1, NextPower
    <3>3. c <= m - n
      BY <1>11, <3>1, <3>2, TwoTimes
    <3>4. ~Multiple(b + c, 2 * (m - n))
      BY <1>1, <1>2, <3>1, <3>3, OddMultiple
    <3> QED
      BY <1>3, <3>1, <3>4
  <2>3. ~SentNow(a, r)'
    BY <1>1, <1>9, <2>2 DEF SentNow
  <2> QED
    BY <2>1, <2>3
<1>18. Channels'
  BY <1>1, <1>4, <1>7, <1>8, <1>10, <1>16, <1>17, RecvStep
<1> QED
  BY <1>10, <1>12, <1>13, <1>15, <1>18, StepKeeps

\* The nodes beyond the power of two send to nobody.
LEMMA NothingBeyond ==
  ASSUME NEW k \in Broadcasts, NEW a \in Ranks, NodeIn(k, a) >= Poft, NEW r \in Ranks
  PROVE  ~Edge(k, a, r)
<1>1. NodeIn(k, a) \in Nat /\ NodeIn(k, r) \in Nat /\ NodeIn(k, r) < N
  BY NodesAre
<1>2. ASSUME NEW c \in Pow, NodeIn(k, r) = NodeIn(k, a) + c PROVE ~(NodeIn(k, r) < Poft)
  BY <1>1, <1>2, PoftIs, TwoTimes
<1>3. NodeIn(k, r) # NodeIn(k, a) + Poft
  BY <1>1, PoftIs, RanksAre
<1> QED
  BY <1>2, <1>3 DEF Edge

LEMMA RecvBeyondKeeps ==
  ASSUME IInv, NEW a \in Ranks, RecvBeyond(a)
  PROVE  IInv'
<1> DEFINE k == bcast[a]
           n == NodeIn(k, a)
           from == Vtor(Sources[k], n - Poft)
<1>1. /\ TypeInv /\ Channels /\ InvoiceInv(a) /\ PlaceInv(a) /\ stage[a] = "leaf"
      /\ n \in Nat /\ n < N /\ k \in Broadcasts /\ Node(a) = n /\ Source(a) = Sources[k]
  BY Here DEF RecvBeyond
<1>2. n >= Poft /\ ~(n < Poft) /\ n # 0
  BY <1>1, PoftIs DEF PlaceInv
<1>3. from \in Ranks /\ Edge(k, from, a)
  <2>1. n - Poft \in Ranks
    BY <1>1, <1>2, PoftIs, RanksAre
  <2>2. from \in Ranks /\ NodeIn(k, from) = n - Poft
    BY <1>1, <2>1, NodesAre
  <2>3. n = NodeIn(k, from) + Poft
    BY <1>1, <2>2, PoftIs
  <2> QED
    BY <1>2, <2>2, <2>3 DEF Edge
<1>4. Recv(a, from)
  BY <1>1 DEF RecvBeyond
<1> HIDE DEF from
<1>5. ~GotNow(a)
  BY <1>1, <1>2 DEF GotNow
<1>6. ~Got(k, a)
  BY <1>1, <1>5, Here DEF Got
<1>7. /\ network[from][a] # << >> /\ network' = [network EXCEPT ![from][a] = Tail(@)]
      /\ network' \in [Ranks -> [Ranks -> Seq(Nat)]]
      /\ invoice' \in [Ranks -> Nat] /\ invoice'[a] = k
      /\ \A r \in Ranks \ {a} : invoice'[r] = invoice[r]
  BY <1>1, <1>3, <1>4, <1>6, RecvIs
<1>8. /\ stage'[a] = "last" /\ d' = d /\ bcast' = bcast /\ start' = start
      /\ recvd_flag' = recvd_flag /\ back' = back /\ received' = received /\ peer' = peer
  BY <1>1 DEF RecvBeyond, TypeInv
<1>9. Others(a)
  BY <1>1, <1>7 DEF Others, RecvBeyond, TypeInv
<1>10. TypeInv'
  <2>1. stage' \in [Ranks -> Stages]
    BY <1>1 DEF RecvBeyond, TypeInv, Stages
  <2> QED
    BY <1>1, <1>7, <1>8, <2>1 DEF TypeInv
<1>11. PlaceInv(a)'
  BY <1>1, <1>2, <1>8 DEF PlaceInv
<1>12. GotNow(a)'
  BY <1>2, <1>8 DEF GotNow
<1>13. InvoiceInv(a)'
  BY <1>1, <1>7, <1>8, <1>12 DEF InvoiceInv
<1>14. ASSUME NEW j \in Broadcasts, NEW s \in Ranks, Edge(j, s, a)
       PROVE  Got(j, a)' <=> Got(j, a) \/ j = k
  BY <1>8, <1>12 DEF Got
<1>15. SameSent(a)
  <2>1. \A r \in Ranks : ~Edge(k, a, r)
    BY <1>1, <1>2, NothingBeyond
  <2> QED
    BY <1>8, <2>1 DEF SameSent, Sent
<1>16. Channels'
  BY <1>1, <1>3, <1>6, <1>7, <1>9, <1>14, <1>15, RecvStep
<1> QED
  BY <1>9, <1>10, <1>11, <1>13, <1>16, StepKeeps

LEMMA LeaveKeeps ==
  ASSUME IInv, NEW a \in Ranks, Leave(a)
  PROVE  IInv'
<1> DEFINE k == bcast[a]
           n == NodeIn(k, a)
<1>1. /\ TypeInv /\ Channels /\ InvoiceInv(a) /\ PlaceInv(a)
      /\ stage[a] \in {"last", "loop"} /\ stage[a] # "left"
      /\ n \in Nat /\ n < N /\ k \in Broadcasts /\ k \in Nat /\ Node(a) = n /\ d[a] \in Nat
  BY Here DEF Leave
<1>2. stage[a] = "loop" => d[a] = 0 /\ n >= N - Poft
  BY <1>1 DEF Leave
<1>3. n < Poft => recvd_flag[a] /\ d[a] = 0
  BY <1>1, <1>2 DEF PlaceInv
<1>4. n < Poft \/ (n >= Poft /\ stage[a] = "last")
  BY <1>1, PoftIs DEF PlaceInv
<1>5. GotNow(a)
  BY <1>3, <1>4 DEF GotNow
<1>6. invoice[a] = k
  BY <1>1, <1>5 DEF InvoiceInv
<1>7. /\ stage'[a] = "left" /\ received'[a] = Append(received[a], k) /\ d' = d /\ bcast' = bcast
      /\ start' = start /\ recvd_flag' = recvd_flag /\ back' = back /\ invoice' = invoice
      /\ network' = network /\ peer' = peer
  BY <1>1, <1>6 DEF Leave, TypeInv
<1>8. Others(a)
  BY <1>1 DEF Others, Leave, TypeInv
<1>9. received[a] \in Seq(Nat)
  BY <1>1 DEF TypeInv
<1>10. TypeInv'
  <2>1. stage' \in [Ranks -> Stages]
    BY <1>1 DEF Leave, TypeInv, Stages
  <2>2. Append(received[a], k) \in Seq(Nat)
    BY <1>1, <1>9
  <2>3. received' = [received EXCEPT ![a] = Append(received[a], k)]
    BY <1>6 DEF Leave
  <2>4. received' \in [Ranks -> Seq(Nat)]
    BY <1>1, <2>2, <2>3 DEF TypeInv
  <2> QED
    BY <1>1, <1>7, <2>1, <2>4 DEF TypeInv
<1>11. PlaceInv(a)'
  BY <1>7 DEF PlaceInv
<1>12. InvoiceInv(a)'
  <2> DEFINE q == received[a]
             p == Append(q, k)
  <2>1. Len(q) = k - 1 /\ \A j \in DOMAIN q : q[j] = j
    BY <1>1 DEF InvoiceInv
  <2>2. DOMAIN q = 1..(k - 1)
    BY <1>9, <2>1
  <2>3. Len(p) = k /\ DOMAIN p = 1..k /\ p[k] = k /\ \A j \in 1..(k - 1) : p[j] = q[j]
    BY <1>1, <1>9, <2>1
  <2>4. \A j \in 1..k : p[j] = j
    BY <1>1, <2>1, <2>2, <2>3
  <2> HIDE DEF p
  <2>5. received'[a] = p
    BY <1>7 DEF p
  <2> QED
    BY <1>7, <2>3, <2>4, <2>5 DEF InvoiceInv
<1>13. SameGot(a)
  BY <1>5, <1>7 DEF SameGot, Got
<1>14. ASSUME NEW r \in Ranks, Edge(k, a, r) PROVE SentNow(a, r)
  <2> DEFINE m == NodeIn(k, r)
  <2>1. m \in Nat /\ m < N
    BY <1>1, NodesAre
  <2>2. n < Poft /\ recvd_flag[a] /\ d[a] = 0
    BY <1>1, <1>3, <1>4, <1>14, NothingBeyond
  <2>3. CASE m < Poft
    <3>1. m - n \in Pow
      BY <1>1, <1>14, <2>3, EdgeInTree
    <3>2. m - n > d[a]
      BY <2>2, <3>1, TwoTimes
    <3> QED
      BY <2>2, <2>3, <3>2 DEF SentNow
  <2>4. CASE ~(m < Poft)
    <3>1. m = n + Poft /\ m >= Poft
      BY <1>14, <2>4 DEF Edge
    <3>2. ~(n >= N - Poft)
      BY <1>1, <2>1, <3>1, PoftIs, RanksAre
    <3>3. stage[a] = "last"
      BY <1>1, <1>2, <3>2
    <3> QED
      BY <3>1, <3>3 DEF SentNow
  <2> QED
    BY <2>3, <2>4
<1>15. SameSent(a)
  BY <1>7, <1>14 DEF SameSent, Sent
<1>16. Channels'
  BY <1>1, <1>7, <1>8, <1>13, <1>15, QuietStep
<1> QED
  BY <1>8, <1>10, <1>11, <1>12, <1>16, StepKeeps

-----------------------------------------------------------------------------
LEMMA InitIInv == Init => IInv
<1> SUFFICES ASSUME Init PROVE IInv
  OBVIOUS
<1>1. TypeInv
  BY DEF Init, TypeInv, Stages
<1>2. ASSUME NEW r \in Ranks PROVE PlaceInv(r) /\ InvoiceInv(r)
  BY <1>2 DEF Init, PlaceInv, InvoiceInv
<1>3. ASSUME NEW s \in Ranks, NEW r \in Ranks PROVE ChannelInv(s, r) /\ CausalInv(s, r)
  <2>1. bcast[s] = 0 /\ bcast[r] = 0 /\ network[s][r] = << >>
    BY DEF Init
  <2>2. \A k \in Broadcasts : ~Sent(k, s, r) /\ ~Got(k, r)
    BY <2>1 DEF Sent, Got, Broadcasts
  <2>3. Waiting(s, r) = {}
    BY <2>2 DEF Waiting
  <2>4. Lists(<< >>, {})
    BY DEF Lists
  <2> QED
    BY <2>1, <2>2, <2>3, <2>4 DEF ChannelInv, CausalInv
<1> QED
  BY <1>1, <1>2, <1>3 DEF IInv, Channels

LEMMA NextIInv == IInv /\ [Next]_vars => IInv'
<1> SUFFICES ASSUME IInv, [Next]_vars PROVE IInv'
  OBVIOUS
<1>1. CASE UNCHANGED vars
  <2>1. PICK a \in Ranks : TRUE
    BY RanksAre
  <2>2. /\ bcast' = bcast /\ stage' = stage /\ d' = d /\ start' = start
        /\ recvd_flag' = recvd_flag /\ back' = back /\ peer' = peer
        /\ invoice' = invoice /\ network' = network /\ received' = received
    BY <1>1 DEF vars, local
  <2>3. Others(a)
    BY <2>2 DEF Others
  <2>4. GotNow(a)' <=> GotNow(a)
    BY <2>2 DEF GotNow
  <2>5. SameGot(a)
    BY <2>2, <2>4 DEF SameGot, Got
  <2>6. \A r \in Ranks : SentNow(a, r)' <=> SentNow(a, r)
    BY <2>2 DEF SentNow
  <2>7. SameSent(a)
    BY <2>2, <2>6 DEF SameSent, Sent
  <2>8. TypeInv /\ Channels /\ PlaceInv(a) /\ InvoiceInv(a)
    BY DEF IInv
  <2>9. Channels'
    BY <2>2, <2>3, <2>5, <2>7, <2>8, QuietStep
  <2>10. TypeInv'
    BY <2>2, <2>8 DEF TypeInv
  <2>11. PlaceInv(a)' /\ InvoiceInv(a)'
    BY <2>2, <2>4, <2>8 DEF PlaceInv, InvoiceInv
  <2> QED
    BY <2>3, <2>9, <2>10, <2>11, StepKeeps
<1>2. CASE Next
  <2>1. PICK a \in Ranks : Step(a)
    BY <1>2 DEF Next
  <2> QED
    BY <2>1, EnterKeeps, SendReturnsKeeps, SkipKeeps, RecvInLoopKeeps, RecvBeyondKeeps,
       LeaveKeeps, SendInLoopKeeps, SendBeyondKeeps DEF Step
<1> QED
  BY <1>1, <1>2

\* Every rank leaves each call of amps_BCast with the data its source put into
\* that broadcast: for every number of ranks up to 32768, every sequence of
\* sources, buffered and waiting sends, and however far ranks run ahead.
THEOREM EveryoneGetsItsBroadcast == Spec => []EachGetsItsBroadcast
<1>1. IInv => EachGetsItsBroadcast
  BY DEF IInv, InvoiceInv, EachGetsItsBroadcast
<1> QED
  BY <1>1, InitIInv, NextIInv, PTL DEF Spec

=============================================================================
