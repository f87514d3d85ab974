--------------------------- MODULE InputDatabase_proofs ---------------------------
(***************************************************************************)
(* Proofs about the height balanced tree of hbt.c and about the input      *)
(* database that is kept in it, for every set of keys, every deck and every *)
(* set of calls.                                                           *)
(***************************************************************************)
EXTENDS InputDatabase, FiniteSetTheorems, WellFoundedInduction, TLAPS

\* A set of naturals that is not empty has a least element.
LEMMA LeastNumber ==
  ASSUME NEW S, S \subseteq Nat, S # {}
  PROVE  \E x \in S : \A y \in S : x <= y
<1> DEFINE R == OpToRel(<, Nat)
<1>1. IsWellFoundedOn(R, Nat)
  BY NatLessThanWellFounded
<1>2. \A x, y \in S : y < x => <<y, x>> \in R
  BY DEF OpToRel
<1> HIDE DEF R
<1>3. PICK x \in S : \A y \in S : ~(<<y, x>> \in R)
  BY <1>1, WFMin
<1>4. \A y \in S : ~(y < x)
  BY <1>2, <1>3
<1>5. \A y \in S : x <= y
  BY <1>4
<1> QED
  BY <1>5

\* A set of naturals that is not empty and has a bound has a greatest element.
LEMMA GreatestNumber ==
  ASSUME NEW S, S \subseteq Nat, S # {}, NEW N \in Nat, \A x \in S : x <= N
  PROVE  \E x \in S : \A y \in S : y <= x
<1> DEFINE D == {n \in Nat : \E x \in S : n = N - x}
<1>1. PICK a \in S : TRUE
  OBVIOUS
<1>2. a \in Nat /\ N - a \in D
  BY <1>1
<1>3. D \subseteq Nat /\ D # {}
  BY <1>2
<1>4. PICK d \in D : \A e \in D : d <= e
  <2> HIDE DEF D
  <2> QED
    BY <1>3, LeastNumber
<1>5. PICK x \in S : d = N - x
  BY <1>4
<1>6. ASSUME NEW y \in S PROVE y <= x
  <2>1. N - y \in D /\ x \in Nat /\ y \in Nat
    BY <1>6
  <2>2. d <= N - y
    BY <1>4, <2>1
  <2> QED
    BY <2>1, <2>2, <1>5
<1> QED
  BY <1>6

\* A property of 0 that passes from each number to the next one holds of all.
LEMMA Induction ==
  ASSUME NEW P, 0 \in P, \A n \in Nat : n \in P => n + 1 \in P
  PROVE  Nat \subseteq P
<1> DEFINE D == {n \in Nat : n \notin P}
<1> SUFFICES ASSUME D # {} PROVE FALSE
  OBVIOUS
<1>1. PICK d \in D : \A e \in D : d <= e
  <2>1. D \subseteq Nat
    OBVIOUS
  <2> HIDE DEF D
  <2> QED
    BY <2>1, LeastNumber
<1>2. d # 0 /\ d \in Nat /\ d \notin P
  BY <1>1
<1>3. d - 1 \in Nat /\ d - 1 \notin D
  BY <1>1, <1>2
<1> QED
  BY <1>2, <1>3

\* The value G gives x depends only on the values at elements of smaller rank.
Grounded(S, X, h, N, G) ==
  /\ X # {}
  /\ h \in [S -> Nat]
  /\ N \in Nat
  /\ \A x \in S : h[x] <= N
  /\ G \in [S -> [[S -> X] -> X]]
  /\ \A x \in S : \A f, g \in [S -> X] :
       (\A y \in S : h[y] < h[x] => f[y] = g[y]) => G[x][f] = G[x][g]

Solvable(S, X, G) == \E f \in [S -> X] : \A x \in S : f[x] = G[x][f]

\* A definition by recursion on the rank has a solution.
LEMMA Recursion ==
  ASSUME NEW S, NEW X, NEW h, NEW N, NEW G, Grounded(S, X, h, N, G)
  PROVE  Solvable(S, X, G)
<1> USE DEF Grounded, Solvable
<1> DEFINE Good(n) == \E f \in [S -> X] : \A x \in S : h[x] < n => f[x] = G[x][f]
           P == {n \in Nat : Good(n)}
<1>1. 0 \in P
  <2>1. PICK a \in X : TRUE
    OBVIOUS
  <2>2. [x \in S |-> a] \in [S -> X]
    BY <2>1
  <2>3. \A x \in S : ~(h[x] < 0)
    OBVIOUS
  <2> QED
    BY <2>2, <2>3
<1>2. ASSUME NEW n \in Nat, n \in P PROVE n + 1 \in P
  <2>1. PICK f \in [S -> X] : \A x \in S : h[x] < n => f[x] = G[x][f]
    BY <1>2
  <2> DEFINE g == [x \in S |-> G[x][f]]
  <2>2. g \in [S -> X] /\ \A x \in S : g[x] = G[x][f]
    OBVIOUS
  <2>3. \A x \in S : h[x] < n => g[x] = f[x]
    BY <2>1, <2>2
  <2> HIDE DEF g
  <2>4. ASSUME NEW x \in S, h[x] < n + 1 PROVE g[x] = G[x][g]
    <3>1. \A y \in S : h[y] < h[x] => f[y] = g[y]
      <4> SUFFICES ASSUME NEW y \in S, h[y] < h[x] PROVE f[y] = g[y]
        OBVIOUS
      <4>1. h[y] \in Nat /\ h[x] \in Nat
        OBVIOUS
      <4>2. h[y] < n
        BY <4>1, <2>4
      <4> QED
        BY <4>2, <2>3
    <3>2. G[x][f] = G[x][g]
      BY <3>1, <2>2
    <3> QED
      BY <3>2, <2>2
  <2> QED
    BY <2>2, <2>4
<1>3. Nat \subseteq P
  <2> HIDE DEF P
  <2> QED
    BY <1>1, <1>2, Induction
<1>4. PICK f \in [S -> X] : \A x \in S : h[x] < N + 1 => f[x] = G[x][f]
  <2>1. N + 1 \in P
    BY <1>3
  <2> QED
    BY <2>1
<1>5. ASSUME NEW x \in S PROVE f[x] = G[x][f]
  <2>1. h[x] \in Nat /\ h[x] <= N
    OBVIOUS
  <2>2. h[x] < N + 1
    BY <2>1
  <2> QED
    BY <2>2, <1>4
<1> QED
  BY <1>5

--------------------------------------------------------------------------------
(***************************************************************************)
(* What makes t a search tree: h gives the height of the subtree at an     *)
(* element, rng the keys a search may be for when it arrives there, and fa *)
(* the father.                                                             *)
(***************************************************************************)
Pos  == Nat \ {0}
Dirs == {-1, 1}

\* k lies on the side d of x.
InDir(k, x, d) == (d = 1 /\ k > x) \/ (d = -1 /\ k < x)

Nodes(t) == DOMAIN t.node

Typed(t, V) ==
  /\ t = [root |-> t.root, height |-> t.height, num |-> t.num, node |-> t.node]
  /\ Nodes(t) \subseteq Pos
  /\ t.root \in Pointers(t)
  /\ t.height \in Nat
  /\ t.node \in [Nodes(t) -> [obj : V, balance : {-1, 0, 1},
                              son : [Dirs -> Pointers(t)]]]

Counted(t) ==
  /\ IsFiniteSet(Nodes(t))
  /\ t.num = Cardinality(Nodes(t))
  /\ t.root = NULL <=> Nodes(t) = {}

\* The height of an element over sons of heights l and r.
Over(l, r) == 1 + (IF l < r THEN r ELSE l)

Ranked(t, h) ==
  /\ h \in [Pointers(t) -> Nat]
  /\ h[NULL] = 0
  /\ \A x \in Nodes(t) : h[x] = Over(h[Son(t, x, -1)], h[Son(t, x, 1)])
  /\ \A x \in Nodes(t) : B(t, x) = h[Son(t, x, 1)] - h[Son(t, x, -1)]
  /\ \A x \in Nodes(t) : h[x] <= h[t.root]
  /\ t.height = h[t.root]

Ordered(t, rng) ==
  /\ rng \in [Nodes(t) -> SUBSET Pos]
  /\ t.root # NULL => rng[t.root] = Pos
  /\ \A x \in Nodes(t) : x \in rng[x]
  /\ \A x \in Nodes(t) : \A d \in Dirs : Son(t, x, d) # NULL =>
       \A k \in Pos : k \in rng[Son(t, x, d)] <=> k \in rng[x] /\ InDir(k, x, d)

Fathered(t, fa) ==
  /\ fa \in [Nodes(t) -> Pointers(t)]
  /\ \A x \in Nodes(t) : \A d \in Dirs : Son(t, x, d) # NULL => fa[Son(t, x, d)] = x
  /\ t.root # NULL => fa[t.root] = NULL
  /\ \A y \in Nodes(t) : y # t.root =>
       fa[y] \in Nodes(t) /\ Son(t, fa[y], Dir(y, fa[y])) = y

Tree(t, V, h, rng, fa) ==
  /\ Typed(t, V)
  /\ Counted(t)
  /\ Ranked(t, h)
  /\ Ordered(t, rng)
  /\ Fathered(t, fa)

\* Sons are pointers, and of smaller height.
LEMMA SonsAre ==
  ASSUME NEW t, NEW V, NEW h, Typed(t, V), Ranked(t, h), NEW x \in Nodes(t), NEW d \in Dirs
  PROVE  /\ Son(t, x, d) \in Pointers(t)
         /\ h[x] \in Nat /\ h[Son(t, x, d)] \in Nat
         /\ h[Son(t, x, d)] < h[x]
         /\ h[x] > 0
         /\ B(t, x) \in {-1, 0, 1}
<1>1. Son(t, x, -1) \in Pointers(t) /\ Son(t, x, 1) \in Pointers(t) /\ x \in Pointers(t)
  BY DEF Typed, Dirs, Son, Pointers, Nodes
<1>2. h[Son(t, x, -1)] \in Nat /\ h[Son(t, x, 1)] \in Nat /\ h[x] \in Nat
  BY <1>1 DEF Ranked
<1>3. h[x] = Over(h[Son(t, x, -1)], h[Son(t, x, 1)])
  BY DEF Ranked
<1>4. h[x] > 0 /\ h[Son(t, x, -1)] < h[x] /\ h[Son(t, x, 1)] < h[x]
  BY <1>2, <1>3 DEF Over
<1>5. B(t, x) \in {-1, 0, 1}
  BY DEF Typed, B, Nodes
<1> QED
  BY <1>1, <1>2, <1>4, <1>5 DEF Dirs

LEMMA DirIs ==
  ASSUME NEW k \in Nat, NEW x \in Nat
  PROVE  /\ Dir(k, x) \in Dirs
         /\ k # x => InDir(k, x, Dir(k, x))
         /\ \A d \in Dirs : InDir(k, x, d) => d = Dir(k, x) /\ k # x
BY DEF Dir, Dirs, InDir, UNBALANCED_LEFT, UNBALANCED_RIGHT

\* The recursion of the search.
LEMMA DescendIs ==
  ASSUME NEW t, NEW V, NEW h, Typed(t, V), Ranked(t, h), NEW k \in Nat
  PROVE  /\ Descend(t, k, NULL) = << >>
         /\ \A x \in Nodes(t) :
              /\ Descend(t, k, x) \in Seq(Nodes(t))
              /\ Descend(t, k, x) = IF x = k THEN <<x>>
                                    ELSE <<x>> \o Descend(t, k, Son(t, x, Dir(k, x)))
         /\ Descend(t, k, NULL) \in Seq(Nodes(t))
<1> DEFINE S == Pointers(t)
           X == Seq(Nodes(t))
           e(y, f) == IF y = NULL THEN << >>
                      ELSE IF y = k THEN <<y>>
                      ELSE <<y>> \o f[Son(t, y, Dir(k, y))]
           G == [y \in S |-> [f \in [S -> X] |-> e(y, f)]]
           down == CHOOSE f : f = [y \in Pointers(t) |->
                     IF y = NULL THEN << >>
                     ELSE IF y = k THEN <<y>>
                     ELSE <<y>> \o f[Son(t, y, Dir(k, y))]]
<1>1. \A x : Descend(t, k, x) = down[x]
  BY DEF Descend
<1>2. \A y \in S : y # NULL =>
        y \in Nodes(t) /\ Son(t, y, Dir(k, y)) \in S /\ h[Son(t, y, Dir(k, y))] < h[y]
  <2> SUFFICES ASSUME NEW y \in S, y # NULL
               PROVE y \in Nodes(t) /\ Son(t, y, Dir(k, y)) \in S
                       /\ h[Son(t, y, Dir(k, y))] < h[y]
    OBVIOUS
  <2>1. y \in Nodes(t)
    BY DEF Pointers, Nodes
  <2>2. y \in Nat
    BY <2>1 DEF Typed, Pos
  <2>3. Dir(k, y) \in Dirs
    BY <2>2, DirIs
  <2> QED
    BY <2>1, <2>3, SonsAre
<1>3. \A y \in S : \A f \in [S -> X] : e(y, f) \in X
  <2> SUFFICES ASSUME NEW y \in S, NEW f \in [S -> X] PROVE e(y, f) \in X
    OBVIOUS
  <2>1. y # NULL => y \in Nodes(t) /\ f[Son(t, y, Dir(k, y))] \in X
    BY <1>2
  <2> QED
    BY <2>1
<1>4. \E f \in [S -> X] : f = [y \in S |-> e(y, f)]
  <2>1. G \in [S -> [[S -> X] -> X]]
    BY <1>3
  <2>2. \A y \in S : \A f, g \in [S -> X] :
          (\A z \in S : h[z] < h[y] => f[z] = g[z]) => G[y][f] = G[y][g]
    <3> SUFFICES ASSUME NEW y \in S, NEW f \in [S -> X], NEW g \in [S -> X],
                        \A z \in S : h[z] < h[y] => f[z] = g[z]
                 PROVE  e(y, f) = e(y, g)
      OBVIOUS
    <3>1. y # NULL => f[Son(t, y, Dir(k, y))] = g[Son(t, y, Dir(k, y))]
      BY <1>2
    <3> QED
      BY <3>1
  <2>3. h \in [S -> Nat] /\ \A y \in S : h[y] <= h[t.root]
    BY DEF Ranked, Pointers, Nodes, Typed
  <2>4. h[t.root] \in Nat
    BY <2>3 DEF Typed
  <2>5. \A y \in S : \A f \in [S -> X] : G[y][f] = e(y, f)
    OBVIOUS
  <2>6. X # {}
    <3>1. << >> \in X
      OBVIOUS
    <3> QED
      BY <3>1
  <2>7. \E f \in [S -> X] : \A y \in S : f[y] = G[y][f]
    <3> DEFINE N == h[t.root]
    <3>1. N \in Nat /\ \A y \in S : h[y] <= N
      BY <2>3, <2>4
    <3>2. h \in [S -> Nat]
      BY <2>3
    <3> HIDE DEF G, S, X, N
    <3>3. Grounded(S, X, h, N, G)
      BY <2>1, <2>2, <2>6, <3>1, <3>2 DEF Grounded
    <3>4. Solvable(S, X, G)
      BY <3>3, Recursion
    <3> QED
      BY <3>4 DEF Solvable
  <2>8. PICK f \in [S -> X] : \A y \in S : f[y] = e(y, f)
    BY <2>7, <2>5
  <2> HIDE DEF e
  <2>9. f = [y \in S |-> e(y, f)]
    BY <2>8
  <2> QED
    BY <2>9
<1>5. down = [y \in S |-> e(y, down)]
  BY <1>4
<1> HIDE DEF down
<1>6. \A y \in S : down[y] = e(y, down)
  <2> HIDE DEF e
  <2> QED
    BY <1>5
<1>7. NULL \in S /\ \A y \in Nodes(t) : y \in S /\ y # NULL
  BY DEF Pointers, Nodes, Typed, Pos, NULL
<1>8. \A y \in S : down[y] \in X
  <2> DEFINE bad == {n \in Nat : \E y \in S : h[y] = n /\ down[y] \notin X}
  <2> SUFFICES ASSUME bad # {} PROVE FALSE
    <3>1. \A y \in S : h[y] \in Nat
      BY DEF Ranked
    <3> QED
      BY <3>1
  <2>1. PICK n \in bad : \A m \in bad : n <= m
    <3>1. bad \subseteq Nat
      OBVIOUS
    <3> HIDE DEF bad
    <3> QED
      BY <3>1, LeastNumber
  <2>2. PICK y \in S : h[y] = n /\ down[y] \notin X
    BY <2>1
  <2>3. CASE y = NULL
    <3>1. down[y] = << >>
      BY <2>3, <1>6
    <3>2. << >> \in X
      OBVIOUS
    <3> QED
      BY <2>2, <3>1, <3>2
  <2>4. CASE y # NULL
    <3> DEFINE z == Son(t, y, Dir(k, y))
    <3>1. z \in S /\ h[z] < h[y] /\ y \in Nodes(t) /\ h[z] \in Nat /\ h[y] \in Nat
      BY <2>4, <1>2 DEF Ranked
    <3>2. down[z] \in X
      BY <3>1, <2>1, <2>2
    <3>3. down[y] = IF y = k THEN <<y>> ELSE <<y>> \o down[z]
      BY <1>6, <2>4
    <3> QED
      BY <3>1, <3>2, <3>3, <2>2
  <2> QED
    BY <2>3, <2>4
<1> QED
  BY <1>1, <1>6, <1>7, <1>8

\* p is the way of a search for k from x down.
Way(t, k, x, p) ==
  /\ p \in Seq(Nodes(t))
  /\ Len(p) > 0
  /\ p[1] = x
  /\ \A i \in 1..(Len(p) - 1) : p[i] # k /\ p[i + 1] = Son(t, p[i], Dir(k, p[i]))
  /\ p[Len(p)] # k => Son(t, p[Len(p)], Dir(k, p[Len(p)])) = NULL

\* An element put before a sequence.
LEMMA PrefixedIs ==
  ASSUME NEW S, NEW a \in S, NEW s \in Seq(S)
  PROVE  /\ <<a>> \o s \in Seq(S)
         /\ Len(<<a>> \o s) = Len(s) + 1
         /\ (<<a>> \o s)[1] = a
         /\ \A i \in 2..(Len(s) + 1) : (<<a>> \o s)[i] = s[i - 1]
OBVIOUS

\* A search follows the sons in the direction of the key until it finds the key
\* or there is no son.
LEMMA DescendGoesDown ==
  ASSUME NEW t, NEW V, NEW h, Typed(t, V), Ranked(t, h), NEW k \in Nat
  PROVE  \A x \in Nodes(t) : Way(t, k, x, Descend(t, k, x))
<1> DEFINE bad == {n \in Nat : \E x \in Nodes(t) : h[x] = n /\ ~Way(t, k, x, Descend(t, k, x))}
<1>0. \A x \in Nodes(t) : x \in Pointers(t) /\ h[x] \in Nat /\ x \in Nat /\ Dir(k, x) \in Dirs
  <2>1. \A x \in Nodes(t) : x \in Pointers(t) /\ h[x] \in Nat /\ x \in Nat
    BY DEF Pointers, Nodes, Ranked, Typed, Pos
  <2> QED
    BY <2>1, DirIs
<1> SUFFICES ASSUME bad # {} PROVE FALSE
  BY <1>0
<1>1. PICK n \in bad : \A m \in bad : n <= m
  <2>1. bad \subseteq Nat
    OBVIOUS
  <2> HIDE DEF bad
  <2> QED
    BY <2>1, LeastNumber
<1>2. PICK x \in Nodes(t) : h[x] = n /\ ~Way(t, k, x, Descend(t, k, x))
  BY <1>1
<1> DEFINE y == Son(t, x, Dir(k, x))
           p == Descend(t, k, x)
           q == Descend(t, k, y)
<1>3. y \in Pointers(t) /\ h[y] < h[x] /\ h[y] \in Nat /\ h[x] \in Nat
  BY <1>0, SonsAre
<1>4. p \in Seq(Nodes(t)) /\ p = (IF x = k THEN <<x>> ELSE <<x>> \o q)
  BY DescendIs
<1>5. Descend(t, k, NULL) = << >>
  BY DescendIs
<1>6. y # NULL => Way(t, k, y, q)
  <2> SUFFICES ASSUME y # NULL, ~Way(t, k, y, q) PROVE FALSE
    OBVIOUS
  <2>1. y \in Nodes(t)
    BY <1>3 DEF Pointers, Nodes
  <2>2. h[y] \in bad
    BY <2>1, <1>3
  <2>3. n <= h[y]
    BY <1>1, <2>2
  <2> QED
    BY <2>3, <1>2, <1>3
<1>7. CASE x = k
  BY <1>4, <1>7, <1>2 DEF Way
<1>8. CASE x # k /\ y = NULL
  <2>1. p = <<x>>
    BY <1>4, <1>5, <1>8
  <2> QED
    BY <2>1, <1>4, <1>8, <1>2 DEF Way
<1>9. CASE x # k /\ y # NULL
  <2>1. Way(t, k, y, q)
    BY <1>9, <1>6
  <2> HIDE DEF y, q
  <2>2. q \in Seq(Nodes(t)) /\ Len(q) > 0 /\ Len(q) \in Nat
    BY <2>1 DEF Way
  <2>3. p = <<x>> \o q
    BY <1>9, <1>4
  <2> HIDE DEF p
  <2>4. Len(p) = Len(q) + 1 /\ p[1] = x /\ \A i \in 2..(Len(q) + 1) : p[i] = q[i - 1]
    BY <2>2, <2>3, PrefixedIs
  <2>5. p[2] = y
    BY <2>1, <2>2, <2>4 DEF Way
  <2>6. \A i \in 1..(Len(p) - 1) : p[i] # k /\ p[i + 1] = Son(t, p[i], Dir(k, p[i]))
    <3> SUFFICES ASSUME NEW i \in 1..(Len(p) - 1)
                 PROVE  p[i] # k /\ p[i + 1] = Son(t, p[i], Dir(k, p[i]))
      OBVIOUS
    <3>1. CASE i = 1
      BY <3>1, <2>4, <2>5, <1>9 DEF y
    <3>2. CASE i # 1
      <4>1. i - 1 \in 1..(Len(q) - 1) /\ i \in 2..(Len(q) + 1) /\ i + 1 \in 2..(Len(q) + 1)
        BY <3>2, <2>2, <2>4
      <4>2. p[i] = q[i - 1] /\ p[i + 1] = q[(i - 1) + 1]
        BY <4>1, <2>4
      <4> QED
        BY <4>1, <4>2, <2>1 DEF Way
    <3> QED
      BY <3>1, <3>2
  <2>7. p[Len(p)] = q[Len(q)]
    <3>1. Len(p) \in 2..(Len(q) + 1)
      BY <2>2, <2>4
    <3>2. p[Len(p)] = q[Len(p) - 1]
      BY <3>1, <2>4
    <3>3. Len(p) - 1 = Len(q)
      BY <2>2, <2>4
    <3> QED
      BY <3>2, <3>3
  <2>8. Len(p) > 0
    BY <2>2, <2>4
  <2>9. Way(t, k, x, p)
    BY <1>4, <2>1, <2>4, <2>6, <2>7, <2>8 DEF Way, p
  <2> QED
    BY <2>9, <1>2 DEF p
<1> QED
  BY <1>7, <1>8, <1>9

\* Down a way the heights decrease, so that it has each element once.
LEMMA WayGoesDown ==
  ASSUME NEW t, NEW V, NEW h, Typed(t, V), Ranked(t, h), NEW k \in Nat, NEW x, NEW p,
         Way(t, k, x, p)
  PROVE  /\ \A i \in 1..Len(p) : p[i] \in Nodes(t)
         /\ \A i, j \in 1..Len(p) : i < j => h[p[j]] < h[p[i]]
         /\ \A i, j \in 1..Len(p) : p[i] = p[j] => i = j
<1>0. p \in Seq(Nodes(t)) /\ Len(p) \in Nat
  BY DEF Way
<1>1. \A i \in 1..Len(p) : p[i] \in Nodes(t)
  BY <1>0
<1>2. \A i \in 1..Len(p) : p[i] \in Nat /\ h[p[i]] \in Nat
  BY <1>1 DEF Typed, Pos, Ranked, Pointers, Nodes
<1>3. \A i \in 1..(Len(p) - 1) : h[p[i + 1]] < h[p[i]]
  <2> SUFFICES ASSUME NEW i \in 1..(Len(p) - 1) PROVE h[p[i + 1]] < h[p[i]]
    OBVIOUS
  <2>1. i \in 1..Len(p) /\ p[i + 1] = Son(t, p[i], Dir(k, p[i]))
    BY <1>0 DEF Way
  <2>2. p[i] \in Nodes(t) /\ p[i] \in Nat
    BY <2>1, <1>1, <1>2
  <2>3. Dir(k, p[i]) \in Dirs
    BY <2>2, DirIs
  <2>4. h[Son(t, p[i], Dir(k, p[i]))] < h[p[i]]
    BY <2>2, <2>3, SonsAre
  <2> QED
    BY <2>1, <2>4
<1>4. ASSUME NEW i \in 1..Len(p) PROVE \A j \in 1..Len(p) : i < j => h[p[j]] < h[p[i]]
  <2> DEFINE bad == {j \in Nat : j \in 1..Len(p) /\ i < j /\ ~(h[p[j]] < h[p[i]])}
  <2> SUFFICES ASSUME bad # {} PROVE FALSE
    BY <1>0
  <2>1. PICK j \in bad : \A m \in bad : j <= m
    <3>1. bad \subseteq Nat
      OBVIOUS
    <3> HIDE DEF bad
    <3> QED
      BY <3>1, LeastNumber
  <2>2. j \in 1..Len(p) /\ i < j /\ j \in Nat /\ i \in Nat
    BY <1>4, <2>1
  <2>3. j - 1 \in Nat /\ j - 1 \in 1..Len(p) /\ j - 1 \in 1..(Len(p) - 1) /\ (j - 1) + 1 = j
    BY <2>2, <1>0
  <2>4. h[p[j]] < h[p[j - 1]]
    BY <2>3, <1>3
  <2>5. j - 1 = i \/ h[p[j - 1]] < h[p[i]]
    <3> SUFFICES ASSUME j - 1 # i, ~(h[p[j - 1]] < h[p[i]]) PROVE FALSE
      OBVIOUS
    <3>1. j - 1 \in bad
      BY <2>2, <2>3
    <3>2. j <= j - 1
      BY <3>1, <2>1
    <3> QED
      BY <3>2, <2>2
  <2>6. h[p[j]] \in Nat /\ h[p[j - 1]] \in Nat /\ h[p[i]] \in Nat
    BY <1>4, <2>2, <2>3, <1>2
  <2>7. h[p[j]] < h[p[i]]
    BY <2>4, <2>5, <2>6
  <2> QED
    BY <2>7, <2>1
<1>5. \A i, j \in 1..Len(p) : p[i] = p[j] => i = j
  <2> SUFFICES ASSUME NEW i \in 1..Len(p), NEW j \in 1..Len(p), p[i] = p[j], i # j
               PROVE  FALSE
    OBVIOUS
  <2>1. i < j \/ j < i
    OBVIOUS
  <2>2. h[p[i]] < h[p[j]] \/ h[p[j]] < h[p[i]]
    BY <2>1, <1>4
  <2>3. h[p[i]] \in Nat
    BY <1>2
  <2> QED
    BY <2>2, <2>3
<1> QED
  BY <1>1, <1>4, <1>5

\* On the way of a search for k from the root every element is one a search for k
\* may come to.
LEMMA WayIsFor ==
  ASSUME NEW t, NEW V, NEW h, NEW rng, NEW fa, Tree(t, V, h, rng, fa), NEW k \in Pos, NEW p,
         t.root # NULL, Way(t, k, t.root, p)
  PROVE  \A i \in 1..Len(p) : k \in rng[p[i]]
<1> DEFINE bad == {i \in Nat : i \in 1..Len(p) /\ k \notin rng[p[i]]}
<1> USE DEF Tree
<1>0. k \in Nat
  BY DEF Pos
<1> SUFFICES ASSUME bad # {} PROVE FALSE
  OBVIOUS
<1>1. PICK j \in bad : \A m \in bad : j <= m
  <2>1. bad \subseteq Nat
    OBVIOUS
  <2> HIDE DEF bad
  <2> QED
    BY <2>1, LeastNumber
<1>2. j \in Nat /\ j \in 1..Len(p) /\ k \notin rng[p[j]] /\ Len(p) \in Nat
  BY <1>1 DEF Way
<1>3. j # 1
  BY <1>2 DEF Way, Ordered
<1>4. j - 1 \in Nat /\ j - 1 \in 1..Len(p) /\ j - 1 \in 1..(Len(p) - 1) /\ (j - 1) + 1 = j
  BY <1>2, <1>3
<1> DEFINE x == p[j - 1]
           y == p[j]
<1>5. k \in rng[x]
  <2> SUFFICES ASSUME k \notin rng[x] PROVE FALSE
    OBVIOUS
  <2>1. j - 1 \in bad
    BY <1>4
  <2>2. j <= j - 1
    BY <2>1, <1>1
  <2> QED
    BY <2>2, <1>2
<1>6. x # k /\ y = Son(t, x, Dir(k, x))
  BY <1>4 DEF Way
<1>7. x \in Nodes(t) /\ y \in Nodes(t)
  <2>1. \A i \in 1..Len(p) : p[i] \in Nodes(t)
    BY <1>0, WayGoesDown
  <2> QED
    BY <2>1, <1>2, <1>4
<1>8. x \in Nat /\ y # NULL
  BY <1>7 DEF Typed, Pos, NULL
<1>9. Dir(k, x) \in Dirs /\ InDir(k, x, Dir(k, x))
  BY <1>6, <1>8, <1>0, DirIs
<1>10. k \in rng[y]
  <2> HIDE DEF x, y
  <2> QED
    BY <1>5, <1>6, <1>7, <1>8, <1>9 DEF Ordered
<1> QED
  BY <1>10, <1>2

\* It has all the elements a search for k may come to.
LEMMA WayHasAll ==
  ASSUME NEW t, NEW V, NEW h, NEW rng, NEW fa, Tree(t, V, h, rng, fa), NEW k \in Pos, NEW p,
         t.root # NULL, Way(t, k, t.root, p),
         NEW y \in Nodes(t), k \in rng[y]
  PROVE  \E i \in 1..Len(p) : p[i] = y
<1> USE DEF Tree
<1>0. k \in Nat
  BY DEF Pos
<1> DEFINE off(z) == \A i \in 1..Len(p) : p[i] # z
           bad == {n \in Nat : \E z \in Nodes(t) : n = h[z] /\ k \in rng[z] /\ off(z)}
<1>1. \A z \in Nodes(t) : z \in Pointers(t) /\ h[z] \in Nat /\ h[z] <= h[t.root] /\ z \in Nat /\ z # NULL
  BY DEF Ranked, Pointers, Nodes, Typed, Pos, NULL
<1>2. h[t.root] \in Nat
  BY DEF Ranked, Typed
<1> SUFFICES ASSUME off(y) PROVE FALSE
  OBVIOUS
<1>3. bad \subseteq Nat /\ bad # {} /\ \A n \in bad : n <= h[t.root]
  <2>1. h[y] \in bad
    BY <1>1
  <2> QED
    BY <2>1, <1>1
<1>4. PICK n \in bad : \A m \in bad : m <= n
  <2> DEFINE N == h[t.root]
  <2> HIDE DEF bad, N
  <2>1. N \in Nat /\ \A m \in bad : m <= N
    BY <1>2, <1>3 DEF N
  <2> QED
    BY <1>3, <2>1, GreatestNumber
<1>5. PICK z \in Nodes(t) : n = h[z] /\ k \in rng[z] /\ off(z)
  BY <1>4
<1>6. Len(p) \in Nat /\ Len(p) > 0 /\ p[1] = t.root
  BY DEF Way
<1>7. z # t.root
  BY <1>5, <1>6
<1> DEFINE f == fa[z]
           d == Dir(z, f)
<1>8. f \in Nodes(t) /\ Son(t, f, d) = z
  BY <1>5, <1>7 DEF Fathered
<1>9. d \in Dirs /\ z \in Nat /\ f \in Nat /\ z # NULL
  BY <1>1, <1>8, DirIs
<1> HIDE DEF f, d
<1>10. k \in rng[f] /\ InDir(k, f, d)
  BY <1>5, <1>8, <1>9 DEF Ordered
<1>11. d = Dir(k, f) /\ k # f
  BY <1>10, <1>9, <1>0, DirIs
<1>12. h[z] < h[f]
  BY <1>8, <1>9, SonsAre
<1>13. ~off(f)
  <2> SUFFICES ASSUME off(f) PROVE FALSE
    OBVIOUS
  <2>1. h[f] \in bad
    BY <1>1, <1>8, <1>10
  <2>2. h[f] <= n
    BY <2>1, <1>4
  <2> QED
    BY <2>2, <1>12, <1>5, <1>8, <1>1
<1>14. PICK i \in 1..Len(p) : p[i] = f
  BY <1>13
<1>15. CASE i = Len(p)
  <2>1. Son(t, f, d) = NULL
    BY <1>15, <1>14, <1>11 DEF Way
  <2> QED
    BY <2>1, <1>8, <1>9
<1>16. CASE i # Len(p)
  <2>1. i \in 1..(Len(p) - 1) /\ i + 1 \in 1..Len(p)
    BY <1>16, <1>6
  <2>2. p[i + 1] = z
    BY <2>1, <1>14, <1>11, <1>8 DEF Way
  <2> QED
    BY <2>1, <2>2, <1>5
<1> QED
  BY <1>15, <1>16

--------------------------------------------------------------------------------
\* The same elements with the same objects.
Alike(t, u) ==
  /\ Nodes(u) = Nodes(t)
  /\ Pointers(u) = Pointers(t)
  /\ u.num = t.num
  /\ \A x \in Nodes(t) : u.node[x].obj = t.node[x].obj

SameLinks(t, u) == \A z \in Nodes(t) : \A e \in Dirs : Son(u, z, e) = Son(t, z, e)
SameBalances(t, u) == \A z \in Nodes(t) : B(u, z) = B(t, z)

LEMMA SonIsPointer ==
  ASSUME NEW t, NEW V, Typed(t, V), NEW x \in Nodes(t), NEW d \in Dirs
  PROVE  Son(t, x, d) \in Pointers(t)
BY DEF Typed, Son

LEMMA SetSonIs ==
  ASSUME NEW t, NEW V, Typed(t, V), NEW x \in Nodes(t), NEW d \in Dirs, NEW y \in Pointers(t)
  PROVE  LET u == SetSon(t, x, d, y)
         IN  /\ Typed(u, V) /\ Alike(t, u) /\ SameBalances(t, u)
             /\ u.root = t.root /\ u.height = t.height
             /\ \A z \in Nodes(t) : \A e \in Dirs :
                  Son(u, z, e) = IF z = x /\ e = d THEN y ELSE Son(t, z, e)
<1> DEFINE u == SetSon(t, x, d, y)
           sons == [t.node[x].son EXCEPT ![d] = y]
           elem == [t.node[x] EXCEPT !.son = sons]
           node == [t.node EXCEPT ![x] = elem]
           E == [obj : V, balance : {-1, 0, 1}, son : [Dirs -> Pointers(t)]]
<1>1. u = [t EXCEPT !.node = node]
  BY DEF SetSon
<1>2. u = [root |-> t.root, height |-> t.height, num |-> t.num, node |-> node]
  BY <1>1 DEF Typed
<1>3. u.root = t.root /\ u.height = t.height /\ u.num = t.num /\ u.node = node
  BY <1>2
<1>4. t.node \in [Nodes(t) -> E] /\ t.node[x] \in E
  BY DEF Typed
<1>5. sons \in [Dirs -> Pointers(t)] /\ \A e \in Dirs : sons[e] = IF e = d THEN y ELSE t.node[x].son[e]
  BY <1>4
<1> HIDE DEF sons
<1>6. elem \in E /\ elem.obj = t.node[x].obj /\ elem.balance = t.node[x].balance /\ elem.son = sons
  BY <1>4, <1>5
<1> HIDE DEF elem
<1>7. node \in [Nodes(t) -> E] /\ \A z \in Nodes(t) : node[z] = IF z = x THEN elem ELSE t.node[z]
  BY <1>4, <1>6
<1>8. Nodes(u) = Nodes(t) /\ Pointers(u) = Pointers(t)
  BY <1>3, <1>7 DEF Nodes, Pointers
<1> HIDE DEF node, u
<1>9. Typed(u, V)
  BY <1>2, <1>3, <1>7, <1>8 DEF Typed
<1>10. \A z \in Nodes(t) : \A e \in Dirs :
         Son(u, z, e) = IF z = x /\ e = d THEN y ELSE Son(t, z, e)
  BY <1>3, <1>5, <1>6, <1>7 DEF Son
<1>11. SameBalances(t, u) /\ Alike(t, u)
  BY <1>3, <1>6, <1>7, <1>8 DEF SameBalances, Alike, B
<1> QED
  BY <1>3, <1>9, <1>10, <1>11 DEF u

LEMMA SetBIs ==
  ASSUME NEW t, NEW V, Typed(t, V), NEW x \in Nodes(t), NEW b \in {-1, 0, 1}
  PROVE  LET u == SetB(t, x, b)
         IN  /\ Typed(u, V) /\ Alike(t, u) /\ SameLinks(t, u)
             /\ u.root = t.root /\ u.height = t.height
             /\ \A z \in Nodes(t) : B(u, z) = IF z = x THEN b ELSE B(t, z)
<1> DEFINE u == SetB(t, x, b)
           elem == [t.node[x] EXCEPT !.balance = b]
           node == [t.node EXCEPT ![x] = elem]
           E == [obj : V, balance : {-1, 0, 1}, son : [Dirs -> Pointers(t)]]
<1>1. u = [t EXCEPT !.node = node]
  BY DEF SetB
<1>2. u = [root |-> t.root, height |-> t.height, num |-> t.num, node |-> node]
  BY <1>1 DEF Typed
<1>3. u.root = t.root /\ u.height = t.height /\ u.num = t.num /\ u.node = node
  BY <1>2
<1>4. t.node \in [Nodes(t) -> E] /\ t.node[x] \in E
  BY DEF Typed
<1>6. elem \in E /\ elem.obj = t.node[x].obj /\ elem.balance = b /\ elem.son = t.node[x].son
  BY <1>4
<1> HIDE DEF elem
<1>7. node \in [Nodes(t) -> E] /\ \A z \in Nodes(t) : node[z] = IF z = x THEN elem ELSE t.node[z]
  BY <1>4, <1>6
<1>8. Nodes(u) = Nodes(t) /\ Pointers(u) = Pointers(t)
  BY <1>3, <1>7 DEF Nodes, Pointers
<1> HIDE DEF node, u
<1>9. Typed(u, V)
  BY <1>2, <1>3, <1>7, <1>8 DEF Typed
<1>10. SameLinks(t, u)
  BY <1>3, <1>6, <1>7 DEF Son, SameLinks
<1>11. Alike(t, u) /\ \A z \in Nodes(t) : B(u, z) = IF z = x THEN b ELSE B(t, z)
  BY <1>3, <1>6, <1>7, <1>8 DEF Alike, B
<1> QED
  BY <1>3, <1>9, <1>10, <1>11 DEF u

LEMMA SetRootIs ==
  ASSUME NEW t, NEW V, Typed(t, V), NEW x \in Pointers(t)
  PROVE  LET u == [t EXCEPT !.root = x]
         IN  /\ Typed(u, V) /\ Alike(t, u) /\ SameLinks(t, u) /\ SameBalances(t, u)
             /\ u.root = x /\ u.height = t.height
<1> DEFINE u == [t EXCEPT !.root = x]
<1>1. u = [root |-> x, height |-> t.height, num |-> t.num, node |-> t.node]
  BY DEF Typed
<1>2. u.root = x /\ u.height = t.height /\ u.num = t.num /\ u.node = t.node
  BY <1>1
<1> HIDE DEF u
<1> QED
  BY <1>1, <1>2 DEF Typed, Alike, SameLinks, SameBalances, Nodes, Pointers, Son, B, u

LEMMA SetHeightIs ==
  ASSUME NEW t, NEW V, Typed(t, V), NEW n \in Nat
  PROVE  LET u == [t EXCEPT !.height = n]
         IN  /\ Typed(u, V) /\ Alike(t, u) /\ SameLinks(t, u) /\ SameBalances(t, u)
             /\ u.root = t.root /\ u.height = n
<1> DEFINE u == [t EXCEPT !.height = n]
<1>1. u = [root |-> t.root, height |-> n, num |-> t.num, node |-> t.node]
  BY DEF Typed
<1>2. u.root = t.root /\ u.height = n /\ u.num = t.num /\ u.node = t.node
  BY <1>1
<1> HIDE DEF u
<1> QED
  BY <1>1, <1>2 DEF Typed, Alike, SameLinks, SameBalances, Nodes, Pointers, Son, B, u

--------------------------------------------------------------------------------
Shape(t, V, rng, fa) == Typed(t, V) /\ Counted(t) /\ Ordered(t, rng) /\ Fathered(t, fa)

\* w is u with the son of x in direction d lifted over x: x takes the inner son of
\* its son, and the father of x is linked to the son.
Rotated(u, w, x, d, fa) ==
  LET s == Son(u, x, d)
  IN  /\ Alike(u, w)
      /\ w.root = IF x = u.root THEN s ELSE u.root
      /\ \A z \in Nodes(u) : \A e \in Dirs :
           Son(w, z, e) = IF z = x /\ e = d THEN Son(u, s, -d)
                          ELSE IF z = s /\ e = -d THEN x
                          ELSE IF x # u.root /\ z = fa[x] /\ e = Dir(x, fa[x]) THEN s
                          ELSE Son(u, z, e)

\* The ranges and fathers after it.
RotatedRng(u, x, d, rng) ==
  LET s == Son(u, x, d)
  IN  [z \in Nodes(u) |-> IF z = s THEN rng[x]
                          ELSE IF z = x THEN {c \in rng[x] : InDir(c, s, -d)}
                          ELSE rng[z]]

RotatedFa(u, x, d, fa) ==
  LET s == Son(u, x, d)
  IN  [z \in Nodes(u) |-> IF z = s THEN fa[x]
                          ELSE IF z = x THEN s
                          ELSE IF z = Son(u, s, -d) THEN x
                          ELSE fa[z]]

\* What links say of the elements they join.
LEMMA LinkIs ==
  ASSUME NEW u, NEW V, NEW rng, NEW fa, Shape(u, V, rng, fa),
         NEW x \in Nodes(u), NEW d \in Dirs, Son(u, x, d) # NULL
  PROVE  LET s == Son(u, x, d)
         IN  /\ s \in Nodes(u) /\ x \in Pos /\ s \in Pos /\ x # s
             /\ s # u.root /\ fa[s] = x
             /\ s \in rng[x] /\ InDir(s, x, d) /\ InDir(x, s, -d) /\ x \notin rng[s]
             /\ Dir(s, x) = d /\ Dir(x, s) = -d /\ -d \in Dirs
             /\ \A c \in Pos : c \in rng[s] <=> c \in rng[x] /\ InDir(c, x, d)
<1> USE DEF Shape
<1> DEFINE s == Son(u, x, d)
<1>1. s \in Nodes(u)
  BY DEF Typed, Dirs, Son, Pointers, Nodes
<1>2. s \in Pos /\ x \in Pos /\ -d \in Dirs
  BY <1>1 DEF Typed, Dirs
<1>3. fa[s] = x /\ s \in rng[s]
  BY <1>1 DEF Fathered, Ordered
<1>4. \A c \in Pos : c \in rng[s] <=> c \in rng[x] /\ InDir(c, x, d)
  BY <1>1 DEF Ordered
<1> HIDE DEF s
<1>5. s \in rng[x] /\ InDir(s, x, d)
  BY <1>2, <1>3, <1>4
<1>6. InDir(x, s, -d) /\ x # s /\ ~InDir(x, x, d)
  BY <1>2, <1>5 DEF InDir, Pos, Dirs
<1>7. x \notin rng[s]
  BY <1>2, <1>4, <1>6
<1>8. Dir(s, x) = d /\ Dir(x, s) = -d
  BY <1>2, <1>5, <1>6, DirIs DEF Pos
<1>9. s # u.root
  <2> SUFFICES ASSUME s = u.root PROVE FALSE
    OBVIOUS
  <2>1. fa[s] = NULL
    BY <1>2 DEF Fathered, Pos, NULL
  <2> QED
    BY <2>1, <1>3, <1>2 DEF Pos, NULL
<1> QED
  BY <1>1, <1>2, <1>3, <1>4, <1>5, <1>6, <1>7, <1>8, <1>9 DEF s

\* What the link from its father says of an element.
LEMMA FatherIs ==
  ASSUME NEW u, NEW V, NEW rng, NEW fa, Shape(u, V, rng, fa),
         NEW x \in Nodes(u), x # u.root
  PROVE  LET f == fa[x]
             e == Dir(x, f)
         IN  /\ f \in Nodes(u) /\ e \in Dirs /\ Son(u, f, e) = x /\ f \notin rng[x]
             /\ \A c \in rng[x] : c \in rng[f] /\ InDir(c, f, e) /\ Dir(c, f) = e
<1> USE DEF Shape
<1> DEFINE f == fa[x]
           e == Dir(x, f)
<1>1. f \in Nodes(u) /\ Son(u, f, e) = x
  BY DEF Fathered
<1>2. f \in Nat /\ x \in Nat /\ x # NULL
  BY <1>1 DEF Typed, Pos, NULL
<1>3. e \in Dirs
  BY <1>2, DirIs
<1> HIDE DEF f, e
<1>4. f \notin rng[x] /\ \A c \in Pos : c \in rng[x] <=> c \in rng[f] /\ InDir(c, f, e)
  BY <1>1, <1>2, <1>3, LinkIs
<1>5. ASSUME NEW c \in rng[x] PROVE c \in rng[f] /\ InDir(c, f, e) /\ Dir(c, f) = e
  <2>1. c \in Pos
    BY DEF Ordered
  <2>2. c \in rng[f] /\ InDir(c, f, e)
    BY <2>1, <1>4
  <2>3. c \in Nat
    BY <2>1 DEF Pos
  <2> QED
    BY <2>2, <2>3, <1>2, <1>3, DirIs
<1> QED
  BY <1>1, <1>3, <1>4, <1>5 DEF f, e

\* Rotation keeps the order of the keys.
LEMMA RotationKeepsShape ==
  ASSUME NEW u, NEW V, NEW rng, NEW fa, Shape(u, V, rng, fa),
         NEW x \in Nodes(u), NEW d \in Dirs, Son(u, x, d) # NULL,
         NEW w, Typed(w, V), Rotated(u, w, x, d, fa)
  PROVE  Shape(w, V, RotatedRng(u, x, d, rng), RotatedFa(u, x, d, fa))
<1> USE DEF Shape
<1> DEFINE s == Son(u, x, d)
           m == Son(u, s, -d)
           f == fa[x]
           e0 == Dir(x, f)
           rng2 == RotatedRng(u, x, d, rng)
           fa2 == RotatedFa(u, x, d, fa)
<1>1. /\ s \in Nodes(u) /\ x \in Pos /\ s \in Pos /\ x # s
      /\ s # u.root /\ fa[s] = x
      /\ s \in rng[x] /\ InDir(s, x, d) /\ InDir(x, s, -d) /\ x \notin rng[s]
      /\ Dir(s, x) = d /\ Dir(x, s) = -d /\ -d \in Dirs
      /\ \A c \in Pos : c \in rng[s] <=> c \in rng[x] /\ InDir(c, x, d)
  BY LinkIs
<1> HIDE DEF s
<1>2. m # NULL =>
        /\ m \in Nodes(u) /\ m # s /\ m # u.root /\ fa[m] = s
        /\ m \in rng[s] /\ InDir(m, s, -d)
        /\ \A c \in Pos : c \in rng[m] <=> c \in rng[s] /\ InDir(c, s, -d)
  BY <1>1, LinkIs
<1>3. m \in Pointers(u) /\ m # x
  <2>1. m \in Pointers(u)
    BY <1>1 DEF Typed, Dirs, Son, Pointers, Nodes
  <2> QED
    BY <2>1, <1>1, <1>2 DEF Pos, NULL
<1>4. m # NULL => m \in rng[x] /\ InDir(m, x, d) /\ m \in Pos /\ Dir(m, x) = d
  <2> SUFFICES ASSUME m # NULL PROVE m \in rng[x] /\ InDir(m, x, d) /\ m \in Pos /\ Dir(m, x) = d
    OBVIOUS
  <2>1. m \in Pos
    BY <1>2 DEF Typed
  <2>2. m \in rng[x] /\ InDir(m, x, d)
    BY <2>1, <1>1, <1>2
  <2> HIDE DEF m
  <2> QED
    BY <2>1, <2>2, <1>1, DirIs DEF Pos
<1> HIDE DEF m
<1>5. x # u.root =>
        /\ f \in Nodes(u) /\ e0 \in Dirs /\ Son(u, f, e0) = x /\ f \notin rng[x]
        /\ \A c \in rng[x] : c \in rng[f] /\ InDir(c, f, e0) /\ Dir(c, f) = e0
  BY FatherIs
<1> HIDE DEF f, e0
<1>6. x \in rng[x] /\ s \in rng[s]
  BY <1>1 DEF Ordered
<1>7. x # u.root => f # x /\ f # s /\ (m # NULL => f # m)
  BY <1>1, <1>4, <1>5, <1>6
<1>8. /\ Nodes(w) = Nodes(u) /\ Pointers(w) = Pointers(u) /\ w.num = u.num
      /\ w.root = IF x = u.root THEN s ELSE u.root
      /\ \A z \in Nodes(u) : \A e \in Dirs :
           Son(w, z, e) = IF z = x /\ e = d THEN m
                          ELSE IF z = s /\ e = -d THEN x
                          ELSE IF x # u.root /\ z = f /\ e = e0 THEN s
                          ELSE Son(u, z, e)
  BY DEF Rotated, Alike, s, m, f, e0
<1>9. /\ rng \in [Nodes(u) -> SUBSET Pos]
      /\ rng2 \in [Nodes(u) -> SUBSET Pos]
      /\ \A z \in Nodes(u) :
           rng2[z] = IF z = s THEN rng[x]
                     ELSE IF z = x THEN {c \in rng[x] : InDir(c, s, -d)} ELSE rng[z]
  BY DEF RotatedRng, s, Ordered
<1>10. fa \in [Nodes(u) -> Pointers(u)] /\ fa2 = [z \in Nodes(u) |-> IF z = s THEN f ELSE IF z = x THEN s ELSE IF z = m THEN x ELSE fa[z]]
  BY DEF RotatedFa, s, m, f, Fathered
<1>11. /\ fa2 \in [Nodes(u) -> Pointers(u)]
       /\ \A z \in Nodes(u) : fa2[z] = IF z = s THEN f ELSE IF z = x THEN s ELSE IF z = m THEN x ELSE fa[z]
  <2>1. f \in Pointers(u)
    BY <1>10 DEF f
  <2>2. s \in Pointers(u) /\ x \in Pointers(u)
    BY <1>1 DEF Pointers, Nodes
  <2> QED
    BY <2>1, <2>2, <1>10
<1> HIDE DEF rng2, fa2
<1>12. Counted(w)
  BY <1>8, <1>1 DEF Counted, Pos, NULL
<1>13. \A z \in Nodes(u) : z # x => \A e \in Dirs : Son(u, z, e) # s
  BY <1>1 DEF Fathered, Pos, NULL
<1>14. \A z \in Nodes(u) : \A e \in Dirs : Son(u, z, e) = x => x # u.root /\ z = f /\ e = e0
  <2> SUFFICES ASSUME NEW z \in Nodes(u), NEW e \in Dirs, Son(u, z, e) = x
               PROVE  x # u.root /\ z = f /\ e = e0
    OBVIOUS
  <2>1. x # NULL
    BY <1>1 DEF Pos, NULL
  <2> QED
    BY <2>1, LinkIs DEF f, e0
<1>15. \A z \in Nodes(u) : \A e \in Dirs : m # NULL /\ Son(u, z, e) = m => z = s /\ e = -d
  <2> SUFFICES ASSUME NEW z \in Nodes(u), NEW e \in Dirs, Son(u, z, e) = m, m # NULL
               PROVE  z = s /\ e = -d
    OBVIOUS
  <2>1. fa[m] = z /\ Dir(m, z) = e
    BY LinkIs
  <2>2. fa[m] = s /\ Dir(m, s) = -d
    BY <1>1, LinkIs DEF m
  <2> QED
    BY <2>1, <2>2
<1>16. Ordered(w, rng2)
  <2>1. w.root # NULL => rng2[w.root] = Pos
    <3>1. u.root \in Nodes(u) /\ u.root # NULL /\ rng[u.root] = Pos
      BY DEF Counted, Typed, Ordered, Pointers, Nodes
    <3> QED
      BY <3>1, <1>1, <1>8, <1>9
  <2>2. \A z \in Nodes(w) : z \in rng2[z]
    BY <1>1, <1>6, <1>8, <1>9 DEF Ordered
  <2>3. ASSUME NEW z \in Nodes(u), NEW e \in Dirs, Son(w, z, e) # NULL, NEW c \in Pos
        PROVE  c \in rng2[Son(w, z, e)] <=> c \in rng2[z] /\ InDir(c, z, e)
    <3>1. CASE z = x /\ e = d
      <4>1. Son(w, z, e) = m /\ m # NULL /\ m # x /\ m # s
        BY <3>1, <1>8, <1>2, <1>3, <2>3
      <4>2. rng2[m] = rng[m] /\ rng2[x] = {a \in rng[x] : InDir(a, s, -d)}
        BY <4>1, <1>1, <1>2, <1>9
      <4>3. c \in rng[m] <=> c \in rng[x] /\ InDir(c, x, d) /\ InDir(c, s, -d)
        BY <4>1, <1>1, <1>2
      <4> QED
        BY <3>1, <4>1, <4>2, <4>3
    <3>2. CASE z = x /\ e # d
      <4> DEFINE o == Son(u, x, e)
      <4>1. Son(w, z, e) = o /\ o # NULL /\ e = -d
        <5>1. e = -d
          BY <3>2 DEF Dirs
        <5> QED
          BY <5>1, <3>2, <1>1, <1>7, <1>8, <2>3
      <4>2. o \in Nodes(u) /\ o # x /\ (c \in rng[o] <=> c \in rng[x] /\ InDir(c, x, e)) /\ Dir(o, x) = e
        BY <4>1, LinkIs
      <4>3. o # s
        BY <4>2, <3>2, <1>1
      <4>4. rng2[o] = rng[o] /\ rng2[x] = {a \in rng[x] : InDir(a, s, -d)}
        BY <4>2, <4>3, <1>1, <1>9
      <4>5. InDir(c, x, e) => InDir(c, s, -d)
        BY <4>1, <1>1 DEF InDir, Pos, Dirs
      <4> QED
        BY <3>2, <4>1, <4>2, <4>4, <4>5
    <3>3. CASE z = s /\ e = -d
      <4>1. Son(w, z, e) = x
        BY <3>3, <1>1, <1>8
      <4> QED
        BY <4>1, <3>3, <1>1, <1>9
    <3>4. CASE z = s /\ e # -d
      <4> DEFINE o == Son(u, s, e)
      <4>1. Son(w, z, e) = o /\ o # NULL /\ e = d
        <5>1. e = d
          BY <3>4 DEF Dirs
        <5> QED
          BY <5>1, <3>4, <1>1, <1>7, <1>8, <2>3
      <4>2. o \in Nodes(u) /\ o # s /\ (c \in rng[o] <=> c \in rng[s] /\ InDir(c, s, e)) /\ fa[o] = s /\ o \in rng[s]
        BY <4>1, <1>1, LinkIs
      <4>3. o # x
        BY <4>2, <1>1
      <4>4. rng2[o] = rng[o] /\ rng2[s] = rng[x]
        BY <4>2, <4>3, <1>1, <1>9
      <4>5. InDir(c, s, e) => InDir(c, x, d)
        BY <4>1, <1>1 DEF InDir, Pos, Dirs
      <4> QED
        BY <3>4, <4>1, <4>2, <4>4, <4>5, <1>1
    <3>5. CASE z # x /\ z # s /\ x # u.root /\ z = f /\ e = e0
      <4>1. Son(w, z, e) = s
        BY <3>5, <1>8
      <4>2. rng2[s] = rng[x] /\ rng2[z] = rng[z]
        BY <3>5, <1>1, <1>9
      <4>3. c \in rng[x] <=> c \in rng[f] /\ InDir(c, f, e0)
        BY <3>5, <1>5, <1>1, LinkIs DEF Pos, NULL
      <4> QED
        BY <3>5, <4>1, <4>2, <4>3
    <3>6. CASE z # x /\ z # s /\ ~(x # u.root /\ z = f /\ e = e0)
      <4> DEFINE o == Son(u, z, e)
      <4>1. Son(w, z, e) = o /\ o # NULL
        BY <3>6, <1>8, <2>3
      <4>2. o \in Nodes(u) /\ (c \in rng[o] <=> c \in rng[z] /\ InDir(c, z, e))
        BY <4>1, LinkIs
      <4>3. o # s /\ o # x
        BY <3>6, <1>13, <1>14
      <4>4. rng2[o] = rng[o] /\ rng2[z] = rng[z]
        BY <4>2, <4>3, <3>6, <1>9
      <4> QED
        BY <4>1, <4>2, <4>4
    <3> QED
      BY <3>1, <3>2, <3>3, <3>4, <3>5, <3>6
  <2> QED
    BY <2>1, <2>2, <2>3, <1>8, <1>9 DEF Ordered
<1>17. Fathered(w, fa2)
  <2>1. ASSUME NEW z \in Nodes(u), NEW e \in Dirs, Son(w, z, e) # NULL
        PROVE  fa2[Son(w, z, e)] = z
    <3>1. CASE z = x /\ e = d
      <4>1. Son(w, z, e) = m /\ m # NULL
        BY <3>1, <2>1, <1>8
      <4> QED
        BY <4>1, <3>1, <1>2, <1>3, <1>11
    <3>2. CASE z = s /\ e = -d
      BY <3>2, <1>1, <1>8, <1>11
    <3>3. CASE ~(z = x /\ e = d) /\ ~(z = s /\ e = -d) /\ x # u.root /\ z = f /\ e = e0
      BY <3>3, <1>1, <1>8, <1>11
    <3>4. CASE ~(z = x /\ e = d) /\ ~(z = s /\ e = -d) /\ ~(x # u.root /\ z = f /\ e = e0)
      <4> DEFINE o == Son(u, z, e)
      <4>1. Son(w, z, e) = o /\ o # NULL
        BY <3>4, <1>8, <2>1
      <4>2. o \in Nodes(u) /\ fa[o] = z /\ Dir(o, z) = e
        BY <4>1, LinkIs
      <4>3. o # x /\ o # m
        BY <3>4, <4>1, <1>14, <1>15
      <4>4. o # s
        BY <3>4, <4>2, <1>1
      <4> QED
        BY <4>1, <4>2, <4>3, <4>4, <1>11
    <3> QED
      BY <3>1, <3>2, <3>3, <3>4
  <2>2. w.root # NULL => fa2[w.root] = NULL
    <3>1. u.root \in Nodes(u) /\ u.root # NULL /\ fa[u.root] = NULL
      BY DEF Counted, Typed, Fathered, Pointers, Nodes
    <3>2. CASE x = u.root
      BY <3>1, <3>2, <1>1, <1>8, <1>11 DEF f
    <3>3. CASE x # u.root
      <4>1. w.root = u.root /\ u.root # s /\ u.root # x /\ u.root # m
        BY <3>1, <3>3, <1>1, <1>2, <1>8
      <4> QED
        BY <4>1, <3>1, <1>11
    <3> QED
      BY <3>2, <3>3
  <2>3. ASSUME NEW y \in Nodes(u), y # w.root
        PROVE  fa2[y] \in Nodes(u) /\ Son(w, fa2[y], Dir(y, fa2[y])) = y
    <3>1. CASE y = s
      <4>1. x # u.root
        BY <3>1, <2>3, <1>8
      <4>2. fa2[y] = f /\ Dir(s, f) = e0
        BY <3>1, <4>1, <1>1, <1>5, <1>11
      <4>3. Son(w, f, e0) = s
        BY <4>1, <1>5, <1>7, <1>8
      <4> QED
        BY <3>1, <4>1, <4>2, <4>3, <1>5
    <3>2. CASE y = x
      <4>1. fa2[y] = s /\ Dir(x, s) = -d
        BY <3>2, <1>1, <1>11
      <4> QED
        BY <3>2, <4>1, <1>1, <1>8
    <3>3. CASE y = m /\ m # NULL
      <4>1. fa2[y] = x /\ Dir(m, x) = d
        BY <3>3, <1>2, <1>3, <1>4, <1>11
      <4> QED
        BY <3>3, <4>1, <1>8
    <3>4. CASE y # s /\ y # x /\ y # m
      <4>1. y # u.root
        BY <3>4, <2>3, <1>8
      <4> DEFINE z == fa[y]
                 e == Dir(y, z)
      <4>2. z \in Nodes(u) /\ e \in Dirs /\ Son(u, z, e) = y
        BY <4>1, FatherIs
      <4>3. fa2[y] = z
        BY <3>4, <1>11
      <4> HIDE DEF z, e
      <4>4. Son(w, z, e) = y
        <5>1. ~(z = x /\ e = d)
          BY <4>2, <3>4 DEF s
        <5>2. ~(z = s /\ e = -d)
          BY <4>2, <3>4 DEF m
        <5>3. ~(x # u.root /\ z = f /\ e = e0)
          BY <4>2, <3>4, <1>5
        <5> QED
          BY <5>1, <5>2, <5>3, <4>2, <1>8
      <4> QED
        BY <4>2, <4>3, <4>4 DEF e
    <3>5. y # NULL
      BY DEF Typed, Pos, NULL
    <3> QED
      BY <3>1, <3>2, <3>3, <3>4, <3>5
  <2> QED
    BY <2>1, <2>2, <2>3, <1>8, <1>11 DEF Fathered
<1> QED
  BY <1>12, <1>16, <1>17 DEF rng2, fa2

--------------------------------------------------------------------------------
\* Place i of a path is x: the root, or the element before it is the father of x
\* and was left towards x.
AtPlace(u, path, dirs, i, x, fa) ==
  \/ i = 1 /\ x = u.root
  \/ i # 1 /\ x # u.root /\ path[i - 1] = fa[x] /\ dirs[i - 1] = Dir(x, fa[x])

LEMMA SetSubtreeIs ==
  ASSUME NEW u, NEW V, NEW rng, NEW fa, Shape(u, V, rng, fa), NEW x \in Nodes(u),
         NEW path, NEW dirs, NEW i, AtPlace(u, path, dirs, i, x, fa),
         NEW v, Typed(v, V), Alike(u, v), v.root = u.root, NEW y \in Nodes(u)
  PROVE  LET w == SetSubtree(v, path, dirs, i, y)
         IN  /\ Typed(w, V) /\ Alike(v, w) /\ Alike(u, w) /\ SameBalances(v, w)
             /\ w.height = v.height
             /\ w.root = IF x = u.root THEN y ELSE u.root
             /\ \A z \in Nodes(u) : \A e \in Dirs :
                  Son(w, z, e) = IF x # u.root /\ z = fa[x] /\ e = Dir(x, fa[x]) THEN y
                                 ELSE Son(v, z, e)
<1> DEFINE w == SetSubtree(v, path, dirs, i, y)
           f == fa[x]
           e0 == Dir(x, f)
<1>1. Nodes(v) = Nodes(u) /\ Pointers(v) = Pointers(u) /\ y \in Pointers(v)
  BY DEF Alike, Pointers, Nodes
<1>2. CASE i = 1
  <2>1. x = u.root /\ w = [v EXCEPT !.root = y]
    BY <1>2 DEF AtPlace, SetSubtree
  <2>2. /\ Typed(w, V) /\ Alike(v, w) /\ SameLinks(v, w) /\ SameBalances(v, w)
        /\ w.root = y /\ w.height = v.height
    BY <2>1, <1>1, SetRootIs
  <2> HIDE DEF w
  <2>3. Alike(u, w)
    BY <2>2 DEF Alike
  <2> QED
    BY <2>1, <2>2, <2>3, <1>1 DEF SameLinks, w
<1>3. CASE i # 1
  <2>1. x # u.root /\ w = SetSon(v, f, e0, y)
    BY <1>3 DEF AtPlace, SetSubtree
  <2>2. f \in Nodes(u) /\ e0 \in Dirs
    BY <2>1, FatherIs
  <2> HIDE DEF f, e0
  <2>3. /\ Typed(w, V) /\ Alike(v, w) /\ SameBalances(v, w)
        /\ w.root = v.root /\ w.height = v.height
        /\ \A z \in Nodes(v) : \A e \in Dirs :
             Son(w, z, e) = IF z = f /\ e = e0 THEN y ELSE Son(v, z, e)
    BY <2>1, <2>2, <1>1, SetSonIs
  <2> HIDE DEF w
  <2>4. Alike(u, w)
    BY <2>3 DEF Alike
  <2> QED
    BY <2>1, <2>3, <2>4, <1>1 DEF w, f, e0
<1> QED
  BY <1>2, <1>3

LEMMA SingleRotationIs ==
  ASSUME NEW u, NEW V, Typed(u, V), NEW x \in Nodes(u), NEW d \in Dirs,
         Son(u, x, d) \in Nodes(u), Son(u, x, d) # x
  PROVE  LET s == Son(u, x, d)
             w == SingleRotation(u, x, d)
         IN  /\ Typed(w, V) /\ Alike(u, w) /\ SameBalances(u, w)
             /\ w.root = u.root /\ w.height = u.height
             /\ \A z \in Nodes(u) : \A e \in Dirs :
                  Son(w, z, e) = IF z = x /\ e = d THEN Son(u, s, -d)
                                 ELSE IF z = s /\ e = -d THEN x
                                 ELSE Son(u, z, e)
<1> DEFINE s == Son(u, x, d)
           m == Son(u, s, -d)
           a == SetSon(u, x, d, m)
           w == SetSon(a, s, -d, x)
<1>1. -d \in Dirs /\ m \in Pointers(u) /\ x \in Pointers(u)
  BY DEF Typed, Dirs, Son, Pointers, Nodes
<1>2. w = SingleRotation(u, x, d)
  BY DEF SingleRotation
<1> HIDE DEF s, m
<1>3. /\ Typed(a, V) /\ Alike(u, a) /\ SameBalances(u, a)
      /\ a.root = u.root /\ a.height = u.height
      /\ \A z \in Nodes(u) : \A e \in Dirs :
           Son(a, z, e) = IF z = x /\ e = d THEN m ELSE Son(u, z, e)
  BY <1>1, SetSonIs
<1>4. s \in Nodes(a) /\ x \in Pointers(a)
  BY <1>1, <1>3 DEF Alike, s
<1> HIDE DEF a
<1>5. /\ Typed(w, V) /\ Alike(a, w) /\ SameBalances(a, w)
      /\ w.root = a.root /\ w.height = a.height
      /\ \A z \in Nodes(a) : \A e \in Dirs :
           Son(w, z, e) = IF z = s /\ e = -d THEN x ELSE Son(a, z, e)
  BY <1>1, <1>3, <1>4, SetSonIs
<1> HIDE DEF w
<1>6. Alike(u, w) /\ SameBalances(u, w)
  BY <1>3, <1>5 DEF Alike, SameBalances
<1>7. Nodes(a) = Nodes(u) /\ x # s
  BY <1>3 DEF Alike, s
<1> QED
  BY <1>2, <1>3, <1>5, <1>6, <1>7 DEF s, m

LEMMA DoubleRotationIs ==
  ASSUME NEW u, NEW V, Typed(u, V), NEW x \in Nodes(u), NEW d \in Dirs, NEW s, NEW g,
         s = Son(u, x, d), g = Son(u, s, -d),
         s \in Nodes(u), g \in Nodes(u), s # x, g # x, g # s
  PROVE  LET w == DoubleRotation(u, x, d)
         IN  /\ Typed(w, V) /\ Alike(u, w) /\ SameBalances(u, w)
             /\ w.root = u.root /\ w.height = u.height
             /\ \A z \in Nodes(u) : \A e \in Dirs :
                  Son(w, z, e) = IF z = s /\ e = -d THEN Son(u, g, d)
                                 ELSE IF z = x /\ e = d THEN Son(u, g, -d)
                                 ELSE IF z = g THEN IF e = d THEN s ELSE x
                                 ELSE Son(u, z, e)
<1> DEFINE gd == Son(u, g, d)
           gm == Son(u, g, -d)
           a == SetSon(u, s, -d, gd)
           b == SetSon(a, x, d, gm)
           c == SetSon(b, g, d, s)
           w == SetSon(c, g, -d, x)
<1>1. -d \in Dirs /\ gd \in Pointers(u) /\ gm \in Pointers(u) /\ x \in Pointers(u) /\ s \in Pointers(u)
  <2>1. -d \in Dirs
    BY DEF Dirs
  <2>2. x \in Pointers(u) /\ s \in Pointers(u)
    BY DEF Pointers, Nodes
  <2> QED
    BY <2>1, <2>2, SonIsPointer
<1>2. w = DoubleRotation(u, x, d)
  BY DEF DoubleRotation
<1> HIDE DEF gd, gm
<1>3. /\ Typed(a, V) /\ Alike(u, a) /\ SameBalances(u, a)
      /\ a.root = u.root /\ a.height = u.height
      /\ \A z \in Nodes(u) : \A e \in Dirs :
           Son(a, z, e) = IF z = s /\ e = -d THEN gd ELSE Son(u, z, e)
  BY <1>1, SetSonIs
<1>4. Nodes(a) = Nodes(u) /\ Pointers(a) = Pointers(u)
  BY <1>3 DEF Alike
<1> HIDE DEF a
<1>5. /\ Typed(b, V) /\ Alike(a, b) /\ SameBalances(a, b)
      /\ b.root = a.root /\ b.height = a.height
      /\ \A z \in Nodes(a) : \A e \in Dirs :
           Son(b, z, e) = IF z = x /\ e = d THEN gm ELSE Son(a, z, e)
  BY <1>1, <1>3, <1>4, SetSonIs
<1>6. Nodes(b) = Nodes(u) /\ Pointers(b) = Pointers(u)
  BY <1>4, <1>5 DEF Alike
<1> HIDE DEF b
<1>7. /\ Typed(c, V) /\ Alike(b, c) /\ SameBalances(b, c)
      /\ c.root = b.root /\ c.height = b.height
      /\ \A z \in Nodes(b) : \A e \in Dirs :
           Son(c, z, e) = IF z = g /\ e = d THEN s ELSE Son(b, z, e)
  BY <1>1, <1>5, <1>6, SetSonIs
<1>8. Nodes(c) = Nodes(u) /\ Pointers(c) = Pointers(u)
  BY <1>6, <1>7 DEF Alike
<1> HIDE DEF c
<1>9. /\ Typed(w, V) /\ Alike(c, w) /\ SameBalances(c, w)
      /\ w.root = c.root /\ w.height = c.height
      /\ \A z \in Nodes(c) : \A e \in Dirs :
           Son(w, z, e) = IF z = g /\ e = -d THEN x ELSE Son(c, z, e)
  BY <1>1, <1>7, <1>8, SetSonIs
<1> HIDE DEF w
<1>10. Alike(u, w) /\ SameBalances(u, w)
  BY <1>3, <1>5, <1>7, <1>9 DEF Alike, SameBalances
<1>11. \A z \in Nodes(u) : \A e \in Dirs :
         Son(w, z, e) = IF z = s /\ e = -d THEN gd
                        ELSE IF z = x /\ e = d THEN gm
                        ELSE IF z = g THEN IF e = d THEN s ELSE x
                        ELSE Son(u, z, e)
  BY <1>3, <1>4, <1>5, <1>6, <1>7, <1>8, <1>9 DEF Dirs
<1> QED
  BY <1>2, <1>3, <1>5, <1>7, <1>9, <1>10, <1>11 DEF gd, gm

\* A tree with the links of another one has its shape.
LEMMA SameLinksSameShape ==
  ASSUME NEW u, NEW V, NEW rng, NEW fa, Shape(u, V, rng, fa),
         NEW w, Typed(w, V), Alike(u, w), SameLinks(u, w), w.root = u.root
  PROVE  Shape(w, V, rng, fa)
<1>1. Nodes(w) = Nodes(u) /\ Pointers(w) = Pointers(u) /\ w.num = u.num
  BY DEF Alike
<1>2. \A z \in Nodes(u) : \A e \in Dirs : Son(w, z, e) = Son(u, z, e)
  BY DEF SameLinks
<1>3. Counted(w)
  BY <1>1 DEF Shape, Counted
<1>4. Ordered(w, rng)
  BY <1>1, <1>2 DEF Shape, Ordered
<1>5. Fathered(w, fa)
  <2>1. \A y \in Nodes(u) : y # u.root => Dir(y, fa[y]) \in Dirs
    BY FatherIs
  <2> QED
    BY <1>1, <1>2, <2>1 DEF Shape, Fathered
<1> QED
  BY <1>3, <1>4, <1>5 DEF Shape

--------------------------------------------------------------------------------
\* u is a tree but for x: the subtree on its side d is one higher than the height
\* and the balance of x say.
Raised(u, V, h, rng, fa, x, d) ==
  /\ Shape(u, V, rng, fa)
  /\ x \in Nodes(u) /\ d \in Dirs
  /\ h \in [Pointers(u) -> Nat]
  /\ h[NULL] = 0
  /\ \A y \in Nodes(u) : y # x =>
       /\ h[y] = Over(h[Son(u, y, -1)], h[Son(u, y, 1)])
       /\ B(u, y) = h[Son(u, y, 1)] - h[Son(u, y, -1)]
  /\ h[Son(u, x, d)] > 0
  /\ h[x] = Over(h[Son(u, x, d)] - 1, h[Son(u, x, -d)])
  /\ B(u, x) = IF d = 1 THEN (h[Son(u, x, 1)] - 1) - h[Son(u, x, -1)]
                        ELSE h[Son(u, x, 1)] - (h[Son(u, x, -1)] - 1)
  /\ \A y \in Nodes(u) : h[y] <= h[u.root]
  /\ u.height = h[u.root]
  /\ x = u.root \/ B(u, x) # 0
  /\ B(u, Son(u, x, d)) = 0 => h[Son(u, x, d)] = 1

\* Sons and heights in a tree that is one but for x.
LEMMA RaisedSons ==
  ASSUME NEW u, NEW V, NEW h, NEW rng, NEW fa, NEW x, NEW d, Raised(u, V, h, rng, fa, x, d)
  PROVE  /\ \A z \in Nodes(u) : h[z] \in Nat /\ z \in Pointers(u) /\ z # NULL
         /\ \A z \in Nodes(u) : \A e \in Dirs :
              Son(u, z, e) \in Pointers(u) /\ h[Son(u, z, e)] \in Nat
         /\ u.root \in Nodes(u) /\ h[u.root] \in Nat
         /\ -d \in Dirs
         /\ Son(u, x, d) # NULL /\ Son(u, x, d) \in Nodes(u)
<1>1. \A z \in Nodes(u) : h[z] \in Nat /\ z \in Pointers(u) /\ z # NULL
  BY DEF Raised, Shape, Typed, Pointers, Nodes, Pos, NULL
<1>2. \A z \in Nodes(u) : \A e \in Dirs :
        Son(u, z, e) \in Pointers(u) /\ h[Son(u, z, e)] \in Nat
  BY SonIsPointer DEF Raised, Shape
<1>3. u.root \in Nodes(u) /\ h[u.root] \in Nat
  BY DEF Raised, Shape, Counted, Typed, Pointers, Nodes
<1>4. -d \in Dirs
  BY DEF Raised, Dirs
<1>5. Son(u, x, d) # NULL
  BY DEF Raised
<1>6. Son(u, x, d) \in Nodes(u)
  BY <1>2, <1>5 DEF Raised, Pointers, Nodes
<1> QED
  BY <1>1, <1>2, <1>3, <1>4, <1>5, <1>6

\* The root was balanced: the tree is higher.
LEMMA RootGrows ==
  ASSUME NEW u, NEW V, NEW h, NEW rng, NEW fa, NEW x, NEW d, Raised(u, V, h, rng, fa, x, d),
         B(u, x) = BALANCED
  PROVE  LET w == [SetB(u, x, d) EXCEPT !.height = u.height + 1]
         IN  Alike(u, w) /\ Tree(w, V, [h EXCEPT ![x] = h[x] + 1], rng, fa)
<1> DEFINE a == SetB(u, x, d)
           w == [a EXCEPT !.height = u.height + 1]
           h2 == [h EXCEPT ![x] = h[x] + 1]
<1>0. Shape(u, V, rng, fa) /\ Typed(u, V) /\ x \in Nodes(u) /\ d \in Dirs /\ x = u.root /\ d \in {-1, 0, 1}
  BY DEF Raised, Shape, BALANCED, Dirs
<1>1. /\ Typed(a, V) /\ Alike(u, a) /\ SameLinks(u, a)
      /\ a.root = u.root /\ a.height = u.height
      /\ \A z \in Nodes(u) : B(a, z) = IF z = x THEN d ELSE B(u, z)
  BY <1>0, SetBIs
<1>2. u.height + 1 \in Nat
  BY <1>0 DEF Typed
<1> HIDE DEF a
<1>3. /\ Typed(w, V) /\ Alike(a, w) /\ SameLinks(a, w) /\ SameBalances(a, w)
      /\ w.root = a.root /\ w.height = u.height + 1
  BY <1>1, <1>2, SetHeightIs
<1> HIDE DEF w
<1>4. Alike(u, w) /\ SameLinks(u, w) /\ w.root = u.root
  BY <1>1, <1>3 DEF Alike, SameLinks
<1>5. \A z \in Nodes(u) : B(w, z) = IF z = x THEN d ELSE B(u, z)
  BY <1>1, <1>3 DEF Alike, SameBalances
<1>6. Shape(w, V, rng, fa)
  BY <1>0, <1>3, <1>4, SameLinksSameShape
<1>7. /\ \A z \in Nodes(u) : h[z] \in Nat /\ z \in Pointers(u) /\ z # NULL
      /\ \A z \in Nodes(u) : \A e \in Dirs :
           Son(u, z, e) \in Pointers(u) /\ h[Son(u, z, e)] \in Nat
      /\ u.root \in Nodes(u) /\ h[u.root] \in Nat
      /\ -d \in Dirs
      /\ Son(u, x, d) # NULL /\ Son(u, x, d) \in Nodes(u)
  BY RaisedSons
<1>8. h2 \in [Pointers(u) -> Nat] /\ h2[x] = h[x] + 1 /\ \A z \in Pointers(u) : z # x => h2[z] = h[z]
  BY <1>0, <1>7 DEF Raised
<1>9. \A z \in Nodes(u) : \A e \in Dirs : Son(u, z, e) # x
  <2> SUFFICES ASSUME NEW z \in Nodes(u), NEW e \in Dirs, Son(u, z, e) = x PROVE FALSE
    OBVIOUS
  <2>1. x # NULL
    BY <1>0, <1>7
  <2> QED
    BY <2>1, <1>0, LinkIs
<1>10. \A z \in Nodes(u) : \A e \in Dirs : h2[Son(u, z, e)] = h[Son(u, z, e)]
  BY <1>7, <1>8, <1>9
<1> HIDE DEF h2
<1>11. /\ h2[x] = Over(h2[Son(u, x, -1)], h2[Son(u, x, 1)])
       /\ B(w, x) = h2[Son(u, x, 1)] - h2[Son(u, x, -1)]
  <2>1. -1 \in Dirs /\ 1 \in Dirs
    BY DEF Dirs
  <2> DEFINE l == h[Son(u, x, -1)]
             r == h[Son(u, x, 1)]
  <2>2. l \in Nat /\ r \in Nat /\ h2[Son(u, x, -1)] = l /\ h2[Son(u, x, 1)] = r
    BY <2>1, <1>0, <1>7, <1>10
  <2>3. h2[x] = h[x] + 1 /\ B(w, x) = d
    BY <1>0, <1>5, <1>8
  <2>4. h[x] = IF d = 1 THEN Over(r - 1, l) ELSE Over(l - 1, r)
    BY <1>0 DEF Raised, Dirs
  <2>5. 0 = IF d = 1 THEN (r - 1) - l ELSE r - (l - 1)
    BY DEF Raised, BALANCED
  <2> HIDE DEF l, r
  <2> QED
    BY <2>2, <2>3, <2>4, <2>5, <1>0 DEF Over, Dirs
<1>12. Ranked(w, h2)
  <2>1. Nodes(w) = Nodes(u) /\ Pointers(w) = Pointers(u)
    BY <1>4 DEF Alike
  <2>2. \A z \in Nodes(u) : Son(w, z, 1) = Son(u, z, 1) /\ Son(w, z, -1) = Son(u, z, -1)
    BY <1>4 DEF SameLinks, Dirs
  <2>3. ASSUME NEW z \in Nodes(u)
        PROVE  /\ h2[z] = Over(h2[Son(u, z, -1)], h2[Son(u, z, 1)])
               /\ B(w, z) = h2[Son(u, z, 1)] - h2[Son(u, z, -1)]
    <3>1. CASE z = x
      BY <3>1, <1>11
    <3>2. CASE z # x
      BY <3>2, <1>5, <1>7, <1>8, <1>10 DEF Raised, Dirs
    <3> QED
      BY <3>1, <3>2
  <2>4. \A z \in Nodes(u) : h2[z] <= h2[x]
    <3> SUFFICES ASSUME NEW z \in Nodes(u) PROVE h2[z] <= h2[x]
      OBVIOUS
    <3>1. h[z] <= h[x] /\ h[z] \in Nat /\ h[x] \in Nat
      BY <1>0, <1>7 DEF Raised
    <3> QED
      BY <3>1, <1>7, <1>8
  <2>5. h2[NULL] = 0
    BY <1>0, <1>7, <1>8 DEF Raised, Pointers
  <2>6. w.height = h2[w.root]
    BY <1>0, <1>3, <1>4, <1>8 DEF Raised
  <2> QED
    BY <2>1, <2>2, <2>3, <2>4, <2>5, <2>6, <1>0, <1>4, <1>8 DEF Ranked
<1> QED
  BY <1>4, <1>6, <1>12 DEF Tree, Shape, w, a, h2

\* The other side was higher: both sides are now as high.
LEMMA SidesLevel ==
  ASSUME NEW u, NEW V, NEW h, NEW rng, NEW fa, NEW x, NEW d, Raised(u, V, h, rng, fa, x, d),
         B(u, x) = -d
  PROVE  LET w == SetB(u, x, BALANCED)
         IN  Alike(u, w) /\ Tree(w, V, h, rng, fa)
<1> DEFINE w == SetB(u, x, BALANCED)
<1>0. Shape(u, V, rng, fa) /\ Typed(u, V) /\ x \in Nodes(u) /\ d \in Dirs
  BY DEF Raised, Shape
<1>1. /\ Typed(w, V) /\ Alike(u, w) /\ SameLinks(u, w)
      /\ w.root = u.root /\ w.height = u.height
      /\ \A z \in Nodes(u) : B(w, z) = IF z = x THEN BALANCED ELSE B(u, z)
  <2>1. BALANCED \in {-1, 0, 1}
    BY DEF BALANCED
  <2> QED
    BY <1>0, <2>1, SetBIs
<1> HIDE DEF w
<1>6. Shape(w, V, rng, fa)
  BY <1>0, <1>1, SameLinksSameShape
<1>7. /\ \A z \in Nodes(u) : h[z] \in Nat /\ z \in Pointers(u) /\ z # NULL
      /\ \A z \in Nodes(u) : \A e \in Dirs :
           Son(u, z, e) \in Pointers(u) /\ h[Son(u, z, e)] \in Nat
      /\ u.root \in Nodes(u) /\ h[u.root] \in Nat
      /\ -d \in Dirs
      /\ Son(u, x, d) # NULL /\ Son(u, x, d) \in Nodes(u)
  BY RaisedSons
<1>11. /\ h[x] = Over(h[Son(u, x, -1)], h[Son(u, x, 1)])
       /\ B(w, x) = h[Son(u, x, 1)] - h[Son(u, x, -1)]
  <2>1. -1 \in Dirs /\ 1 \in Dirs
    BY DEF Dirs
  <2> DEFINE l == h[Son(u, x, -1)]
             r == h[Son(u, x, 1)]
  <2>2. l \in Nat /\ r \in Nat
    BY <2>1, <1>0, <1>7
  <2>3. B(w, x) = 0
    BY <1>0, <1>1 DEF BALANCED
  <2>4. h[x] = IF d = 1 THEN Over(r - 1, l) ELSE Over(l - 1, r)
    BY <1>0 DEF Raised, Dirs
  <2>5. -d = IF d = 1 THEN (r - 1) - l ELSE r - (l - 1)
    BY DEF Raised
  <2> HIDE DEF l, r
  <2>6. h[x] = Over(l, r) /\ B(w, x) = r - l
    BY <2>2, <2>3, <2>4, <2>5, <1>0 DEF Over, Dirs
  <2> QED
    BY <2>6 DEF l, r
<1>12. Ranked(w, h)
  <2>1. Nodes(w) = Nodes(u) /\ Pointers(w) = Pointers(u)
    BY <1>1 DEF Alike
  <2>2. \A z \in Nodes(u) : Son(w, z, 1) = Son(u, z, 1) /\ Son(w, z, -1) = Son(u, z, -1)
    BY <1>1 DEF SameLinks, Dirs
  <2>3. ASSUME NEW z \in Nodes(u)
        PROVE  /\ h[z] = Over(h[Son(u, z, -1)], h[Son(u, z, 1)])
               /\ B(w, z) = h[Son(u, z, 1)] - h[Son(u, z, -1)]
    <3>1. CASE z = x
      BY <3>1, <1>11
    <3>2. CASE z # x
      BY <3>2, <1>1 DEF Raised
    <3> QED
      BY <3>1, <3>2
  <2> QED
    BY <2>1, <2>2, <2>3, <1>1 DEF Ranked, Raised
<1> QED
  BY <1>1, <1>6, <1>12 DEF Tree, Shape, w

\* A single rotation and the link to it.
LEMMA SingleRotationLinked ==
  ASSUME NEW u, NEW V, NEW rng, NEW fa, Shape(u, V, rng, fa),
         NEW x \in Nodes(u), NEW d \in Dirs, Son(u, x, d) # NULL,
         NEW path, NEW dirs, NEW i, AtPlace(u, path, dirs, i, x, fa),
         NEW v, Typed(v, V), Alike(SingleRotation(u, x, d), v),
         SameLinks(SingleRotation(u, x, d), v), v.root = u.root
  PROVE  LET w == SetSubtree(v, path, dirs, i, Son(u, x, d))
         IN  /\ Typed(w, V) /\ Rotated(u, w, x, d, fa) /\ SameBalances(v, w)
             /\ w.height = v.height
<1> DEFINE s == Son(u, x, d)
           c == SingleRotation(u, x, d)
           w == SetSubtree(v, path, dirs, i, s)
           f == fa[x]
           e0 == Dir(x, f)
<1>1. s \in Nodes(u) /\ s # x /\ s \in rng[x] /\ -d \in Dirs
  BY LinkIs
<1>2. /\ Typed(c, V) /\ Alike(u, c) /\ SameBalances(u, c)
      /\ c.root = u.root /\ c.height = u.height
      /\ \A z \in Nodes(u) : \A e \in Dirs :
           Son(c, z, e) = IF z = x /\ e = d THEN Son(u, s, -d)
                          ELSE IF z = s /\ e = -d THEN x
                          ELSE Son(u, z, e)
  BY <1>1, SingleRotationIs DEF Shape
<1> HIDE DEF c
<1>3. Alike(u, v)
  BY <1>2 DEF Alike, c
<1>4. \A z \in Nodes(u) : \A e \in Dirs : Son(v, z, e) = Son(c, z, e)
  BY <1>2 DEF SameLinks, Alike, c
<1> HIDE DEF s
<1>5. /\ Typed(w, V) /\ Alike(v, w) /\ Alike(u, w) /\ SameBalances(v, w)
      /\ w.height = v.height
      /\ w.root = IF x = u.root THEN s ELSE u.root
      /\ \A z \in Nodes(u) : \A e \in Dirs :
           Son(w, z, e) = IF x # u.root /\ z = fa[x] /\ e = Dir(x, fa[x]) THEN s
                          ELSE Son(v, z, e)
  BY <1>1, <1>3, SetSubtreeIs
<1>6. x # u.root => f # x /\ f # s
  <2>1. x \in rng[x]
    BY DEF Shape, Ordered
  <2> QED
    BY <2>1, <1>1, FatherIs
<1> HIDE DEF w
<1>7. Rotated(u, w, x, d, fa)
  BY <1>2, <1>4, <1>5, <1>6 DEF Rotated, s, f
<1> QED
  BY <1>5, <1>7 DEF w, s

\* The higher side leans outward: one rotation.
LEMMA SingleRotationBalances ==
  ASSUME NEW u, NEW V, NEW h, NEW rng, NEW fa, NEW x, NEW d, Raised(u, V, h, rng, fa, x, d),
         B(u, x) = d, B(u, Son(u, x, d)) = d,
         NEW path, NEW dirs, NEW i, AtPlace(u, path, dirs, i, x, fa)
  PROVE  LET s == Son(u, x, d)
             w == SetSubtree(SetB(SetB(SingleRotation(u, x, d), x, BALANCED), s, BALANCED),
                             path, dirs, i, s)
         IN  /\ Alike(u, w)
             /\ Tree(w, V, [h EXCEPT ![x] = h[x] - 1],
                     RotatedRng(u, x, d, rng), RotatedFa(u, x, d, fa))
<1> DEFINE s == Son(u, x, d)
           m == Son(u, s, -d)
           o == Son(u, x, -d)
           sd == Son(u, s, d)
           c == SingleRotation(u, x, d)
           a == SetB(c, x, BALANCED)
           v == SetB(a, s, BALANCED)
           w == SetSubtree(v, path, dirs, i, s)
           h2 == [h EXCEPT ![x] = h[x] - 1]
           rng2 == RotatedRng(u, x, d, rng)
           fa2 == RotatedFa(u, x, d, fa)
<1>0. Shape(u, V, rng, fa) /\ Typed(u, V) /\ x \in Nodes(u) /\ d \in Dirs
  BY DEF Raised, Shape
<1>1. /\ \A z \in Nodes(u) : h[z] \in Nat /\ z \in Pointers(u) /\ z # NULL
      /\ \A z \in Nodes(u) : \A e \in Dirs :
           Son(u, z, e) \in Pointers(u) /\ h[Son(u, z, e)] \in Nat
      /\ u.root \in Nodes(u) /\ h[u.root] \in Nat
      /\ -d \in Dirs
      /\ s # NULL /\ s \in Nodes(u)
  BY RaisedSons
<1>2. s # x /\ x \notin rng[s] /\ s # u.root
  BY <1>0, <1>1, LinkIs
<1>3. /\ Typed(c, V) /\ Alike(u, c) /\ SameBalances(u, c) /\ c.root = u.root /\ c.height = u.height
  BY <1>0, <1>1, <1>2, SingleRotationIs
<1>4. x \in Nodes(c) /\ s \in Nodes(c) /\ BALANCED \in {-1, 0, 1} /\ BALANCED = 0
  BY <1>0, <1>1, <1>3 DEF Alike, BALANCED
<1>5. /\ Typed(a, V) /\ Alike(c, a) /\ SameLinks(c, a) /\ a.root = c.root /\ a.height = c.height
      /\ \A z \in Nodes(c) : B(a, z) = IF z = x THEN BALANCED ELSE B(c, z)
  <2> HIDE DEF c, s
  <2> QED
    BY <1>3, <1>4, SetBIs
<1>6. s \in Nodes(a)
  BY <1>4, <1>5 DEF Alike
<1>7. /\ Typed(v, V) /\ Alike(a, v) /\ SameLinks(a, v) /\ v.root = a.root /\ v.height = a.height
      /\ \A z \in Nodes(a) : B(v, z) = IF z = s THEN BALANCED ELSE B(a, z)
  <2> HIDE DEF a, s
  <2> QED
    BY <1>4, <1>5, <1>6, SetBIs
<1>8. Alike(c, v) /\ SameLinks(c, v) /\ v.root = u.root /\ v.height = u.height
  <2> HIDE DEF c, a, v
  <2> QED
    BY <1>3, <1>5, <1>7 DEF Alike, SameLinks
<1>9. \A z \in Nodes(u) : B(v, z) = IF z = x \/ z = s THEN 0 ELSE B(u, z)
  <2> HIDE DEF c, a, v, s
  <2> QED
    BY <1>3, <1>4, <1>5, <1>7 DEF Alike, SameBalances
<1>10. /\ Typed(w, V) /\ Rotated(u, w, x, d, fa) /\ SameBalances(v, w) /\ w.height = v.height
  <2> HIDE DEF v
  <2> QED
    BY <1>0, <1>1, <1>7, <1>8, SingleRotationLinked
<1>11. Alike(u, w) /\ w.root = (IF x = u.root THEN s ELSE u.root)
  BY <1>10 DEF Rotated
<1>12. Shape(w, V, rng2, fa2)
  <2> HIDE DEF w
  <2> QED
    BY <1>0, <1>1, <1>10, RotationKeepsShape
<1>13. \A z \in Nodes(u) : B(w, z) = IF z = x \/ z = s THEN 0 ELSE B(u, z)
  <2>1. Nodes(v) = Nodes(u)
    BY <1>3, <1>8 DEF Alike
  <2> HIDE DEF v, w
  <2> QED
    BY <2>1, <1>9, <1>10 DEF SameBalances
<1>14. /\ h2 \in [Pointers(u) -> Nat] /\ h2[x] = h[x] - 1
       /\ \A z \in Pointers(u) : z # x => h2[z] = h[z]
  <2>1. h[x] - 1 \in Nat
    BY <1>0, <1>1 DEF Raised, Over
  <2> QED
    BY <2>1, <1>0, <1>1 DEF Raised
<1>15. m # x /\ o # x /\ sd # x
  <2>1. o # x
    BY <1>0, <1>1, LinkIs
  <2>2. m # NULL => m \in rng[s]
    BY <1>0, <1>1, LinkIs
  <2>3. sd # NULL => sd \in rng[s]
    BY <1>0, <1>1, LinkIs
  <2> HIDE DEF m, sd, s
  <2> QED
    BY <2>1, <2>2, <2>3, <1>0, <1>1, <1>2
<1>16. m \in Pointers(u) /\ o \in Pointers(u) /\ sd \in Pointers(u)
       /\ h[m] \in Nat /\ h[o] \in Nat /\ h[sd] \in Nat /\ h[s] \in Nat /\ h[x] \in Nat
  BY <1>0, <1>1
<1>17. h[s] = h[o] + 2 /\ h[x] = h[s] /\ h[sd] = h[s] - 1 /\ h[m] = h[s] - 2
  <2>1. h[x] = Over(h[s] - 1, h[o]) /\ h[s] > 0
    BY DEF Raised
  <2>2. h[s] = Over(h[Son(u, s, -1)], h[Son(u, s, 1)]) /\ d = h[Son(u, s, 1)] - h[Son(u, s, -1)]
    BY <1>1, <1>2 DEF Raised
  <2>3. d = IF d = 1 THEN (h[Son(u, x, 1)] - 1) - h[Son(u, x, -1)]
                     ELSE h[Son(u, x, 1)] - (h[Son(u, x, -1)] - 1)
    BY DEF Raised
  <2>4. CASE d = 1
    <3>1. h[s] = Over(h[m], h[sd]) /\ 1 = h[sd] - h[m] /\ 1 = (h[s] - 1) - h[o]
      BY <2>2, <2>3, <2>4
    <3> HIDE DEF s, m, o, sd
    <3>2. h[sd] = h[m] + 1 /\ h[s] = h[o] + 2
      BY <3>1, <1>16
    <3>3. Over(h[m], h[sd]) = h[sd] + 1
      BY <3>2, <1>16 DEF Over
    <3>4. Over(h[s] - 1, h[o]) = h[s]
      BY <3>2, <1>16 DEF Over
    <3>5. h[x] = h[s]
      BY <3>4, <2>1
    <3>6. h[s] = h[sd] + 1
      BY <3>1, <3>3
    <3> QED
      BY <3>2, <3>5, <3>6, <1>16
  <2>5. CASE d = -1
    <3>1. h[s] = Over(h[sd], h[m]) /\ -1 = h[m] - h[sd] /\ -1 = h[o] - (h[s] - 1)
      BY <2>2, <2>3, <2>5
    <3> HIDE DEF s, m, o, sd
    <3>2. h[sd] = h[m] + 1 /\ h[s] = h[o] + 2
      BY <3>1, <1>16
    <3>3. Over(h[sd], h[m]) = h[sd] + 1
      BY <3>2, <1>16 DEF Over
    <3>4. Over(h[s] - 1, h[o]) = h[s]
      BY <3>2, <1>16 DEF Over
    <3>5. h[x] = h[s]
      BY <3>4, <2>1
    <3>6. h[s] = h[sd] + 1
      BY <3>1, <3>3
    <3> QED
      BY <3>2, <3>5, <3>6, <1>16
  <2> QED
    BY <2>4, <2>5, <1>0 DEF Dirs
<1>18. Son(w, x, d) = m /\ Son(w, s, -d) = x
  BY <1>0, <1>1, <1>2, <1>10 DEF Rotated
<1>19. Son(w, x, -d) = o /\ Son(w, s, d) = sd
  <2>1. x # u.root => fa[x] # x /\ fa[x] # s
    <3>1. x \in rng[x] /\ s \in rng[x]
      BY <1>0, <1>1, LinkIs DEF Shape, Ordered
    <3> QED
      BY <3>1, <1>0, FatherIs
  <2>2. d # -d
    BY <1>0 DEF Dirs
  <2> QED
    BY <2>1, <2>2, <1>0, <1>1, <1>2, <1>10 DEF Rotated
<1>20. ASSUME NEW z \in Nodes(u), z # x, z # s, NEW e \in Dirs
       PROVE  h2[Son(w, z, e)] = h[Son(u, z, e)]
  <2>1. CASE x # u.root /\ z = fa[x] /\ e = Dir(x, fa[x])
    <3>1. Son(w, z, e) = s
      BY <2>1, <1>20, <1>10 DEF Rotated
    <3>2. Son(u, z, e) = x
      BY <2>1, <1>0, FatherIs
    <3>3. h2[s] = h[s]
      BY <1>1, <1>2, <1>14
    <3> QED
      BY <3>1, <3>2, <3>3, <1>17
  <2>2. CASE ~(x # u.root /\ z = fa[x] /\ e = Dir(x, fa[x]))
    <3>1. Son(w, z, e) = Son(u, z, e)
      BY <2>2, <1>20, <1>10 DEF Rotated
    <3>2. Son(u, z, e) # x
      <4> SUFFICES ASSUME Son(u, z, e) = x PROVE FALSE
        OBVIOUS
      <4>1. x # NULL
        BY <1>0, <1>1
      <4> QED
        BY <4>1, <2>2, <1>0, LinkIs
    <3> QED
      BY <3>1, <3>2, <1>1, <1>14
  <2> QED
    BY <2>1, <2>2
<1>21. Ranked(w, h2)
  <2> HIDE DEF w, h2
  <2>1. Nodes(w) = Nodes(u) /\ Pointers(w) = Pointers(u)
    BY <1>11 DEF Alike
  <2>2. h2[m] = h[m] /\ h2[o] = h[o] /\ h2[sd] = h[sd] /\ h2[s] = h[s] /\ h2[x] = h[x] - 1
    BY <1>1, <1>2, <1>14, <1>15, <1>16
  <2>3. ASSUME NEW z \in Nodes(u)
        PROVE  /\ h2[z] = Over(h2[Son(w, z, -1)], h2[Son(w, z, 1)])
               /\ B(w, z) = h2[Son(w, z, 1)] - h2[Son(w, z, -1)]
    <3>1. CASE z = x
      <4>1. h2[Son(w, z, -1)] = h[m] /\ h2[Son(w, z, 1)] = h[m] /\ B(w, z) = 0 /\ h2[z] = h[m] + 1
        <5> HIDE DEF s, m, o, sd
        <5> QED
          BY <3>1, <2>2, <1>0, <1>13, <1>16, <1>17, <1>18, <1>19 DEF Dirs
      <4> QED
        BY <4>1, <1>16 DEF Over
    <3>2. CASE z = s
      <4>1. h2[Son(w, z, -1)] = h[sd] /\ h2[Son(w, z, 1)] = h[sd] /\ B(w, z) = 0 /\ h2[z] = h[sd] + 1
        <5> HIDE DEF s, m, o, sd
        <5> QED
          BY <3>2, <2>2, <1>0, <1>1, <1>13, <1>16, <1>17, <1>18, <1>19 DEF Dirs
      <4> QED
        BY <4>1, <1>16 DEF Over
    <3>3. CASE z # x /\ z # s
      <4>1. h2[Son(w, z, -1)] = h[Son(u, z, -1)] /\ h2[Son(w, z, 1)] = h[Son(u, z, 1)]
        BY <3>3, <1>20 DEF Dirs
      <4>2. h2[z] = h[z] /\ B(w, z) = B(u, z)
        BY <3>3, <1>1, <1>13, <1>14
      <4> QED
        BY <3>3, <4>1, <4>2 DEF Raised
    <3> QED
      BY <3>1, <3>2, <3>3
  <2>4. h2[w.root] = h[u.root]
    BY <2>2, <1>1, <1>2, <1>11, <1>14, <1>17
  <2>5. \A z \in Nodes(u) : h2[z] <= h2[w.root]
    <3> SUFFICES ASSUME NEW z \in Nodes(u) PROVE h2[z] <= h2[w.root]
      OBVIOUS
    <3>1. h2[z] <= h[z] /\ h[z] <= h[u.root] /\ h[z] \in Nat /\ h2[z] \in Nat
      BY <1>1, <1>14, <1>16 DEF Raised
    <3> QED
      BY <3>1, <2>4, <1>1
  <2>6. h2[NULL] = 0
    BY <1>0, <1>1, <1>14 DEF Raised, Pointers
  <2>7. w.height = h2[w.root]
    BY <2>4, <1>8, <1>10 DEF Raised
  <2> QED
    BY <2>1, <2>3, <2>5, <2>6, <2>7, <1>14 DEF Ranked
<1> QED
  BY <1>11, <1>12, <1>21 DEF Tree, Shape

\* A double rotation and the link to it: the rotation of the son, then of x.
LEMMA DoubleRotationKeepsShape ==
  ASSUME NEW u, NEW V, NEW rng, NEW fa, Shape(u, V, rng, fa),
         NEW x \in Nodes(u), NEW d \in Dirs, NEW s, NEW g,
         s = Son(u, x, d), g = Son(u, s, -d), s # NULL, g # NULL,
         NEW path, NEW dirs, NEW i, AtPlace(u, path, dirs, i, x, fa),
         NEW v, Typed(v, V), Alike(DoubleRotation(u, x, d), v),
         SameLinks(DoubleRotation(u, x, d), v), v.root = u.root
  PROVE  LET w == SetSubtree(v, path, dirs, i, g)
             rng1 == RotatedRng(u, s, -d, rng)
             fa1 == RotatedFa(u, s, -d, fa)
             v1 == SetSon(SingleRotation(u, s, -d), x, d, g)
         IN  /\ Alike(u, w) /\ SameBalances(v, w) /\ w.height = v.height
             /\ Shape(w, V, RotatedRng(v1, x, d, rng1), RotatedFa(v1, x, d, fa1))
             /\ w.root = IF x = u.root THEN g ELSE u.root
             /\ \A z \in Nodes(u) : \A e \in Dirs :
                  Son(w, z, e) =
                    IF z = s /\ e = -d THEN Son(u, g, d)
                    ELSE IF z = x /\ e = d THEN Son(u, g, -d)
                    ELSE IF z = g THEN IF e = d THEN s ELSE x
                    ELSE IF x # u.root /\ z = fa[x] /\ e = Dir(x, fa[x]) THEN g
                    ELSE Son(u, z, e)
<1> DEFINE c == DoubleRotation(u, x, d)
           w == SetSubtree(v, path, dirs, i, g)
           f == fa[x]
           e0 == Dir(x, f)
           gd == Son(u, g, d)
           gm == Son(u, g, -d)
           r == SingleRotation(u, s, -d)
           v1 == SetSon(r, x, d, g)
           rng1 == RotatedRng(u, s, -d, rng)
           fa1 == RotatedFa(u, s, -d, fa)
<1>1. /\ s \in Nodes(u) /\ s # x /\ s # u.root /\ fa[s] = x /\ s \in rng[x]
      /\ x \notin rng[s] /\ Dir(s, x) = d /\ -d \in Dirs
      /\ \A a \in Pos : a \in rng[s] <=> a \in rng[x] /\ InDir(a, x, d)
  BY LinkIs
<1>2. g \in Nodes(u) /\ g # s /\ g # u.root /\ fa[g] = s /\ g \in rng[s] /\ g \in Pos
      /\ \A a \in Pos : a \in rng[g] <=> a \in rng[s] /\ InDir(a, s, -d)
  BY <1>1, LinkIs
<1>3. g # x /\ g \in rng[x] /\ x \in rng[x] /\ x # NULL
  BY <1>1, <1>2 DEF Shape, Ordered, Typed, Pos, NULL
<1>4. gd \in Pointers(u) /\ gd # x /\ gd # g /\ gd # s /\ gm \in Pointers(u)
  <2>0. gd \in Pointers(u) /\ gm \in Pointers(u)
    BY <1>1, <1>2, SonIsPointer DEF Shape
  <2>1. CASE gd = NULL
    BY <2>0, <2>1, <1>1, <1>2, <1>3 DEF Shape, Typed, Pos, NULL
  <2>2. CASE gd # NULL
    <3>1. gd \in rng[g] /\ gd \in Pos /\ gd # g /\ fa[gd] = g
      BY <2>2, <1>2, LinkIs
    <3> QED
      BY <2>0, <3>1, <1>1, <1>2, <1>3
  <2> QED
    BY <2>1, <2>2
<1>5. x # u.root => f # x /\ f # s /\ f # g
  BY <1>1, <1>2, <1>3, FatherIs
<1>6. d = -(-d) /\ -d # d
  BY DEF Dirs
<1>7. /\ Typed(c, V) /\ Alike(u, c) /\ SameBalances(u, c)
      /\ c.root = u.root /\ c.height = u.height
      /\ \A z \in Nodes(u) : \A e \in Dirs :
           Son(c, z, e) = IF z = s /\ e = -d THEN gd
                          ELSE IF z = x /\ e = d THEN gm
                          ELSE IF z = g THEN IF e = d THEN s ELSE x
                          ELSE Son(u, z, e)
  BY <1>1, <1>2, <1>3, DoubleRotationIs DEF Shape
<1> HIDE DEF c, gd, gm
<1>8. Alike(u, v) /\ \A z \in Nodes(u) : \A e \in Dirs : Son(v, z, e) = Son(c, z, e)
  BY <1>7 DEF Alike, SameLinks, c
<1>9. /\ Typed(w, V) /\ Alike(v, w) /\ Alike(u, w) /\ SameBalances(v, w)
      /\ w.height = v.height
      /\ w.root = IF x = u.root THEN g ELSE u.root
      /\ \A z \in Nodes(u) : \A e \in Dirs :
           Son(w, z, e) = IF x # u.root /\ z = f /\ e = e0 THEN g ELSE Son(v, z, e)
  BY <1>2, <1>8, SetSubtreeIs
<1> HIDE DEF w, f, e0
<1>10. \A z \in Nodes(u) : \A e \in Dirs :
         Son(w, z, e) = IF z = s /\ e = -d THEN gd
                        ELSE IF z = x /\ e = d THEN gm
                        ELSE IF z = g THEN IF e = d THEN s ELSE x
                        ELSE IF x # u.root /\ z = f /\ e = e0 THEN g
                        ELSE Son(u, z, e)
  BY <1>5, <1>7, <1>8, <1>9
<1>11. /\ Typed(r, V) /\ Alike(u, r) /\ r.root = u.root
       /\ \A z \in Nodes(u) : \A e \in Dirs :
            Son(r, z, e) = IF z = s /\ e = -d THEN gd
                           ELSE IF z = g /\ e = d THEN s
                           ELSE Son(u, z, e)
  <2>1. /\ Typed(r, V) /\ Alike(u, r) /\ r.root = u.root
        /\ \A z \in Nodes(u) : \A e \in Dirs :
             Son(r, z, e) = IF z = s /\ e = -d THEN Son(u, g, -(-d))
                            ELSE IF z = g /\ e = -(-d) THEN s
                            ELSE Son(u, z, e)
    BY <1>1, <1>2, SingleRotationIs DEF Shape
  <2> HIDE DEF r
  <2> QED
    BY <2>1, <1>6 DEF gd
<1> HIDE DEF r
<1>12. /\ Typed(v1, V) /\ Alike(r, v1) /\ v1.root = r.root
       /\ \A z \in Nodes(r) : \A e \in Dirs :
            Son(v1, z, e) = IF z = x /\ e = d THEN g ELSE Son(r, z, e)
  <2>1. x \in Nodes(r) /\ g \in Pointers(r)
    BY <1>2, <1>11 DEF Alike, Pointers, Nodes
  <2> QED
    BY <2>1, <1>11, SetSonIs
<1> HIDE DEF v1
<1>13. Alike(u, v1) /\ Nodes(v1) = Nodes(u) /\ v1.root = u.root
  BY <1>11, <1>12 DEF Alike
<1>14. \A z \in Nodes(u) : \A e \in Dirs :
         Son(v1, z, e) = IF z = s /\ e = -d THEN gd
                         ELSE IF z = g /\ e = d THEN s
                         ELSE IF z = x /\ e = d THEN g
                         ELSE Son(u, z, e)
  BY <1>1, <1>2, <1>3, <1>11, <1>12 DEF Alike
<1>15. Rotated(u, v1, s, -d, fa)
  BY <1>1, <1>6, <1>13, <1>14 DEF Rotated, gd
<1>16. Shape(v1, V, rng1, fa1)
  BY <1>1, <1>12, <1>15, RotationKeepsShape
<1>17. fa1[x] = f
  BY <1>1, <1>3, <1>4, <1>6 DEF RotatedFa, f, gd
<1> HIDE DEF rng1, fa1
<1>18. Son(v1, x, d) = g /\ Son(v1, g, -d) = gm /\ x \in Nodes(v1)
  BY <1>1, <1>2, <1>3, <1>6, <1>13, <1>14 DEF gm
<1>19. Rotated(v1, w, x, d, fa1)
  <2>1. Alike(v1, w)
    BY <1>9, <1>13 DEF Alike
  <2>2. w.root = IF x = v1.root THEN g ELSE v1.root
    BY <1>9, <1>13
  <2>3. ASSUME NEW z \in Nodes(u), NEW e \in Dirs
        PROVE  Son(w, z, e) = IF z = x /\ e = d THEN gm
                              ELSE IF z = g /\ e = -d THEN x
                              ELSE IF x # u.root /\ z = f /\ e = e0 THEN g
                              ELSE Son(v1, z, e)
    <3>1. e = d \/ e = -d
      BY DEF Dirs
    <3> QED
      BY <3>1, <1>1, <1>2, <1>3, <1>5, <1>6, <1>10, <1>14
  <2> QED
    BY <2>1, <2>2, <2>3, <1>13, <1>17, <1>18 DEF Rotated, e0
<1>20. Shape(w, V, RotatedRng(v1, x, d, rng1), RotatedFa(v1, x, d, fa1))
  BY <1>2, <1>9, <1>16, <1>18, <1>19, RotationKeepsShape DEF Pos, NULL
<1> QED
  BY <1>9, <1>10, <1>20 DEF w, v1, r, rng1, fa1, gd, gm, f, e0

\* The higher side leans inward: two rotations.
LEMMA DoubleRotationBalances ==
  ASSUME NEW u, NEW V, NEW h, NEW rng, NEW fa, NEW x, NEW d, Raised(u, V, h, rng, fa, x, d),
         NEW s, NEW g, s = Son(u, x, d), g = Son(u, s, -d),
         B(u, x) = d, B(u, s) # d,
         NEW path, NEW dirs, NEW i, AtPlace(u, path, dirs, i, x, fa)
  PROVE  LET w == SetSubtree(InsertBalances(DoubleRotation(u, x, d), x, s, g, d),
                             path, dirs, i, g)
         IN  /\ Alike(u, w)
             /\ \E rng2, fa2 :
                  Tree(w, V, [h EXCEPT ![x] = h[x] - 1, ![s] = h[s] - 1, ![g] = h[g] + 1],
                       rng2, fa2)
<1> DEFINE o == Son(u, x, -d)
           sd == Son(u, s, d)
           gd == Son(u, g, d)
           gm == Son(u, g, -d)
           b == B(u, g)
           bx == IF b = d THEN -d ELSE BALANCED
           bs == IF b = -d THEN d ELSE BALANCED
           c == DoubleRotation(u, x, d)
           c1 == SetB(c, x, bx)
           c2 == SetB(c1, s, bs)
           v == SetB(c2, g, BALANCED)
           w == SetSubtree(v, path, dirs, i, g)
           h2 == [h EXCEPT ![x] = h[x] - 1, ![s] = h[s] - 1, ![g] = h[g] + 1]
<1>0. Shape(u, V, rng, fa) /\ Typed(u, V) /\ x \in Nodes(u) /\ d \in Dirs
  BY DEF Raised, Shape
<1>1. /\ \A z \in Nodes(u) : h[z] \in Nat /\ z \in Pointers(u) /\ z # NULL
      /\ \A z \in Nodes(u) : \A e \in Dirs :
           Son(u, z, e) \in Pointers(u) /\ h[Son(u, z, e)] \in Nat
      /\ u.root \in Nodes(u) /\ h[u.root] \in Nat
      /\ -d \in Dirs
      /\ s # NULL /\ s \in Nodes(u)
  BY RaisedSons
<1>2. s # x /\ x \notin rng[s] /\ s # u.root /\ s \in rng[x] /\ Dir(s, x) = d /\ fa[s] = x
      /\ \A a \in Pos : a \in rng[s] <=> a \in rng[x] /\ InDir(a, x, d)
  BY <1>0, <1>1, LinkIs
<1>3. o \in Pointers(u) /\ sd \in Pointers(u) /\ h[o] \in Nat /\ h[sd] \in Nat /\ h[s] \in Nat /\ h[x] \in Nat
      /\ g \in Pointers(u) /\ h[g] \in Nat
  BY <1>0, <1>1
<1>4. h[s] = h[o] + 2 /\ h[x] = h[s]
  <2>1. h[x] = Over(h[s] - 1, h[o]) /\ h[s] > 0
    BY DEF Raised
  <2>2. d = IF d = 1 THEN (h[Son(u, x, 1)] - 1) - h[Son(u, x, -1)]
                     ELSE h[Son(u, x, 1)] - (h[Son(u, x, -1)] - 1)
    BY DEF Raised
  <2>3. h[s] = h[o] + 2
    <3>1. CASE d = 1
      <4>1. 1 = (h[s] - 1) - h[o]
        BY <2>2, <3>1
      <4> HIDE DEF o
      <4> QED
        BY <4>1, <1>3
    <3>2. CASE d = -1
      <4>1. -1 = h[o] - (h[s] - 1)
        BY <2>2, <3>2
      <4> HIDE DEF o
      <4> QED
        BY <4>1, <1>3
    <3> QED
      BY <3>1, <3>2, <1>0 DEF Dirs
  <2> HIDE DEF o
  <2>4. Over(h[s] - 1, h[o]) = h[s]
    BY <2>3, <1>3 DEF Over
  <2> QED
    BY <2>1, <2>3, <2>4
<1>5. B(u, s) = -d
  <2>1. B(u, s) # 0
    BY <1>3, <1>4 DEF Raised
  <2>2. B(u, s) \in {-1, 0, 1}
    BY <1>0, <1>1 DEF Typed, B
  <2> QED
    BY <2>1, <2>2, <1>0 DEF Dirs
<1>6. h[g] = h[s] - 1 /\ h[sd] = h[s] - 2
  <2>1. h[s] = Over(h[Son(u, s, -1)], h[Son(u, s, 1)]) /\ -d = h[Son(u, s, 1)] - h[Son(u, s, -1)]
    BY <1>1, <1>2, <1>5 DEF Raised
  <2>2. CASE d = 1
    <3>1. h[s] = Over(h[g], h[sd]) /\ -1 = h[sd] - h[g]
      BY <2>1, <2>2
    <3> HIDE DEF sd
    <3>2. h[g] = h[sd] + 1
      BY <3>1, <1>3
    <3>3. Over(h[g], h[sd]) = h[g] + 1
      BY <3>2, <1>3 DEF Over
    <3>4. h[s] = h[g] + 1
      BY <3>1, <3>3
    <3> QED
      BY <3>2, <3>4, <1>3
  <2>3. CASE d = -1
    <3>1. h[s] = Over(h[sd], h[g]) /\ 1 = h[g] - h[sd]
      BY <2>1, <2>3
    <3> HIDE DEF sd
    <3>2. h[g] = h[sd] + 1
      BY <3>1, <1>3
    <3>3. Over(h[sd], h[g]) = h[g] + 1
      BY <3>2, <1>3 DEF Over
    <3>4. h[s] = h[g] + 1
      BY <3>1, <3>3
    <3> QED
      BY <3>2, <3>4, <1>3
  <2> QED
    BY <2>2, <2>3, <1>0 DEF Dirs
<1>7. g # NULL /\ g \in Nodes(u)
  <2>1. h[g] # 0
    BY <1>3, <1>4, <1>6
  <2>2. g # NULL
    BY <2>1 DEF Raised
  <2> QED
    BY <2>2, <1>3 DEF Pointers, Nodes
<1>8. g # s /\ g # u.root /\ fa[g] = s /\ g \in rng[s] /\ g \in Pos /\ Dir(g, s) = -d
      /\ \A a \in Pos : a \in rng[g] <=> a \in rng[s] /\ InDir(a, s, -d)
  BY <1>0, <1>1, <1>7, LinkIs
<1>9. g # x /\ g \in rng[x] /\ x \in rng[x]
  BY <1>0, <1>2, <1>8 DEF Shape, Ordered
<1>10. gd \in Pointers(u) /\ gm \in Pointers(u) /\ h[gd] \in Nat /\ h[gm] \in Nat
  BY <1>0, <1>1, <1>7
<1>11. /\ gd # x /\ gd # s /\ gd # g
       /\ gm # x /\ gm # s /\ gm # g
       /\ sd # x /\ sd # s /\ sd # g
       /\ o # x /\ o # s /\ o # g
  <2>0. x # NULL /\ s # NULL /\ g # NULL /\ d # -d
    BY <1>0, <1>1, <1>7 DEF Dirs
  <2>1. gd # NULL => gd \in rng[g] /\ gd # g /\ gd \in Pos
    BY <1>0, <1>7, LinkIs
  <2>2. gm # NULL => gm \in rng[g] /\ gm # g /\ gm \in Pos
    BY <1>0, <1>1, <1>7, LinkIs
  <2>3. sd # NULL => sd \in rng[s] /\ sd # s /\ sd \in Pos /\ Dir(sd, s) = d
    BY <1>0, <1>1, LinkIs
  <2>4. o # NULL => o # x /\ fa[o] = x /\ Dir(o, x) = -d
    BY <1>0, <1>1, LinkIs
  <2>5. s \notin rng[g]
    BY <1>0, <1>1, <1>7, LinkIs
  <2> HIDE DEF o, sd, gd, gm
  <2>6. gd # x /\ gd # s /\ gd # g
    BY <2>0, <2>1, <2>5, <1>2, <1>8
  <2>7. gm # x /\ gm # s /\ gm # g
    BY <2>0, <2>2, <2>5, <1>2, <1>8
  <2>8. sd # x /\ sd # s /\ sd # g
    BY <2>0, <2>3, <1>2, <1>8
  <2>9. o # x /\ o # s /\ o # g
    BY <2>0, <2>4, <1>2, <1>8
  <2> QED
    BY <2>6, <2>7, <2>8, <2>9
<1>12. b \in {-1, 0, 1} /\ bx \in {-1, 0, 1} /\ bs \in {-1, 0, 1} /\ BALANCED \in {-1, 0, 1} /\ BALANCED = 0
  <2>1. b \in {-1, 0, 1}
    BY <1>0, <1>7 DEF Typed, B
  <2> HIDE DEF b
  <2> QED
    BY <2>1, <1>0 DEF Dirs, BALANCED
<1> HIDE DEF b, bx, bs
<1>13. Typed(c, V) /\ Alike(u, c) /\ SameBalances(u, c) /\ c.root = u.root /\ c.height = u.height
  BY <1>0, <1>1, <1>2, <1>7, <1>8, <1>9, DoubleRotationIs
<1>14. InsertBalances(c, x, s, g, d) = v
  <2>1. B(c, g) = b
    BY <1>7, <1>13 DEF SameBalances, b
  <2> HIDE DEF c
  <2> QED
    BY <2>1 DEF InsertBalances, bx, bs
<1> HIDE DEF c
<1>15. x \in Nodes(c) /\ s \in Nodes(c) /\ g \in Nodes(c)
  BY <1>0, <1>1, <1>7, <1>13 DEF Alike
<1>16. /\ Typed(c1, V) /\ Alike(c, c1) /\ SameLinks(c, c1) /\ c1.root = c.root /\ c1.height = c.height
       /\ \A z \in Nodes(c) : B(c1, z) = IF z = x THEN bx ELSE B(c, z)
  BY <1>12, <1>13, <1>15, SetBIs
<1> HIDE DEF c1
<1>17. Nodes(c1) = Nodes(c) /\ s \in Nodes(c1)
  BY <1>15, <1>16 DEF Alike
<1>18. /\ Typed(c2, V) /\ Alike(c1, c2) /\ SameLinks(c1, c2) /\ c2.root = c1.root /\ c2.height = c1.height
       /\ \A z \in Nodes(c1) : B(c2, z) = IF z = s THEN bs ELSE B(c1, z)
  BY <1>12, <1>16, <1>17, SetBIs
<1> HIDE DEF c2
<1>19. Nodes(c2) = Nodes(c) /\ g \in Nodes(c2)
  BY <1>15, <1>17, <1>18 DEF Alike
<1>20. /\ Typed(v, V) /\ Alike(c2, v) /\ SameLinks(c2, v) /\ v.root = c2.root /\ v.height = c2.height
       /\ \A z \in Nodes(c2) : B(v, z) = IF z = g THEN BALANCED ELSE B(c2, z)
  BY <1>12, <1>18, <1>19, SetBIs
<1> HIDE DEF v
<1>21. Alike(c, v) /\ SameLinks(c, v) /\ v.root = u.root /\ v.height = u.height
  BY <1>13, <1>16, <1>18, <1>20 DEF Alike, SameLinks
<1>22. \A z \in Nodes(u) : B(v, z) = IF z = g THEN 0 ELSE IF z = s THEN bs
                                     ELSE IF z = x THEN bx ELSE B(u, z)
  BY <1>2, <1>8, <1>9, <1>12, <1>13, <1>16, <1>17, <1>18, <1>19, <1>20 DEF Alike, SameBalances
<1> DEFINE rng1 == RotatedRng(u, s, -d, rng)
           fa1 == RotatedFa(u, s, -d, fa)
           v1 == SetSon(SingleRotation(u, s, -d), x, d, g)
           rng2 == RotatedRng(v1, x, d, rng1)
           fa2 == RotatedFa(v1, x, d, fa1)
<1>23. /\ Alike(u, w) /\ SameBalances(v, w) /\ w.height = v.height
       /\ Shape(w, V, rng2, fa2)
       /\ w.root = IF x = u.root THEN g ELSE u.root
       /\ \A z \in Nodes(u) : \A e \in Dirs :
            Son(w, z, e) =
              IF z = s /\ e = -d THEN gd
              ELSE IF z = x /\ e = d THEN gm
              ELSE IF z = g THEN IF e = d THEN s ELSE x
              ELSE IF x # u.root /\ z = fa[x] /\ e = Dir(x, fa[x]) THEN g
              ELSE Son(u, z, e)
  BY <1>0, <1>1, <1>7, <1>20, <1>21, DoubleRotationKeepsShape DEF c
<1> HIDE DEF w, rng2, fa2
<1>24. \A z \in Nodes(u) : B(w, z) = IF z = g THEN 0 ELSE IF z = s THEN bs
                                     ELSE IF z = x THEN bx ELSE B(u, z)
  <2>1. Nodes(v) = Nodes(u)
    BY <1>13, <1>21 DEF Alike
  <2> QED
    BY <2>1, <1>22, <1>23 DEF SameBalances
<1>25. /\ h2 \in [Pointers(u) -> Nat]
       /\ h2[x] = h[s] - 1 /\ h2[s] = h[s] - 1 /\ h2[g] = h[s]
       /\ \A z \in Pointers(u) : z # x /\ z # s /\ z # g => h2[z] = h[z]
  <2>1. h[x] - 1 \in Nat /\ h[s] - 1 \in Nat /\ h[g] + 1 \in Nat /\ h[g] + 1 = h[s] /\ h[x] = h[s]
    BY <1>3, <1>4, <1>6
  <2>2. h \in [Pointers(u) -> Nat] /\ x \in Pointers(u) /\ s \in Pointers(u) /\ g \in Pointers(u)
    BY <1>0, <1>1, <1>7 DEF Raised
  <2> QED
    BY <2>1, <2>2, <1>2, <1>8, <1>9
<1> HIDE DEF h2
<1>26. x # u.root => fa[x] # x /\ fa[x] # s /\ fa[x] # g /\ fa[x] \in Nodes(u) /\ Son(u, fa[x], Dir(x, fa[x])) = x
  BY <1>0, <1>2, <1>9, FatherIs
<1>27. /\ Son(w, x, d) = gm /\ Son(w, x, -d) = o
       /\ Son(w, s, -d) = gd /\ Son(w, s, d) = sd
       /\ Son(w, g, d) = s /\ Son(w, g, -d) = x
  <2>1. d # -d
    BY <1>0 DEF Dirs
  <2> QED
    BY <2>1, <1>0, <1>1, <1>2, <1>7, <1>8, <1>9, <1>23, <1>26
<1>28. ASSUME NEW z \in Nodes(u), z # x, z # s, z # g, NEW e \in Dirs
       PROVE  h2[Son(w, z, e)] = h[Son(u, z, e)]
  <2>1. CASE x # u.root /\ z = fa[x] /\ e = Dir(x, fa[x])
    <3>1. Son(w, z, e) = g
      BY <2>1, <1>28, <1>23
    <3>2. Son(u, z, e) = x
      BY <2>1, <1>26
    <3> QED
      BY <3>1, <3>2, <1>4, <1>25
  <2>2. CASE ~(x # u.root /\ z = fa[x] /\ e = Dir(x, fa[x]))
    <3>1. Son(w, z, e) = Son(u, z, e)
      BY <2>2, <1>28, <1>23
    <3>2. Son(u, z, e) # x /\ Son(u, z, e) # s /\ Son(u, z, e) # g
      <4>1. Son(u, z, e) # NULL => fa[Son(u, z, e)] = z /\ Dir(Son(u, z, e), z) = e /\ Son(u, z, e) # u.root
        BY <1>0, LinkIs
      <4>2. x # NULL /\ s # NULL /\ g # NULL
        BY <1>0, <1>1, <1>7
      <4> QED
        BY <4>1, <4>2, <2>2, <1>2, <1>8, <1>28
    <3> QED
      BY <3>1, <3>2, <1>1, <1>25
  <2> QED
    BY <2>1, <2>2
<1>29. /\ h2[gd] = h[gd] /\ h2[gm] = h[gm] /\ h2[o] = h[s] - 2 /\ h2[sd] = h[s] - 2
  BY <1>3, <1>4, <1>6, <1>10, <1>11, <1>25
<1>30. /\ b = 0 => h[gd] = h[s] - 2 /\ h[gm] = h[s] - 2
       /\ b = d => h[gd] = h[s] - 2 /\ h[gm] = h[s] - 3
       /\ b = -d => h[gd] = h[s] - 3 /\ h[gm] = h[s] - 2
       /\ b \in {0, d, -d}
  <2>1. h[g] = Over(h[Son(u, g, -1)], h[Son(u, g, 1)]) /\ b = h[Son(u, g, 1)] - h[Son(u, g, -1)]
    BY <1>7, <1>9 DEF Raised, b
  <2>2. CASE d = 1
    <3>1. h[g] = Over(h[gm], h[gd]) /\ b = h[gd] - h[gm]
      BY <2>1, <2>2
    <3> HIDE DEF gd, gm
    <3> QED
      BY <3>1, <2>2, <1>3, <1>6, <1>10, <1>12 DEF Over
  <2>3. CASE d = -1
    <3>1. h[g] = Over(h[gd], h[gm]) /\ b = h[gm] - h[gd]
      BY <2>1, <2>3
    <3> HIDE DEF gd, gm
    <3> QED
      BY <3>1, <2>3, <1>3, <1>6, <1>10, <1>12 DEF Over
  <2> QED
    BY <2>2, <2>3, <1>0 DEF Dirs
<1> HIDE DEF o, sd, gd, gm
<1>31. Ranked(w, h2)
  <2>1. Nodes(w) = Nodes(u) /\ Pointers(w) = Pointers(u)
    BY <1>23 DEF Alike
  <2>3. ASSUME NEW z \in Nodes(u)
        PROVE  /\ h2[z] = Over(h2[Son(w, z, -1)], h2[Son(w, z, 1)])
               /\ B(w, z) = h2[Son(w, z, 1)] - h2[Son(w, z, -1)]
    <3>1. CASE z = x
      <4>1. h2[Son(w, z, d)] = h[gm] /\ h2[Son(w, z, -d)] = h[s] - 2 /\ B(w, z) = bx /\ h2[z] = h[s] - 1
        BY <3>1, <1>2, <1>9, <1>24, <1>25, <1>27, <1>29
      <4>2. CASE d = 1
        <5>1. h2[Son(w, z, 1)] = h[gm] /\ h2[Son(w, z, -1)] = h[s] - 2
          BY <4>1, <4>2
        <5> QED
          BY <5>1, <4>1, <4>2, <1>3, <1>10, <1>12, <1>30 DEF Over, bx
      <4>3. CASE d = -1
        <5>1. h2[Son(w, z, -1)] = h[gm] /\ h2[Son(w, z, 1)] = h[s] - 2
          BY <4>1, <4>3
        <5> QED
          BY <5>1, <4>1, <4>3, <1>3, <1>10, <1>12, <1>30 DEF Over, bx
      <4> QED
        BY <4>2, <4>3, <1>0 DEF Dirs
    <3>2. CASE z = s
      <4>1. h2[Son(w, z, -d)] = h[gd] /\ h2[Son(w, z, d)] = h[s] - 2 /\ B(w, z) = bs /\ h2[z] = h[s] - 1
        BY <3>2, <1>1, <1>8, <1>24, <1>25, <1>27, <1>29
      <4>2. CASE d = 1
        <5>1. h2[Son(w, z, -1)] = h[gd] /\ h2[Son(w, z, 1)] = h[s] - 2
          BY <4>1, <4>2
        <5> QED
          BY <5>1, <4>1, <4>2, <1>3, <1>10, <1>12, <1>30 DEF Over, bs
      <4>3. CASE d = -1
        <5>1. h2[Son(w, z, 1)] = h[gd] /\ h2[Son(w, z, -1)] = h[s] - 2
          BY <4>1, <4>3
        <5> QED
          BY <5>1, <4>1, <4>3, <1>3, <1>10, <1>12, <1>30 DEF Over, bs
      <4> QED
        BY <4>2, <4>3, <1>0 DEF Dirs
    <3>3. CASE z = g
      <4>1. h2[Son(w, z, -1)] = h[s] - 1 /\ h2[Son(w, z, 1)] = h[s] - 1 /\ B(w, z) = 0 /\ h2[z] = h[s]
        BY <3>3, <1>0, <1>7, <1>24, <1>25, <1>27 DEF Dirs
      <4> QED
        BY <4>1, <1>3 DEF Over
    <3>4. CASE z # x /\ z # s /\ z # g
      <4>1. h2[Son(w, z, -1)] = h[Son(u, z, -1)] /\ h2[Son(w, z, 1)] = h[Son(u, z, 1)]
        BY <3>4, <1>28 DEF Dirs
      <4>2. h2[z] = h[z] /\ B(w, z) = B(u, z)
        BY <3>4, <1>1, <1>24, <1>25
      <4> QED
        BY <3>4, <4>1, <4>2 DEF Raised
    <3> QED
      BY <3>1, <3>2, <3>3, <3>4
  <2>4. h2[w.root] = h[u.root]
    BY <1>1, <1>2, <1>4, <1>8, <1>23, <1>25
  <2>5. \A z \in Nodes(u) : h2[z] <= h2[w.root]
    <3> SUFFICES ASSUME NEW z \in Nodes(u) PROVE h2[z] <= h2[w.root]
      OBVIOUS
    <3>1. h[z] <= h[u.root] /\ h[x] <= h[u.root] /\ h[z] \in Nat
      BY <1>0, <1>1 DEF Raised
    <3>2. h2[z] <= h[u.root]
      BY <3>1, <1>0, <1>1, <1>3, <1>4, <1>25
    <3> QED
      BY <3>2, <2>4
  <2>6. h2[NULL] = 0
    BY <1>0, <1>1, <1>7, <1>25 DEF Raised, Pointers
  <2>7. w.height = h2[w.root]
    BY <2>4, <1>21, <1>23 DEF Raised
  <2> QED
    BY <2>1, <2>3, <2>5, <2>6, <2>7, <1>25 DEF Ranked
<1>32. Tree(w, V, h2, rng2, fa2)
  BY <1>23, <1>31 DEF Tree, Shape
<1>33. w = SetSubtree(InsertBalances(DoubleRotation(u, x, d), x, s, g, d), path, dirs, i, g)
  BY <1>14 DEF w, c
<1> QED
  BY <1>23, <1>32, <1>33 DEF h2

--------------------------------------------------------------------------------
Below(p, i, z) == \E j \in (i + 1)..Len(p) : p[j] = z

\* u is t with the new element k at the end of the path p, and with the balances
\* below place i turned towards it.
Hung(t, u, V, k, obj, p, i) ==
  /\ Typed(u, V)
  /\ Nodes(u) = Nodes(t) \cup {k}
  /\ u.num = t.num + 1 /\ u.root = t.root /\ u.height = t.height
  /\ u.node[k].obj = obj
  /\ \A z \in Nodes(t) : u.node[z].obj = t.node[z].obj
  /\ \A z \in Nodes(t) : \A e \in Dirs :
       Son(u, z, e) = IF z = p[Len(p)] /\ e = Dir(k, z) THEN k ELSE Son(t, z, e)
  /\ \A e \in Dirs : Son(u, k, e) = NULL
  /\ \A z \in Nodes(t) : B(u, z) = IF Below(p, i, z) THEN Dir(k, z) ELSE B(t, z)
  /\ B(u, k) = 0

\* The tree that HBT_insert rebalances.
Grown(t, k, obj, p, dirs, i) ==
  LET grown == SetSon([t EXCEPT !.num = @ + 1,
                                !.node = [x \in DOMAIN @ \cup {k} |->
                                   IF x = k THEN NewElement(obj) ELSE @[x]]],
                      Last(p), Last(dirs), k)
  IN  [grown EXCEPT !.node =
         [x \in DOMAIN @ |->
            IF \E j \in (i + 1)..Len(p) : p[j] = x
            THEN [@[x] EXCEPT !.balance = Dir(k, x)] ELSE @[x]]]

LEMMA GrownIsHung ==
  ASSUME NEW t, NEW V, Typed(t, V), NEW k \in Pos, k \notin Nodes(t), NEW obj \in V,
         t.num \in Nat,
         NEW p \in Seq(Nodes(t)), Len(p) > 0, NEW i \in Nat,
         NEW dirs, dirs = [j \in DOMAIN p |-> Dir(k, p[j])]
  PROVE  Hung(t, Grown(t, k, obj, p, dirs, i), V, k, obj, p, i)
<1> DEFINE node1 == [x \in Nodes(t) \cup {k} |-> IF x = k THEN NewElement(obj) ELSE t.node[x]]
           t1 == [t EXCEPT !.num = @ + 1,
                           !.node = [x \in DOMAIN @ \cup {k} |->
                                       IF x = k THEN NewElement(obj) ELSE @[x]]]
           l == p[Len(p)]
           d == Dir(k, l)
           grown == SetSon(t1, Last(p), Last(dirs), k)
           node2 == [x \in DOMAIN grown.node |->
                        IF \E j \in (i + 1)..Len(p) : p[j] = x
                        THEN [grown.node[x] EXCEPT !.balance = Dir(k, x)] ELSE grown.node[x]]
           u == [grown EXCEPT !.node = node2]
           P == Pointers(t) \cup {k}
           E == [obj : V, balance : {-1, 0, 1}, son : [Dirs -> P]]
<1>1. Last(p) = l /\ Last(dirs) = d /\ l \in Nodes(t) /\ Len(p) \in Nat
  <2>1. Len(p) \in Nat /\ Len(p) \in DOMAIN p /\ DOMAIN p = 1..Len(p)
    OBVIOUS
  <2>2. dirs \in Seq({Dir(k, p[j]) : j \in DOMAIN p}) /\ Len(dirs) = Len(p)
    BY <2>1
  <2> QED
    BY <2>1, <2>2 DEF Last
<1>2. l \in Nat /\ k \in Nat /\ l # k
  BY <1>1 DEF Typed, Pos
<1>3. d \in Dirs
  BY <1>2, DirIs
<1>4. t1 = [root |-> t.root, height |-> t.height, num |-> t.num + 1, node |-> node1]
  <2>1. t1 = [t EXCEPT !.num = t.num + 1, !.node = node1]
    BY DEF Nodes
  <2> HIDE DEF t1, node1
  <2> QED
    BY <2>1 DEF Typed
<1>5. t1.root = t.root /\ t1.height = t.height /\ t1.num = t.num + 1 /\ t1.node = node1
  BY <1>4
<1>6. Nodes(t1) = Nodes(t) \cup {k} /\ Pointers(t1) = P
  BY <1>5 DEF Nodes, Pointers
<1>7. \A z \in Nodes(t) : t.node[z] \in E
  <2>1. \A z \in Nodes(t) : t.node[z] \in [obj : V, balance : {-1, 0, 1}, son : [Dirs -> Pointers(t)]]
    BY DEF Typed
  <2>2. [Dirs -> Pointers(t)] \subseteq [Dirs -> P]
    OBVIOUS
  <2> QED
    BY <2>1, <2>2
<1>8. /\ NewElement(obj) \in E /\ NewElement(obj).obj = obj /\ NewElement(obj).balance = 0
      /\ \A e \in Dirs : NewElement(obj).son[e] = NULL
  BY DEF NewElement, BALANCED, Dirs, Pointers
<1>9. node1 \in [Nodes(t) \cup {k} -> E] /\ node1[k] = NewElement(obj)
      /\ \A z \in Nodes(t) : node1[z] = t.node[z]
  BY <1>7, <1>8
<1> HIDE DEF t1, node1
<1>10. Typed(t1, V)
  BY <1>4, <1>5, <1>6, <1>9 DEF Typed, Pos
<1>11. /\ \A z \in Nodes(t) : \A e \in Dirs : Son(t1, z, e) = Son(t, z, e)
       /\ \A e \in Dirs : Son(t1, k, e) = NULL
       /\ \A z \in Nodes(t) : B(t1, z) = B(t, z)
       /\ B(t1, k) = 0
       /\ t1.node[k].obj = obj
       /\ \A z \in Nodes(t) : t1.node[z].obj = t.node[z].obj
  BY <1>5, <1>8, <1>9 DEF Son, B
<1>12. /\ Typed(grown, V) /\ Alike(t1, grown) /\ SameBalances(t1, grown)
       /\ grown.root = t1.root /\ grown.height = t1.height
       /\ \A z \in Nodes(t1) : \A e \in Dirs :
            Son(grown, z, e) = IF z = l /\ e = d THEN k ELSE Son(t1, z, e)
  BY <1>1, <1>3, <1>6, <1>10, SetSonIs
<1> HIDE DEF grown
<1>13. u = [root |-> grown.root, height |-> grown.height, num |-> grown.num, node |-> node2]
  <2>1. grown = [root |-> grown.root, height |-> grown.height, num |-> grown.num, node |-> grown.node]
    BY <1>12 DEF Typed
  <2>2. u = [grown EXCEPT !.node = node2]
    OBVIOUS
  <2> HIDE DEF node2, u
  <2> QED
    BY <2>1, <2>2
<1>14. u.root = t.root /\ u.height = t.height /\ u.num = t.num + 1 /\ u.node = node2
  BY <1>5, <1>12, <1>13 DEF Alike
<1>15. DOMAIN grown.node = Nodes(t) \cup {k} /\ Pointers(grown) = P
  BY <1>6, <1>12 DEF Alike, Nodes, Pointers
<1>16. \A z \in Nodes(t) \cup {k} : grown.node[z] \in E
  BY <1>12, <1>15 DEF Typed, Nodes
<1>17. \A z \in Nodes(t) \cup {k} : Dir(k, z) \in {-1, 0, 1}
  <2>1. \A z \in Nodes(t) \cup {k} : z \in Nat
    BY DEF Typed, Pos
  <2> QED
    BY <2>1, <1>2, DirIs DEF Dirs
<1>18. ASSUME NEW z \in Nodes(t) \cup {k}
       PROVE  /\ node2[z] \in E
              /\ node2[z].obj = grown.node[z].obj
              /\ node2[z].son = grown.node[z].son
              /\ node2[z].balance = IF Below(p, i, z) THEN Dir(k, z) ELSE grown.node[z].balance
  <2>1. node2[z] = IF Below(p, i, z) THEN [grown.node[z] EXCEPT !.balance = Dir(k, z)] ELSE grown.node[z]
    BY <1>15 DEF Below
  <2>2. grown.node[z] \in E /\ Dir(k, z) \in {-1, 0, 1}
    BY <1>16, <1>17
  <2> HIDE DEF node2
  <2> QED
    BY <2>1, <2>2
<1>19. node2 \in [Nodes(t) \cup {k} -> E]
  <2>1. node2 = [z \in Nodes(t) \cup {k} |-> node2[z]]
    BY <1>15
  <2> HIDE DEF node2
  <2> QED
    BY <2>1, <1>18
<1> HIDE DEF node2, u
<1>20. Nodes(u) = Nodes(t) \cup {k} /\ Pointers(u) = P
  BY <1>14, <1>19 DEF Nodes, Pointers
<1>21. Typed(u, V)
  BY <1>12, <1>13, <1>14, <1>15, <1>19, <1>20 DEF Typed, Nodes
<1>22. \A z \in Nodes(t) \cup {k} :
         /\ u.node[z].obj = grown.node[z].obj
         /\ \A e \in Dirs : Son(u, z, e) = Son(grown, z, e)
         /\ B(u, z) = IF Below(p, i, z) THEN Dir(k, z) ELSE B(grown, z)
  BY <1>14, <1>18 DEF Son, B
<1>23. ~Below(p, i, k)
  BY DEF Below
<1>24. Hung(t, u, V, k, obj, p, i)
  <2>1. u.node[k].obj = obj /\ \A z \in Nodes(t) : u.node[z].obj = t.node[z].obj
    BY <1>6, <1>11, <1>12, <1>22 DEF Alike
  <2>2. \A z \in Nodes(t) : \A e \in Dirs :
          Son(u, z, e) = IF z = l /\ e = Dir(k, z) THEN k ELSE Son(t, z, e)
    BY <1>6, <1>11, <1>12, <1>22
  <2>3. \A e \in Dirs : Son(u, k, e) = NULL
    BY <1>2, <1>6, <1>11, <1>12, <1>22
  <2>4. B(u, k) = 0 /\ \A z \in Nodes(t) : B(u, z) = IF Below(p, i, z) THEN Dir(k, z) ELSE B(t, z)
    BY <1>6, <1>11, <1>12, <1>22, <1>23 DEF SameBalances
  <2> QED
    BY <2>1, <2>2, <2>3, <2>4, <1>14, <1>20, <1>21 DEF Hung
<1> QED
  BY <1>24 DEF Grown, u, node2, grown, t1

\* Place i is the last one on the path whose element was not balanced, or the root.
LastUnbalanced(t, p, i) ==
  /\ i \in 1..Len(p)
  /\ i = 1 \/ B(t, p[i]) # 0
  /\ \A j \in (i + 1)..Len(p) : B(t, p[j]) = 0

LEMMA RebalancePlaceIs ==
  ASSUME NEW t, NEW p, Len(p) \in Nat, Len(p) > 0
  PROVE  LastUnbalanced(t, p, RebalancePlace(t, p))
<1> DEFINE S == {j \in Nat : j \in 1..Len(p) /\ (j = 1 \/ B(t, p[j]) # 0)}
<1>1. S \subseteq Nat /\ S # {} /\ \A j \in S : j <= Len(p)
  <2>1. 1 \in S
    OBVIOUS
  <2> QED
    BY <2>1
<1>2. PICK i \in S : \A j \in S : j <= i
  <2> DEFINE N == Len(p)
  <2> HIDE DEF S, N
  <2>1. N \in Nat /\ \A j \in S : j <= N
    BY <1>1 DEF N
  <2> QED
    BY <1>1, <2>1, GreatestNumber
<1>3. \A j \in (i + 1)..Len(p) : B(t, p[j]) = BALANCED
  <2> SUFFICES ASSUME NEW j \in (i + 1)..Len(p), B(t, p[j]) # 0 PROVE FALSE
    BY DEF BALANCED
  <2>1. j \in S /\ i \in Nat /\ j > i
    BY <1>2
  <2> QED
    BY <2>1, <1>2
<1>4. i \in 1..Len(p) /\ (i = 1 \/ B(t, p[i]) # BALANCED)
  BY <1>2 DEF BALANCED
<1> QED
  BY <1>3, <1>4 DEF RebalancePlace, LastUnbalanced, BALANCED

\* The heights, ranges and fathers once the element hangs there.
HungHeights(t, k, p, i, h) ==
  [z \in Pointers(t) \cup {k} |->
     IF z = k THEN 1 ELSE IF Below(p, i, z) THEN h[z] + 1 ELSE h[z]]

HungRng(t, k, p, rng) ==
  [z \in Nodes(t) \cup {k} |->
     IF z = k THEN {c \in rng[p[Len(p)]] : InDir(c, p[Len(p)], Dir(k, p[Len(p)]))}
     ELSE rng[z]]

HungFa(t, k, p, fa) ==
  [z \in Nodes(t) \cup {k} |-> IF z = k THEN p[Len(p)] ELSE fa[z]]

LEMMA HungKeepsShape ==
  ASSUME NEW t, NEW V, NEW h, NEW rng, NEW fa, Tree(t, V, h, rng, fa), t.root # NULL,
         NEW k \in Pos, k \notin Nodes(t), NEW p, Way(t, k, t.root, p),
         NEW i, NEW u, NEW obj, Hung(t, u, V, k, obj, p, i)
  PROVE  Shape(u, V, HungRng(t, k, p, rng), HungFa(t, k, p, fa))
<1> DEFINE l == p[Len(p)]
           d == Dir(k, l)
           rng2 == HungRng(t, k, p, rng)
           fa2 == HungFa(t, k, p, fa)
<1>0. Shape(t, V, rng, fa) /\ Typed(t, V) /\ Ranked(t, h) /\ k \in Nat /\ k # NULL
  BY DEF Tree, Shape, Pos, NULL
<1>1. Len(p) \in Nat /\ Len(p) > 0 /\ l \in Nodes(t)
  BY DEF Way
<1>2. l # k /\ Son(t, l, d) = NULL /\ l \in Nat /\ l \in Pos
  BY <1>0, <1>1 DEF Way, Typed, Pos
<1>3. d \in Dirs /\ InDir(k, l, d)
  BY <1>0, <1>2, DirIs
<1>4. k \in rng[l]
  <2>1. \A j \in 1..Len(p) : k \in rng[p[j]]
    BY WayIsFor
  <2> QED
    BY <2>1, <1>1
<1> HIDE DEF l, d
<1>5. /\ Nodes(u) = Nodes(t) \cup {k} /\ Pointers(u) = Pointers(t) \cup {k}
      /\ u.num = t.num + 1 /\ u.root = t.root
      /\ \A e \in Dirs : Son(u, k, e) = NULL
      /\ \A z \in Nodes(t) : \A e \in Dirs :
           Son(u, z, e) = IF z = l /\ e = d THEN k ELSE Son(t, z, e)
  BY DEF Hung, Pointers, Nodes, l, d
<1>6. /\ rng \in [Nodes(t) -> SUBSET Pos]
      /\ rng2 \in [Nodes(u) -> SUBSET Pos]
      /\ rng2[k] = {c \in rng[l] : InDir(c, l, d)}
      /\ \A z \in Nodes(t) : rng2[z] = rng[z]
  <2>1. rng \in [Nodes(t) -> SUBSET Pos]
    BY <1>0 DEF Shape, Ordered
  <2> QED
    BY <2>1, <1>1, <1>5 DEF HungRng, l, d
<1>7. /\ fa2 \in [Nodes(u) -> Pointers(u)] /\ fa2[k] = l
      /\ \A z \in Nodes(t) : fa2[z] = fa[z]
  <2>1. fa \in [Nodes(t) -> Pointers(t)] /\ l \in Pointers(t)
    BY <1>0, <1>1 DEF Shape, Fathered, Pointers, Nodes, l
  <2> QED
    BY <2>1, <1>5 DEF HungFa, l
<1> HIDE DEF rng2, fa2
<1>8. Counted(u)
  <2>1. IsFiniteSet(Nodes(t)) /\ t.num = Cardinality(Nodes(t))
    BY <1>0 DEF Shape, Counted
  <2>2. IsFiniteSet(Nodes(t) \cup {k}) /\ Cardinality(Nodes(t) \cup {k}) = Cardinality(Nodes(t)) + 1
    BY <2>1, FS_AddElement
  <2> QED
    BY <2>1, <2>2, <1>5 DEF Counted
<1>9. t.root \in Nodes(t)
  BY <1>0 DEF Typed, Pointers, Nodes
<1>10. Ordered(u, rng2)
  <2>1. rng2[u.root] = Pos
    BY <1>0, <1>5, <1>6, <1>9 DEF Shape, Ordered
  <2>2. \A z \in Nodes(u) : z \in rng2[z]
    BY <1>0, <1>3, <1>4, <1>5, <1>6 DEF Shape, Ordered
  <2>3. ASSUME NEW z \in Nodes(u), NEW e \in Dirs, Son(u, z, e) # NULL, NEW c \in Pos
        PROVE  c \in rng2[Son(u, z, e)] <=> c \in rng2[z] /\ InDir(c, z, e)
    <3>1. z # k /\ z \in Nodes(t)
      BY <2>3, <1>5
    <3>2. CASE z = l /\ e = d
      BY <3>1, <3>2, <1>5, <1>6
    <3>3. CASE ~(z = l /\ e = d)
      <4>1. Son(u, z, e) = Son(t, z, e)
        BY <3>1, <3>3, <1>5
      <4>2. /\ Son(t, z, e) \in Nodes(t)
            /\ c \in rng[Son(t, z, e)] <=> c \in rng[z] /\ InDir(c, z, e)
        BY <2>3, <3>1, <4>1, <1>0, LinkIs
      <4> QED
        BY <3>1, <4>1, <4>2, <1>6
    <3> QED
      BY <3>2, <3>3
  <2> QED
    BY <2>1, <2>2, <2>3, <1>6 DEF Ordered
<1>11. Fathered(u, fa2)
  <2>1. ASSUME NEW z \in Nodes(u), NEW e \in Dirs, Son(u, z, e) # NULL
        PROVE  fa2[Son(u, z, e)] = z
    <3>1. z # k /\ z \in Nodes(t)
      BY <2>1, <1>5
    <3>2. CASE z = l /\ e = d
      BY <3>1, <3>2, <1>5, <1>7
    <3>3. CASE ~(z = l /\ e = d)
      <4>1. Son(u, z, e) = Son(t, z, e)
        BY <3>1, <3>3, <1>5
      <4>2. Son(t, z, e) \in Nodes(t) /\ fa[Son(t, z, e)] = z
        BY <2>1, <3>1, <4>1, <1>0, LinkIs
      <4> QED
        BY <4>1, <4>2, <1>7
    <3> QED
      BY <3>2, <3>3
  <2>2. fa2[u.root] = NULL
    BY <1>0, <1>5, <1>7, <1>9 DEF Shape, Fathered
  <2>3. ASSUME NEW y \in Nodes(u), y # u.root
        PROVE  fa2[y] \in Nodes(u) /\ Son(u, fa2[y], Dir(y, fa2[y])) = y
    <3>1. CASE y = k
      BY <3>1, <1>1, <1>3, <1>5, <1>7 DEF d, l
    <3>2. CASE y # k
      <4>1. y \in Nodes(t) /\ y # t.root
        BY <2>3, <3>2, <1>5
      <4>2. fa[y] \in Nodes(t) /\ Dir(y, fa[y]) \in Dirs /\ Son(t, fa[y], Dir(y, fa[y])) = y
        BY <4>1, <1>0, FatherIs
      <4>3. y # NULL
        BY <4>1, <1>0 DEF Typed, Pos, NULL
      <4>4. ~(fa[y] = l /\ Dir(y, fa[y]) = d)
        BY <4>2, <4>3, <1>2 DEF d, l
      <4> QED
        BY <4>1, <4>2, <4>4, <1>5, <1>7
    <3> QED
      BY <3>1, <3>2
  <2> QED
    BY <2>1, <2>2, <2>3, <1>7 DEF Fathered
<1> QED
  BY <1>8, <1>10, <1>11 DEF Shape, Hung, rng2, fa2

\* The new element makes the subtree at place i, and no other, one higher than its
\* father says.
LEMMA HungIsRaised ==
  ASSUME NEW t, NEW V, NEW h, NEW rng, NEW fa, Tree(t, V, h, rng, fa), t.root # NULL,
         NEW k \in Pos, k \notin Nodes(t), NEW p, Way(t, k, t.root, p),
         NEW i, LastUnbalanced(t, p, i), NEW u, NEW obj, Hung(t, u, V, k, obj, p, i)
  PROVE  Raised(u, V, HungHeights(t, k, p, i, h), HungRng(t, k, p, rng), HungFa(t, k, p, fa),
                p[i], Dir(k, p[i]))
<1> DEFINE n == Len(p)
           l == p[n]
           x == p[i]
           d == Dir(k, x)
           h2 == HungHeights(t, k, p, i, h)
<1>0. Shape(t, V, rng, fa) /\ Typed(t, V) /\ Ranked(t, h) /\ k \in Nat /\ k # NULL
  BY DEF Tree, Shape, Pos, NULL
<1>1. n \in Nat /\ n > 0 /\ i \in 1..n /\ i \in Nat /\ p[1] = t.root
  BY DEF Way, LastUnbalanced
<1>2. /\ \A j \in 1..n : p[j] \in Nodes(t)
      /\ \A j, m \in 1..n : j < m => h[p[m]] < h[p[j]]
      /\ \A j, m \in 1..n : p[j] = p[m] => j = m
  BY <1>0, WayGoesDown
<1>3. \A z \in Nodes(t) : z \in Nat /\ z # NULL /\ z # k /\ z \in Pointers(t) /\ h[z] \in Nat /\ Dir(k, z) \in Dirs
  <2>1. \A z \in Nodes(t) : z \in Nat /\ z # NULL /\ z # k /\ z \in Pointers(t) /\ h[z] \in Nat
    BY <1>0 DEF Typed, Pos, NULL, Ranked, Pointers, Nodes
  <2> QED
    BY <2>1, <1>0, DirIs
<1>4. \A z \in Nodes(t) : \A e \in Dirs :
        /\ Son(t, z, e) \in Pointers(t) /\ h[Son(t, z, e)] \in Nat /\ Son(t, z, e) # k
        /\ h[Son(t, z, e)] < h[z]
  <2> SUFFICES ASSUME NEW z \in Nodes(t), NEW e \in Dirs
               PROVE  /\ Son(t, z, e) \in Pointers(t) /\ h[Son(t, z, e)] \in Nat /\ Son(t, z, e) # k
                      /\ h[Son(t, z, e)] < h[z]
    OBVIOUS
  <2>1. Son(t, z, e) \in Pointers(t) /\ h[Son(t, z, e)] \in Nat /\ h[Son(t, z, e)] < h[z]
    BY <1>0, SonsAre
  <2> QED
    BY <2>1, <1>0 DEF Pointers, Nodes
<1>5. /\ Nodes(u) = Nodes(t) \cup {k} /\ Pointers(u) = Pointers(t) \cup {k}
      /\ u.root = t.root /\ u.height = t.height
      /\ \A e \in Dirs : Son(u, k, e) = NULL
      /\ \A z \in Nodes(t) : \A e \in Dirs :
           Son(u, z, e) = IF z = l /\ e = Dir(k, z) THEN k ELSE Son(t, z, e)
      /\ \A z \in Nodes(t) : B(u, z) = IF Below(p, i, z) THEN Dir(k, z) ELSE B(t, z)
      /\ B(u, k) = 0
  BY DEF Hung, Pointers, Nodes
<1>6. /\ h2 \in [Pointers(u) -> Nat] /\ h2[k] = 1
      /\ \A z \in Pointers(t) : h2[z] = IF Below(p, i, z) THEN h[z] + 1 ELSE h[z]
  <2>1. \A z \in Pointers(t) : h[z] \in Nat /\ z # k
    BY <1>0 DEF Ranked, Pointers, Nodes
  <2> QED
    BY <2>1, <1>5 DEF HungHeights
<1> HIDE DEF h2
<1>7. \A z : Below(p, i, z) => z \in Nodes(t) /\ z # NULL
  BY <1>1, <1>2, <1>3 DEF Below
<1>8. h2[NULL] = 0
  BY <1>0, <1>6, <1>7 DEF Ranked, Pointers
<1>9. \A j \in 1..i : ~Below(p, i, p[j])
  BY <1>1, <1>2 DEF Below
<1>10. ASSUME NEW z \in Nodes(t), NEW e \in Dirs, Below(p, i, Son(t, z, e))
       PROVE  \E j \in i..(n - 1) : z = p[j] /\ e = Dir(k, p[j])
  <2>1. PICK m \in (i + 1)..n : p[m] = Son(t, z, e)
    BY <1>10 DEF Below
  <2> DEFINE j == m - 1
  <2>2. j \in i..(n - 1) /\ j \in 1..(n - 1) /\ j + 1 = m /\ j \in 1..n
    BY <1>1
  <2>3. p[m] = Son(t, p[j], Dir(k, p[j]))
    BY <2>2 DEF Way
  <2>4. p[j] \in Nodes(t) /\ Dir(k, p[j]) \in Dirs /\ Son(t, z, e) # NULL
    BY <2>2, <1>2, <1>3, <1>7, <1>10
  <2>5. fa[p[m]] = z /\ Dir(p[m], z) = e
    BY <2>1, <2>4, <1>0, LinkIs
  <2>6. fa[p[m]] = p[j] /\ Dir(p[m], p[j]) = Dir(k, p[j])
    <3> HIDE DEF j
    <3> QED
      BY <2>1, <2>3, <2>4, <1>0, LinkIs
  <2> QED
    BY <2>2, <2>5, <2>6
<1>11. ASSUME NEW z \in Nodes(t), NEW e \in Dirs, \A j \in i..n : p[j] # z \/ e # Dir(k, z)
       PROVE  Son(u, z, e) = Son(t, z, e) /\ h2[Son(u, z, e)] = h[Son(t, z, e)]
  <2>1. ~Below(p, i, Son(t, z, e))
    BY <1>1, <1>10, <1>11
  <2>2. ~(z = l /\ e = Dir(k, z))
    BY <1>1, <1>11
  <2> QED
    BY <2>1, <2>2, <1>4, <1>5, <1>6
<1>12. ASSUME NEW j \in i..n
       PROVE  /\ p[j] \in Nodes(t) /\ Dir(k, p[j]) \in Dirs
              /\ h2[Son(u, p[j], Dir(k, p[j]))] = h[Son(t, p[j], Dir(k, p[j]))] + 1
              /\ Son(u, p[j], Dir(k, p[j])) = k \/ Below(p, i, Son(u, p[j], Dir(k, p[j])))
  <2>1. j \in 1..n /\ p[j] \in Nodes(t) /\ Dir(k, p[j]) \in Dirs
    BY <1>1, <1>2, <1>3
  <2>2. CASE j = n
    <3>1. Son(u, p[j], Dir(k, p[j])) = k
      BY <2>1, <2>2, <1>5
    <3>2. p[j] # k
      BY <2>1
    <3>3. Son(t, p[j], Dir(k, p[j])) = NULL
      BY <2>2, <3>2 DEF Way
    <3> QED
      BY <2>1, <3>1, <3>3, <1>0, <1>6 DEF Ranked
  <2>3. CASE j # n
    <3>1. j \in 1..(n - 1) /\ j + 1 \in (i + 1)..n /\ j + 1 \in 1..n
      BY <2>3, <1>1
    <3>2. p[j + 1] = Son(t, p[j], Dir(k, p[j]))
      BY <3>1 DEF Way
    <3>3. p[j] # l
      BY <2>1, <2>3, <1>1, <1>2
    <3>4. Son(u, p[j], Dir(k, p[j])) = p[j + 1]
      BY <2>1, <3>2, <3>3, <1>5
    <3>5. Below(p, i, p[j + 1])
      BY <3>1 DEF Below
    <3>6. p[j + 1] \in Pointers(t)
      BY <3>1, <1>2, <1>3
    <3> QED
      BY <2>1, <3>2, <3>4, <3>5, <3>6, <1>6
  <2> QED
    BY <2>2, <2>3
<1>13. ASSUME NEW j \in i..n, NEW e \in Dirs, e # Dir(k, p[j])
       PROVE  h2[Son(u, p[j], e)] = h[Son(t, p[j], e)]
  <2>1. p[j] \in Nodes(t)
    BY <1>12
  <2> QED
    BY <2>1, <1>11, <1>13
<1>14. x \in Nodes(t) /\ d \in Dirs /\ ~Below(p, i, x) /\ i \in i..n /\ -d \in Dirs /\ -d # d
  <2>1. x \in Nodes(t) /\ i \in i..n /\ ~Below(p, i, x)
    BY <1>1, <1>2, <1>9
  <2>2. d \in Dirs
    BY <2>1, <1>3
  <2> QED
    BY <2>1, <2>2 DEF Dirs
<1>15. ASSUME NEW y \in Nodes(u), y # x
       PROVE  /\ h2[y] = Over(h2[Son(u, y, -1)], h2[Son(u, y, 1)])
              /\ B(u, y) = h2[Son(u, y, 1)] - h2[Son(u, y, -1)]
  <2>0. -1 \in Dirs /\ 1 \in Dirs
    BY DEF Dirs
  <2>1. CASE y = k
    BY <2>0, <2>1, <1>5, <1>6, <1>8 DEF Over
  <2>2. CASE y # k /\ Below(p, i, y)
    <3>1. PICK j \in (i + 1)..n : y = p[j]
      BY <2>2 DEF Below
    <3>2. j \in i..n /\ y \in Nodes(t) /\ B(t, y) = 0
      BY <3>1, <2>2, <1>1, <1>5 DEF LastUnbalanced
    <3> DEFINE a == h[Son(t, y, -1)]
               b == h[Son(t, y, 1)]
    <3>3. a \in Nat /\ b \in Nat /\ h[y] = Over(a, b) /\ 0 = b - a
      BY <2>0, <3>2, <1>0, <1>4 DEF Ranked
    <3>4. h2[y] = h[y] + 1 /\ B(u, y) = Dir(k, y)
      BY <2>2, <3>2, <1>3, <1>5, <1>6
    <3>5. Dir(k, y) \in Dirs
      BY <3>2, <1>3
    <3>6. CASE Dir(k, y) = 1
      <4>1. h2[Son(u, y, 1)] = b + 1 /\ h2[Son(u, y, -1)] = a
        BY <3>1, <3>2, <3>6, <2>0, <1>12, <1>13
      <4> HIDE DEF a, b
      <4> QED
        BY <4>1, <3>3, <3>4, <3>6 DEF Over
    <3>7. CASE Dir(k, y) = -1
      <4>1. h2[Son(u, y, -1)] = a + 1 /\ h2[Son(u, y, 1)] = b
        BY <3>1, <3>2, <3>7, <2>0, <1>12, <1>13
      <4> HIDE DEF a, b
      <4> QED
        BY <4>1, <3>3, <3>4, <3>7 DEF Over
    <3> QED
      BY <3>5, <3>6, <3>7 DEF Dirs
  <2>3. CASE y # k /\ ~Below(p, i, y)
    <3>1. y \in Nodes(t) /\ h2[y] = h[y] /\ B(u, y) = B(t, y)
      BY <2>3, <1>3, <1>5, <1>6
    <3>2. \A j \in i..n : p[j] # y
      <4> SUFFICES ASSUME NEW j \in i..n, p[j] = y PROVE FALSE
        OBVIOUS
      <4>1. j = i \/ j \in (i + 1)..n
        BY <1>1
      <4> QED
        BY <4>1, <2>3, <1>15 DEF Below
    <3>3. h2[Son(u, y, -1)] = h[Son(t, y, -1)] /\ h2[Son(u, y, 1)] = h[Son(t, y, 1)]
      BY <2>0, <3>1, <3>2, <1>11
    <3> QED
      BY <3>1, <3>3, <1>0 DEF Ranked
  <2> QED
    BY <2>1, <2>2, <2>3
<1>16. /\ h2[x] = h[x] /\ B(u, x) = B(t, x)
       /\ h2[Son(u, x, d)] = h[Son(t, x, d)] + 1
       /\ h2[Son(u, x, -d)] = h[Son(t, x, -d)]
       /\ h[Son(t, x, d)] \in Nat /\ h[Son(t, x, -d)] \in Nat
  <2>1. h2[x] = h[x] /\ B(u, x) = B(t, x)
    BY <1>3, <1>5, <1>6, <1>14
  <2>2. h2[Son(u, x, d)] = h[Son(t, x, d)] + 1 /\ h2[Son(u, x, -d)] = h[Son(t, x, -d)]
    BY <1>12, <1>13, <1>14
  <2> QED
    BY <2>1, <2>2, <1>4, <1>14
<1>17. h2[Son(u, x, d)] > 0
  BY <1>16
<1>18. /\ h2[x] = Over(h2[Son(u, x, d)] - 1, h2[Son(u, x, -d)])
       /\ B(u, x) = IF d = 1 THEN (h2[Son(u, x, 1)] - 1) - h2[Son(u, x, -1)]
                            ELSE h2[Son(u, x, 1)] - (h2[Son(u, x, -1)] - 1)
  <2>1. h[x] = Over(h[Son(t, x, -1)], h[Son(t, x, 1)]) /\ B(t, x) = h[Son(t, x, 1)] - h[Son(t, x, -1)]
    BY <1>0, <1>14 DEF Ranked
  <2>2. CASE d = 1
    <3> DEFINE a == h[Son(t, x, -1)]
               b == h[Son(t, x, 1)]
    <3>1. h2[Son(u, x, 1)] = b + 1 /\ h2[Son(u, x, -1)] = a /\ a \in Nat /\ b \in Nat
      BY <2>2, <1>16
    <3>2. h2[Son(u, x, d)] = b + 1 /\ h2[Son(u, x, -d)] = a
      BY <2>2, <3>1
    <3>3. h2[x] = Over(a, b) /\ B(u, x) = b - a
      BY <2>1, <1>16
    <3> HIDE DEF a, b, x, d
    <3> QED
      BY <2>2, <3>1, <3>2, <3>3 DEF Over
  <2>3. CASE d = -1
    <3> DEFINE a == h[Son(t, x, -1)]
               b == h[Son(t, x, 1)]
    <3>1. h2[Son(u, x, -1)] = a + 1 /\ h2[Son(u, x, 1)] = b /\ a \in Nat /\ b \in Nat
      BY <2>3, <1>16
    <3>2. h2[Son(u, x, d)] = a + 1 /\ h2[Son(u, x, -d)] = b
      BY <2>3, <1>16
    <3>3. h2[x] = Over(a, b) /\ B(u, x) = b - a
      BY <2>1, <1>16
    <3> HIDE DEF a, b, x, d
    <3> QED
      BY <2>3, <3>1, <3>2, <3>3 DEF Over
  <2> QED
    BY <2>2, <2>3, <1>14 DEF Dirs
<1>19. t.root \in Nodes(t) /\ h2[u.root] = h[t.root] /\ h[t.root] \in Nat
  <2>1. t.root \in Nodes(t)
    BY <1>0 DEF Typed, Pointers, Nodes
  <2>2. ~Below(p, i, t.root)
    BY <1>1, <1>9
  <2> QED
    BY <2>1, <2>2, <1>3, <1>5, <1>6
<1>20. \A y \in Nodes(u) : h2[y] <= h2[u.root]
  <2> SUFFICES ASSUME NEW y \in Nodes(u) PROVE h2[y] <= h2[u.root]
    OBVIOUS
  <2>1. h[x] <= h[t.root] /\ h[x] \in Nat /\ h[x] > 0
    BY <1>0, <1>4, <1>14, <1>3, SonsAre DEF Ranked
  <2>2. CASE y = k
    BY <2>1, <2>2, <1>6, <1>19
  <2>3. CASE y # k /\ Below(p, i, y)
    <3>1. PICK j \in (i + 1)..n : y = p[j]
      BY <2>3 DEF Below
    <3>2. h[y] < h[x] /\ h[y] \in Nat
      BY <3>1, <1>1, <1>2, <1>3, <2>3, <1>5
    <3>3. h2[y] = h[y] + 1
      BY <2>3, <1>3, <1>5, <1>6
    <3> QED
      BY <3>2, <3>3, <2>1, <1>19
  <2>4. CASE y # k /\ ~Below(p, i, y)
    BY <2>4, <1>0, <1>3, <1>5, <1>6, <1>19 DEF Ranked
  <2> QED
    BY <2>2, <2>3, <2>4
<1>21. u.height = h2[u.root]
  BY <1>0, <1>5, <1>19 DEF Ranked
<1>22. x = u.root \/ B(u, x) # 0
  BY <1>1, <1>5, <1>16 DEF LastUnbalanced
<1>23. B(u, Son(u, x, d)) = 0 => h2[Son(u, x, d)] = 1
  <2>1. Son(u, x, d) = k \/ Below(p, i, Son(u, x, d))
    BY <1>12, <1>14
  <2>2. CASE Son(u, x, d) = k
    BY <2>2, <1>6
  <2>3. CASE Below(p, i, Son(u, x, d))
    <3>1. Son(u, x, d) \in Nodes(t)
      BY <2>3, <1>7
    <3>2. B(u, Son(u, x, d)) \in Dirs
      BY <3>1, <2>3, <1>3, <1>5
    <3> QED
      BY <3>2 DEF Dirs
  <2> QED
    BY <2>1, <2>2, <2>3
<1>24. Shape(u, V, HungRng(t, k, p, rng), HungFa(t, k, p, fa))
  BY HungKeepsShape
<1>25. x \in Nodes(u)
  BY <1>5, <1>14
<1> HIDE DEF x, d
<1>26. Raised(u, V, h2, HungRng(t, k, p, rng), HungFa(t, k, p, fa), x, d)
  BY <1>6, <1>8, <1>14, <1>15, <1>17, <1>18, <1>20, <1>21, <1>22, <1>23, <1>24, <1>25 DEF Raised
<1> QED
  BY <1>26 DEF h2, x, d

--------------------------------------------------------------------------------
\* t is an ordered and height balanced tree of objects in V.
IsTree(t, V) == \E h, rng, fa : Tree(t, V, h, rng, fa)

LEMMA EmptyIsTree ==
  ASSUME NEW V
  PROVE  IsTree(HBT_new, V) /\ Nodes(HBT_new) = {}
<1> DEFINE t == HBT_new
           h == [z \in {NULL} |-> 0]
           e == [z \in {} |-> {}]
<1>1. t = [root |-> NULL, height |-> 0, num |-> 0, node |-> << >>]
  BY DEF HBT_new
<1>2. Nodes(t) = {} /\ Pointers(t) = {NULL} /\ t.root = NULL /\ t.height = 0 /\ t.num = 0
  BY <1>1 DEF Nodes, Pointers
<1> HIDE DEF t
<1>3. Typed(t, V)
  <2>1. t.node = << >>
    BY <1>1
  <2>2. t.node \in [Nodes(t) -> [obj : V, balance : {-1, 0, 1}, son : [Dirs -> Pointers(t)]]]
    BY <2>1, <1>2
  <2> QED
    BY <1>1, <1>2, <2>1, <2>2 DEF Typed
<1>4. Counted(t)
  BY <1>2, FS_EmptySet DEF Counted
<1>5. Ranked(t, h)
  BY <1>2 DEF Ranked
<1>6. Ordered(t, e) /\ Fathered(t, e)
  BY <1>2 DEF Ordered, Fathered
<1> HIDE DEF h, e
<1>7. Tree(t, V, h, e, e)
  BY <1>3, <1>4, <1>5, <1>6 DEF Tree
<1> QED
  BY <1>2, <1>7 DEF IsTree, t

\* The tree of one object.
LEMMA OneIsTree ==
  ASSUME NEW V, NEW k \in Pos, NEW obj \in V, NEW t,
         t = [root |-> k, height |-> 1, num |-> 1, node |-> [x \in {k} |-> NewElement(obj)]]
  PROVE  IsTree(t, V) /\ Nodes(t) = {k} /\ t.node[k].obj = obj
<1> DEFINE h == [z \in {k, NULL} |-> IF z = k THEN 1 ELSE 0]
           rng == [z \in {k} |-> Pos]
           fa == [z \in {k} |-> NULL]
<1>1. /\ t.root = k /\ t.height = 1 /\ t.num = 1 /\ t.node = [x \in {k} |-> NewElement(obj)]
  OBVIOUS
<1>2. Nodes(t) = {k} /\ Pointers(t) = {k, NULL} /\ k # NULL
  BY <1>1 DEF Nodes, Pointers, Pos, NULL
<1>3. /\ NewElement(obj) \in [obj : V, balance : {-1, 0, 1}, son : [Dirs -> {k, NULL}]]
      /\ NewElement(obj).obj = obj /\ NewElement(obj).balance = 0
      /\ \A d \in Dirs : NewElement(obj).son[d] = NULL
  BY DEF NewElement, BALANCED, Dirs
<1>4. t.node[k] = NewElement(obj)
  BY <1>1
<1>5. B(t, k) = 0 /\ t.node[k].obj = obj /\ \A d \in Dirs : Son(t, k, d) = NULL
  BY <1>3, <1>4 DEF B, Son
<1>6. Typed(t, V)
  <2>1. t.node \in [Nodes(t) -> [obj : V, balance : {-1, 0, 1}, son : [Dirs -> Pointers(t)]]]
    BY <1>1, <1>2, <1>3
  <2> QED
    BY <2>1, <1>1, <1>2 DEF Typed
<1>7. Counted(t)
  <2>1. IsFiniteSet({k}) /\ Cardinality({k}) = 1
    BY FS_Singleton
  <2> QED
    BY <1>1, <1>2, <2>1 DEF Counted
<1>8. Ranked(t, h)
  <2>1. Son(t, k, 1) = NULL /\ Son(t, k, -1) = NULL
    BY <1>5 DEF Dirs
  <2>2. h[NULL] = 0 /\ h[k] = 1 /\ h \in [{k, NULL} -> Nat]
    BY <1>2
  <2> HIDE DEF h
  <2> QED
    BY <1>1, <1>2, <1>5, <2>1, <2>2 DEF Ranked, Over
<1>9. Ordered(t, rng)
  BY <1>1, <1>2, <1>5 DEF Ordered
<1>10. Fathered(t, fa)
  BY <1>1, <1>2, <1>5 DEF Fathered
<1> HIDE DEF h, rng, fa
<1>11. Tree(t, V, h, rng, fa)
  BY <1>6, <1>7, <1>8, <1>9, <1>10 DEF Tree
<1> QED
  BY <1>2, <1>5, <1>11 DEF IsTree

\* The way of a search from the root.
LEMMA PathIs ==
  ASSUME NEW t, NEW V, NEW h, NEW rng, NEW fa, Tree(t, V, h, rng, fa), NEW k \in Nat
  PROVE  /\ t.root = NULL => Path(t, k) = << >>
         /\ t.root # NULL => Way(t, k, t.root, Path(t, k))
<1>1. Typed(t, V) /\ Ranked(t, h)
  BY DEF Tree
<1>2. t.root # NULL => t.root \in Nodes(t)
  BY <1>1 DEF Typed, Pointers, Nodes
<1> QED
  BY <1>1, <1>2, DescendIs, DescendGoesDown DEF Path

\* A search comes to k exactly when k is in the tree.
LEMMA PathHasKey ==
  ASSUME NEW t, NEW V, NEW h, NEW rng, NEW fa, Tree(t, V, h, rng, fa), NEW k \in Pos
  PROVE  k \in Range(Path(t, k)) <=> k \in Nodes(t)
<1> DEFINE p == Path(t, k)
<1>0. k \in Nat
  BY DEF Pos
<1>1. CASE t.root = NULL
  <2>1. p = << >> /\ Nodes(t) = {}
    BY <1>0, <1>1, PathIs DEF Tree, Counted
  <2> HIDE DEF p
  <2>2. Range(p) = {}
    BY <2>1 DEF Range
  <2> QED
    BY <2>1, <2>2 DEF p
<1>2. CASE t.root # NULL
  <2>1. Way(t, k, t.root, p)
    BY <1>0, <1>2, PathIs
  <2> HIDE DEF p
  <2>2. p \in Seq(Nodes(t)) /\ DOMAIN p = 1..Len(p)
    BY <2>1 DEF Way
  <2>3. k \in Nodes(t) => k \in rng[k]
    BY DEF Tree, Ordered
  <2>4. k \in Nodes(t) => \E i \in 1..Len(p) : p[i] = k
    BY <1>2, <2>1, <2>3, WayHasAll
  <2>5. k \in Range(p) <=> \E i \in 1..Len(p) : p[i] = k
    BY <2>2 DEF Range
  <2>6. \A i \in 1..Len(p) : p[i] \in Nodes(t)
    BY <2>2
  <2> QED
    BY <2>4, <2>5, <2>6 DEF p
<1> QED
  BY <1>1, <1>2

\* HBT_lookup finds the keys of the tree and no others.
LEMMA LookupIs ==
  ASSUME NEW t, NEW V, IsTree(t, V), NEW k \in Pos
  PROVE  HBT_lookup(t, k) = IF k \in Nodes(t) THEN k ELSE NULL
<1>1. PICK h, rng, fa : Tree(t, V, h, rng, fa)
  BY DEF IsTree
<1> QED
  BY <1>1, PathHasKey DEF HBT_lookup

\* Rebalanced makes a tree of one that is a tree but for the element at place i.
LEMMA RebalancedIs ==
  ASSUME NEW u, NEW V, NEW h, NEW rng, NEW fa, NEW p, NEW dirs, NEW i,
         Raised(u, V, h, rng, fa, p[i], dirs[i]), AtPlace(u, p, dirs, i, p[i], fa)
  PROVE  IsTree(Rebalanced(u, p, dirs, i), V) /\ Alike(u, Rebalanced(u, p, dirs, i))
<1> DEFINE x == p[i]
           d == dirs[i]
           s == Son(u, x, d)
           g == Son(u, s, -d)
           w == Rebalanced(u, p, dirs, i)
<1>0. d \in Dirs /\ B(u, x) \in {-1, 0, 1}
  BY DEF Raised, Shape, Typed, B
<1>1. CASE B(u, x) = BALANCED
  <2>1. w = [SetB(u, x, d) EXCEPT !.height = u.height + 1]
    <3>1. -d # BALANCED /\ d # BALANCED
      BY <1>0 DEF Dirs, BALANCED
    <3> QED
      BY <1>1, <3>1 DEF Rebalanced
  <2> HIDE DEF w, x, d
  <2>2. Raised(u, V, h, rng, fa, x, d)
    BY DEF x, d
  <2> DEFINE h2 == [h EXCEPT ![x] = h[x] + 1]
  <2>3. Alike(u, w) /\ Tree(w, V, h2, rng, fa)
    BY <2>1, <2>2, <1>1, RootGrows
  <2> HIDE DEF h2
  <2>4. IsTree(w, V)
    BY <2>3 DEF IsTree
  <2> QED
    BY <2>3, <2>4 DEF w
<1>2. CASE B(u, x) = -d
  <2>1. w = SetB(u, x, BALANCED)
    <3>1. -d # BALANCED /\ d # -d
      BY <1>0 DEF Dirs, BALANCED
    <3> QED
      BY <1>2, <3>1 DEF Rebalanced
  <2> HIDE DEF x, d, w
  <2> QED
    BY <2>1, <1>2, SidesLevel DEF IsTree, x, d, w
<1>3. CASE B(u, x) = d /\ B(u, s) = d
  <2>1. w = SetSubtree(SetB(SetB(SingleRotation(u, x, d), x, BALANCED), s, BALANCED), p, dirs, i, s)
    <3>1. d # BALANCED /\ d # -d
      BY <1>0 DEF Dirs, BALANCED
    <3> QED
      BY <1>3, <3>1 DEF Rebalanced
  <2> HIDE DEF w, x, d
  <2>2. Raised(u, V, h, rng, fa, x, d) /\ AtPlace(u, p, dirs, i, x, fa)
    BY DEF x, d
  <2> DEFINE h2 == [h EXCEPT ![x] = h[x] - 1]
             rng2 == RotatedRng(u, x, d, rng)
             fa2 == RotatedFa(u, x, d, fa)
  <2>3. Alike(u, w) /\ Tree(w, V, h2, rng2, fa2)
    BY <2>1, <2>2, <1>3, SingleRotationBalances
  <2> HIDE DEF h2, rng2, fa2
  <2>4. IsTree(w, V)
    BY <2>3 DEF IsTree
  <2> QED
    BY <2>3, <2>4 DEF w
<1>4. CASE B(u, x) = d /\ B(u, s) # d
  <2>1. w = SetSubtree(InsertBalances(DoubleRotation(u, x, d), x, s, g, d), p, dirs, i, g)
    <3>1. d # BALANCED /\ d # -d
      BY <1>0 DEF Dirs, BALANCED
    <3> QED
      BY <1>4, <3>1 DEF Rebalanced
  <2> HIDE DEF w, x, d
  <2>2. Raised(u, V, h, rng, fa, x, d) /\ AtPlace(u, p, dirs, i, x, fa)
    BY DEF x, d
  <2> HIDE DEF s, g
  <2>3. s = Son(u, x, d) /\ g = Son(u, s, -d)
    BY DEF s, g
  <2> DEFINE h2 == [h EXCEPT ![x] = h[x] - 1, ![s] = h[s] - 1, ![g] = h[g] + 1]
  <2>4. Alike(u, w) /\ \E rng2, fa2 : Tree(w, V, h2, rng2, fa2)
    BY <2>1, <2>2, <2>3, <1>4, DoubleRotationBalances
  <2> HIDE DEF h2
  <2>5. IsTree(w, V)
    BY <2>4 DEF IsTree
  <2> QED
    BY <2>4, <2>5 DEF w
<1> QED
  BY <1>0, <1>1, <1>2, <1>3, <1>4 DEF Dirs, BALANCED

\* HBT_insert adds the object of a new key, leaves a tree that has the key alone,
\* and in any case leaves an ordered and height balanced tree.
LEMMA InsertIs ==
  ASSUME NEW t, NEW V, IsTree(t, V), NEW k \in Pos, NEW obj \in V
  PROVE  LET w == HBT_insert(t, k, obj)
         IN  /\ IsTree(w, V)
             /\ Nodes(w) = Nodes(t) \cup {k}
             /\ k \notin Nodes(t) => w.node[k].obj = obj
             /\ \A z \in Nodes(t) : w.node[z].obj = t.node[z].obj
<1>0. PICK h, rng, fa : Tree(t, V, h, rng, fa)
  BY DEF IsTree
<1> DEFINE w == HBT_insert(t, k, obj)
           p == Path(t, k)
           dirs == [j \in DOMAIN p |-> Dir(k, p[j])]
           i == RebalancePlace(t, p)
           u == Grown(t, k, obj, p, dirs, i)
<1>1. k \in Range(p) <=> k \in Nodes(t)
  BY <1>0, PathHasKey
<1>2. CASE t.root = NULL
  <2>1. w = [root |-> k, height |-> 1, num |-> 1, node |-> [x \in {k} |-> NewElement(obj)]]
    BY <1>2 DEF HBT_insert
  <2>2. Nodes(t) = {}
    BY <1>0, <1>2 DEF Tree, Counted
  <2> HIDE DEF w
  <2> QED
    BY <2>1, <2>2, OneIsTree DEF w
<1>3. CASE t.root # NULL /\ k \in Nodes(t)
  <2>1. w = t
    BY <1>1, <1>3 DEF HBT_insert
  <2> HIDE DEF w
  <2> QED
    BY <2>1, <1>3 DEF w
<1>4. CASE t.root # NULL /\ k \notin Nodes(t)
  <2>1. w = Rebalanced(u, p, dirs, i)
    BY <1>1, <1>4 DEF HBT_insert, Grown
  <2>2. Way(t, k, t.root, p)
    BY <1>0, <1>4, PathIs DEF Pos
  <2> HIDE DEF p
  <2>3. p \in Seq(Nodes(t)) /\ Len(p) > 0 /\ Len(p) \in Nat /\ DOMAIN p = 1..Len(p)
    BY <2>2 DEF Way
  <2>4. LastUnbalanced(t, p, i)
    BY <2>3, RebalancePlaceIs
  <2>5. i \in 1..Len(p) /\ i \in Nat
    BY <2>3, <2>4 DEF LastUnbalanced
  <2>6. Typed(t, V) /\ t.num \in Nat /\ Shape(t, V, rng, fa) /\ Ranked(t, h)
    BY <1>0, FS_CardinalityType DEF Tree, Counted, Shape
  <2> HIDE DEF i
  <2>7. Hung(t, u, V, k, obj, p, i)
    BY <1>4, <2>3, <2>5, <2>6, GrownIsHung
  <2> HIDE DEF u
  <2>8. dirs[i] = Dir(k, p[i])
    BY <2>3, <2>5
  <2> DEFINE h2 == HungHeights(t, k, p, i, h)
             rng2 == HungRng(t, k, p, rng)
             fa2 == HungFa(t, k, p, fa)
  <2>9. Raised(u, V, h2, rng2, fa2, p[i], Dir(k, p[i]))
    BY <1>0, <1>4, <2>2, <2>4, <2>7, HungIsRaised
  <2>10. AtPlace(u, p, dirs, i, p[i], fa2)
    <3>0. u.root = t.root /\ p[1] = t.root
      BY <2>2, <2>7 DEF Hung, Way
    <3>1. CASE i = 1
      BY <3>0, <3>1 DEF AtPlace
    <3>2. CASE i # 1
      <4>1. i - 1 \in 1..(Len(p) - 1) /\ i - 1 \in 1..Len(p) /\ (i - 1) + 1 = i /\ 1 \in 1..Len(p)
        BY <3>2, <2>3, <2>5
      <4> DEFINE f == p[i - 1]
      <4>2. p[i] = Son(t, f, Dir(k, f)) /\ dirs[i - 1] = Dir(k, f)
        BY <4>1, <2>2, <2>3 DEF Way
      <4>3. f \in Nodes(t) /\ p[i] \in Nodes(t) /\ p[i] # p[1]
        <5>0. k \in Nat
          BY DEF Pos
        <5>1. /\ \A j \in 1..Len(p) : p[j] \in Nodes(t)
              /\ \A j, m \in 1..Len(p) : p[j] = p[m] => j = m
          BY <5>0, <2>2, <2>6, WayGoesDown
        <5> QED
          BY <5>1, <4>1, <3>2, <2>5
      <4>4. Dir(k, f) \in Dirs /\ p[i] # NULL
        <5>1. f \in Nat /\ p[i] # NULL /\ k \in Nat
          BY <4>3, <2>6 DEF Typed, Pos, NULL
        <5> QED
          BY <5>1, DirIs
      <4> HIDE DEF f
      <4>5. fa[p[i]] = f /\ Dir(p[i], f) = Dir(k, f)
        BY <4>2, <4>3, <4>4, <2>6, LinkIs
      <4>6. fa2[p[i]] = fa[p[i]]
        BY <4>3, <1>4 DEF HungFa
      <4> QED
        BY <3>0, <3>2, <4>2, <4>3, <4>5, <4>6 DEF AtPlace, f
    <3> QED
      BY <3>1, <3>2
  <2> HIDE DEF h2, rng2, fa2, dirs
  <2>11. IsTree(w, V) /\ Alike(u, w)
    BY <2>1, <2>8, <2>9, <2>10, RebalancedIs
  <2> HIDE DEF w
  <2>12. /\ Nodes(w) = Nodes(t) \cup {k} /\ w.node[k].obj = obj
         /\ \A z \in Nodes(t) : w.node[z].obj = t.node[z].obj
    BY <2>7, <2>11 DEF Hung, Alike
  <2> QED
    BY <2>11, <2>12 DEF w
<1> QED
  BY <1>2, <1>3, <1>4

--------------------------------------------------------------------------------
\* Keys that a search may be for at x are below x.
LEMMA RangeSplits ==
  ASSUME NEW t, NEW V, NEW h, NEW rng, NEW fa, Tree(t, V, h, rng, fa),
         NEW x \in Nodes(t), NEW y \in Nodes(t), y \in rng[x], y # x
  PROVE  LET s == Son(t, x, Dir(y, x))
         IN  s # NULL /\ s \in Nodes(t) /\ y \in rng[s] /\ Dir(y, x) \in Dirs
<1> DEFINE d == Dir(y, x)
           s == Son(t, x, d)
           p == Path(t, y)
<1>0. Shape(t, V, rng, fa) /\ Typed(t, V) /\ Ranked(t, h) /\ Counted(t)
  BY DEF Tree, Shape
<1>1. x \in Nat /\ y \in Nat /\ y \in Pos /\ t.root # NULL
  BY <1>0 DEF Typed, Pos, Counted
<1>2. d \in Dirs /\ InDir(y, x, d)
  BY <1>1, DirIs
<1>3. Way(t, y, t.root, p)
  BY <1>1, PathIs
<1> HIDE DEF p
<1>4. Len(p) \in Nat /\ \A j \in 1..Len(p) : p[j] \in Nodes(t)
  BY <1>3 DEF Way
<1>5. PICK j \in 1..Len(p) : p[j] = x
  BY <1>1, <1>3, WayHasAll
<1>6. PICK m \in 1..Len(p) : p[m] = y
  <2>1. y \in rng[y]
    BY <1>0 DEF Shape, Ordered
  <2> QED
    BY <2>1, <1>1, <1>3, WayHasAll
<1>7. m = Len(p)
  <2> SUFFICES ASSUME m # Len(p) PROVE FALSE
    OBVIOUS
  <2>1. m \in 1..(Len(p) - 1)
    BY <1>4
  <2> QED
    BY <2>1, <1>3, <1>6 DEF Way
<1>8. j \in 1..(Len(p) - 1) /\ j + 1 \in 1..Len(p)
  BY <1>4, <1>5, <1>6, <1>7
<1>9. p[j + 1] = s
  BY <1>3, <1>5, <1>8 DEF Way
<1>10. s \in Nodes(t)
  BY <1>4, <1>8, <1>9
<1>11. s # NULL
  BY <1>0, <1>10 DEF Typed, Pos, NULL
<1>12. y \in rng[s]
  BY <1>0, <1>1, <1>2, <1>11, LinkIs
<1> QED
  BY <1>2, <1>10, <1>11, <1>12

\* The ranges have no gaps.
LEMMA RangesConvex ==
  ASSUME NEW t, NEW V, NEW h, NEW rng, NEW fa, Tree(t, V, h, rng, fa),
         NEW x \in Nodes(t), NEW a \in rng[x], NEW c \in rng[x], NEW b \in Pos, a < b, b < c
  PROVE  b \in rng[x]
<1> USE DEF Tree
<1>0. Shape(t, V, rng, fa) /\ Typed(t, V)
  BY DEF Shape
<1>1. a \in Pos /\ c \in Pos
  BY DEF Ordered
<1> DEFINE off(z) == a \in rng[z] /\ c \in rng[z] /\ b \notin rng[z]
           bad == {n \in Nat : \E z \in Nodes(t) : n = h[z] /\ off(z)}
<1>2. \A z \in Nodes(t) : z \in Nat /\ z # NULL /\ h[z] \in Nat /\ h[z] <= h[t.root]
  BY DEF Ranked, Pointers, Nodes, Typed, Pos, NULL
<1>3. h[t.root] \in Nat
  BY DEF Ranked, Typed
<1> SUFFICES ASSUME off(x) PROVE FALSE
  OBVIOUS
<1>4. bad \subseteq Nat /\ bad # {} /\ \A n \in bad : n <= h[t.root]
  <2>1. h[x] \in bad
    BY <1>2
  <2> QED
    BY <2>1, <1>2
<1>5. PICK n \in bad : \A m \in bad : m <= n
  <2> DEFINE N == h[t.root]
  <2> HIDE DEF bad, N
  <2>1. N \in Nat /\ \A m \in bad : m <= N
    BY <1>3, <1>4 DEF N
  <2> QED
    BY <1>4, <2>1, GreatestNumber
<1>6. PICK z \in Nodes(t) : n = h[z] /\ off(z)
  BY <1>5
<1>7. z # t.root
  BY <1>2, <1>6 DEF Ordered
<1> DEFINE f == fa[z]
           e == Dir(z, f)
<1>8. f \in Nodes(t) /\ e \in Dirs /\ Son(t, f, e) = z
  BY <1>0, <1>7, FatherIs
<1> HIDE DEF f, e
<1>9. \A k \in Pos : k \in rng[z] <=> k \in rng[f] /\ InDir(k, f, e)
  BY <1>0, <1>2, <1>8, LinkIs
<1>10. a \in rng[f] /\ c \in rng[f] /\ InDir(a, f, e) /\ InDir(c, f, e)
  BY <1>1, <1>6, <1>9
<1>11. InDir(b, f, e)
  BY <1>1, <1>2, <1>8, <1>10 DEF InDir, Pos, Dirs
<1>12. off(f)
  BY <1>6, <1>9, <1>10, <1>11
<1>13. h[f] \in bad
  BY <1>2, <1>8, <1>12
<1>14. h[z] < h[f] /\ h[z] \in Nat /\ h[f] \in Nat
  BY <1>8, SonsAre
<1> QED
  BY <1>5, <1>6, <1>13, <1>14

\* The heights of the reference definition are those of the tree.
LEMMA HeightOfIs ==
  ASSUME NEW t, NEW V, NEW h, Typed(t, V), Ranked(t, h)
  PROVE  \A x \in Pointers(t) : HeightOf(t, x) = h[x]
<1> DEFINE S == Pointers(t)
           e(y, f) == IF y = NULL THEN 0 ELSE 1 + Max({f[Son(t, y, d)] : d \in {-1, 1}})
           height == CHOOSE f : f = [y \in Pointers(t) |->
                       IF y = NULL THEN 0
                       ELSE 1 + Max({f[Son(t, y, d)] : d \in {-1, 1}})]
<1>1. \A x : HeightOf(t, x) = height[x]
  BY DEF HeightOf
<1>2. ASSUME NEW a \in Nat, NEW b \in Nat PROVE Max({a, b}) = IF a < b THEN b ELSE a
  <2>1. \E x \in {a, b} : \A y \in {a, b} : x >= y
    OBVIOUS
  <2>2. Max({a, b}) \in {a, b} /\ \A y \in {a, b} : Max({a, b}) >= y
    BY <2>1 DEF Max
  <2> QED
    BY <2>2
<1>3. \A f : \A y : {f[Son(t, y, d)] : d \in {-1, 1}} = {f[Son(t, y, -1)], f[Son(t, y, 1)]}
  OBVIOUS
<1>4. \A y \in S : y # NULL =>
        /\ y \in Nodes(t) /\ Son(t, y, -1) \in S /\ Son(t, y, 1) \in S
        /\ h[Son(t, y, -1)] < h[y] /\ h[Son(t, y, 1)] < h[y]
        /\ h[Son(t, y, -1)] \in Nat /\ h[Son(t, y, 1)] \in Nat /\ h[y] \in Nat
        /\ h[y] = Over(h[Son(t, y, -1)], h[Son(t, y, 1)])
  <2> SUFFICES ASSUME NEW y \in S, y # NULL
               PROVE /\ y \in Nodes(t) /\ Son(t, y, -1) \in S /\ Son(t, y, 1) \in S
                     /\ h[Son(t, y, -1)] < h[y] /\ h[Son(t, y, 1)] < h[y]
                     /\ h[Son(t, y, -1)] \in Nat /\ h[Son(t, y, 1)] \in Nat /\ h[y] \in Nat
                     /\ h[y] = Over(h[Son(t, y, -1)], h[Son(t, y, 1)])
    OBVIOUS
  <2>1. y \in Nodes(t) /\ -1 \in Dirs /\ 1 \in Dirs
    BY DEF Pointers, Nodes, Dirs
  <2> QED
    BY <2>1, SonsAre DEF Ranked
<1>5. \A y \in S : h[y] = e(y, h)
  <2> SUFFICES ASSUME NEW y \in S PROVE h[y] = e(y, h)
    OBVIOUS
  <2>1. CASE y = NULL
    BY <2>1 DEF Ranked
  <2>2. CASE y # NULL
    <3>1. e(y, h) = 1 + Max({h[Son(t, y, -1)], h[Son(t, y, 1)]})
      BY <2>2, <1>3
    <3> HIDE DEF e
    <3> QED
      BY <2>2, <3>1, <1>2, <1>4 DEF Over
  <2> QED
    BY <2>1, <2>2
<1>6. \E f : f = [y \in S |-> e(y, f)]
  <2>1. h \in [S -> Nat]
    BY DEF Ranked
  <2> HIDE DEF e
  <2>2. h = [y \in S |-> e(y, h)]
    BY <2>1, <1>5
  <2> QED
    BY <2>2
<1>7. height = [y \in S |-> e(y, height)]
  BY <1>6
<1> HIDE DEF height
<1>8. \A y \in S : height[y] = e(y, height)
  <2> HIDE DEF e
  <2> QED
    BY <1>7
<1>9. \A y \in S : height[y] = h[y]
  <2> DEFINE bad == {n \in Nat : \E y \in S : h[y] = n /\ height[y] # h[y]}
  <2> SUFFICES ASSUME bad # {} PROVE FALSE
    <3>1. \A y \in S : h[y] \in Nat
      BY DEF Ranked
    <3> QED
      BY <3>1
  <2>1. PICK n \in bad : \A m \in bad : n <= m
    <3>1. bad \subseteq Nat
      OBVIOUS
    <3> HIDE DEF bad
    <3> QED
      BY <3>1, LeastNumber
  <2>2. PICK y \in S : h[y] = n /\ height[y] # h[y]
    BY <2>1
  <2>3. CASE y = NULL
    BY <2>2, <2>3, <1>8, <1>5
  <2>4. CASE y # NULL
    <3>1. height[Son(t, y, -1)] = h[Son(t, y, -1)] /\ height[Son(t, y, 1)] = h[Son(t, y, 1)]
      BY <2>1, <2>2, <2>4, <1>4
    <3>2. e(y, height) = 1 + Max({height[Son(t, y, -1)], height[Son(t, y, 1)]})
      BY <2>4, <1>3
    <3>3. e(y, h) = 1 + Max({h[Son(t, y, -1)], h[Son(t, y, 1)]})
      BY <2>4, <1>3
    <3> HIDE DEF e
    <3> QED
      BY <3>1, <3>2, <3>3, <2>2, <1>5, <1>8
  <2> QED
    BY <2>3, <2>4
<1> QED
  BY <1>1, <1>9

\* The recursion of the printing.
LEMMA PrintFromIs ==
  ASSUME NEW t, NEW V, NEW h, Typed(t, V), Ranked(t, h)
  PROVE  /\ PrintFrom(t, NULL) = << >>
         /\ \A x \in Nodes(t) :
              PrintFrom(t, x) = PrintFrom(t, Son(t, x, -1)) \o <<x>> \o PrintFrom(t, Son(t, x, 1))
         /\ \A x \in Pointers(t) : PrintFrom(t, x) \in Seq(Nodes(t))
<1> DEFINE S == Pointers(t)
           X == Seq(Nodes(t))
           e(y, f) == IF y = NULL THEN << >>
                      ELSE f[Son(t, y, UNBALANCED_LEFT)] \o <<y>>
                             \o f[Son(t, y, UNBALANCED_RIGHT)]
           G == [y \in S |-> [f \in [S -> X] |-> e(y, f)]]
           printed == CHOOSE f : f = [y \in Pointers(t) |->
                        IF y = NULL THEN << >>
                        ELSE f[Son(t, y, UNBALANCED_LEFT)] \o <<y>>
                               \o f[Son(t, y, UNBALANCED_RIGHT)]]
<1>1. \A x : PrintFrom(t, x) = printed[x]
  BY DEF PrintFrom
<1>2. \A y \in S : y # NULL =>
        /\ y \in Nodes(t) /\ h[y] \in Nat
        /\ Son(t, y, UNBALANCED_LEFT) \in S /\ h[Son(t, y, UNBALANCED_LEFT)] < h[y]
        /\ Son(t, y, UNBALANCED_RIGHT) \in S /\ h[Son(t, y, UNBALANCED_RIGHT)] < h[y]
        /\ h[Son(t, y, UNBALANCED_LEFT)] \in Nat /\ h[Son(t, y, UNBALANCED_RIGHT)] \in Nat
  <2> SUFFICES ASSUME NEW y \in S, y # NULL
               PROVE /\ y \in Nodes(t) /\ h[y] \in Nat
                     /\ Son(t, y, UNBALANCED_LEFT) \in S /\ h[Son(t, y, UNBALANCED_LEFT)] < h[y]
                     /\ Son(t, y, UNBALANCED_RIGHT) \in S /\ h[Son(t, y, UNBALANCED_RIGHT)] < h[y]
                     /\ h[Son(t, y, UNBALANCED_LEFT)] \in Nat /\ h[Son(t, y, UNBALANCED_RIGHT)] \in Nat
    OBVIOUS
  <2>1. y \in Nodes(t) /\ UNBALANCED_LEFT \in Dirs /\ UNBALANCED_RIGHT \in Dirs
    BY DEF Pointers, Nodes, Dirs, UNBALANCED_LEFT, UNBALANCED_RIGHT
  <2> QED
    BY <2>1, SonsAre
<1>3. \A y \in S : \A f \in [S -> X] : e(y, f) \in X
  <2> SUFFICES ASSUME NEW y \in S, NEW f \in [S -> X] PROVE e(y, f) \in X
    OBVIOUS
  <2>1. CASE y = NULL
    <3>1. e(y, f) = << >> /\ << >> \in X
      BY <2>1
    <3> QED
      BY <3>1
  <2>2. CASE y # NULL
    <3> DEFINE a == f[Son(t, y, UNBALANCED_LEFT)]
               b == f[Son(t, y, UNBALANCED_RIGHT)]
    <3>1. a \in X /\ b \in X /\ y \in Nodes(t) /\ e(y, f) = a \o <<y>> \o b
      BY <2>2, <1>2
    <3> HIDE DEF a, b, e
    <3> QED
      BY <3>1
  <2> QED
    BY <2>1, <2>2
<1>4. \E f : f = [y \in S |-> e(y, f)]
  <2>1. G \in [S -> [[S -> X] -> X]]
    BY <1>3
  <2>2. \A y \in S : \A f, g \in [S -> X] :
          (\A z \in S : h[z] < h[y] => f[z] = g[z]) => G[y][f] = G[y][g]
    <3> SUFFICES ASSUME NEW y \in S, NEW f \in [S -> X], NEW g \in [S -> X],
                        \A z \in S : h[z] < h[y] => f[z] = g[z]
                 PROVE  e(y, f) = e(y, g)
      OBVIOUS
    <3>1. y # NULL => /\ f[Son(t, y, UNBALANCED_LEFT)] = g[Son(t, y, UNBALANCED_LEFT)]
                      /\ f[Son(t, y, UNBALANCED_RIGHT)] = g[Son(t, y, UNBALANCED_RIGHT)]
      BY <1>2
    <3> QED
      BY <3>1
  <2>3. h \in [S -> Nat] /\ \A y \in S : h[y] <= h[t.root]
    BY DEF Ranked, Pointers, Nodes, Typed
  <2>5. \A y \in S : \A f \in [S -> X] : G[y][f] = e(y, f)
    OBVIOUS
  <2>6. X # {}
    <3>1. << >> \in X
      OBVIOUS
    <3> QED
      BY <3>1
  <2>7. \E f \in [S -> X] : \A y \in S : f[y] = G[y][f]
    <3> DEFINE N == h[t.root]
    <3>1. N \in Nat /\ \A y \in S : h[y] <= N
      BY <2>3 DEF Typed
    <3>2. h \in [S -> Nat]
      BY <2>3
    <3> HIDE DEF G, S, X, N
    <3>3. Grounded(S, X, h, N, G)
      BY <2>1, <2>2, <2>6, <3>1, <3>2 DEF Grounded
    <3>4. Solvable(S, X, G)
      BY <3>3, Recursion
    <3> QED
      BY <3>4 DEF Solvable
  <2>8. PICK f \in [S -> X] : \A y \in S : f[y] = e(y, f)
    BY <2>7, <2>5
  <2> HIDE DEF e
  <2>9. f = [y \in S |-> e(y, f)]
    BY <2>8
  <2> QED
    BY <2>9
<1>5. printed = [y \in S |-> e(y, printed)]
  BY <1>4
<1> HIDE DEF printed
<1>6. \A y \in S : printed[y] = e(y, printed)
  <2> HIDE DEF e
  <2> QED
    BY <1>5
<1>7. NULL \in S /\ \A y \in Nodes(t) : y \in S /\ y # NULL
  BY DEF Pointers, Nodes, Typed, Pos, NULL
<1>8. \A y \in S : printed[y] \in X
  <2> DEFINE bad == {n \in Nat : \E y \in S : h[y] = n /\ printed[y] \notin X}
  <2> SUFFICES ASSUME bad # {} PROVE FALSE
    <3>1. \A y \in S : h[y] \in Nat
      BY DEF Ranked
    <3> QED
      BY <3>1
  <2>1. PICK n \in bad : \A m \in bad : n <= m
    <3>1. bad \subseteq Nat
      OBVIOUS
    <3> HIDE DEF bad
    <3> QED
      BY <3>1, LeastNumber
  <2>2. PICK y \in S : h[y] = n /\ printed[y] \notin X
    BY <2>1
  <2>3. CASE y = NULL
    <3>1. printed[y] = << >>
      BY <2>3, <1>6
    <3>2. << >> \in X
      OBVIOUS
    <3> QED
      BY <2>2, <3>1, <3>2
  <2>4. CASE y # NULL
    <3> DEFINE a == printed[Son(t, y, UNBALANCED_LEFT)]
               b == printed[Son(t, y, UNBALANCED_RIGHT)]
    <3>1. a \in X /\ b \in X /\ y \in Nodes(t)
      BY <2>1, <2>2, <2>4, <1>2
    <3>2. printed[y] = a \o <<y>> \o b
      BY <1>6, <2>4
    <3> HIDE DEF a, b
    <3> QED
      BY <3>1, <3>2, <2>2
  <2> QED
    BY <2>3, <2>4
<1>9. \A y \in Nodes(t) : printed[y] = printed[Son(t, y, -1)] \o <<y>> \o printed[Son(t, y, 1)]
  BY <1>6, <1>7 DEF UNBALANCED_LEFT, UNBALANCED_RIGHT
<1> QED
  BY <1>1, <1>6, <1>7, <1>8, <1>9

Increasing(s) == \A i, j \in 1..Len(s) : i < j => s[i] < s[j]

\* x is between the elements of a and those of b.
Between(a, x, b) ==
  (\A i \in 1..Len(a) : a[i] < x) /\ (\A i \in 1..Len(b) : x < b[i])

Has(s, y) == \E i \in 1..Len(s) : s[i] = y

\* s is made of a and b, increasing sequences of numbers, with x between them.
Joined(S, s, a, x, b) ==
  /\ S \subseteq Nat
  /\ a \in Seq(S) /\ b \in Seq(S) /\ x \in S
  /\ Increasing(a) /\ Increasing(b) /\ Between(a, x, b)
  /\ s = a \o <<x>> \o b

\* Sequences in order, joined by an element between theirs.
LEMMA JoinedIncreases ==
  ASSUME NEW S, NEW ab, NEW a, NEW x, NEW b, Joined(S, ab, a, x, b)
  PROVE  /\ Increasing(ab)
         /\ \A y : Has(ab, y) <=> Has(a, y) \/ y = x \/ Has(b, y)
<1>0. /\ S \subseteq Nat /\ a \in Seq(S) /\ b \in Seq(S) /\ x \in S
      /\ Increasing(a) /\ Increasing(b) /\ Between(a, x, b)
  BY DEF Joined
<1> DEFINE s == a \o <<x>> \o b
           m == Len(a)
           n == Len(b)
<1>1. m \in Nat /\ n \in Nat
  BY <1>0
<1>2. s \in Seq(S) /\ Len(s) = m + 1 + n
  BY <1>0
<1>3. /\ \A i \in 1..m : s[i] = a[i] /\ i \in 1..Len(s)
      /\ s[m + 1] = x /\ m + 1 \in 1..Len(s)
      /\ \A i \in 1..n : s[m + 1 + i] = b[i] /\ m + 1 + i \in 1..Len(s)
  BY <1>0, <1>1, <1>2
<1>4. /\ \A i \in 1..m : a[i] \in Nat
      /\ \A i \in 1..n : b[i] \in Nat
      /\ x \in Nat
  <2>1. \A i \in 1..m : a[i] \in S
    BY <1>0
  <2>2. \A i \in 1..n : b[i] \in S
    BY <1>0
  <2> HIDE DEF m, n
  <2> QED
    BY <2>1, <2>2, <1>0
<1> HIDE DEF s, m, n
<1>5. \A i \in 1..Len(s) : i \in 1..m \/ i = m + 1 \/ \E j \in 1..n : i = m + 1 + j
  <2> SUFFICES ASSUME NEW i \in 1..Len(s), ~(i \in 1..m), i # m + 1 PROVE \E j \in 1..n : i = m + 1 + j
    OBVIOUS
  <2>1. i - (m + 1) \in 1..n /\ i = m + 1 + (i - (m + 1))
    BY <1>1, <1>2
  <2> QED
    BY <2>1
<1>6. Increasing(s)
  <2> SUFFICES ASSUME NEW i \in 1..Len(s), NEW j \in 1..Len(s), i < j PROVE s[i] < s[j]
    BY DEF Increasing
  <2>1. CASE i \in 1..m /\ j \in 1..m
    BY <1>0, <2>1, <1>3 DEF Increasing, m
  <2>2. CASE i \in 1..m /\ j = m + 1
    BY <1>0, <2>2, <1>3 DEF m, Between
  <2>3. CASE i \in 1..m /\ \E k \in 1..n : j = m + 1 + k
    <3>1. PICK k \in 1..n : j = m + 1 + k
      BY <2>3
    <3>2. s[i] = a[i] /\ s[j] = b[k] /\ a[i] < x /\ x < b[k]
      BY <1>0, <2>3, <3>1, <1>3 DEF m, n, Between
    <3> QED
      BY <2>3, <3>2, <1>4
  <2>4. CASE i = m + 1 /\ \E k \in 1..n : j = m + 1 + k
    BY <1>0, <2>4, <1>3 DEF n, Between
  <2>5. CASE (\E q \in 1..n : i = m + 1 + q) /\ \E k \in 1..n : j = m + 1 + k
    <3>1. PICK q \in 1..n : i = m + 1 + q
      BY <2>5
    <3>2. PICK k \in 1..n : j = m + 1 + k
      BY <2>5
    <3>3. q < k
      BY <3>1, <3>2, <1>1
    <3> QED
      BY <1>0, <3>1, <3>2, <3>3, <1>3 DEF Increasing, n
  <2>6. CASE j \in 1..m \/ j = m + 1
    BY <2>6, <2>1, <2>2, <1>1
  <2> QED
    BY <2>1, <2>2, <2>3, <2>4, <2>5, <2>6, <1>5
<1>7. ASSUME NEW y PROVE Has(s, y) <=> Has(a, y) \/ y = x \/ Has(b, y)
  <2>1. Has(a, y) => Has(s, y)
    BY <1>3 DEF Has, m
  <2>2. y = x => Has(s, y)
    BY <1>3 DEF Has
  <2>3. Has(b, y) => Has(s, y)
    <3> SUFFICES ASSUME Has(b, y) PROVE Has(s, y)
      OBVIOUS
    <3>1. PICK i \in 1..n : b[i] = y
      BY DEF Has, n
    <3>2. s[m + 1 + i] = y /\ m + 1 + i \in 1..Len(s)
      BY <3>1, <1>3
    <3> QED
      BY <3>2 DEF Has
  <2>4. ASSUME NEW i \in 1..Len(s), s[i] = y PROVE Has(a, y) \/ y = x \/ Has(b, y)
    <3>1. CASE i \in 1..m
      BY <3>1, <2>4, <1>3 DEF Has, m
    <3>2. CASE i = m + 1
      BY <3>2, <2>4, <1>3
    <3>3. CASE \E j \in 1..n : i = m + 1 + j
      BY <3>3, <2>4, <1>3 DEF Has, n
    <3> QED
      BY <3>1, <3>2, <3>3, <1>5
  <2> QED
    BY <2>1, <2>2, <2>3, <2>4 DEF Has
<1>8. ab = s
  BY DEF Joined, s
<1> QED
  BY <1>6, <1>7, <1>8

\* Printed from x: the keys of the subtree at x, in order.
LEMMA PrintsInOrder ==
  ASSUME NEW t, NEW V, NEW h, NEW rng, NEW fa, Tree(t, V, h, rng, fa)
  PROVE  \A x \in Nodes(t) :
           /\ Increasing(PrintFrom(t, x))
           /\ \A y : Has(PrintFrom(t, x), y) <=> y \in Nodes(t) /\ y \in rng[x]
<1>0. Shape(t, V, rng, fa) /\ Typed(t, V) /\ Ranked(t, h)
  BY DEF Tree, Shape
<1> DEFINE Good(x) ==
             /\ Increasing(PrintFrom(t, x))
             /\ \A y : Has(PrintFrom(t, x), y) <=> y \in Nodes(t) /\ y \in rng[x]
           bad == {n \in Nat : \E x \in Nodes(t) : h[x] = n /\ ~Good(x)}
<1>1. \A x \in Nodes(t) : x \in Nat /\ x \in Pos /\ x # NULL /\ x \in Pointers(t) /\ h[x] \in Nat
  BY <1>0 DEF Typed, Pos, NULL, Ranked, Pointers, Nodes
<1> SUFFICES ASSUME bad # {} PROVE FALSE
  BY <1>1
<1>2. PICK n \in bad : \A m \in bad : n <= m
  <2>1. bad \subseteq Nat
    OBVIOUS
  <2> HIDE DEF bad
  <2> QED
    BY <2>1, LeastNumber
<1>3. PICK x \in Nodes(t) : h[x] = n /\ ~Good(x)
  BY <1>2
<1> DEFINE l == Son(t, x, -1)
           r == Son(t, x, 1)
           a == PrintFrom(t, l)
           b == PrintFrom(t, r)
<1>4. /\ l \in Pointers(t) /\ r \in Pointers(t) /\ h[l] < h[x] /\ h[r] < h[x]
      /\ h[l] \in Nat /\ h[r] \in Nat /\ h[x] \in Nat
  <2>1. -1 \in Dirs /\ 1 \in Dirs
    BY DEF Dirs
  <2> QED
    BY <2>1, <1>0, SonsAre
<1>5. PrintFrom(t, x) = a \o <<x>> \o b /\ a \in Seq(Nodes(t)) /\ b \in Seq(Nodes(t))
  BY <1>0, <1>4, PrintFromIs
<1>6. PrintFrom(t, NULL) = << >>
  BY <1>0, PrintFromIs
<1>7. ASSUME NEW s \in Pointers(t), s # NULL, h[s] < h[x], h[s] \in Nat PROVE Good(s)
  <2> SUFFICES ASSUME ~Good(s) PROVE FALSE
    OBVIOUS
  <2>1. s \in Nodes(t)
    BY <1>7 DEF Pointers, Nodes
  <2> HIDE DEF Good
  <2>2. h[s] \in bad
    BY <2>1, <1>7
  <2>3. n <= h[s]
    BY <2>2, <1>2
  <2> QED
    BY <2>3, <1>3, <1>4, <1>7
<1>8. Increasing(a) /\ \A y : Has(a, y) <=>
                         y \in Nodes(t) /\ y \in rng[x] /\ InDir(y, x, -1)
  <2>1. CASE l = NULL
    <3>1. a = << >>
      BY <2>1, <1>6
    <3>2. ASSUME NEW y \in Nodes(t), y \in rng[x], InDir(y, x, -1) PROVE FALSE
      <4>1. Dir(y, x) = -1 /\ y # x
        BY <3>2, <1>1, DirIs DEF Dirs
      <4>2. Son(t, x, Dir(y, x)) # NULL
        BY <3>2, <4>1, RangeSplits
      <4> QED
        BY <4>1, <4>2, <2>1
    <3> QED
      BY <3>1, <3>2 DEF Increasing, Has
  <2>2. CASE l # NULL
    <3>1. Good(l)
      BY <2>2, <1>4, <1>7
    <3>2. \A y \in Pos : y \in rng[l] <=> y \in rng[x] /\ InDir(y, x, -1)
      BY <2>2, <1>0, LinkIs DEF Dirs
    <3> QED
      BY <3>1, <3>2, <1>1
  <2> QED
    BY <2>1, <2>2
<1>9. Increasing(b) /\ \A y : Has(b, y) <=>
                         y \in Nodes(t) /\ y \in rng[x] /\ InDir(y, x, 1)
  <2>1. CASE r = NULL
    <3>1. b = << >>
      BY <2>1, <1>6
    <3>2. ASSUME NEW y \in Nodes(t), y \in rng[x], InDir(y, x, 1) PROVE FALSE
      <4>1. Dir(y, x) = 1 /\ y # x
        BY <3>2, <1>1, DirIs DEF Dirs
      <4>2. Son(t, x, Dir(y, x)) # NULL
        BY <3>2, <4>1, RangeSplits
      <4> QED
        BY <4>1, <4>2, <2>1
    <3> QED
      BY <3>1, <3>2 DEF Increasing, Has
  <2>2. CASE r # NULL
    <3>1. Good(r)
      BY <2>2, <1>4, <1>7
    <3>2. \A y \in Pos : y \in rng[r] <=> y \in rng[x] /\ InDir(y, x, 1)
      BY <2>2, <1>0, LinkIs DEF Dirs
    <3> QED
      BY <3>1, <3>2, <1>1
  <2> QED
    BY <2>1, <2>2
<1> HIDE DEF a, b
<1>10. \A i \in 1..Len(a) : a[i] < x
  <2> SUFFICES ASSUME NEW i \in 1..Len(a) PROVE a[i] < x
    OBVIOUS
  <2>1. InDir(a[i], x, -1)
    BY <1>8 DEF Has
  <2> QED
    BY <2>1 DEF InDir
<1>11. \A i \in 1..Len(b) : x < b[i]
  <2> SUFFICES ASSUME NEW i \in 1..Len(b) PROVE x < b[i]
    OBVIOUS
  <2>1. InDir(b[i], x, 1) /\ b[i] \in Nat
    BY <1>1, <1>9 DEF Has
  <2> QED
    BY <2>1, <1>1 DEF InDir
<1>12. /\ Increasing(PrintFrom(t, x))
       /\ \A y : Has(PrintFrom(t, x), y) <=> Has(a, y) \/ y = x \/ Has(b, y)
  <2>1. Nodes(t) \subseteq Nat
    BY <1>1
  <2>2. Between(a, x, b)
    BY <1>10, <1>11 DEF Between
  <2>3. Increasing(a) /\ Increasing(b)
    BY <1>8, <1>9
  <2> DEFINE S == Nodes(t)
  <2>4. S \subseteq Nat /\ x \in S /\ a \in Seq(S) /\ b \in Seq(S)
    BY <2>1, <1>5
  <2> HIDE DEF S, Good, bad
  <2>5. Joined(S, PrintFrom(t, x), a, x, b)
    BY <2>2, <2>3, <2>4, <1>5 DEF Joined
  <2> QED
    BY <2>5, JoinedIncreases
<1>13. ASSUME NEW y \in Nodes(t) PROVE y = x \/ InDir(y, x, -1) \/ InDir(y, x, 1)
  BY <1>1 DEF InDir
<1>14. x \in rng[x]
  BY <1>0 DEF Shape, Ordered
<1>15. Good(x)
  BY <1>8, <1>9, <1>12, <1>13, <1>14
<1> QED
  BY <1>3, <1>15

\* A sequence of different elements has as many as there are.
LEMMA LengthIsCount ==
  ASSUME NEW S, IsFiniteSet(S), S \subseteq Nat, NEW n \in Nat, NEW s \in [1..n -> S],
         \A i, j \in 1..n : i < j => s[i] < s[j],
         \A y \in S : \E i \in 1..n : s[i] = y
  PROVE  n = Cardinality(S)
<1>2. s \in Injection(1..n, S)
  <2>1. ASSUME NEW i \in 1..n, NEW j \in 1..n, s[i] = s[j] PROVE i = j
    <3>0. s[i] \in S
      OBVIOUS
    <3>1. s[i] \in Nat
      BY <3>0, Zenon
    <3>2. i < j => s[i] < s[j]
      OBVIOUS
    <3>3. j < i => s[j] < s[i]
      OBVIOUS
    <3> QED
      BY <3>1, <3>2, <3>3, <2>1
  <2> QED
    BY <2>1 DEF Injection, IsInjective
<1>3. s \in Surjection(1..n, S)
  BY DEF Surjection
<1>4. ExistsBijection(1..n, S)
  BY <1>2, <1>3 DEF Bijection, ExistsBijection
<1>5. IsFiniteSet(1..n) /\ Cardinality(1..n) = n
  BY FS_Interval
<1> QED
  BY <1>4, <1>5, FS_Bijection

\* HBT_printf prints every key of the tree once, in order.
LEMMA PrintfIs ==
  ASSUME NEW t, NEW V, IsTree(t, V)
  PROVE  /\ HBT_printf(t) \in Seq(Nodes(t))
         /\ Increasing(HBT_printf(t))
         /\ \A y : Has(HBT_printf(t), y) <=> y \in Nodes(t)
         /\ Len(HBT_printf(t)) = t.num
<1>1. PICK h, rng, fa : Tree(t, V, h, rng, fa)
  BY DEF IsTree
<1> DEFINE s == HBT_printf(t)
<1>2. Typed(t, V) /\ Ranked(t, h) /\ Counted(t) /\ Ordered(t, rng)
  BY <1>1 DEF Tree
<1>3. t.root \in Pointers(t) /\ Nodes(t) \subseteq Pos /\ Nodes(t) \subseteq Nat
  BY <1>2 DEF Typed, Pos
<1>4. s \in Seq(Nodes(t))
  BY <1>2, <1>3, PrintFromIs DEF HBT_printf
<1>5. Increasing(s) /\ \A y : Has(s, y) <=> y \in Nodes(t)
  <2>1. CASE t.root = NULL
    <3>1. s = << >> /\ Nodes(t) = {}
      BY <2>1, <1>2, PrintFromIs DEF HBT_printf, Counted
    <3> QED
      BY <3>1 DEF Increasing, Has
  <2>2. CASE t.root # NULL
    <3>1. t.root \in Nodes(t) /\ rng[t.root] = Pos
      BY <2>2, <1>2, <1>3 DEF Pointers, Nodes, Ordered
    <3>2. /\ Increasing(PrintFrom(t, t.root))
          /\ \A y : Has(PrintFrom(t, t.root), y) <=> y \in Nodes(t) /\ y \in rng[t.root]
      BY <3>1, <1>1, PrintsInOrder
    <3> QED
      BY <3>1, <3>2, <1>3 DEF HBT_printf
  <2> QED
    BY <2>1, <2>2
<1>6. Len(s) = t.num
  <2> DEFINE S == Nodes(t)
  <2>1. IsFiniteSet(S) /\ S \subseteq Nat /\ s \in Seq(S) /\ (\A y \in S : Has(s, y))
        /\ t.num = Cardinality(S)
    BY <1>2, <1>3, <1>4, <1>5 DEF Counted
  <2>2. Increasing(s)
    BY <1>5
  <2> HIDE DEF S, s
  <2> DEFINE n == Len(s)
  <2>3. n \in Nat /\ s \in [1..n -> S]
    BY <2>1
  <2>4. /\ \A i, j \in 1..n : i < j => s[i] < s[j]
        /\ \A y \in S : \E i \in 1..n : s[i] = y
    BY <2>1, <2>2 DEF Increasing, Has
  <2>5. t.num = Cardinality(S) /\ IsFiniteSet(S) /\ S \subseteq Nat
    BY <2>1
  <2>6. n = Cardinality(S)
    <3> HIDE DEF n
    <3> QED
      BY <2>3, <2>4, <2>5, LengthIsCount
  <2> QED
    BY <2>5, <2>6
<1> QED
  BY <1>4, <1>5, <1>6

\* m is the least key of the subtree at x.
IsLeast(t, rng, x, m) ==
  /\ m \in Nodes(t) /\ m \in rng[x]
  /\ \A z \in Nodes(t) : z \in rng[x] => m <= z

LEMMA OneLeast ==
  ASSUME NEW t, NEW V, Typed(t, V), NEW rng, NEW x, NEW a, NEW b,
         IsLeast(t, rng, x, a), IsLeast(t, rng, x, b)
  PROVE  a = b
<1>1. a \in Nat /\ b \in Nat
  BY DEF IsLeast, Typed, Pos
<1>2. a <= b /\ b <= a
  BY DEF IsLeast
<1> QED
  BY <1>1, <1>2

\* The least key of a subtree is that of the left one, or its root.
LEMMA LeastIsLeft ==
  ASSUME NEW t, NEW V, NEW h, NEW rng, NEW fa, Tree(t, V, h, rng, fa), NEW x \in Nodes(t)
  PROVE  /\ Son(t, x, -1) = NULL => IsLeast(t, rng, x, x)
         /\ \A m : Son(t, x, -1) # NULL /\ IsLeast(t, rng, Son(t, x, -1), m)
                     => IsLeast(t, rng, x, m)
<1>0. Shape(t, V, rng, fa) /\ -1 \in Dirs
  BY DEF Tree, Shape, Dirs
<1>1. \A z \in Nodes(t) : z \in Nat /\ z \in Pos
  BY DEF Tree, Typed, Pos
<1>2. x \in rng[x]
  BY DEF Tree, Ordered
<1>3. ASSUME NEW z \in Nodes(t), z \in rng[x], z < x PROVE Son(t, x, -1) # NULL
  <2>1. Dir(z, x) = -1 /\ z # x
    BY <1>1, <1>3 DEF Dir, UNBALANCED_LEFT
  <2> QED
    BY <2>1, <1>3, RangeSplits
<1>4. ASSUME Son(t, x, -1) = NULL PROVE IsLeast(t, rng, x, x)
  <2>1. ASSUME NEW z \in Nodes(t), z \in rng[x] PROVE x <= z
    <3>1. ~(z < x)
      BY <1>3, <1>4, <2>1
    <3> QED
      BY <3>1, <1>1
  <2> QED
    BY <2>1, <1>2 DEF IsLeast
<1>5. ASSUME NEW m, Son(t, x, -1) # NULL, IsLeast(t, rng, Son(t, x, -1), m)
      PROVE  IsLeast(t, rng, x, m)
  <2> DEFINE l == Son(t, x, -1)
  <2>1. \A c \in Pos : c \in rng[l] <=> c \in rng[x] /\ InDir(c, x, -1)
    BY <1>0, <1>5, LinkIs
  <2>2. m \in Nodes(t) /\ m \in rng[l] /\ \A z \in Nodes(t) : z \in rng[l] => m <= z
    BY <1>5 DEF IsLeast
  <2> HIDE DEF l
  <2>3. m \in rng[x] /\ m < x
    BY <1>1, <2>1, <2>2 DEF InDir
  <2>4. ASSUME NEW z \in Nodes(t), z \in rng[x] PROVE m <= z
    <3>1. CASE z < x
      <4>1. InDir(z, x, -1)
        BY <3>1 DEF InDir
      <4> QED
        BY <4>1, <2>1, <2>2, <2>4, <1>1
    <3>2. CASE ~(z < x)
      BY <3>2, <1>1, <2>2, <2>3
    <3> QED
      BY <3>1, <3>2
  <2> QED
    BY <2>2, <2>3, <2>4 DEF IsLeast
<1> QED
  BY <1>4, <1>5

\* Leftmost comes to the least key of a subtree.
LEMMA LeftmostIs ==
  ASSUME NEW t, NEW V, NEW h, NEW rng, NEW fa, Tree(t, V, h, rng, fa)
  PROVE  \A x \in Nodes(t) : IsLeast(t, rng, x, Leftmost(t, x))
<1> DEFINE S == DOMAIN t.node
           e(y, f) == LET left == Son(t, y, UNBALANCED_LEFT)
                      IN  IF left = NULL THEN y ELSE f[left]
           down == CHOOSE f : f = [y \in DOMAIN t.node |->
                     LET left == Son(t, y, UNBALANCED_LEFT)
                     IN  IF left = NULL THEN y ELSE f[left]]
           least == [y \in S |-> CHOOSE m : IsLeast(t, rng, y, m)]
<1>1. \A x : Leftmost(t, x) = down[x]
  BY DEF Leftmost
<1>2. S = Nodes(t) /\ UNBALANCED_LEFT = -1 /\ -1 \in Dirs /\ Typed(t, V) /\ Ranked(t, h)
      /\ Ordered(t, rng)
  BY DEF Nodes, UNBALANCED_LEFT, Dirs, Tree
<1>3. \A y \in S : y \in Nat /\ h[y] \in Nat
  BY <1>2 DEF Typed, Pos, Ranked, Pointers, Nodes
<1>4. \A y \in S : Son(t, y, -1) # NULL =>
        Son(t, y, -1) \in S /\ h[Son(t, y, -1)] < h[y] /\ h[Son(t, y, -1)] \in Nat
  <2> SUFFICES ASSUME NEW y \in S, Son(t, y, -1) # NULL
               PROVE  Son(t, y, -1) \in S /\ h[Son(t, y, -1)] < h[y] /\ h[Son(t, y, -1)] \in Nat
    OBVIOUS
  <2>1. Son(t, y, -1) \in Pointers(t) /\ h[Son(t, y, -1)] < h[y] /\ h[Son(t, y, -1)] \in Nat
    BY <1>2, SonsAre
  <2> QED
    BY <2>1 DEF Pointers
<1> HIDE DEF S
<1>5. ASSUME NEW y \in S PROVE IsLeast(t, rng, y, least[y])
  <2> DEFINE here == {z \in S : z \in rng[y]}
  <2>1. here \subseteq Nat /\ here # {}
    BY <1>2, <1>3 DEF Ordered
  <2>2. PICK m \in here : \A z \in here : m <= z
    <3> HIDE DEF here
    <3> QED
      BY <2>1, LeastNumber
  <2>3. IsLeast(t, rng, y, m)
    BY <1>2, <2>2 DEF IsLeast
  <2>4. IsLeast(t, rng, y, CHOOSE c : IsLeast(t, rng, y, c))
    BY <2>3, Zenon
  <2> QED
    BY <2>4
<1>6. \A y \in S : least[y] = e(y, least)
  <2> SUFFICES ASSUME NEW y \in S PROVE least[y] = e(y, least)
    OBVIOUS
  <2> HIDE DEF least
  <2>1. CASE Son(t, y, -1) = NULL
    <3>1. e(y, least) = y
      BY <2>1, <1>2
    <3>2. IsLeast(t, rng, y, y)
      BY <2>1, <1>2, LeastIsLeft
    <3> QED
      BY <3>1, <3>2, <1>2, <1>5, OneLeast
  <2>2. CASE Son(t, y, -1) # NULL
    <3>1. e(y, least) = least[Son(t, y, -1)]
      BY <2>2, <1>2
    <3>2. IsLeast(t, rng, y, least[Son(t, y, -1)])
      BY <2>2, <1>2, <1>4, <1>5, LeastIsLeft
    <3> HIDE DEF e
    <3> QED
      BY <3>1, <3>2, <1>2, <1>5, OneLeast
  <2> QED
    BY <2>1, <2>2
<1>7. \E f : f = [y \in S |-> e(y, f)]
  <2>1. least = [y \in S |-> least[y]]
    OBVIOUS
  <2> HIDE DEF e, least
  <2>2. least = [y \in S |-> e(y, least)]
    BY <2>1, <1>6
  <2> QED
    BY <2>2
<1>8. down = [y \in S |-> e(y, down)]
  BY <1>7 DEF S
<1> HIDE DEF down
<1>9. \A y \in S : down[y] = e(y, down)
  <2> HIDE DEF e
  <2> QED
    BY <1>8
<1>10. \A y \in S : down[y] = least[y]
  <2> HIDE DEF least
  <2> DEFINE bad == {n \in Nat : \E y \in S : h[y] = n /\ down[y] # least[y]}
  <2> SUFFICES ASSUME bad # {} PROVE FALSE
    BY <1>3
  <2>1. PICK n \in bad : \A m \in bad : n <= m
    <3>1. bad \subseteq Nat
      OBVIOUS
    <3> HIDE DEF bad
    <3> QED
      BY <3>1, LeastNumber
  <2>2. PICK y \in S : h[y] = n /\ down[y] # least[y]
    BY <2>1
  <2>3. Son(t, y, -1) # NULL
    BY <2>2, <1>2, <1>6, <1>9
  <2>4. down[Son(t, y, -1)] = least[Son(t, y, -1)]
    BY <2>1, <2>2, <2>3, <1>4
  <2> QED
    BY <2>2, <2>3, <2>4, <1>2, <1>6, <1>9
<1> HIDE DEF least
<1> QED
  BY <1>1, <1>2, <1>5, <1>10

\* A way that keeps to the side of a key y above k comes to k with y still below it:
\* there is none when k has no right son.
LEMMA NoneOnTheWay ==
  ASSUME NEW t, NEW V, NEW h, NEW rng, NEW fa, Tree(t, V, h, rng, fa), NEW k \in Nodes(t),
         Son(t, k, 1) = NULL, NEW p, t.root # NULL, Way(t, k, t.root, p),
         NEW y \in Nodes(t), k < y, NEW i \in 1..Len(p), y \in rng[p[i]],
         \A j \in i..Len(p) : p[j] # k => Dir(y, p[j]) = Dir(k, p[j]) /\ y # p[j]
  PROVE  FALSE
<1>0. /\ Shape(t, V, rng, fa) /\ Typed(t, V) /\ Ranked(t, h)
      /\ \A z \in Nodes(t) : z \in Pos /\ z \in Nat
  BY DEF Tree, Shape, Typed, Pos
<1>1. Len(p) \in Nat /\ \A j \in 1..Len(p) : p[j] \in Nodes(t)
  BY DEF Way
<1>2. p[Len(p)] = k
  <2>1. k \in rng[k]
    BY DEF Tree, Ordered
  <2>2. PICK j \in 1..Len(p) : p[j] = k
    BY <1>0, <2>1, WayHasAll
  <2>3. j \notin 1..(Len(p) - 1)
    BY <2>2 DEF Way
  <2>4. j = Len(p)
    BY <2>3, <1>1
  <2> QED
    BY <2>2, <2>4
<1> DEFINE on == {j \in i..Len(p) : y \in rng[p[j]]}
           N == Len(p)
<1>3. on \subseteq Nat /\ on # {} /\ N \in Nat /\ \A j \in on : j <= N
  <2>1. i \in on
    BY <1>1
  <2> QED
    BY <2>1, <1>1
<1>4. PICK j \in on : \A m \in on : m <= j
  <2> HIDE DEF on, N
  <2> QED
    BY <1>3, GreatestNumber
<1>5. j \in i..Len(p) /\ j \in 1..Len(p) /\ j \in Nat /\ y \in rng[p[j]] /\ p[j] \in Nodes(t)
  BY <1>4, <1>1
<1>6. CASE j = Len(p)
  <2>1. y \in rng[k] /\ y # k /\ Dir(y, k) = 1
    BY <1>0, <1>2, <1>5, <1>6 DEF Dir, UNBALANCED_RIGHT
  <2> QED
    BY <2>1, RangeSplits
<1>7. CASE j # Len(p)
  <2>1. j \in 1..(Len(p) - 1) /\ j + 1 \in i..Len(p)
    BY <1>1, <1>5, <1>7
  <2>2. p[j] # k /\ p[j + 1] = Son(t, p[j], Dir(k, p[j]))
    BY <2>1 DEF Way
  <2>3. y # p[j] /\ Dir(y, p[j]) = Dir(k, p[j])
    BY <2>2, <1>5
  <2>4. y \in rng[Son(t, p[j], Dir(y, p[j]))]
    BY <2>3, <1>5, RangeSplits
  <2>5. j + 1 \in on
    BY <2>1, <2>2, <2>3, <2>4
  <2>6. j + 1 <= j
    BY <2>5, <1>4
  <2> QED
    BY <2>6, <1>5
<1> QED
  BY <1>6, <1>7

\* The least of a set of numbers.
LEMMA MinIs ==
  ASSUME NEW S, S \subseteq Nat, NEW m \in S, \A y \in S : m <= y
  PROVE  Min(S) = m
<1>1. \E x \in S : \A y \in S : x =< y
  OBVIOUS
<1>2. Min(S) \in S /\ \A y \in S : Min(S) =< y
  BY <1>1 DEF Min
<1>3. Min(S) \in Nat /\ m \in Nat
  BY <1>2, Zenon
<1>4. m <= Min(S) /\ Min(S) <= m
  BY <1>2
<1> QED
  BY <1>3, <1>4

LEMMA MaxIs ==
  ASSUME NEW S, S \subseteq Nat, S # {}, NEW N \in Nat, \A x \in S : x <= N
  PROVE  Max(S) \in S /\ \A y \in S : y <= Max(S)
<1>1. PICK x \in S : \A y \in S : y <= x
  BY GreatestNumber
<1>2. \E z \in S : \A y \in S : z >= y
  BY <1>1
<1>3. Max(S) \in S /\ \A y \in S : Max(S) >= y
  BY <1>2 DEF Max
<1> QED
  BY <1>3

\* The element with a right son: the next key is the least one there.
LEMMA NextBelow ==
  ASSUME NEW t, NEW V, NEW h, NEW rng, NEW fa, Tree(t, V, h, rng, fa), NEW k \in Nodes(t),
         Son(t, k, 1) # NULL
  PROVE  LET m == Leftmost(t, Son(t, k, 1))
         IN  m \in Nodes(t) /\ m > k /\ \A y \in Nodes(t) : y > k => m <= y
<1> DEFINE r == Son(t, k, 1)
           m == Leftmost(t, r)
<1>0. /\ Shape(t, V, rng, fa) /\ 1 \in Dirs
      /\ \A z \in Nodes(t) : z \in Pos /\ z \in Nat
      /\ k \in rng[k]
  BY DEF Tree, Shape, Typed, Pos, Dirs, Ordered
<1>1. r \in Nodes(t) /\ \A c \in Pos : c \in rng[r] <=> c \in rng[k] /\ InDir(c, k, 1)
  BY <1>0, LinkIs
<1>2. IsLeast(t, rng, r, m)
  BY <1>1, LeftmostIs
<1> HIDE DEF r, m
<1>3. m \in Nodes(t) /\ m \in rng[r] /\ \A z \in Nodes(t) : z \in rng[r] => m <= z
  BY <1>2 DEF IsLeast
<1>4. m \in Pos /\ m \in Nat /\ m \in rng[k] /\ m > k
  BY <1>0, <1>1, <1>3 DEF InDir
<1>5. ASSUME NEW y \in Nodes(t), y > k PROVE m <= y
  <2>1. CASE y \in rng[k]
    <3>1. InDir(y, k, 1) /\ y \in Pos
      BY <1>0, <1>5 DEF InDir
    <3> QED
      BY <3>1, <2>1, <1>1, <1>3
  <2>2. CASE y \notin rng[k]
    <3> SUFFICES ASSUME ~(m <= y) PROVE FALSE
      OBVIOUS
    <3>1. k < y /\ y < m /\ y \in Pos
      BY <1>0, <1>4, <1>5
    <3> QED
      BY <3>1, <2>2, <1>0, <1>4, RangesConvex
  <2> QED
    BY <2>1, <2>2
<1> QED
  BY <1>3, <1>4, <1>5 DEF m, r

\* The element without: the next key is the last one on the way that was left to
\* the left, and there is none when there is no such element.
LEMMA NextAbove ==
  ASSUME NEW t, NEW V, NEW h, NEW rng, NEW fa, Tree(t, V, h, rng, fa), NEW k \in Nodes(t),
         Son(t, k, 1) = NULL, t.root # NULL, NEW p, Way(t, k, t.root, p)
  PROVE  /\ (\A i \in 1..Len(p) : p[i] <= k) => ~ \E y \in Nodes(t) : y > k
         /\ ~(\A i \in 1..Len(p) : p[i] <= k) =>
              LET m == LastGreaterAbove(p, k)
              IN  m \in Nodes(t) /\ m > k /\ \A y \in Nodes(t) : y > k => m <= y
<1>0. /\ Shape(t, V, rng, fa) /\ Ordered(t, rng)
      /\ \A z \in Nodes(t) : z \in Pos /\ z \in Nat
      /\ \A z \in Nodes(t) : z \in rng[z]
  BY DEF Tree, Shape, Typed, Pos, Ordered
<1>1. /\ Len(p) \in Nat /\ Len(p) > 0 /\ p[1] = t.root /\ DOMAIN p = 1..Len(p)
      /\ \A j \in 1..Len(p) : p[j] \in Nodes(t)
  BY DEF Way
<1>2. \A j \in 1..Len(p) : k \in rng[p[j]]
  BY <1>0, WayIsFor
<1>3. ASSUME \A i \in 1..Len(p) : p[i] <= k, NEW y \in Nodes(t), y > k PROVE FALSE
  <2>1. k < y /\ 1 \in 1..Len(p) /\ y \in rng[p[1]]
    BY <1>0, <1>1, <1>3 DEF Ordered
  <2>2. \A j \in 1..Len(p) : p[j] # k => Dir(y, p[j]) = Dir(k, p[j]) /\ y # p[j]
    BY <1>0, <1>1, <1>3 DEF Dir
  <2> QED
    BY <2>1, <2>2, NoneOnTheWay
<1>4. ASSUME ~(\A i \in 1..Len(p) : p[i] <= k)
      PROVE  LET m == LastGreaterAbove(p, k)
             IN  m \in Nodes(t) /\ m > k /\ \A y \in Nodes(t) : y > k => m <= y
  <2> DEFINE S == {i \in DOMAIN p : k < p[i]}
             i == Max(S)
             N == Len(p)
  <2>1. S \subseteq Nat /\ S # {} /\ N \in Nat /\ \A x \in S : x <= N
    <3>1. PICK j \in 1..Len(p) : ~(p[j] <= k)
      BY <1>4
    <3>2. k < p[j]
      BY <3>1, <1>0, <1>1
    <3>3. j \in S
      BY <3>2, <1>1
    <3> QED
      BY <3>3, <1>1
  <2>2. i \in S /\ \A j \in S : j <= i
    <3> HIDE DEF S, N
    <3> QED
      BY <2>1, MaxIs
  <2>3. LastGreaterAbove(p, k) = p[i]
    BY DEF LastGreaterAbove
  <2> HIDE DEF i
  <2>4. i \in 1..Len(p) /\ k < p[i] /\ p[i] \in Nodes(t) /\ i \in Nat
    BY <2>2, <1>1
  <2>5. ASSUME NEW y \in Nodes(t), y > k PROVE p[i] <= y
    <3> SUFFICES ASSUME ~(p[i] <= y) PROVE FALSE
      OBVIOUS
    <3>1. k < y /\ y < p[i] /\ y \in Pos
      BY <2>4, <2>5, <1>0
    <3>2. y \in rng[p[i]]
      BY <3>1, <2>4, <1>0, <1>2, RangesConvex
    <3>3. ASSUME NEW j \in i..Len(p), p[j] # k PROVE Dir(y, p[j]) = Dir(k, p[j]) /\ y # p[j]
      <4>1. j \in 1..Len(p) /\ p[j] \in Nodes(t) /\ p[j] \in Nat /\ y \in Nat /\ k \in Nat
            /\ j \in Nat
        BY <2>4, <1>0, <1>1
      <4>2. CASE j = i
        BY <4>1, <4>2, <3>1 DEF Dir
      <4>3. CASE j # i
        <5>1. j \notin S
          BY <2>2, <2>4, <4>3, <4>1
        <5>2. p[j] < k
          BY <5>1, <4>1, <3>3, <1>1
        <5> QED
          BY <5>2, <4>1, <3>1 DEF Dir
      <4> QED
        BY <4>2, <4>3
    <3> QED
      BY <3>1, <3>2, <3>3, <2>4, NoneOnTheWay
  <2> QED
    BY <2>3, <2>4, <2>5, <1>0
<1> QED
  BY <1>3, <1>4

\* HBT_successor leads to the next key; the first one when it is asked for NULL.
LEMMA SuccessorIs ==
  ASSUME NEW t, NEW V, IsTree(t, V), NEW k \in Nat
  PROVE  HBT_successor(t, k) = NextKey(t, k)
<1>1. PICK h, rng, fa : Tree(t, V, h, rng, fa)
  BY DEF IsTree
<1> DEFINE greater == {x \in DOMAIN t.node : x > k}
           p == Path(t, k)
<1>2. /\ Nodes(t) = DOMAIN t.node /\ Typed(t, V) /\ Counted(t) /\ Ordered(t, rng)
      /\ \A z \in Nodes(t) : z \in Pos /\ z \in Nat /\ z > 0
      /\ UNBALANCED_RIGHT = 1
  BY <1>1 DEF Tree, Typed, Pos, Nodes, UNBALANCED_RIGHT
<1>3. NextKey(t, k) = IF greater = {} \/ (k # NULL /\ k \notin DOMAIN t.node)
                      THEN NULL ELSE Min(greater)
  BY DEF NextKey
<1>4. greater \subseteq Nat
  BY <1>2
<1>5. ASSUME NEW m \in Nodes(t), m > k, \A y \in Nodes(t) : y > k => m <= y
      PROVE  greater # {} /\ Min(greater) = m
  <2>1. m \in greater /\ \A y \in greater : m <= y
    BY <1>2, <1>5
  <2> HIDE DEF greater
  <2> QED
    BY <2>1, <1>4, MinIs
<1>6. CASE t.root = NULL
  <2>1. greater = {}
    BY <1>2, <1>6 DEF Counted
  <2> QED
    BY <2>1, <1>3, <1>6 DEF HBT_successor
<1>7. CASE t.root # NULL /\ k = NULL
  <2>1. t.root \in Nodes(t) /\ rng[t.root] = Pos
    BY <1>2, <1>7 DEF Typed, Pointers, Nodes, Ordered
  <2>2. IsLeast(t, rng, t.root, Leftmost(t, t.root))
    BY <2>1, <1>1, LeftmostIs
  <2>3. HBT_successor(t, k) = Leftmost(t, t.root)
    BY <1>7 DEF HBT_successor
  <2> DEFINE m == Leftmost(t, t.root)
  <2> HIDE DEF m
  <2>4. m \in Nodes(t) /\ m > k /\ \A y \in Nodes(t) : y > k => m <= y
    BY <2>1, <2>2, <1>2, <1>7 DEF IsLeast, m, NULL
  <2>5. greater # {} /\ Min(greater) = m
    BY <2>4, <1>5
  <2> QED
    BY <2>3, <2>5, <1>3, <1>7 DEF m
<1>8. CASE t.root # NULL /\ k # NULL /\ k \notin Nodes(t)
  <2>1. k \in Pos
    BY <1>8 DEF Pos, NULL
  <2>2. k \notin Range(p)
    BY <2>1, <1>1, <1>8, PathHasKey
  <2>3. HBT_successor(t, k) = NULL
    BY <2>2, <1>8 DEF HBT_successor
  <2> QED
    BY <2>3, <1>2, <1>3, <1>8
<1>9. CASE t.root # NULL /\ k \in Nodes(t) /\ Son(t, k, 1) # NULL
  <2>1. k \in Pos /\ k # NULL
    BY <1>2, <1>9 DEF NULL
  <2>2. k \in Range(p)
    BY <2>1, <1>1, <1>9, PathHasKey
  <2> DEFINE m == Leftmost(t, Son(t, k, 1))
  <2>3. HBT_successor(t, k) = m
    BY <2>1, <2>2, <1>2, <1>9 DEF HBT_successor
  <2>4. m \in Nodes(t) /\ m > k /\ \A y \in Nodes(t) : y > k => m <= y
    BY <1>1, <1>9, NextBelow
  <2> HIDE DEF m
  <2>5. greater # {} /\ Min(greater) = m
    BY <2>4, <1>5
  <2> QED
    BY <2>3, <2>5, <1>2, <1>3, <1>9
<1>10. CASE t.root # NULL /\ k \in Nodes(t) /\ Son(t, k, 1) = NULL
  <2>1. k \in Pos /\ k # NULL
    BY <1>2, <1>10 DEF NULL
  <2>2. k \in Range(p)
    BY <2>1, <1>1, <1>10, PathHasKey
  <2>3. Way(t, k, t.root, p)
    BY <1>1, <1>10, PathIs
  <2>4. DOMAIN p = 1..Len(p)
    BY <2>3 DEF Way
  <2>5. HBT_successor(t, k) = IF \A i \in DOMAIN p : p[i] <= k THEN NULL
                              ELSE LastGreaterAbove(p, k)
    BY <2>1, <2>2, <1>2, <1>10 DEF HBT_successor
  <2> HIDE DEF p
  <2>6. CASE \A i \in 1..Len(p) : p[i] <= k
    <3>1. ~ \E y \in Nodes(t) : y > k
      BY <2>3, <2>6, <1>1, <1>10, NextAbove
    <3>2. greater = {}
      BY <3>1, <1>2
    <3> QED
      BY <3>2, <2>4, <2>5, <2>6, <1>3
  <2>7. CASE ~ \A i \in 1..Len(p) : p[i] <= k
    <3> DEFINE m == LastGreaterAbove(p, k)
    <3>1. m \in Nodes(t) /\ m > k /\ \A y \in Nodes(t) : y > k => m <= y
      BY <2>3, <2>7, <1>1, <1>10, NextAbove
    <3> HIDE DEF m
    <3>2. greater # {} /\ Min(greater) = m
      BY <3>1, <1>5
    <3> QED
      BY <3>2, <2>4, <2>5, <2>7, <1>2, <1>3, <1>10 DEF m
  <2> QED
    BY <2>6, <2>7
<1> QED
  BY <1>6, <1>7, <1>8, <1>9, <1>10

--------------------------------------------------------------------------------
\* u is t with the object of x replaced.
ObjSet(t, u, x, o) ==
  u = [t EXCEPT !.node = [t.node EXCEPT ![x] = [t.node[x] EXCEPT !.obj = o]]]

\* The tree stays one.
LEMMA SetObjIs ==
  ASSUME NEW t, NEW V, IsTree(t, V), NEW x \in Nodes(t), NEW o \in V, NEW u,
         ObjSet(t, u, x, o)
  PROVE  /\ IsTree(u, V) /\ Nodes(u) = Nodes(t)
         /\ \A z \in Nodes(t) : u.node[z].obj = IF z = x THEN o ELSE t.node[z].obj
<1>1. PICK h, rng, fa : Tree(t, V, h, rng, fa)
  BY DEF IsTree
<1>2. Typed(t, V) /\ Counted(t) /\ Ranked(t, h) /\ Ordered(t, rng) /\ Fathered(t, fa)
      /\ Shape(t, V, rng, fa)
  BY <1>1 DEF Tree, Shape
<1> DEFINE elem == [t.node[x] EXCEPT !.obj = o]
           node == [t.node EXCEPT ![x] = elem]
           E == [obj : V, balance : {-1, 0, 1}, son : [Dirs -> Pointers(t)]]
<1>3. u = [root |-> t.root, height |-> t.height, num |-> t.num, node |-> node]
  BY <1>2 DEF Typed, ObjSet
<1>4. u.root = t.root /\ u.height = t.height /\ u.num = t.num /\ u.node = node
  BY <1>3
<1>5. t.node \in [Nodes(t) -> E] /\ t.node[x] \in E
  BY <1>2 DEF Typed
<1>6. elem \in E /\ elem.obj = o /\ elem.balance = t.node[x].balance /\ elem.son = t.node[x].son
  BY <1>5
<1> HIDE DEF elem
<1>7. node \in [Nodes(t) -> E] /\ \A z \in Nodes(t) : node[z] = IF z = x THEN elem ELSE t.node[z]
  BY <1>5, <1>6
<1>8. Nodes(u) = Nodes(t) /\ Pointers(u) = Pointers(t)
  BY <1>4, <1>7 DEF Nodes, Pointers
<1> HIDE DEF node
<1>9. Typed(u, V)
  BY <1>2, <1>3, <1>4, <1>7, <1>8 DEF Typed
<1>10. \A z \in Nodes(t) : \A e \in Dirs : Son(u, z, e) = Son(t, z, e)
  BY <1>4, <1>6, <1>7 DEF Son
<1>11. \A z \in Nodes(t) : B(u, z) = B(t, z)
  BY <1>4, <1>6, <1>7 DEF B
<1>12. \A z \in Nodes(t) : u.node[z].obj = IF z = x THEN o ELSE t.node[z].obj
  BY <1>4, <1>6, <1>7
<1>13. Counted(u)
  BY <1>2, <1>4, <1>8 DEF Counted
<1>14. Ranked(u, h)
  <2>1. -1 \in Dirs /\ 1 \in Dirs
    BY DEF Dirs
  <2> QED
    BY <1>2, <1>4, <1>8, <1>10, <1>11, <2>1 DEF Ranked
<1>15. Ordered(u, rng)
  BY <1>2, <1>4, <1>8, <1>10 DEF Ordered
<1>16. Fathered(u, fa)
  <2>1. \A y \in Nodes(t) : y # t.root => Dir(y, fa[y]) \in Dirs
    BY <1>2, FatherIs
  <2> QED
    BY <1>2, <1>4, <1>8, <1>10, <2>1 DEF Fathered
<1>17. Tree(u, V, h, rng, fa)
  BY <1>9, <1>13, <1>14, <1>15, <1>16 DEF Tree
<1> QED
  BY <1>8, <1>12, <1>17 DEF IsTree

\* The heights of an ordered and height balanced tree are what the reference
\* definition asks for.
LEMMA TreeIsBalanced ==
  ASSUME NEW t, NEW V, IsTree(t, V)
  PROVE  HeightBalanced(t)
<1>1. PICK h, rng, fa : Tree(t, V, h, rng, fa)
  BY DEF IsTree
<1>2. Typed(t, V) /\ Ranked(t, h) /\ -1 \in Dirs /\ 1 \in Dirs
  BY <1>1 DEF Tree, Dirs
<1>3. \A x \in Pointers(t) : HeightOf(t, x) = h[x]
  BY <1>2, HeightOfIs
<1>4. t.height = HeightOf(t, t.root)
  BY <1>2, <1>3 DEF Typed, Ranked
<1>5. ASSUME NEW x \in DOMAIN t.node
      PROVE  /\ B(t, x) \in -1..1
             /\ B(t, x) = HeightOf(t, Son(t, x, 1)) - HeightOf(t, Son(t, x, -1))
  <2>1. x \in Nodes(t)
    BY DEF Nodes
  <2>2. /\ Son(t, x, 1) \in Pointers(t) /\ Son(t, x, -1) \in Pointers(t)
        /\ B(t, x) \in {-1, 0, 1}
    BY <2>1, <1>2, SonsAre
  <2>3. B(t, x) = h[Son(t, x, 1)] - h[Son(t, x, -1)]
    BY <2>1, <1>2 DEF Ranked
  <2> QED
    BY <2>2, <2>3, <1>3
<1> QED
  BY <1>4, <1>5 DEF HeightBalanced

LEMMA KeysArePositive == Keys \subseteq Pos /\ Keys \subseteq Nat
  BY DatabaseAssumption DEF Pos, NULL

\* What the tree promises: everything TreeInOrder says.
LEMMA TreeIsInOrder ==
  ASSUME NEW V, IsTree(db, V)
  PROVE  TreeInOrder
<1>1. HeightBalanced(db)
  BY TreeIsBalanced
<1> DEFINE s == HBT_printf(db)
<1>2. /\ s \in Seq(Nodes(db)) /\ Increasing(s) /\ Len(s) = db.num
      /\ \A y : Has(s, y) <=> y \in Nodes(db)
  BY PrintfIs
<1>3. \A k \in Keys : HBT_lookup(db, k) = IF k \in DOMAIN db.node THEN k ELSE NULL
  BY LookupIs, KeysArePositive DEF Nodes
<1>4. \A k \in Keys \cup {NULL} : HBT_successor(db, k) = NextKey(db, k)
  BY SuccessorIs, KeysArePositive DEF NULL
<1> HIDE DEF s
<1>5. Len(s) \in Nat /\ DOMAIN s = 1..Len(s)
  BY <1>2
<1>6. \A i \in 2..Len(s) : s[i - 1] < s[i]
  <2> SUFFICES ASSUME NEW i \in 2..Len(s) PROVE s[i - 1] < s[i]
    OBVIOUS
  <2>1. i - 1 \in 1..Len(s) /\ i \in 1..Len(s) /\ i - 1 < i
    BY <1>5
  <2> QED
    BY <2>1, <1>2 DEF Increasing
<1>7. Range(s) = DOMAIN db.node
  <2>1. \A y : y \in Range(s) <=> Has(s, y)
    BY <1>5 DEF Range, Has
  <2> QED
    BY <2>1, <1>2 DEF Nodes
<1> QED
  BY <1>1, <1>2, <1>3, <1>4, <1>6, <1>7 DEF TreeInOrder, s

--------------------------------------------------------------------------------
\* The values that can be stored: those of the decks, and defaults as written.
StoredDefaults == {Written(c.get, c.default) : c \in {x \in Calls : x.default # None}}

Stored == (UNION {DeckValues[k] : k \in Keys}) \cup StoredDefaults

Entry == [value : Stored, used : BOOLEAN]

\* The database is a tree of such entries under keys of the decks and the calls.
DbInv ==
  /\ phase \in {"reading", "running", "exit", "done"}
  /\ IsTree(db, Entry)
  /\ Nodes(db) \subseteq Keys

\* w is t with one more entry, if its key is new.
Entered(t, w, k, o) ==
  /\ IsTree(w, Entry)
  /\ Nodes(w) = Nodes(t) \cup {k}
  /\ k \notin Nodes(t) => w.node[k].obj = o
  /\ \A z \in Nodes(t) : w.node[z].obj = t.node[z].obj

LEMMA InsertEnters ==
  ASSUME NEW t, IsTree(t, Entry), NEW k \in Keys, NEW v \in Stored, NEW b \in BOOLEAN
  PROVE  Entered(t, HBT_insert(t, k, IDB_NewEntry(v, b)), k, IDB_NewEntry(v, b))
<1>1. k \in Pos /\ IDB_NewEntry(v, b) \in Entry
  BY KeysArePositive DEF IDB_NewEntry, Entry
<1> QED
  BY <1>1, InsertIs DEF Entered

LEMMA EntryIs ==
  ASSUME NEW t, IsTree(t, Entry), NEW k \in Nodes(t)
  PROVE  t.node[k].obj \in Entry
<1>1. Typed(t, Entry)
  BY DEF IsTree, Tree
<1> QED
  BY <1>1 DEF Typed

\* What a step does to the database.
ReadStep ==
  /\ phase = "reading"
  /\ \/ phase' = "exit" /\ db' = db
     \/ /\ phase' = "reading"
        /\ \E k \in Keys : \E v \in Stored : Entered(db, db', k, IDB_NewEntry(v, FALSE))
  /\ answers' = answers /\ usage' = usage

\* An answer read from the database: the entry is marked, and otherwise as it was.
Marked(c) ==
  LET k == c.key
      s == ValueOf(k)
  IN  /\ k \in Nodes(db)
      /\ IsTree(db', Entry)
      /\ Nodes(db') = Nodes(db)
      /\ \A z \in Nodes(db) : db'.node[z].obj =
           IF z = k THEN IDB_NewEntry(s, TRUE) ELSE db.node[z].obj
      /\ answers' = [answers EXCEPT ![c] = @ \cup {ReadAs(c.get, s)}]
      /\ phase' = phase

Defaulted(c) ==
  /\ c.default # None
  /\ c.key \notin Nodes(db)
  /\ Entered(db, db', c.key, IDB_NewEntry(Written(c.get, c.default), TRUE))
  /\ answers' = [answers EXCEPT ![c] = @ \cup {c.default}]
  /\ phase' = phase

GetStep(c) ==
  /\ phase = "running"
  /\ \/ phase' = "exit" /\ db' = db /\ answers' = answers
     \/ Marked(c)
     \/ Defaulted(c)
  /\ usage' = usage

LEMMA ReadEntryIs ==
  ASSUME DbInv, NEW k \in Keys, NEW s \in DeckValues[k], ReadEntry(k, s)
  PROVE  ReadStep
<1>1. s \in Stored
  BY DEF Stored
<1>2. CASE s = TooLong
  BY <1>2 DEF ReadEntry, ReadStep
<1>3. CASE s # TooLong
  <2>1. db' = HBT_insert(db, k, IDB_NewEntry(s, FALSE)) /\ phase' = "reading"
        /\ phase = "reading" /\ answers' = answers /\ usage' = usage
    BY <1>3 DEF ReadEntry
  <2>2. Entered(db, db', k, IDB_NewEntry(s, FALSE))
    BY <1>1, <2>1, InsertEnters DEF DbInv
  <2> QED
    BY <1>1, <2>1, <2>2 DEF ReadStep
<1> QED
  BY <1>2, <1>3

LEMMA EntryMarked ==
  ASSUME NEW S, NEW U, NEW o \in [value : S, used : U], NEW b \in U
  PROVE  /\ [o EXCEPT !.used = b] = [value |-> o.value, used |-> b]
         /\ [o EXCEPT !.used = b] \in [value : S, used : U]
  OBVIOUS

LEMMA GetFoundIs ==
  ASSUME DbInv, NEW c \in Calls, GetFound(c)
  PROVE  (phase' = "exit" /\ db' = db /\ answers' = answers) \/ Marked(c)
<1> DEFINE k == c.key
           s == ValueOf(k)
<1>1. k \in Pos /\ IsTree(db, Entry)
  BY DatabaseAssumption, KeysArePositive DEF DbInv
<1>2. k \in Nodes(db)
  BY <1>1, LookupIs DEF GetFound
<1>3. CASE c.get # "String" /\ s = Text
  BY <1>3 DEF GetFound
<1>4. CASE ~(c.get # "String" /\ s = Text)
  <2>1. /\ db' = [db EXCEPT !.node[c.key].obj.used = TRUE]
        /\ answers' = [answers EXCEPT ![c] = @ \cup {ReadAs(c.get, s)}]
        /\ phase' = phase
    BY <1>4 DEF GetFound
  <2> DEFINE o == db.node[k].obj
             n == [o EXCEPT !.used = TRUE]
             u == [db EXCEPT !.node = [db.node EXCEPT ![k] = [db.node[k] EXCEPT !.obj = n]]]
  <2>2. o \in Entry
    BY <1>1, <1>2, EntryIs
  <2>3. n \in Entry /\ n = IDB_NewEntry(o.value, TRUE)
    <3> HIDE DEF o
    <3> QED
      <4> DEFINE U == BOOLEAN
                 b == TRUE
      <4>1. o \in [value : Stored, used : U] /\ b \in U
        BY <2>2 DEF Entry
      <4> HIDE DEF U, b
      <4>2. /\ [o EXCEPT !.used = b] = [value |-> o.value, used |-> b]
            /\ [o EXCEPT !.used = b] \in [value : Stored, used : U]
        BY <4>1, EntryMarked
      <4> QED
        BY <4>2, Zenon DEF Entry, IDB_NewEntry, U, b
  <2>4. db' = u
    BY <2>1
  <2> HIDE DEF n, o
  <2>7. ObjSet(db, u, k, n)
    BY DEF ObjSet
  <2> HIDE DEF u, k
  <2>8. k \in Nodes(db) /\ n \in Entry /\ IsTree(db, Entry)
    BY <1>1, <1>2, <2>3
  <2>5. /\ IsTree(u, Entry) /\ Nodes(u) = Nodes(db)
        /\ \A z \in Nodes(db) : u.node[z].obj = IF z = k THEN n ELSE db.node[z].obj
    BY <2>7, <2>8, SetObjIs
  <2>6. n = IDB_NewEntry(s, TRUE)
    BY <2>3 DEF ValueOf, o, k
  <2> QED
    BY <1>2, <2>1, <2>4, <2>5, <2>6 DEF Marked, k
<1> QED
  BY <1>3, <1>4

LEMMA DefaultStored ==
  ASSUME NEW c \in Calls, c.default # None
  PROVE  Written(c.get, c.default) \in Stored
<1> DEFINE T == {x \in Calls : x.default # None}
<1>1. c \in T /\ StoredDefaults = {Written(x.get, x.default) : x \in T}
  BY DEF StoredDefaults
<1>2. Written(c.get, c.default) \in StoredDefaults
  <2> HIDE DEF T
  <2> QED
    BY <1>1
<1> QED
  BY <1>2 DEF Stored

LEMMA GetDefaultIs ==
  ASSUME DbInv, NEW c \in Calls, c.default # None, GetDefault(c)
  PROVE  Defaulted(c)
<1>1. c.key \in Keys /\ c.key \in Pos /\ IsTree(db, Entry)
  BY DatabaseAssumption, KeysArePositive DEF DbInv
<1>2. c.key \notin Nodes(db)
  <2>1. HBT_lookup(db, c.key) = NULL /\ c.key # NULL
    BY <1>1 DEF GetDefault, Pos, NULL
  <2> QED
    BY <1>1, <2>1, LookupIs
<1>3. Written(c.get, c.default) \in Stored
  BY DefaultStored
<1>4. /\ db' = HBT_insert(db, c.key, IDB_NewEntry(Written(c.get, c.default), TRUE))
      /\ answers' = [answers EXCEPT ![c] = @ \cup {c.default}]
      /\ phase' = phase
  BY DEF GetDefault
<1>5. Entered(db, db', c.key, IDB_NewEntry(Written(c.get, c.default), TRUE))
  BY <1>1, <1>3, <1>4, InsertEnters
<1> QED
  BY <1>2, <1>4, <1>5 DEF Defaulted

LEMMA GetIs ==
  ASSUME DbInv, NEW c \in Calls, Get(c)
  PROVE  GetStep(c)
<1>1. phase = "running" /\ usage' = usage
  BY DEF Get
<1>2. \/ GetFound(c)
      \/ GetMissing(c)
      \/ c.default # None /\ GetDefault(c)
  BY DEF Get, IDB_GetString, IDB_GetStringDefault, IDB_GetDouble, IDB_GetDoubleDefault,
         IDB_GetInt, IDB_GetIntDefault
<1>3. CASE GetFound(c)
  BY <1>1, <1>3, GetFoundIs DEF GetStep
<1>4. CASE GetMissing(c)
  BY <1>1, <1>4 DEF GetStep, GetMissing
<1>5. CASE c.default # None /\ GetDefault(c)
  BY <1>1, <1>5, GetDefaultIs DEF GetStep
<1> QED
  BY <1>2, <1>3, <1>4, <1>5

\* The steps of the database.
LEMMA NextIs ==
  ASSUME DbInv, Next
  PROVE  \/ ReadStep
         \/ CloseFile
         \/ \E c \in Calls : GetStep(c)
         \/ PrintAndFree
         \/ UNCHANGED vars
<1>1. CASE \E k \in Keys : \E s \in DeckValues[k] : ReadEntry(k, s)
  BY <1>1, ReadEntryIs
<1>2. CASE \E c \in Calls : Get(c)
  BY <1>2, GetIs
<1>3. CASE Ended
  BY <1>3 DEF Ended
<1> QED
  BY <1>1, <1>2, <1>3 DEF Next

LEMMA DbInvInit == Init => DbInv
<1> SUFFICES ASSUME Init PROVE DbInv
  OBVIOUS
<1>1. IsTree(db, Entry) /\ Nodes(db) = {}
  BY EmptyIsTree DEF Init
<1> QED
  BY <1>1 DEF Init, DbInv

LEMMA DbInvStep == DbInv /\ [Next]_vars => DbInv'
<1> SUFFICES ASSUME DbInv, [Next]_vars PROVE DbInv'
  OBVIOUS
<1>1. CASE ReadStep
  <2>1. CASE db' = db
    BY <1>1, <2>1 DEF ReadStep, DbInv
  <2>2. CASE db' # db
    <3>1. PICK k \in Keys, v \in Stored : Entered(db, db', k, IDB_NewEntry(v, FALSE))
      BY <1>1, <2>2 DEF ReadStep
    <3> QED
      BY <1>1, <3>1 DEF ReadStep, DbInv, Entered
  <2> QED
    BY <2>1, <2>2
<1>2. CASE CloseFile
  BY <1>2 DEF CloseFile, DbInv
<1>3. ASSUME NEW c \in Calls, GetStep(c) PROVE DbInv'
  <2>1. c.key \in Keys
    BY DatabaseAssumption
  <2>2. CASE db' = db
    BY <1>3, <2>2 DEF GetStep, Marked, Defaulted, DbInv
  <2>3. CASE Marked(c)
    BY <1>3, <2>3 DEF GetStep, Marked, DbInv
  <2>4. CASE Defaulted(c)
    BY <1>3, <2>1, <2>4 DEF GetStep, Defaulted, DbInv, Entered
  <2> QED
    BY <1>3, <2>2, <2>3, <2>4 DEF GetStep
<1>4. CASE PrintAndFree
  <2>1. IsTree(db', Entry) /\ Nodes(db') = {}
    BY <1>4, EmptyIsTree DEF PrintAndFree
  <2> QED
    BY <1>4, <2>1 DEF PrintAndFree, DbInv
<1>5. CASE UNCHANGED vars
  BY <1>5 DEF vars, DbInv
<1> QED
  BY <1>1, <1>2, <1>3, <1>4, <1>5, NextIs

\* After any entries read and any calls made, the tree of the database is ordered
\* and height balanced with the right balance factors, height and number of
\* objects; HBT_lookup finds exactly its keys, HBT_printf prints each one once and
\* in order, and HBT_successor leads from each key to the next one.
THEOREM DatabaseTreeInOrder == Spec => []TreeInOrder
<1>1. DbInv => TreeInOrder
  BY TreeIsInOrder DEF DbInv
<1> QED
  BY <1>1, DbInvInit, DbInvStep, PTL DEF Spec

--------------------------------------------------------------------------------
\* What a default becomes when it is written to the database and read again: a
\* string or an integer stays what it is, a double is rounded to the digits of %f.
LEMMA DefaultReadBack ==
  ASSUME NEW c \in Calls, c.default # None
  PROVE  SameAnswer(c, c.default, ReadAs(c.get, Written(c.get, c.default)))
<1> DEFINE d == c.default
<1>1. c.get \in Gets /\ (d \in Nat \/ (c.get = "String" /\ d = Text))
      /\ (c.get = "Int" => d % 100 = 0)
  BY DatabaseAssumption
<1>2. CASE c.get = "String"
  BY <1>2 DEF SameAnswer, ReadAs, Written
<1>3. CASE c.get = "Int"
  <2>1. d \in Nat /\ d % 100 = 0 /\ Written(c.get, d) = d
    BY <1>1, <1>3 DEF Written
  <2>2. (d \div 100) * 100 = d
    BY <2>1
  <2> QED
    BY <1>3, <2>1, <2>2 DEF SameAnswer, ReadAs
<1>4. CASE c.get = "Double"
  <2> DEFINE b == ((d + 5) \div 10) * 10
  <2>1. d \in Nat /\ ReadAs(c.get, Written(c.get, d)) = b
    BY <1>1, <1>4 DEF Written, ReadAs
  <2>2. b % 10 = 0 /\ -5 <= d - b /\ d - b <= 5
    BY <2>1
  <2> QED
    BY <1>4, <2>1, <2>2 DEF SameAnswer
<1> QED
  BY <1>1, <1>2, <1>3, <1>4 DEF Gets

\* Until the database is freed, what a call was answered is what its entry says, or
\* the default the entry was made from, and an entry is marked exactly when some call
\* was answered from it.
AnswersInv ==
  /\ \A c \in Calls : answers[c] # {} =>
       /\ c.key \in Nodes(db) /\ db.node[c.key].obj.used
       /\ \A a \in answers[c] : SameAnswer(c, a, ReadAs(c.get, db.node[c.key].obj.value))
  /\ \A k \in Nodes(db) : db.node[k].obj.used => \E c \in Calls : c.key = k /\ answers[c] # {}

UseInv ==
  /\ DbInv
  /\ answers = [c \in Calls |-> answers[c]]
  /\ phase # "done" => AnswersInv
  /\ UsageReplays

LEMMA UseInvInit == Init => UseInv
<1> SUFFICES ASSUME Init PROVE UseInv
  OBVIOUS
<1>1. DbInv
  BY DbInvInit
<1>2. Nodes(db) = {} /\ phase = "reading" /\ answers = [c \in Calls |-> {}]
  BY EmptyIsTree DEF Init
<1>3. AnswersInv
  BY <1>2 DEF AnswersInv
<1> QED
  BY <1>1, <1>2, <1>3 DEF UseInv, UsageReplays

LEMMA ReadKeepsAnswers ==
  ASSUME UseInv, ReadStep
  PROVE  AnswersInv'
<1>1. AnswersInv
  BY DEF UseInv, ReadStep
<1>2. answers' = answers
  BY DEF ReadStep
<1>3. CASE db' = db
  BY <1>1, <1>2, <1>3 DEF AnswersInv
<1>4. CASE db' # db
  <2>1. PICK k \in Keys, v \in Stored : Entered(db, db', k, IDB_NewEntry(v, FALSE))
    BY <1>4 DEF ReadStep
  <2>2. Nodes(db') = Nodes(db) \cup {k} /\ \A z \in Nodes(db) : db'.node[z].obj = db.node[z].obj
    BY <2>1 DEF Entered
  <2>3. k \notin Nodes(db) => ~db'.node[k].obj.used
    BY <2>1 DEF Entered, IDB_NewEntry
  <2>4. \A c \in Calls : answers[c] # {} =>
          /\ c.key \in Nodes(db') /\ db'.node[c.key].obj.used
          /\ \A a \in answers[c] : SameAnswer(c, a, ReadAs(c.get, db'.node[c.key].obj.value))
    BY <1>1, <2>2, Zenon DEF AnswersInv
  <2>5. ASSUME NEW x \in Nodes(db'), db'.node[x].obj.used
        PROVE  \E c \in Calls : c.key = x /\ answers[c] # {}
    <3>1. x \in Nodes(db)
      BY <2>2, <2>3, <2>5
    <3>2. db.node[x].obj.used
      BY <3>1, <2>2, <2>5
    <3> QED
      BY <3>1, <3>2, <1>1 DEF AnswersInv
  <2> QED
    BY <1>2, <2>4, <2>5 DEF AnswersInv
<1> QED
  BY <1>3, <1>4

LEMMA MarkedKeepsAnswers ==
  ASSUME UseInv, phase = "running", NEW c \in Calls, Marked(c)
  PROVE  AnswersInv' /\ answers' = [b \in Calls |-> answers'[b]]
<1>1. AnswersInv /\ answers = [b \in Calls |-> answers[b]]
  BY DEF UseInv
<1> DEFINE k == c.key
           s == ValueOf(k)
           a == ReadAs(c.get, s)
<1>2. /\ k \in Nodes(db) /\ Nodes(db') = Nodes(db)
      /\ \A z \in Nodes(db) : db'.node[z].obj =
           IF z = k THEN IDB_NewEntry(s, TRUE) ELSE db.node[z].obj
      /\ answers' = [answers EXCEPT ![c] = answers[c] \cup {a}]
  BY DEF Marked
<1>3. \A b \in Calls : answers'[b] = IF b = c THEN answers[c] \cup {a} ELSE answers[b]
  BY <1>1, <1>2
<1>4. answers' = [b \in Calls |-> answers'[b]]
  BY <1>1, <1>2
<1>5. \A z \in Nodes(db) : db'.node[z].obj.value = db.node[z].obj.value
  BY <1>2 DEF IDB_NewEntry, ValueOf
<1>6. \A z \in Nodes(db) : db.node[z].obj.used => db'.node[z].obj.used
  BY <1>2 DEF IDB_NewEntry
<1>7. db'.node[k].obj.used
  BY <1>2 DEF IDB_NewEntry
<1>8. /\ answers'[c] # {} /\ s = db.node[k].obj.value
      /\ \A x \in answers'[c] : SameAnswer(c, x, a)
  <2>1. s = db.node[k].obj.value
    BY DEF ValueOf
  <2>2. \A x \in answers[c] : SameAnswer(c, x, a)
    BY <1>1, <2>1 DEF AnswersInv
  <2>3. SameAnswer(c, a, a)
    BY DEF SameAnswer
  <2> HIDE DEF a
  <2> QED
    BY <1>3, <2>1, <2>2, <2>3
<1> HIDE DEF a, s
<1>9. ASSUME NEW b \in Calls, answers'[b] # {}
      PROVE  /\ b.key \in Nodes(db') /\ db'.node[b.key].obj.used
             /\ \A x \in answers'[b] : SameAnswer(b, x, ReadAs(b.get, db'.node[b.key].obj.value))
  <2>1. CASE b = c
    BY <2>1, <1>2, <1>5, <1>7, <1>8 DEF a
  <2>2. CASE b # c
    <3>1. answers'[b] = answers[b]
      BY <2>2, <1>3
    <3>2. /\ b.key \in Nodes(db) /\ db.node[b.key].obj.used
          /\ \A x \in answers[b] : SameAnswer(b, x, ReadAs(b.get, db.node[b.key].obj.value))
      BY <3>1, <1>1, <1>9 DEF AnswersInv
    <3> QED
      BY <3>1, <3>2, <1>2, <1>5, <1>6
  <2> QED
    BY <2>1, <2>2
<1>10. ASSUME NEW x \in Nodes(db'), db'.node[x].obj.used
       PROVE  \E b \in Calls : b.key = x /\ answers'[b] # {}
  <2>1. CASE x = k
    BY <2>1, <1>8
  <2>2. CASE x # k
    <3>1. x \in Nodes(db) /\ db.node[x].obj.used
      BY <2>2, <1>2, <1>10
    <3>2. PICK b \in Calls : b.key = x /\ answers[b] # {}
      BY <3>1, <1>1 DEF AnswersInv
    <3>3. answers'[b] = answers[b]
      BY <3>2, <2>2, <1>3
    <3> QED
      BY <3>2, <3>3
  <2> QED
    BY <2>1, <2>2
<1> QED
  BY <1>4, <1>9, <1>10 DEF AnswersInv

LEMMA DefaultedKeepsAnswers ==
  ASSUME UseInv, phase = "running", NEW c \in Calls, Defaulted(c)
  PROVE  AnswersInv' /\ answers' = [b \in Calls |-> answers'[b]]
<1>1. AnswersInv /\ answers = [b \in Calls |-> answers[b]]
  BY DEF UseInv
<1> DEFINE k == c.key
           w == Written(c.get, c.default)
<1>2. /\ k \notin Nodes(db) /\ Nodes(db') = Nodes(db) \cup {k}
      /\ db'.node[k].obj = IDB_NewEntry(w, TRUE)
      /\ \A z \in Nodes(db) : db'.node[z].obj = db.node[z].obj
      /\ answers' = [answers EXCEPT ![c] = answers[c] \cup {c.default}]
      /\ SameAnswer(c, c.default, ReadAs(c.get, w))
  BY DefaultReadBack DEF Defaulted, Entered
<1> HIDE DEF w
<1>3. \A b \in Calls : answers'[b] = IF b = c THEN answers[c] \cup {c.default} ELSE answers[b]
  BY <1>1, <1>2
<1>4. answers' = [b \in Calls |-> answers'[b]]
  BY <1>1, <1>2
<1>5. \A b \in Calls : b.key = k => answers[b] = {}
  BY <1>1, <1>2 DEF AnswersInv
<1>6. answers'[c] = {c.default}
  BY <1>3, <1>5
<1>7. db'.node[k].obj.used /\ db'.node[k].obj.value = w
  BY <1>2 DEF IDB_NewEntry
<1>9. ASSUME NEW b \in Calls, answers'[b] # {}
      PROVE  /\ b.key \in Nodes(db') /\ db'.node[b.key].obj.used
             /\ \A x \in answers'[b] : SameAnswer(b, x, ReadAs(b.get, db'.node[b.key].obj.value))
  <2>1. CASE b = c
    BY <2>1, <1>2, <1>6, <1>7
  <2>2. CASE b # c
    <3>1. answers'[b] = answers[b]
      BY <2>2, <1>3
    <3>2. /\ b.key \in Nodes(db) /\ db.node[b.key].obj.used
          /\ \A x \in answers[b] : SameAnswer(b, x, ReadAs(b.get, db.node[b.key].obj.value))
      BY <3>1, <1>1, <1>9 DEF AnswersInv
    <3> QED
      BY <3>1, <3>2, <1>2
  <2> QED
    BY <2>1, <2>2
<1>10. ASSUME NEW x \in Nodes(db'), db'.node[x].obj.used
       PROVE  \E b \in Calls : b.key = x /\ answers'[b] # {}
  <2>1. CASE x = k
    BY <2>1, <1>6
  <2>2. CASE x # k
    <3>1. x \in Nodes(db) /\ db.node[x].obj.used
      BY <2>2, <1>2, <1>10
    <3>2. PICK b \in Calls : b.key = x /\ answers[b] # {}
      BY <3>1, <1>1 DEF AnswersInv
    <3>3. answers'[b] = answers[b]
      BY <3>2, <2>2, <1>3
    <3> QED
      BY <3>2, <3>3
  <2> QED
    BY <2>1, <2>2
<1> QED
  BY <1>4, <1>9, <1>10 DEF AnswersInv

\* The deck that is written has every key once, with its entry.
LEMMA PrintReplays ==
  ASSUME UseInv, PrintAndFree
  PROVE  UsageReplays'
<1>1. AnswersInv /\ IsTree(db, Entry) /\ answers' = answers
  BY DEF UseInv, PrintAndFree, DbInv
<1> DEFINE keys == HBT_printf(db)
           u == usage'
           Printed(k) == {i \in DOMAIN u : u[i].key = k}
<1>2. /\ keys \in Seq(Nodes(db)) /\ Increasing(keys)
      /\ \A y : Has(keys, y) <=> y \in Nodes(db)
  BY <1>1, PrintfIs
<1>3. Nodes(db) \subseteq Nat
  BY KeysArePositive DEF UseInv, DbInv
<1>4. u = [i \in DOMAIN keys |-> [key |-> keys[i], obj |-> db.node[keys[i]].obj]]
  BY DEF PrintAndFree
<1> HIDE DEF keys
<1>5. Len(keys) \in Nat /\ DOMAIN keys = 1..Len(keys) /\ \A i \in 1..Len(keys) : keys[i] \in Nodes(db)
  BY <1>2
<1>6. /\ DOMAIN u = 1..Len(keys)
      /\ \A i \in 1..Len(keys) : u[i].key = keys[i] /\ u[i].obj = db.node[keys[i]].obj
  BY <1>4, <1>5
<1> HIDE DEF u
<1>7. ASSUME NEW c \in Calls, answers[c] # {}
      PROVE  \E i \in Printed(c.key) :
               /\ \A a \in answers[c] : SameAnswer(c, a, ReadAs(c.get, u[i].obj.value))
               /\ u[i].obj.used
  <2>1. /\ c.key \in Nodes(db) /\ db.node[c.key].obj.used
        /\ \A a \in answers[c] : SameAnswer(c, a, ReadAs(c.get, db.node[c.key].obj.value))
    BY <1>1, <1>7 DEF AnswersInv
  <2>2. PICK i \in 1..Len(keys) : keys[i] = c.key
    BY <1>2, <2>1 DEF Has
  <2>3. i \in Printed(c.key) /\ u[i].obj = db.node[c.key].obj
    BY <1>6, <2>2
  <2> QED
    BY <2>1, <2>3
<1>8. ASSUME NEW k \in Keys PROVE Cardinality(Printed(k)) <= 1
  <2>1. ASSUME NEW i \in Printed(k), NEW j \in Printed(k) PROVE i = j
    <3>1. i \in 1..Len(keys) /\ j \in 1..Len(keys) /\ keys[i] = k /\ keys[j] = k
      BY <1>6
    <3>2. k \in Nat /\ i \in Nat /\ j \in Nat
      BY <3>1, <1>5, KeysArePositive
    <3>3. ~(i < j) /\ ~(j < i)
      BY <3>1, <3>2, <1>2 DEF Increasing
    <3> QED
      BY <3>2, <3>3
  <2>2. CASE Printed(k) = {}
    BY <2>2, FS_EmptySet
  <2>3. CASE Printed(k) # {}
    <3>1. PICK i : i \in Printed(k)
      BY <2>3
    <3>2. Printed(k) = {i}
      BY <3>1, <2>1
    <3>3. Cardinality({i}) = 1
      BY FS_Singleton
    <3> HIDE DEF Printed
    <3> QED
      BY <3>2, <3>3
  <2> QED
    BY <2>2, <2>3
<1>9. ASSUME NEW i \in DOMAIN u, u[i].obj.used
      PROVE  \E c \in Calls : c.key = u[i].key /\ answers[c] # {}
  <2>1. i \in 1..Len(keys) /\ keys[i] \in Nodes(db) /\ u[i].key = keys[i]
        /\ db.node[keys[i]].obj.used
    BY <1>5, <1>6, <1>9
  <2> QED
    BY <2>1, <1>1 DEF AnswersInv
<1> QED
  BY <1>1, <1>7, <1>8, <1>9 DEF UsageReplays, u

LEMMA UseInvStep == UseInv /\ [Next]_vars => UseInv'
<1> SUFFICES ASSUME UseInv, [Next]_vars PROVE UseInv'
  OBVIOUS
<1>1. DbInv /\ answers = [c \in Calls |-> answers[c]] /\ UsageReplays
  BY DEF UseInv
<1>2. DbInv'
  BY <1>1, DbInvStep
<1>3. CASE ReadStep
  <2>1. AnswersInv' /\ answers' = answers /\ phase' # "done"
    BY <1>3, ReadKeepsAnswers DEF ReadStep
  <2> QED
    BY <1>1, <1>2, <2>1 DEF UseInv, UsageReplays
<1>4. CASE CloseFile
  <2>1. db' = db /\ answers' = answers /\ phase' = "running" /\ AnswersInv
    BY <1>4 DEF CloseFile, UseInv
  <2>2. AnswersInv'
    BY <2>1 DEF AnswersInv
  <2> QED
    BY <1>1, <1>2, <2>1, <2>2 DEF UseInv, UsageReplays
<1>5. ASSUME NEW c \in Calls, GetStep(c) PROVE UseInv'
  <2>1. phase' # "done" /\ phase = "running" /\ AnswersInv
    BY <1>5 DEF GetStep, Marked, Defaulted, UseInv
  <2>2. AnswersInv' /\ answers' = [b \in Calls |-> answers'[b]]
    <3>1. CASE db' = db /\ answers' = answers
      BY <3>1, <2>1, <1>1 DEF AnswersInv
    <3>2. CASE Marked(c)
      BY <3>2, <2>1, MarkedKeepsAnswers
    <3>3. CASE Defaulted(c)
      BY <3>3, <2>1, DefaultedKeepsAnswers
    <3> QED
      BY <1>5, <3>1, <3>2, <3>3 DEF GetStep
  <2> QED
    BY <1>2, <2>1, <2>2 DEF UseInv, UsageReplays
<1>6. CASE PrintAndFree
  <2>1. UsageReplays' /\ answers' = answers /\ phase' = "done"
    BY <1>6, PrintReplays DEF PrintAndFree
  <2> QED
    BY <1>1, <1>2, <2>1 DEF UseInv
<1>7. CASE UNCHANGED vars
  <2>1. db' = db /\ phase' = phase /\ answers' = answers /\ usage' = usage
    BY <1>7 DEF vars
  <2>2. AnswersInv => AnswersInv'
    BY <2>1 DEF AnswersInv
  <2>3. UsageReplays'
    BY <2>1, <1>1 DEF UsageReplays
  <2> QED
    BY <1>1, <1>2, <2>1, <2>2, <2>3 DEF UseInv
<1> QED
  BY <1>1, <1>3, <1>4, <1>5, <1>6, <1>7, NextIs

\* Answers that are the same as a third one are the same.
LEMMA SameAsThird ==
  ASSUME NEW c, NEW a, NEW b, NEW v, SameAnswer(c, a, v), SameAnswer(c, b, v)
  PROVE  SameAnswer(c, a, b) \/ SameAnswer(c, b, a)
<1>1. CASE a = v
  BY <1>1
<1>2. CASE b = v
  BY <1>2
<1>3. CASE a # v /\ b # v
  <2>1. a = c.default /\ b = c.default
    BY <1>3, Zenon DEF SameAnswer
  <2> QED
    BY <2>1, Zenon DEF SameAnswer
<1> QED
  BY <1>1, <1>2, <1>3

LEMMA AnswersAreOne ==
  ASSUME UseInv
  PROVE  OneAnswerPerCall
<1> SUFFICES ASSUME NEW c \in Calls, NEW a \in answers[c], NEW b \in answers[c]
             PROVE  SameAnswer(c, a, b) \/ SameAnswer(c, b, a)
  BY DEF OneAnswerPerCall
<1>1. \E v : \A x \in answers[c] : SameAnswer(c, x, v)
  <2>1. CASE phase # "done"
    BY <2>1, Zenon DEF UseInv, AnswersInv
  <2>2. CASE phase = "done"
    BY <2>2, Zenon DEF UseInv, UsageReplays
  <2> QED
    BY <2>1, <2>2
<1> QED
  BY <1>1, SameAsThird

\* A call gets the same answer every time, whatever other calls, with other
\* defaults or conversions, are made between: exactly the same, or its default first
\* and that default to the digits of %f from then on.
THEOREM CallsGetOneAnswer == Spec => []OneAnswerPerCall
<1>1. UseInv => OneAnswerPerCall
  BY AnswersAreOne
<1> QED
  BY <1>1, UseInvStep, UseInvInit, PTL DEF Spec

\* The deck written at the end gives the calls the answers they got, defaults to the
\* digits of %f, has each key once, and marks as used exactly the keys some call was
\* answered from.
THEOREM WrittenDeckReplays == Spec => []UsageReplays
<1>1. UseInv => UsageReplays
  BY DEF UseInv
<1> QED
  BY <1>1, UseInvStep, UseInvInit, PTL DEF Spec

--------------------------------------------------------------------------------
\* The dictionary a tree implements.
DictOf(t) == [k \in Keys |-> IF k \in Nodes(t) THEN t.node[k].obj.value ELSE None]

DictNow == [k \in Keys |-> IF HBT_lookup(db, k) = NULL THEN None ELSE ValueOf(k)]

LEMMA DictIs ==
  ASSUME NEW t, IsTree(t, Entry)
  PROVE  [k \in Keys |-> IF HBT_lookup(t, k) = NULL THEN None ELSE t.node[k].obj.value]
           = DictOf(t)
<1>1. \A k \in Keys : HBT_lookup(t, k) = NULL <=> k \notin Nodes(t)
  <2> SUFFICES ASSUME NEW k \in Keys PROVE HBT_lookup(t, k) = NULL <=> k \notin Nodes(t)
    OBVIOUS
  <2>1. k \in Pos /\ k # NULL
    BY KeysArePositive, DatabaseAssumption
  <2> QED
    BY <2>1, LookupIs
<1> QED
  BY <1>1 DEF DictOf

Defines(t, w, k) ==
  /\ DictOf(t)[k] = None /\ DictOf(w)[k] \in Stored
  /\ DictOf(w) = [DictOf(t) EXCEPT ![k] = DictOf(w)[k]]

\* A new entry defines its key in the dictionary; one that is there changes nothing.
LEMMA EnteredDefines ==
  ASSUME NEW t, NEW w, NEW k \in Keys, NEW v \in Stored, NEW b,
         Entered(t, w, k, IDB_NewEntry(v, b))
  PROVE  DictOf(w) = DictOf(t) \/ Defines(t, w, k)
<1>1. /\ Nodes(w) = Nodes(t) \cup {k}
      /\ k \notin Nodes(t) => w.node[k].obj = IDB_NewEntry(v, b)
      /\ \A z \in Nodes(t) : w.node[z].obj = t.node[z].obj
  BY DEF Entered
<1>2. CASE k \in Nodes(t)
  BY <1>1, <1>2 DEF DictOf
<1>3. CASE k \notin Nodes(t)
  <2>1. DictOf(t)[k] = None /\ DictOf(w)[k] = v
    BY <1>1, <1>3 DEF DictOf, IDB_NewEntry
  <2>2. \A z \in Keys : z # k => DictOf(w)[z] = DictOf(t)[z]
    BY <1>1 DEF DictOf
  <2>3. DictOf(w) = [z \in Keys |-> DictOf(w)[z]] /\ DictOf(t) = [z \in Keys |-> DictOf(t)[z]]
    BY DEF DictOf
  <2>4. DictOf(w) = [DictOf(t) EXCEPT ![k] = DictOf(w)[k]]
    BY <2>1, <2>2, <2>3
  <2> QED
    BY <2>1, <2>4 DEF Defines
<1> QED
  BY <1>2, <1>3

\* The database implements a dictionary in which a key that has a value keeps it:
\* the deck's first entry for it, or the first default that is asked for.
THEOREM DatabaseImplementsDictionary == Spec => ImplementsDictionary
<1>1. Init => Dict!Init
  <2> SUFFICES ASSUME Init PROVE Dict!Init
    OBVIOUS
  <2>1. IsTree(db, Entry) /\ Nodes(db) = {}
    BY EmptyIsTree DEF Init
  <2>2. DictNow = DictOf(db)
    BY <2>1, DictIs DEF DictNow, ValueOf
  <2>3. DictOf(db) = [k \in Keys |-> None]
    BY <2>1 DEF DictOf
  <2> QED
    BY <2>2, <2>3 DEF Dict!Init, DictNow
<1>2. DbInv /\ [Next]_vars => [Dict!Next]_DictNow
  <2> SUFFICES ASSUME DbInv, [Next]_vars PROVE Dict!Next \/ UNCHANGED DictNow
    OBVIOUS
  <2>1. DictNow = DictOf(db)
    BY DictIs DEF DictNow, ValueOf, DbInv
  <2>2. DictNow' = DictOf(db')
    <3>1. IsTree(db', Entry)
      BY DbInvStep DEF DbInv
    <3> QED
      BY <3>1, DictIs DEF DictNow, ValueOf
  <2>3. ASSUME DictOf(db') = DictOf(db) PROVE UNCHANGED DictNow
    BY <2>1, <2>2, <2>3
  <2>4. Dict!Next <=> \/ \A k \in Keys : DictOf(db')[k] = None
                      \/ \E k \in Keys :
                           /\ DictOf(db)[k] = None /\ DictOf(db')[k] \in Stored
                           /\ DictOf(db') = [DictOf(db) EXCEPT ![k] = DictOf(db')[k]]
    BY <2>1, <2>2 DEF Dict!Next, Dict!FreeAll, Dict!Define, DictNow, Stored, StoredDefaults
  <2>5. ASSUME NEW k \in Keys, NEW v \in Stored, NEW b \in BOOLEAN,
               Entered(db, db', k, IDB_NewEntry(v, b))
        PROVE  Dict!Next \/ UNCHANGED DictNow
    <3>1. DictOf(db') = DictOf(db) \/ Defines(db, db', k)
      BY <2>5, EnteredDefines
    <3> QED
      BY <3>1, <2>3, <2>4, Zenon DEF Defines
  <2>6. CASE db' = db
    BY <2>3, <2>6
  <2>7. CASE ReadStep
    BY <2>5, <2>6, <2>7 DEF ReadStep
  <2>8. CASE CloseFile
    BY <2>6, <2>8 DEF CloseFile
  <2>9. ASSUME NEW c \in Calls, GetStep(c) PROVE Dict!Next \/ UNCHANGED DictNow
    <3>1. CASE Marked(c)
      <4>1. /\ Nodes(db') = Nodes(db)
            /\ \A z \in Nodes(db) : db'.node[z].obj.value = db.node[z].obj.value
        BY <3>1 DEF Marked, IDB_NewEntry, ValueOf
      <4> QED
        BY <4>1, <2>3 DEF DictOf
    <3>2. CASE Defaulted(c)
      <4>1. c.key \in Keys
        BY DatabaseAssumption
      <4>2. Written(c.get, c.default) \in Stored
        BY <3>2, DefaultStored DEF Defaulted
      <4> QED
        BY <4>1, <4>2, <3>2, <2>5 DEF Defaulted
    <3> QED
      BY <2>6, <2>9, <3>1, <3>2 DEF GetStep
  <2>10. CASE PrintAndFree
    <3>1. Nodes(db') = {}
      BY <2>10, EmptyIsTree DEF PrintAndFree
    <3>2. \A k \in Keys : DictOf(db')[k] = None
      BY <3>1 DEF DictOf
    <3> QED
      BY <3>2, <2>4
  <2>11. CASE UNCHANGED vars
    BY <2>6, <2>11 DEF vars
  <2> QED
    BY <2>7, <2>8, <2>9, <2>10, <2>11, NextIs
<1> QED
  BY <1>1, <1>2, DbInvInit, DbInvStep, PTL DEF Spec, ImplementsDictionary, Dict!Spec, DictNow

=============================================================================
