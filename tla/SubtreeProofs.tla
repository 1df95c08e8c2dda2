--------------------------- MODULE SubtreeProofs ---------------------------
(***************************************************************************)
(* Every property of Subtree, for any tree, allow-list and depth.          *)
(*                                                                         *)
(* First, of Up: an induction on the length of a path is made by looking at *)
(* the least length at which a claim fails (LeastExists).                  *)
(***************************************************************************)
EXTENDS Subtree, FiniteSetTheorems, WellFoundedInduction, TLAPS

LEMMA LeastExists ==
  ASSUME NEW S, S \subseteq Nat, S # {}
  PROVE  \E n \in S : \A m \in S : n <= m
<1>1. PICK n \in S : \A m \in S : ~(<<m, n>> \in OpToRel(<, Nat))
  <2>1. \E n \in S : \A m \in S : ~(<<m, n>> \in OpToRel(<, Nat))
    BY NatLessThanWellFounded, WFMin, Zenon
  <2> QED
    BY <2>1
<1>2. \A m \in S : ~(m < n)
  BY <1>1, Zenon DEF OpToRel
<1> QED
  BY <1>2

Shape == [Uid -> Entity \cup {Absent}]

LEMMA ParentType ==
  ASSUME NEW t \in Shape, NEW u \in Entity
  PROVE  ParentOf(t, u) \in Entity
BY DEF Shape, ParentOf, Entity

\* f is the beginning of a path up from u.
Begins(t, u, f, n) ==
  f \in [0..n -> Entity] /\ f[0] = u /\ \A i \in 0..n - 1 : f[i + 1] = ParentOf(t, f[i])

LEMMA BeginsExists ==
  ASSUME NEW t \in Shape, NEW u \in Entity, NEW n \in Nat
  PROVE  \E f : Begins(t, u, f, n)
<1> DEFINE S == {k \in Nat : ~\E f : Begins(t, u, f, k)}
<1> SUFFICES ASSUME S # {} PROVE FALSE
  OBVIOUS
<1>1. PICK k \in S : \A m \in S : k <= m
  <2> HIDE DEF S
  <2>1. S \subseteq Nat
    BY DEF S
  <2> QED
    BY <2>1, LeastExists
<1>2. k \in Nat /\ ~\E f : Begins(t, u, f, k)
  OBVIOUS
<1>3. k # 0
  <2>1. Begins(t, u, [i \in 0..0 |-> u], 0)
    BY DEF Begins
  <2> QED
    BY <1>2, <2>1
<1>4. PICK f : Begins(t, u, f, k - 1)
  <2>1. k - 1 \in Nat /\ ~(k <= k - 1)
    BY <1>2, <1>3
  <2> QED
    BY <1>1, <2>1
<1> DEFINE g == [i \in 0..k |-> IF i = k THEN ParentOf(t, f[k - 1]) ELSE f[i]]
<1>5. Begins(t, u, g, k)
  <2>1. k - 1 \in 0..k - 1 /\ 0 \in 0..k - 1 /\ \A i \in 0..k : i # k => i \in 0..k - 1
    BY <1>2, <1>3
  <2>2. ParentOf(t, f[k - 1]) \in Entity
    BY <1>4, <2>1, ParentType DEF Begins
  <2>3. g \in [0..k -> Entity]
    BY <1>4, <2>1, <2>2 DEF Begins
  <2>4. g[0] = u
    BY <1>2, <1>3, <1>4 DEF Begins
  <2>5. ASSUME NEW i \in 0..k - 1 PROVE g[i + 1] = ParentOf(t, g[i])
    <3>1. i \in 0..k /\ i + 1 \in 0..k /\ i # k /\ i \in Int
      BY <1>2
    <3>2. g[i] = f[i]
      BY <3>1
    <3>3. CASE i = k - 1
      BY <1>2, <3>1, <3>2, <3>3
    <3>4. CASE i # k - 1
      <4>1. i \in 0..k - 1 - 1 /\ i + 1 # k
        BY <1>2, <3>4
      <4>2. f[i + 1] = ParentOf(t, f[i])
        BY <1>4, <4>1 DEF Begins
      <4> QED
        BY <3>1, <3>2, <4>1, <4>2
    <3> QED
      BY <3>3, <3>4
  <2> HIDE DEF g
  <2> QED
    BY <2>3, <2>4, <2>5 DEF Begins
<1> QED
  BY <1>2, <1>5

LEMMA BeginsUnique ==
  ASSUME NEW t, NEW u, NEW n \in Nat, NEW m \in Nat, NEW f, NEW g,
         Begins(t, u, f, n), Begins(t, u, g, m), NEW k \in Nat, k <= n, k <= m
  PROVE  f[k] = g[k]
<1> DEFINE S == {i \in 0..k : f[i] # g[i]}
<1> SUFFICES ASSUME S # {} PROVE FALSE
  OBVIOUS
<1>1. PICK i \in S : \A j \in S : i <= j
  <2>1. S \subseteq Nat
    OBVIOUS
  <2> HIDE DEF S
  <2> QED
    BY <2>1, LeastExists
<1>2. i # 0
  BY DEF Begins
<1>3. /\ i - 1 \in 0..k /\ i - 1 \notin S /\ i - 1 \in 0..n - 1 /\ i - 1 \in 0..m - 1
      /\ (i - 1) + 1 = i
  BY <1>1, <1>2
<1>4. f[(i - 1) + 1] = ParentOf(t, f[i - 1]) /\ g[(i - 1) + 1] = ParentOf(t, g[i - 1])
  BY <1>3 DEF Begins
<1> QED
  BY <1>3, <1>4

\* The equations that define Up have a solution, and it is made of entities.
LEMMA UpDef ==
  ASSUME NEW t \in Shape, NEW u \in Entity
  PROVE  /\ Up(t, u) \in [Nat -> Entity] /\ Up(t, u)[0] = u
         /\ \A n \in Nat : Up(t, u)[n + 1] = ParentOf(t, Up(t, u)[n])
<1> DEFINE start(n) == CHOOSE f : Begins(t, u, f, n)
           path == [n \in Nat |-> start(n)[n]]
           Solves(up) == up = [n \in Nat |-> IF n = 0 THEN u ELSE ParentOf(t, up[n - 1])]
<1>1. \A n \in Nat : Begins(t, u, start(n), n)
  BY BeginsExists
<1> HIDE DEF start
<1>2. path \in [Nat -> Entity] /\ path[0] = u
  <2>1. \A n \in Nat : n \in 0..n
    OBVIOUS
  <2>2. \A n \in Nat : start(n)[n] \in Entity
    BY <1>1, <2>1 DEF Begins
  <2> QED
    BY <1>1, <2>2 DEF Begins
<1>3. \A n \in Nat : path[n + 1] = ParentOf(t, path[n])
  <2> SUFFICES ASSUME NEW n \in Nat PROVE path[n + 1] = ParentOf(t, path[n])
    OBVIOUS
  <2>1. n + 1 \in Nat /\ n \in 0..(n + 1) - 1 /\ n <= n + 1
    OBVIOUS
  <2>2. start(n + 1)[n + 1] = ParentOf(t, start(n + 1)[n])
    BY <1>1, <2>1 DEF Begins
  <2>3. start(n + 1)[n] = start(n)[n]
    BY <1>1, <2>1, BeginsUnique
  <2> QED
    BY <2>1, <2>2, <2>3
<1>4. Solves(path)
  <2>1. \A n \in Nat : n # 0 => n - 1 \in Nat /\ (n - 1) + 1 = n
    OBVIOUS
  <2>2. \A n \in Nat : path[n] = IF n = 0 THEN u ELSE ParentOf(t, path[n - 1])
    BY <1>2, <1>3, <2>1
  <2> HIDE DEF path
  <2> QED
    BY <1>2, <2>2
<1>5. Solves(Up(t, u))
  <2>1. Up(t, u) = CHOOSE up : Solves(up)
    BY DEF Up
  <2> HIDE DEF Solves
  <2> QED
    BY <1>4, <2>1
<1>6. Up(t, u) = path
  <2> DEFINE up == Up(t, u)
             S == {n \in Nat : up[n] # path[n]}
  <2> HIDE DEF up
  <2>1. \A n \in Nat : up[n] = IF n = 0 THEN u ELSE ParentOf(t, up[n - 1])
    BY <1>5 DEF up
  <2>2. S = {}
    <3> SUFFICES ASSUME S # {} PROVE FALSE
      OBVIOUS
    <3>1. PICK n \in S : \A m \in S : n <= m
      <4>1. S \subseteq Nat
        OBVIOUS
      <4> HIDE DEF S
      <4> QED
        BY <4>1, LeastExists
    <3>2. n # 0
      BY <1>2, <2>1
    <3>3. n - 1 \in Nat /\ n - 1 \notin S /\ (n - 1) + 1 = n
      BY <3>1, <3>2
    <3> QED
      BY <1>3, <2>1, <3>2, <3>3
  <2>3. up = [n \in Nat |-> IF n = 0 THEN u ELSE ParentOf(t, up[n - 1])]
    BY <1>5 DEF up
  <2>4. \A n \in Nat : up[n] = path[n]
    BY <2>2
  <2> HIDE DEF path, S
  <2>5. path = [n \in Nat |-> path[n]] /\ up = [n \in Nat |-> up[n]]
    BY <1>2, <2>3
  <2> QED
    BY <2>4, <2>5 DEF up
<1> HIDE DEF path
<1> QED
  BY <1>2, <1>3, <1>6
-----------------------------------------------------------------------------
\* The path up goes on as the path up from where it is.
LEMMA Onward ==
  ASSUME NEW t \in Shape, NEW u \in Entity, NEW i \in Nat, NEW j \in Nat
  PROVE  /\ Up(t, u)[i] \in Entity
         /\ Up(t, u)[i + j] = Up(t, Up(t, u)[i])[j]
<1> DEFINE v == Up(t, u)[i]
           S == {k \in Nat : Up(t, u)[i + k] # Up(t, v)[k]}
<1>1. v \in Entity
  BY UpDef
<1> HIDE DEF v
<1>2. S = {}
  <2> SUFFICES ASSUME S # {} PROVE FALSE
    OBVIOUS
  <2>1. PICK n \in S : \A m \in S : n <= m
    <3>1. S \subseteq Nat
      OBVIOUS
    <3> HIDE DEF S
    <3> QED
      BY <3>1, LeastExists
  <2>2. n # 0
    <3>1. Up(t, v)[0] = v /\ i + 0 = i
      BY <1>1, UpDef
    <3>2. Up(t, u)[i + n] # Up(t, v)[n]
      OBVIOUS
    <3> QED
      BY <3>1, <3>2 DEF v
  <2>3. /\ n - 1 \in Nat /\ n - 1 \notin S /\ (n - 1) + 1 = n
        /\ i + (n - 1) \in Nat /\ (i + (n - 1)) + 1 = i + n
    BY <2>1, <2>2
  <2>4. Up(t, u)[(i + (n - 1)) + 1] = ParentOf(t, Up(t, u)[i + (n - 1)])
    BY <2>3, UpDef
  <2>5. Up(t, v)[(n - 1) + 1] = ParentOf(t, Up(t, v)[n - 1])
    BY <1>1, <2>3, UpDef
  <2> QED
    BY <2>3, <2>4, <2>5
<1> QED
  BY <1>1, <1>2 DEF v

\* Nothing is above the root.
LEMMA RootStays ==
  ASSUME NEW t \in Shape, NEW u \in Entity, NEW i \in Nat, NEW j \in Nat, i <= j,
         Up(t, u)[i] = Root
  PROVE  Up(t, u)[j] = Root
<1> DEFINE S == {k \in Nat : k >= i /\ Up(t, u)[k] # Root}
<1> SUFFICES ASSUME S # {} PROVE FALSE
  OBVIOUS
<1>1. PICK n \in S : \A m \in S : n <= m
  <2>1. S \subseteq Nat
    OBVIOUS
  <2> HIDE DEF S
  <2> QED
    BY <2>1, LeastExists
<1>2. n - 1 \in Nat /\ n - 1 >= i /\ n - 1 \notin S /\ (n - 1) + 1 = n
  BY <1>1
<1>3. Up(t, u)[(n - 1) + 1] = ParentOf(t, Up(t, u)[n - 1])
  BY <1>2, UpDef
<1> QED
  BY <1>2, <1>3 DEF ParentOf

\* Two trees that differ at most in where x is.
AlikeBut(t, new, x) == \A v \in Uid : v # x => new[v] = t[v]

\* A path is the same in both as long as it has not passed x.
LEMMA SamePath ==
  ASSUME NEW t \in Shape, NEW new \in Shape, NEW x, AlikeBut(t, new, x),
         NEW u \in Entity, NEW n \in Nat, \A j \in 0..n - 1 : Up(t, u)[j] # x
  PROVE  \A j \in 0..n : Up(new, u)[j] = Up(t, u)[j]
<1> DEFINE S == {k \in 0..n : Up(new, u)[k] # Up(t, u)[k]}
<1> SUFFICES ASSUME S # {} PROVE FALSE
  OBVIOUS
<1>1. PICK k \in S : \A m \in S : k <= m
  <2>1. S \subseteq Nat
    OBVIOUS
  <2> HIDE DEF S
  <2> QED
    BY <2>1, LeastExists
<1>2. k # 0
  <2>1. Up(new, u)[0] = u /\ Up(t, u)[0] = u
    BY UpDef
  <2>2. Up(new, u)[k] # Up(t, u)[k]
    OBVIOUS
  <2> QED
    BY <2>1, <2>2
<1>3. k - 1 \in Nat /\ k - 1 \notin S /\ (k - 1) + 1 = k /\ k - 1 \in 0..n - 1
  BY <1>1, <1>2
<1>4. /\ Up(t, u)[k - 1] \in Entity /\ Up(t, u)[k - 1] # x
      /\ Up(new, u)[k - 1] = Up(t, u)[k - 1]
  <2>1. Up(t, u) \in [Nat -> Entity]
    BY UpDef
  <2>2. k - 1 \in 0..n
    BY <1>3
  <2> QED
    BY <1>3, <2>1, <2>2
<1>5. ParentOf(new, Up(t, u)[k - 1]) = ParentOf(t, Up(t, u)[k - 1])
  BY <1>4 DEF ParentOf, AlikeBut, Entity
<1> QED
  BY <1>3, <1>4, <1>5, UpDef
-----------------------------------------------------------------------------
\* Every path up ends at the root.
Rooted(t) == \A u \in Uid : \E n \in Nat : Up(t, u)[n] = Root

\* So none returns to where it has been.
LEMMA NoReturn ==
  ASSUME NEW t \in Shape, Rooted(t), NEW u \in Entity, NEW i \in Nat, NEW j \in Nat, i < j,
         Up(t, u)[i] \in Uid
  PROVE  Up(t, u)[i] # Up(t, u)[j]
<1> SUFFICES ASSUME Up(t, u)[i] = Up(t, u)[j] PROVE FALSE
  OBVIOUS
<1> DEFINE x == Up(t, u)[i]
           d == j - i
           S == {k \in Nat : Up(t, x)[k] = Root}
<1>1. d \in Nat /\ d > 0 /\ i + d = j
  OBVIOUS
<1>2. x \in Uid /\ x \in Entity /\ x # Root
  BY SentinelAssumption DEF Entity
<1>3. Up(t, x)[d] = x
  <2>1. Up(t, u)[i + d] = Up(t, x)[d]
    BY <1>1, Onward
  <2> QED
    BY <1>1, <2>1
<1> HIDE DEF x, d
<1>4. PICK n \in S : \A m \in S : n <= m
  <2>1. S \subseteq Nat
    OBVIOUS
  <2>2. S # {}
    BY <1>2 DEF Rooted
  <2> HIDE DEF S
  <2> QED
    BY <2>1, <2>2, LeastExists
<1>5. n \in Nat /\ Up(t, x)[n] = Root
  OBVIOUS
<1>6. CASE d <= n
  <2>1. n - d \in Nat /\ d + (n - d) = n /\ n - d < n
    BY <1>1, <1>5, <1>6
  <2>2. Up(t, x)[n - d] = Root
    <3>1. Up(t, x)[d + (n - d)] = Up(t, Up(t, x)[d])[n - d]
      BY <1>1, <1>2, <2>1, Onward
    <3> QED
      BY <1>3, <1>5, <2>1, <3>1
  <2> QED
    BY <1>4, <2>1, <2>2
<1>7. CASE n < d
  BY <1>1, <1>2, <1>3, <1>5, <1>7, RootStays
<1> QED
  BY <1>1, <1>5, <1>6, <1>7

\* Whatever is above u is above it by no more steps than there are entities.
LEMMA Short ==
  ASSUME NEW t \in Shape, Rooted(t), NEW u \in Entity, NEW n \in Nat
  PROVE  Under(t, u, Up(t, u)[n])
<1> DEFINE p == Up(t, u)[n]
           S == {k \in Nat : Up(t, u)[k] = p}
<1>1. PICK m \in S : \A k \in S : m <= k
  <2>1. S \subseteq Nat /\ S # {}
    OBVIOUS
  <2> HIDE DEF S
  <2> QED
    BY <2>1, LeastExists
<1>2. m \in Nat /\ m <= n /\ Up(t, u)[m] = p
  BY <1>1
<1>3. \A k \in 0..m - 1 : Up(t, u)[k] \in Uid
  <2> SUFFICES ASSUME NEW k \in 0..m - 1, Up(t, u)[k] \notin Uid PROVE FALSE
    OBVIOUS
  <2>1. k \in Nat /\ k <= n /\ k < m
    BY <1>2
  <2>2. Up(t, u)[k] = Root
    BY <2>1, UpDef DEF Entity
  <2>3. p = Root
    BY <2>1, <2>2, RootStays
  <2> QED
    BY <1>1, <2>1, <2>2, <2>3
<1> DEFINE f == [k \in 0..m - 1 |-> Up(t, u)[k]]
<1>4. f \in Injection(0..m - 1, Uid)
  <2>1. \A k, l \in 0..m - 1 : Up(t, u)[k] = Up(t, u)[l] => k = l
    <3> SUFFICES ASSUME NEW k \in 0..m - 1, NEW l \in 0..m - 1, k # l
                 PROVE  Up(t, u)[k] # Up(t, u)[l]
      OBVIOUS
    <3>1. k \in Nat /\ l \in Nat /\ (k < l \/ l < k)
      BY <1>2
    <3> QED
      BY <1>3, <3>1, NoReturn
  <2>2. f \in [0..m - 1 -> Uid] /\ \A k, l \in 0..m - 1 : f[k] = f[l] => k = l
    BY <1>3, <2>1
  <2> HIDE DEF f
  <2> QED
    BY <2>2 DEF Injection, IsInjective
<1>5. Cardinality(0..m - 1) <= Cardinality(Uid) /\ Cardinality(Uid) \in Nat
  BY <1>4, FS_Injection, FS_CardinalityType, AllowedAssumption
<1>6. Cardinality(0..m - 1) = m
  <2>1. 0 \in Int /\ m - 1 \in Int
    BY <1>2
  <2>2. Cardinality(0..m - 1) = IF 0 > m - 1 THEN 0 ELSE (m - 1) - 0 + 1
    BY <2>1, FS_Interval
  <2> QED
    BY <1>2, <2>2
<1>7. m \in 0..Cardinality(Uid)
  BY <1>2, <1>5, <1>6
<1>8. Under(t, u, p)
  BY <1>2, <1>7 DEF Under
<1> QED
  BY <1>8

\* The core deletes no directory from above its entries.
NoOrphan(t) == \A u \in Uid : t[u] \in Uid => t[t[u]] # Absent

LEMMA TreeIs == \A t : t \in Tree <=> t \in Shape /\ Rooted(t) /\ NoOrphan(t)
<1> SUFFICES ASSUME NEW t \in Shape PROVE IsTree(t) <=> Rooted(t) /\ NoOrphan(t)
  BY DEF Tree, Shape
<1>1. ASSUME NEW u \in Uid, Under(t, u, Root) PROVE \E n \in Nat : Up(t, u)[n] = Root
  <2>1. Cardinality(Uid) \in Nat
    BY FS_CardinalityType, AllowedAssumption
  <2> QED
    BY <1>1, <2>1 DEF Under
<1>2. ASSUME Rooted(t), NEW u \in Uid PROVE Under(t, u, Root)
  <2>1. PICK n \in Nat : Up(t, u)[n] = Root
    BY <1>2 DEF Rooted
  <2> QED
    BY <1>2, <2>1, Short DEF Entity
<1> QED
  BY <1>1, <1>2 DEF IsTree, Rooted, NoOrphan

\* An entity placed where it is not above already leaves a tree.
LEMMA Placing ==
  ASSUME NEW t \in Tree, NEW x \in Uid, NEW p \in Entity, p = Root \/ t[p] # Absent,
         \A n \in Nat : Up(t, p)[n] # x
  PROVE  /\ [t EXCEPT ![x] = p] \in Tree
         /\ \A n \in Nat : Up([t EXCEPT ![x] = p], x)[n + 1] = Up(t, p)[n]
<1> DEFINE new == [t EXCEPT ![x] = p]
<1>1. t \in Shape /\ Rooted(t) /\ NoOrphan(t)
  BY TreeIs
<1>2. /\ new \in Shape /\ AlikeBut(t, new, x) /\ new[x] = p
      /\ x \in Entity /\ x # Root /\ p # Absent
  BY <1>1, SentinelAssumption DEF Shape, AlikeBut, Entity
<1>3. p # x
  BY UpDef, <1>1
<1>4. NoOrphan(new)
  <2> SUFFICES ASSUME NEW u \in Uid, new[u] \in Uid PROVE new[new[u]] # Absent
    BY DEF NoOrphan
  <2>1. CASE u = x
    BY <1>2, <1>3, <2>1, SentinelAssumption DEF AlikeBut
  <2>2. CASE u # x
    <3>1. new[u] = t[u] /\ t[t[u]] # Absent
      BY <1>1, <1>2, <2>2 DEF AlikeBut, NoOrphan
    <3> QED
      BY <1>2, <3>1 DEF AlikeBut
  <2> QED
    BY <2>1, <2>2
<1> HIDE DEF new
<1>5. \A n \in Nat : Up(new, p)[n] = Up(t, p)[n]
  <2> SUFFICES ASSUME NEW n \in Nat PROVE Up(new, p)[n] = Up(t, p)[n]
    OBVIOUS
  <2>1. n \in 0..n /\ \A j \in 0..n - 1 : j \in Nat
    OBVIOUS
  <2>2. \A j \in 0..n - 1 : Up(t, p)[j] # x
    BY <2>1
  <2> QED
    BY <1>1, <1>2, <2>1, <2>2, SamePath
<1>6. \A n \in Nat : Up(new, x)[n + 1] = Up(t, p)[n]
  <2>1. ParentOf(new, x) = p
    BY <1>2, SentinelAssumption DEF ParentOf
  <2>2. Up(new, x)[0 + 1] = ParentOf(new, Up(new, x)[0]) /\ Up(new, x)[0] = x
    BY <1>2, UpDef
  <2>3. Up(new, x)[1] = p
    BY <2>1, <2>2
  <2> SUFFICES ASSUME NEW n \in Nat PROVE Up(new, x)[n + 1] = Up(t, p)[n]
    OBVIOUS
  <2>4. Up(new, x)[1 + n] = Up(new, Up(new, x)[1])[n]
    BY <1>2, Onward
  <2>5. 1 + n = n + 1
    OBVIOUS
  <2> QED
    BY <1>5, <2>3, <2>4, <2>5
<1>7. \E n \in Nat : Up(new, x)[n] = Root
  <2>1. PICK n \in Nat : Up(t, p)[n] = Root
    <3>1. CASE p = Root
      BY <1>1, <3>1, UpDef
    <3>2. CASE p \in Uid
      BY <1>1, <3>2 DEF Rooted
    <3> QED
      BY <3>1, <3>2 DEF Entity
  <2> QED
    BY <1>6, <2>1
<1>8. Rooted(new)
  <2> SUFFICES ASSUME NEW u \in Uid PROVE \E n \in Nat : Up(new, u)[n] = Root
    BY DEF Rooted
  <2>0. u \in Entity
    BY DEF Entity
  <2> DEFINE S == {k \in Nat : Up(t, u)[k] = x}
  <2>1. CASE S = {}
    <3>1. PICK n \in Nat : Up(t, u)[n] = Root
      BY <1>1 DEF Rooted
    <3>2. n \in 0..n /\ \A j \in 0..n - 1 : Up(t, u)[j] # x
      BY <2>1
    <3>3. Up(new, u)[n] = Up(t, u)[n]
      BY <1>1, <1>2, <2>0, <3>2, SamePath
    <3> QED
      BY <3>1, <3>3
  <2>2. CASE S # {}
    <3>1. PICK k \in S : \A m \in S : k <= m
      <4>1. S \subseteq Nat
        OBVIOUS
      <4> HIDE DEF S
      <4> QED
        BY <2>2, <4>1, LeastExists
    <3>2. k \in Nat /\ k \in 0..k /\ \A j \in 0..k - 1 : Up(t, u)[j] # x
      BY <3>1
    <3>3. Up(new, u)[k] = Up(t, u)[k]
      BY <1>1, <1>2, <2>0, <3>2, SamePath
    <3>4. PICK n \in Nat : Up(new, x)[n] = Root
      BY <1>7
    <3>5. Up(new, u)[k + n] = Up(new, Up(new, u)[k])[n] /\ k + n \in Nat
      BY <1>2, <2>0, <3>2, Onward
    <3> QED
      BY <3>1, <3>3, <3>4, <3>5
  <2> QED
    BY <2>1, <2>2
<1> QED
  BY <1>2, <1>4, <1>6, <1>8, TreeIs DEF new

\* Nothing is below what does not exist.
LEMMA NotAbove ==
  ASSUME NEW t \in Tree, NEW x \in Uid, t[x] = Absent, NEW p \in Entity, p # x, NEW n \in Nat
  PROVE  Up(t, p)[n] # x
<1> SUFFICES ASSUME Up(t, p)[n] = x PROVE FALSE
  OBVIOUS
<1>1. t \in Shape /\ NoOrphan(t)
  BY TreeIs
<1>2. n # 0
  BY <1>1, UpDef
<1>3. n - 1 \in Nat /\ (n - 1) + 1 = n
  BY <1>2
<1> DEFINE y == Up(t, p)[n - 1]
<1>4. y \in Entity /\ x = ParentOf(t, y)
  <2>1. y \in Entity /\ Up(t, p)[(n - 1) + 1] = ParentOf(t, y)
    BY <1>1, <1>3, UpDef
  <2> QED
    BY <1>3, <2>1
<1>5. y \in Uid /\ t[y] = x
  BY <1>4, SentinelAssumption DEF ParentOf, Entity
<1> QED
  BY <1>1, <1>5 DEF NoOrphan
-----------------------------------------------------------------------------
Typed ==
  /\ parent \in Tree /\ audit \in {None, "ok", "denied", "error"}
  /\ call \in Call \cup {None}

Deciding(c) == c.phase \in {"check", "filter"}

\* What c has still to decide, and what its phase and its reply say of it.
DutySound(c) ==
  /\ Deciding(c) => /\ (c.at = None <=> c.todo = <<>>)
                    /\ Members(c.todo) \subseteq Members(c.uids)
  /\ c.phase = "check" =>
       /\ c.uids \in Targets[c.tool] /\ c.dropped = {} /\ c.kept \subseteq Members(c.uids)
       /\ Allowed # {} => Members(c.uids) \subseteq c.kept \cup Members(c.todo)
       /\ ~c.acted /\ c.reply = None
  /\ c.phase = "filter" => c.todo # <<>> /\ c.tool = "search" /\ c.acted
  /\ (c.acted /\ c.tool # "search" /\ Allowed # {}) => Members(c.uids) \subseteq c.kept

RecordSound(c) ==
  /\ c.phase = "done" => c.acted
  /\ c.phase = "denied" => ~c.acted
  /\ c.reply # None =>
       /\ c.phase \in {"done", "filter"} => c.reply = "200"
       /\ c.phase = "denied" <=> \/ c.reply = "403"
                                 \/ c.reply = "400" /\ c.tool = "search"

\* c has noted what was inside and what outside while the tree was t.
Watched(t, c) ==
  \A v \in Members(c.uids) : IF Inside(t, v) THEN v \in c.inside ELSE v \in c.outside

WatchSound(c, now) ==
  /\ Deciding(c) => Watched(now, c)
  /\ Deciding(c) /\ c.changes = 0 => \A v \in c.inside : Inside(now, v)
  /\ c.changes <= 1 /\ Allowed # {} => c.kept \subseteq c.inside
  /\ c.changes <= 1 => c.dropped \subseteq c.outside

\* The walk has come up the path of its target in t, none of it allowed.
Along(t, c) ==
  /\ c.at = Up(t, Head(c.todo))[c.steps]
  /\ c.seen = {Up(t, Head(c.todo))[i] : i \in 0..c.steps - 1}
  /\ c.seen \cap Allowed = {}

\* That is a path of the tree now, or of the one before the only change, which was
\* behind the walk.
WalkSound(c, now) ==
  /\ Cardinality(c.seen) = c.steps
  /\ (Deciding(c) /\ c.todo # <<>> /\ c.changes <= 1) =>
       \E t \in Tree : /\ Along(t, c) /\ Watched(t, c)
                       /\ \/ t = now
                          \/ c.changes = 1 /\ \E x \in c.seen : AlikeBut(t, now, x)

CallSound(c, now) ==
  DutySound(c) /\ RecordSound(c) /\ WatchSound(c, now) /\ WalkSound(c, now)

IInv == Typed /\ (call # None => CallSound(call, parent))
-----------------------------------------------------------------------------
LEMMA MembersOf ==
  ASSUME NEW S, NEW s \in Seq(S)
  PROVE  /\ Members(s) \subseteq S /\ Members(<<>>) = {}
         /\ s # <<>> => /\ Head(s) \in S /\ Head(s) \in Members(s) /\ Tail(s) \in Seq(S)
                        /\ Members(s) = {Head(s)} \cup Members(Tail(s))
<1>1. Members(s) \subseteq S /\ Members(<<>>) = {}
  BY DEF Members
<1>2. ASSUME s # <<>>
      PROVE  /\ Head(s) \in S /\ Head(s) \in Members(s) /\ Tail(s) \in Seq(S)
             /\ Members(s) = {Head(s)} \cup Members(Tail(s))
  <2>1. /\ Len(s) \in Nat /\ Len(s) > 0 /\ Head(s) = s[1] /\ Tail(s) \in Seq(S)
        /\ Len(Tail(s)) = Len(s) - 1
        /\ \A i \in 1..Len(s) - 1 : Tail(s)[i] = s[i + 1]
    BY <1>2
  <2>2. Head(s) \in S /\ Head(s) \in Members(s)
    BY <2>1 DEF Members
  <2>3. Members(Tail(s)) \subseteq Members(s)
    <3> SUFFICES ASSUME NEW i \in DOMAIN Tail(s) PROVE Tail(s)[i] \in Members(s)
      BY DEF Members
    <3>1. i \in 1..Len(s) - 1 /\ i + 1 \in DOMAIN s
      BY <2>1
    <3> QED
      BY <2>1, <3>1 DEF Members
  <2>4. Members(s) \subseteq {Head(s)} \cup Members(Tail(s))
    <3> SUFFICES ASSUME NEW i \in DOMAIN s, i # 1 PROVE s[i] \in Members(Tail(s))
      BY <2>1 DEF Members
    <3>1. i - 1 \in 1..Len(s) - 1 /\ (i - 1) + 1 = i /\ i - 1 \in DOMAIN Tail(s)
      BY <2>1
    <3>2. Tail(s)[i - 1] = s[i]
      BY <2>1, <3>1
    <3> QED
      BY <3>1, <3>2 DEF Members
  <2> QED
    BY <2>1, <2>2, <2>3, <2>4
<1> QED
  BY <1>1, <1>2

\* The tools and what may be their arguments.
LEMMA TargetsAre ==
  /\ DOMAIN Targets = {"use", "create", "move", "copy", "read_text", "search"}
  /\ DOMAIN Guarded = {"search", "read_text"}
  /\ \A tool \in DOMAIN Targets : Targets[tool] \subseteq Seq(Entity)
  /\ Targets["search"] = {<<>>}
  /\ \A us \in Targets["create"] : 1 \in DOMAIN us /\ us[1] \in Entity
  /\ \A us \in Targets["move"] \cup Targets["copy"] :
       {1, 2} \subseteq DOMAIN us /\ us[1] \in Entity /\ us[2] \in Entity
<1>1. /\ DOMAIN Targets = {"use", "create", "move", "copy", "read_text", "search"}
      /\ DOMAIN Guarded = {"search", "read_text"}
  BY DEF Targets, Guarded
<1>2. Targets["search"] = {<<>>} /\ Targets["search"] \subseteq Seq(Entity)
  BY DEF Targets
<1>3. /\ Targets["use"] = {<<u>> : u \in Entity} /\ Targets["create"] = {<<u>> : u \in Entity}
      /\ Targets["read_text"] = {<<u>> : u \in Entity}
  BY DEF Targets
<1>4. Targets["move"] = Entity \X Entity /\ Targets["copy"] = Entity \X Entity
  BY DEF Targets
<1>5. \A us \in {<<u>> : u \in Entity} : us \in Seq(Entity) /\ 1 \in DOMAIN us /\ us[1] \in Entity
  <2> SUFFICES ASSUME NEW v \in Entity
               PROVE  <<v>> \in Seq(Entity) /\ 1 \in DOMAIN <<v>> /\ <<v>>[1] = v
    BY Zenon
  <2> QED
    OBVIOUS
<1>6. ASSUME NEW us \in Entity \X Entity
      PROVE  us \in Seq(Entity) /\ {1, 2} \subseteq DOMAIN us /\ us[1] \in Entity /\ us[2] \in Entity
  <2>1. PICK v \in Entity, w \in Entity : us = <<v, w>>
    OBVIOUS
  <2>2. Len(<<v, w>>) = 2 /\ <<v, w>> \in Seq(Entity)
    OBVIOUS
  <2>3. DOMAIN us = 1..2 /\ us[1] = v /\ us[2] = w /\ us \in Seq(Entity)
    BY <2>1, <2>2
  <2> QED
    BY <2>3
<1> QED
  BY <1>1, <1>2, <1>3, <1>4, <1>5, <1>6

\* What a new walk rests on.
LEMMA WalkBegins ==
  ASSUME NEW c \in Call, NEW todo \in Seq(Entity), NEW now \in Tree
  PROVE  /\ Walk(c, todo) \in Call
         /\ Walk(c, todo) = [c EXCEPT !.todo = todo, !.seen = {}, !.steps = 0,
                                      !.at = IF todo = <<>> THEN None ELSE Head(todo)]
         /\ Watched(now, c) => WalkSound(Walk(c, todo), now)
         /\ Walk(c, todo).at = None <=> todo = <<>>
<1> DEFINE at == IF todo = <<>> THEN None ELSE Head(todo)
           w == [c EXCEPT !.todo = todo, !.seen = {}, !.steps = 0, !.at = at]
<1>1. at \in Entity \cup {None} /\ (at = None <=> todo = <<>>)
  BY MembersOf, SentinelAssumption
<1>2. Walk(c, todo) = w
  BY DEF Walk
<1> HIDE DEF at
<1>3. /\ w \in Call /\ w.at = at /\ w.todo = todo /\ w.seen = {} /\ w.steps = 0
      /\ w.uids = c.uids /\ w.inside = c.inside /\ w.outside = c.outside
  <2>1. 0 \in 0..MaxDepth /\ {} \in SUBSET Uid
    BY DepthAssumption
  <2>2. w \in Call
    BY <1>1, <2>1 DEF Call
  <2>3. w.at = at /\ w.todo = todo /\ w.seen = {} /\ w.steps = 0
    BY DEF Call
  <2>4. w.uids = c.uids /\ w.inside = c.inside /\ w.outside = c.outside
    BY DEF Call
  <2> QED
    BY <2>2, <2>3, <2>4
<1> HIDE DEF w
<1>4. ASSUME Watched(now, c) PROVE WalkSound(w, now)
  <2>1. Cardinality(w.seen) = w.steps
    BY <1>3, FS_EmptySet
  <2>2. Watched(now, w)
    BY <1>3, <1>4 DEF Watched
  <2>3. ASSUME todo # <<>> PROVE Along(now, w)
    <3>1. Head(todo) \in Entity /\ now \in Shape
      BY <2>3, MembersOf, TreeIs
    <3>2. Up(now, Head(todo))[0] = Head(todo)
      BY <3>1, UpDef
    <3>3. 0..0 - 1 = {}
      OBVIOUS
    <3> QED
      BY <1>3, <2>3, <3>2, <3>3 DEF Along, at
  <2> QED
    BY <1>3, <2>1, <2>2, <2>3 DEF WalkSound
<1> QED
  BY <1>1, <1>2, <1>3, <1>4 DEF w, at

\* What a call notes as it begins to check, or to filter, us.
LEMMA WatchIs ==
  ASSUME NEW c \in Call, NEW us \in Seq(Entity)
  PROVE  /\ Watch(c, us) \in Call
         /\ Watch(c, us) = [c EXCEPT !.uids = us, !.changes = 0,
                                     !.inside = {u \in Members(us) : Inside(parent, u)},
                                     !.outside = {u \in Members(us) : ~Inside(parent, u)}]
         /\ Watched(parent, Watch(c, us))
         /\ \A v \in Watch(c, us).inside : Inside(parent, v)
<1> DEFINE in == {u \in Members(us) : Inside(parent, u)}
           out == {u \in Members(us) : ~Inside(parent, u)}
           w == [c EXCEPT !.uids = us, !.changes = 0, !.inside = in, !.outside = out]
<1>1. Watch(c, us) = w
  BY DEF Watch
<1>2. in \in SUBSET Entity /\ out \in SUBSET Entity /\ 0 \in 0..2
  BY MembersOf
<1>3. /\ \A v \in in : Inside(parent, v)
      /\ \A v \in Members(us) : IF Inside(parent, v) THEN v \in in ELSE v \in out
  OBVIOUS
<1> HIDE DEF in, out
<1>4. w \in Call
  BY <1>2 DEF Call
<1>5. w.uids = us /\ w.inside = in /\ w.outside = out
  BY DEF Call
<1> QED
  BY <1>1, <1>3, <1>4, <1>5 DEF Watched, in, out

LEMMA Initially == Init => IInv
BY DEF Init, IInv, Typed

LEMMA BeginStep ==
  ASSUME IInv, NEW tool \in DOMAIN Targets, NEW us \in Targets[tool], Begin(tool, us)
  PROVE  IInv'
<1> DEFINE c == [tool |-> tool, uids |-> us, todo |-> <<>>, at |-> None,
                 steps |-> 0, seen |-> {}, kept |-> {}, dropped |-> {},
                 phase |-> "check", acted |-> FALSE, changes |-> 0,
                 reply |-> None, inside |-> {}, outside |-> {}]
           w == Watch(c, us)
           e == Walk(w, ToCheck(us))
<1>1. call' = e /\ parent' = parent /\ audit' = audit
  BY DEF Begin
<1>2. us \in Seq(Entity) /\ ToCheck(us) \in Seq(Entity)
  BY TargetsAre DEF ToCheck
<1>3. c \in Call
  <2>1. 0 \in 0..MaxDepth /\ 0 \in 0..2 /\ "check" \in Phase /\ <<>> \in Seq(Entity)
    BY DepthAssumption DEF Phase
  <2> QED
    BY <1>2, <2>1 DEF Call
<1>4. /\ w \in Call /\ Watched(parent, w)
      /\ \A v \in w.inside : Inside(parent, v)
      /\ w = [c EXCEPT !.uids = us, !.changes = 0,
                       !.inside = {u \in Members(us) : Inside(parent, u)},
                       !.outside = {u \in Members(us) : ~Inside(parent, u)}]
  BY <1>2, <1>3, WatchIs
<1>5. /\ w.tool = tool /\ w.uids = us /\ w.phase = "check" /\ w.kept = {} /\ w.dropped = {}
      /\ w.acted = FALSE /\ w.reply = None
  BY <1>4
<1> HIDE DEF c, w
<1>6. /\ e \in Call /\ WalkSound(e, parent) /\ (e.at = None <=> ToCheck(us) = <<>>)
      /\ e = [w EXCEPT !.todo = ToCheck(us), !.seen = {}, !.steps = 0,
                       !.at = IF ToCheck(us) = <<>> THEN None ELSE Head(ToCheck(us))]
  BY <1>2, <1>4, WalkBegins DEF IInv, Typed
<1>7. /\ e.tool = tool /\ e.uids = us /\ e.phase = "check" /\ e.kept = {} /\ e.dropped = {}
      /\ e.acted = FALSE /\ e.reply = None
  <2>1. e.tool = w.tool /\ e.uids = w.uids /\ e.phase = w.phase
    BY <1>4, <1>6 DEF Call
  <2>2. e.kept = w.kept /\ e.dropped = w.dropped /\ e.acted = w.acted /\ e.reply = w.reply
    BY <1>4, <1>6 DEF Call
  <2> QED
    BY <1>5, <2>1, <2>2
<1>8. e.todo = ToCheck(us) /\ e.inside = w.inside /\ e.outside = w.outside
  BY <1>4, <1>6 DEF Call
<1> HIDE DEF e
<1>9. DutySound(e)
  <2>1. Members(ToCheck(us)) \subseteq Members(us) /\ (Allowed # {} => ToCheck(us) = us)
    BY <1>2, MembersOf DEF ToCheck
  <2> QED
    BY <1>6, <1>7, <1>8, <2>1 DEF DutySound
<1>10. RecordSound(e)
  BY <1>7 DEF RecordSound
<1>11. WatchSound(e, parent)
  BY <1>4, <1>5, <1>7, <1>8 DEF WatchSound, Watched
<1> QED
  BY <1>1, <1>6, <1>9, <1>10, <1>11 DEF IInv, Typed, CallSound

\* A call that has come to an end has nothing left to watch.
LEMMA Stopped ==
  ASSUME NEW c \in Call, NEW e, NEW now, NEW later, CallSound(c, now), ~Deciding(e),
         e.seen = c.seen, e.steps = c.steps, e.kept = c.kept, e.changes = c.changes,
         e.inside = c.inside, e.outside = c.outside,
         e.dropped = c.dropped
  PROVE  WatchSound(e, later) /\ WalkSound(e, later)
BY DEF CallSound, WatchSound, WalkSound

LEMMA RaiseStep == ASSUME IInv, Raise PROVE IInv' /\ call' \in Call
<1> DEFINE e == [call EXCEPT !.phase = "error"]
<1>1. call' = e /\ call # None /\ parent' = parent /\ audit' = audit /\ Deciding(call)
  BY DEF Raise, Ready, Asking, Walking, Deciding
<1>2. call \in Call /\ CallSound(call, parent)
  BY <1>1 DEF IInv, Typed
<1>3. e \in Call
  BY <1>2 DEF Call, Phase
<1>4. /\ e.phase = "error" /\ e.acted = call.acted /\ e.reply = call.reply
      /\ e.tool = call.tool /\ e.uids = call.uids /\ e.kept = call.kept
  BY <1>2 DEF Call
<1>5. /\ e.seen = call.seen /\ e.steps = call.steps /\ e.changes = call.changes
      /\ e.inside = call.inside /\ e.outside = call.outside /\ e.dropped = call.dropped
  BY <1>2 DEF Call
<1> HIDE DEF e
<1>6. WatchSound(e, parent) /\ WalkSound(e, parent)
  <2>1. ~Deciding(e)
    BY <1>4 DEF Deciding
  <2> QED
    BY <1>2, <1>4, <1>5, <2>1, Stopped
<1>7. DutySound(e)
  BY <1>2, <1>4 DEF CallSound, DutySound, Deciding
<1>8. RecordSound(e)
  BY <1>1, <1>2, <1>4 DEF CallSound, DutySound, RecordSound, Deciding
<1> QED
  BY <1>1, <1>3, <1>6, <1>7, <1>8 DEF IInv, Typed, CallSound

LEMMA ToolRefusesStep == ASSUME IInv, ToolRefuses PROVE IInv' /\ call' \in Call
<1> DEFINE e == [call EXCEPT !.phase = "denied"]
<1>1. /\ call' = e /\ call # None /\ parent' = parent /\ audit' = audit
      /\ call.phase = "check" /\ call.tool = "use"
  BY DEF ToolRefuses, Ready
<1>2. call \in Call /\ CallSound(call, parent)
  BY <1>1 DEF IInv, Typed
<1>3. e \in Call
  BY <1>2 DEF Call, Phase
<1>4. /\ e.phase = "denied" /\ e.acted = call.acted /\ e.reply = call.reply
      /\ e.tool = call.tool /\ e.uids = call.uids /\ e.kept = call.kept
  BY <1>2 DEF Call
<1>5. /\ e.seen = call.seen /\ e.steps = call.steps /\ e.changes = call.changes
      /\ e.inside = call.inside /\ e.outside = call.outside /\ e.dropped = call.dropped
  BY <1>2 DEF Call
<1> HIDE DEF e
<1>6. WatchSound(e, parent) /\ WalkSound(e, parent)
  <2>1. ~Deciding(e)
    BY <1>4 DEF Deciding
  <2> QED
    BY <1>2, <1>4, <1>5, <2>1, Stopped
<1>7. DutySound(e) /\ RecordSound(e)
  BY <1>1, <1>2, <1>4 DEF CallSound, DutySound, RecordSound, Deciding
<1> QED
  BY <1>1, <1>3, <1>6, <1>7 DEF IInv, Typed, CallSound

LEMMA ReturnStep == ASSUME IInv, Return PROVE IInv'
<1>1. call' = None /\ parent' = parent /\ audit' = Result(call) /\ call # None
      /\ call.phase \in {"done", "denied", "error"}
  BY DEF Return
<1> QED
  BY <1>1 DEF IInv, Typed, Result
-----------------------------------------------------------------------------
\* The walk goes on: along the same path, for it has not passed what was changed.
LEMMA ClimbStep == ASSUME IInv, Climb PROVE IInv' /\ call' \in Call
<1> DEFINE c == call
           h == Head(call.todo)
           e == [call EXCEPT !.at = ParentOf(parent, call.at), !.steps = @ + 1,
                             !.seen = @ \cup {call.at}]
<1>1. /\ call' = e /\ parent' = parent /\ audit' = audit /\ c # None /\ Deciding(c)
      /\ c.at # None /\ ~Accepts(c) /\ ~Rejects(c)
  BY DEF Climb, Asking, Walking, Deciding
<1>2. c \in Call /\ CallSound(c, parent) /\ parent \in Tree /\ parent \in Shape
  BY <1>1, TreeIs DEF IInv, Typed
<1>3. /\ c.at \in Entity /\ c.steps \in 0..MaxDepth /\ c.seen \in SUBSET Uid
      /\ c.todo \in Seq(Entity) /\ c.todo # <<>>
  BY <1>1, <1>2 DEF Call, CallSound, DutySound
<1>4. /\ c.at \notin Allowed /\ c.at \notin c.seen /\ c.at \in Uid
      /\ c.steps + 1 \in 0..MaxDepth /\ c.steps \in Nat
  BY <1>1, <1>3, DepthAssumption DEF Accepts, Rejects, Cut, Entity
<1>5. h \in Entity /\ ParentOf(parent, c.at) \in Entity
  BY <1>2, <1>3, MembersOf, ParentType
<1>6. e \in Call
  BY <1>2, <1>3, <1>4, <1>5 DEF Call
<1>7. e.at = ParentOf(parent, c.at) /\ e.steps = c.steps + 1 /\ e.seen = c.seen \cup {c.at}
  BY <1>2 DEF Call
<1>8. /\ e.uids = c.uids /\ e.todo = c.todo /\ e.tool = c.tool /\ e.phase = c.phase
      /\ e.kept = c.kept /\ e.dropped = c.dropped
  BY <1>2 DEF Call
<1>9. /\ e.acted = c.acted /\ e.reply = c.reply /\ e.changes = c.changes
      /\ e.inside = c.inside /\ e.outside = c.outside
  BY <1>2 DEF Call
<1> HIDE DEF e, c
<1>10. DutySound(e) /\ RecordSound(e)
  <2>1. e.at # None
    BY <1>5, <1>7, SentinelAssumption
  <2>2. DutySound(e)
    BY <1>1, <1>2, <1>3, <1>8, <1>9, <2>1 DEF CallSound, DutySound, Deciding
  <2>3. RecordSound(e)
    BY <1>2, <1>8, <1>9 DEF CallSound, RecordSound
  <2> QED
    BY <2>2, <2>3
<1>11. WatchSound(e, parent)
  BY <1>2, <1>8, <1>9 DEF CallSound, WatchSound, Watched, Deciding
<1>12. Cardinality(e.seen) = e.steps
  <2>1. IsFiniteSet(c.seen)
    BY <1>3, FS_Subset, AllowedAssumption
  <2>2. Cardinality(c.seen) = c.steps
    BY <1>2 DEF CallSound, WalkSound
  <2> QED
    BY <1>4, <1>7, <2>1, <2>2, FS_AddElement
<1>13. ASSUME c.changes <= 1
       PROVE  \E t \in Tree : /\ Along(t, e) /\ Watched(t, e)
                              /\ \/ t = parent
                                 \/ e.changes = 1 /\ \E x \in e.seen : AlikeBut(t, parent, x)
  <2>1. PICK t \in Tree : /\ Along(t, c) /\ Watched(t, c)
                          /\ \/ t = parent
                             \/ c.changes = 1 /\ \E x \in c.seen : AlikeBut(t, parent, x)
    BY <1>1, <1>2, <1>3, <1>13 DEF CallSound, WalkSound
  <2>2. t \in Shape
    BY TreeIs
  <2>3. ParentOf(parent, c.at) = ParentOf(t, c.at)
    BY <1>4, <2>1 DEF ParentOf, AlikeBut
  <2>4. c.at = Up(t, h)[c.steps] /\ c.seen = {Up(t, h)[i] : i \in 0..c.steps - 1}
    BY <2>1 DEF Along, c
  <2>5. e.at = Up(t, h)[e.steps]
    <3>1. Up(t, h)[c.steps + 1] = ParentOf(t, Up(t, h)[c.steps])
      BY <1>4, <1>5, <2>2, UpDef
    <3> QED
      BY <1>7, <2>3, <2>4, <3>1
  <2>6. e.seen = {Up(t, h)[i] : i \in 0..e.steps - 1}
    <3>1. 0..e.steps - 1 = (0..c.steps - 1) \cup {c.steps}
      BY <1>4, <1>7
    <3> QED
      BY <1>7, <2>4, <3>1
  <2>7. Along(t, e)
    BY <1>4, <1>7, <1>8, <2>1, <2>5, <2>6 DEF Along, c
  <2>8. Watched(t, e)
    BY <1>8, <1>9, <2>1 DEF Watched
  <2> QED
    BY <1>7, <1>9, <2>1, <2>7, <2>8
<1> QED
  BY <1>1, <1>2, <1>6, <1>9, <1>10, <1>11, <1>12, <1>13 DEF IInv, Typed, CallSound, WalkSound

\* With one change at most since the check began, the walk does not lie:
\* what it accepts was inside at some moment, ...
LEMMA Accepted ==
  ASSUME NEW c \in Call, NEW now \in Tree, CallSound(c, now), Deciding(c), c.todo # <<>>,
         c.changes <= 1, Accepts(c)
  PROVE  Head(c.todo) \in c.inside
<1>1. PICK t \in Tree : Along(t, c) /\ Watched(t, c)
  BY DEF CallSound, WalkSound
<1>2. Head(c.todo) \in Members(c.uids)
  <2>1. c.todo \in Seq(Entity) /\ Members(c.todo) \subseteq Members(c.uids)
    BY DEF Call, CallSound, DutySound
  <2> QED
    BY <2>1, MembersOf
<1>3. Inside(t, Head(c.todo))
  <2>1. c.steps \in 0..MaxDepth - 1
    BY DepthAssumption DEF Call, Accepts
  <2> QED
    BY <1>1, <2>1 DEF Along, Accepts, Inside
<1> QED
  BY <1>1, <1>2, <1>3 DEF Watched

\* ... and what it rejects was outside.
LEMMA Rejected ==
  ASSUME NEW c \in Call, NEW now \in Tree, CallSound(c, now), Deciding(c), c.todo # <<>>,
         c.changes <= 1, Rejects(c)
  PROVE  Head(c.todo) \in c.outside
<1> DEFINE h == Head(c.todo)
<1>1. PICK t \in Tree : Along(t, c) /\ Watched(t, c)
  BY DEF CallSound, WalkSound
<1>2. h \in Members(c.uids) /\ h \in Entity
  <2>1. c.todo \in Seq(Entity) /\ Members(c.todo) \subseteq Members(c.uids)
    BY DEF Call, CallSound, DutySound
  <2> QED
    BY <2>1, MembersOf
<1>3. t \in Shape /\ Rooted(t)
  BY TreeIs
<1>4. /\ c.steps \in Nat /\ c.steps <= MaxDepth /\ c.seen \in SUBSET Uid
      /\ c.at = Up(t, h)[c.steps] /\ c.seen = {Up(t, h)[i] : i \in 0..c.steps - 1}
      /\ c.seen \cap Allowed = {}
  BY <1>1, DepthAssumption DEF Along, Call
<1> HIDE DEF h
<1>5. \A i \in Nat : i < c.steps => Up(t, h)[i] \in c.seen /\ Up(t, h)[i] \notin Allowed
  <2>1. \A i \in Nat : i < c.steps => i \in 0..c.steps - 1
    BY <1>4
  <2> QED
    BY <1>4, <2>1
<1>6. c.steps = MaxDepth \/ c.at = Root
  <2> SUFFICES ASSUME c.at \in c.seen PROVE FALSE
    BY DEF Rejects, Cut
  <2>1. PICK i \in 0..c.steps - 1 : c.at = Up(t, h)[i]
    BY <1>4
  <2>2. i \in Nat /\ i < c.steps
    BY <1>4
  <2> QED
    BY <1>2, <1>3, <1>4, <2>1, <2>2, NoReturn
<1>7. ASSUME NEW n \in 0..MaxDepth - 1 PROVE Up(t, h)[n] \notin Allowed
  <2>1. n \in Nat /\ n < MaxDepth
    BY DepthAssumption
  <2>2. CASE n < c.steps
    BY <1>5, <2>1, <2>2
  <2>3. CASE c.steps <= n
    <3>1. c.at = Root
      BY <1>4, <1>6, <2>1, <2>3
    <3>2. Up(t, h)[n] = Root
      BY <1>2, <1>3, <1>4, <2>1, <2>3, <3>1, RootStays
    <3> QED
      BY <3>2, AllowedAssumption, SentinelAssumption
  <2> QED
    BY <1>4, <2>1, <2>2, <2>3
<1>8. ~Inside(t, h)
  BY <1>7 DEF Inside
<1> QED
  BY <1>1, <1>2, <1>8 DEF Watched, h

\* The first target of c is decided: c1 is c with that noted.
LEMMA Decided ==
  ASSUME NEW c \in Call, NEW now \in Tree, CallSound(c, now), Deciding(c), c.todo # <<>>,
         NEW c1 \in Call, c1.tool = c.tool, c1.uids = c.uids, c1.todo = c.todo,
         c1.phase = c.phase, c1.acted = c.acted, c1.changes = c.changes, c1.reply = c.reply,
         c1.inside = c.inside, c1.outside = c.outside,
         c.phase = "check" =>
           c1.dropped = c.dropped /\ c1.kept = c.kept \cup {Head(c.todo)},
         c.changes <= 1 /\ Allowed # {} => c1.kept \subseteq c.inside,
         c.changes <= 1 => c1.dropped \subseteq c.outside
  PROVE  NextTarget(c1) \in Call /\ CallSound(NextTarget(c1), now)
<1> DEFINE phase == IF c1.phase = "filter" /\ Tail(c1.todo) = <<>> THEN "done" ELSE c1.phase
           c2 == [c1 EXCEPT !.phase = phase]
           e == NextTarget(c1)
           todo == Tail(c.todo)
<1>1. /\ c.todo \in Seq(Entity) /\ todo \in Seq(Entity) /\ Head(c.todo) \in Members(c.todo)
      /\ Members(c.todo) = {Head(c.todo)} \cup Members(todo)
  <2>1. c.todo \in Seq(Entity)
    BY DEF Call
  <2> QED
    BY <2>1, MembersOf
<1>2. phase \in Phase
  BY DEF Call, Phase
<1>3. e = Walk(c2, todo)
  BY DEF NextTarget, Call
<1> HIDE DEF phase, todo
<1>4. c2 \in Call
  BY <1>2 DEF Call
<1>5. /\ c2.tool = c.tool /\ c2.uids = c.uids /\ c2.phase = phase /\ c2.acted = c.acted
      /\ c2.changes = c.changes /\ c2.reply = c.reply
  BY DEF Call
<1>6. /\ c2.kept = c1.kept /\ c2.dropped = c1.dropped
      /\ c2.inside = c.inside /\ c2.outside = c.outside
  BY DEF Call
<1> HIDE DEF c2, e
<1>7. Watched(now, c2)
  BY <1>5, <1>6 DEF CallSound, WatchSound, Watched
<1>8. /\ e \in Call /\ WalkSound(e, now) /\ (e.at = None <=> todo = <<>>)
      /\ e = [c2 EXCEPT !.todo = todo, !.seen = {}, !.steps = 0,
                        !.at = IF todo = <<>> THEN None ELSE Head(todo)]
  BY <1>1, <1>3, <1>4, <1>7, WalkBegins
<1>9. /\ e.tool = c2.tool /\ e.uids = c2.uids /\ e.phase = c2.phase /\ e.acted = c2.acted
      /\ e.todo = todo
  BY <1>4, <1>8 DEF Call
<1>10. /\ e.changes = c2.changes /\ e.reply = c2.reply
       /\ e.kept = c2.kept /\ e.dropped = c2.dropped
  BY <1>4, <1>8 DEF Call
<1>11. e.inside = c2.inside /\ e.outside = c2.outside
  BY <1>4, <1>8 DEF Call
<1>12. DutySound(e) /\ RecordSound(e)
  <2>1. CASE c.phase = "check"
    <3>1. e.phase = "check" /\ e.dropped = {} /\ e.kept = c.kept \cup {Head(c.todo)}
      BY <1>5, <1>6, <1>9, <1>10, <2>1 DEF phase, CallSound, DutySound
    <3>2. DutySound(e)
      BY <1>1, <1>5, <1>8, <1>9, <1>10, <2>1, <3>1 DEF CallSound, DutySound, Deciding
    <3>3. RecordSound(e)
      BY <1>5, <1>10, <2>1, <3>1 DEF CallSound, DutySound, RecordSound
    <3> QED
      BY <3>2, <3>3
  <2>2. CASE c.phase = "filter"
    <3>1. /\ e.phase = IF todo = <<>> THEN "done" ELSE "filter"
          /\ e.tool = "search" /\ e.acted
      BY <1>5, <1>9, <2>2 DEF phase, todo, CallSound, DutySound
    <3>2. DutySound(e)
      BY <1>1, <1>5, <1>8, <1>9, <2>2, <3>1 DEF CallSound, DutySound, Deciding
    <3>3. RecordSound(e)
      BY <1>5, <1>9, <1>10, <2>2, <3>1 DEF CallSound, DutySound, RecordSound
    <3> QED
      BY <3>2, <3>3
  <2> QED
    BY <2>1, <2>2 DEF Deciding
<1>13. WatchSound(e, now)
  <2>1. Watched(now, e)
    BY <1>7, <1>9, <1>11 DEF Watched
  <2>2. c.changes = 0 => \A v \in c.inside : Inside(now, v)
    BY DEF CallSound, WatchSound
  <2> QED
    BY <1>5, <1>6, <1>10, <1>11, <2>1, <2>2 DEF WatchSound
<1> QED
  BY <1>8, <1>12, <1>13 DEF CallSound, e

LEMMA AcceptStep == ASSUME IInv, Accept PROVE IInv' /\ call' \in Call
<1> DEFINE c == call
           kept == call.kept \cup {Head(call.todo)}
           c1 == [call EXCEPT !.kept = kept]
<1>1. /\ call' = NextTarget(c1) /\ parent' = parent /\ audit' = audit /\ c # None
      /\ Deciding(c) /\ c.at # None /\ Accepts(c)
  <2>1. c1 = [call EXCEPT !.kept = @ \cup {Head(call.todo)}]
    OBVIOUS
  <2> QED
    BY <2>1 DEF Accept, Walking, Deciding
<1>2. c \in Call /\ CallSound(c, parent) /\ parent \in Tree
  BY <1>1 DEF IInv, Typed
<1>3. c.todo # <<>> /\ Head(c.todo) \in Entity
  <2>1. c.todo \in Seq(Entity) /\ c.todo # <<>>
    BY <1>1, <1>2 DEF Call, CallSound, DutySound
  <2> QED
    BY <2>1, MembersOf
<1>4. kept \in SUBSET Entity
  BY <1>2, <1>3 DEF Call
<1>5. c.changes <= 1 /\ Allowed # {} => kept \subseteq c.inside
  BY <1>1, <1>2, <1>3, Accepted DEF CallSound, WatchSound
<1>6. kept = c.kept \cup {Head(c.todo)}
  OBVIOUS
<1> HIDE DEF kept
<1>7. c1 \in Call
  BY <1>2, <1>4 DEF Call
<1>8. /\ c1.tool = c.tool /\ c1.uids = c.uids /\ c1.todo = c.todo /\ c1.kept = kept
      /\ c1.phase = c.phase /\ c1.acted = c.acted /\ c1.changes = c.changes
  BY <1>2 DEF Call
<1>9. /\ c1.reply = c.reply /\ c1.inside = c.inside /\ c1.outside = c.outside
      /\ c1.dropped = c.dropped
  BY <1>2 DEF Call
<1>10. c.changes <= 1 => c1.dropped \subseteq c.outside
  BY <1>2, <1>9 DEF CallSound, WatchSound
<1> HIDE DEF c1, c
<1>11. NextTarget(c1) \in Call /\ CallSound(NextTarget(c1), parent)
  BY <1>1, <1>2, <1>3, <1>5, <1>6, <1>7, <1>8, <1>9, <1>10, Decided
<1> QED
  BY <1>1, <1>2, <1>11 DEF IInv, Typed

LEMMA RejectStep == ASSUME IInv, Reject PROVE IInv' /\ call' \in Call
<1> DEFINE c == call
           dropped == call.dropped \cup {Head(call.todo)}
           c1 == [call EXCEPT !.dropped = dropped]
           e == [c1 EXCEPT !.phase = "denied"]
<1>1. /\ call' = IF c.phase = "check" THEN e ELSE NextTarget(c1)
      /\ parent' = parent /\ audit' = audit /\ c # None
      /\ Deciding(c) /\ c.at # None /\ Rejects(c)
  <2>1. c1 = [call EXCEPT !.dropped = @ \cup {Head(call.todo)}]
    OBVIOUS
  <2> QED
    BY <2>1 DEF Reject, Walking, Deciding
<1>2. c \in Call /\ CallSound(c, parent) /\ parent \in Tree
  BY <1>1 DEF IInv, Typed
<1>3. c.todo # <<>> /\ Head(c.todo) \in Entity
  <2>1. c.todo \in Seq(Entity) /\ c.todo # <<>>
    BY <1>1, <1>2 DEF Call, CallSound, DutySound
  <2> QED
    BY <2>1, MembersOf
<1>4. dropped \in SUBSET Entity
  BY <1>2, <1>3 DEF Call
<1>5. c.changes <= 1 => dropped \subseteq c.outside
  BY <1>1, <1>2, <1>3, Rejected DEF CallSound, WatchSound
<1> HIDE DEF dropped
<1>6. c1 \in Call
  BY <1>2, <1>4 DEF Call
<1>7. /\ c1.tool = c.tool /\ c1.uids = c.uids /\ c1.todo = c.todo /\ c1.kept = c.kept
      /\ c1.phase = c.phase /\ c1.acted = c.acted /\ c1.changes = c.changes
  BY <1>2 DEF Call
<1>8. /\ c1.reply = c.reply /\ c1.inside = c.inside /\ c1.outside = c.outside
      /\ c1.dropped = dropped
  BY <1>2 DEF Call
<1>9. c1.seen = c.seen /\ c1.steps = c.steps
  BY <1>2 DEF Call
<1>10. c.changes <= 1 /\ Allowed # {} => c1.kept \subseteq c.inside
  BY <1>2, <1>7 DEF CallSound, WatchSound
<1>11. CASE c.phase = "check"
  <2>1. e \in Call
    BY <1>6 DEF Call, Phase
  <2>2. /\ e.phase = "denied" /\ e.acted = c.acted /\ e.reply = c.reply /\ e.tool = c.tool
        /\ e.changes = c.changes /\ e.kept = c.kept
    BY <1>6, <1>7, <1>8 DEF Call
  <2>3. /\ e.seen = c.seen /\ e.steps = c.steps
        /\ e.inside = c.inside /\ e.outside = c.outside /\ e.dropped = dropped
    BY <1>6, <1>8, <1>9 DEF Call
  <2> HIDE DEF e, c1, c
  <2>4. ~Deciding(e)
    BY <2>2 DEF Deciding
  <2>5. WalkSound(e, parent)
    BY <1>2, <2>3, <2>4 DEF CallSound, WalkSound
  <2>6. WatchSound(e, parent)
    BY <1>2, <1>5, <2>2, <2>3, <2>4 DEF CallSound, WatchSound
  <2>7. DutySound(e) /\ RecordSound(e)
    BY <1>2, <1>11, <2>2, <2>4 DEF CallSound, DutySound, RecordSound
  <2> QED
    BY <1>1, <1>2, <1>11, <2>1, <2>5, <2>6, <2>7 DEF IInv, Typed, CallSound
<1>12. CASE c.phase # "check"
  <2> HIDE DEF c1, c
  <2>1. NextTarget(c1) \in Call /\ CallSound(NextTarget(c1), parent)
    BY <1>1, <1>2, <1>3, <1>5, <1>6, <1>7, <1>8, <1>10, <1>12, Decided
  <2> QED
    BY <1>1, <1>2, <1>12, <2>1 DEF IInv, Typed
<1> QED
  BY <1>11, <1>12
-----------------------------------------------------------------------------
LEMMA HitsType == Hits \subseteq Seq(Entity)
<1> SUFFICES ASSUME NEW n \in 0..MaxHits, NEW hits \in [1..MaxHits -> Uid]
             PROVE  SubSeq(hits, 1, n) \in Seq(Entity)
  BY DEF Hits
<1>1. MaxHits \in Nat /\ n \in Nat
  BY DepthAssumption
<1>2. \A i \in 1..n : hits[i] \in Entity
  BY <1>1 DEF Entity
<1>3. SubSeq(hits, 1, n) = [i \in 1..n |-> hits[i]]
  BY <1>1
<1> QED
  BY <1>1, <1>2, <1>3

LEMMA SearchStep == ASSUME IInv, Search PROVE IInv' /\ call' \in Call
<1> DEFINE a == Answered
<1>1. PICK us \in Hits :
        call' = IF Allowed = {} \/ us = <<>> THEN Kept(us)
                ELSE Walk([Watch(Answered, us) EXCEPT !.phase = "filter"], us)
  BY DEF Search
<1>2. /\ parent' = parent /\ audit' = audit /\ call # None
      /\ call.phase = "check" /\ call.tool = "search"
  BY DEF Search, Ready
<1>3. /\ call \in Call /\ CallSound(call, parent) /\ parent \in Tree
      /\ us \in Seq(Entity)
  BY <1>2, HitsType DEF IInv, Typed
<1>4. call.kept = {} /\ call.dropped = {}
  <2>1. call.uids = <<>>
    BY <1>2, <1>3, TargetsAre DEF CallSound, DutySound
  <2>2. Members(call.uids) = {}
    BY <2>1 DEF Members
  <2> QED
    BY <1>2, <1>3, <2>2 DEF CallSound, DutySound
<1>5. a \in Call
  BY <1>3 DEF Call, Answered, Status
<1>6. /\ a.tool = "search" /\ a.acted = TRUE /\ a.reply = "200" /\ a.kept = {} /\ a.dropped = {}
      /\ a.seen = call.seen /\ a.steps = call.steps
  BY <1>2, <1>3, <1>4 DEF Call, Answered
<1> DEFINE w == Watch(a, us)
<1> HIDE DEF a
<1>7. /\ w \in Call /\ Watched(parent, w) /\ (\A v \in w.inside : Inside(parent, v))
      /\ w = [a EXCEPT !.uids = us, !.changes = 0,
                       !.inside = {u \in Members(us) : Inside(parent, u)},
                       !.outside = {u \in Members(us) : ~Inside(parent, u)}]
  BY <1>3, <1>5, WatchIs
<1>8. /\ w.tool = "search" /\ w.acted = TRUE /\ w.reply = "200" /\ w.kept = {} /\ w.dropped = {}
      /\ w.uids = us /\ w.seen = call.seen /\ w.steps = call.steps
  <2>1. w.tool = a.tool /\ w.acted = a.acted /\ w.reply = a.reply /\ w.kept = a.kept
    BY <1>5, <1>7 DEF Call
  <2>2. w.dropped = a.dropped /\ w.uids = us /\ w.seen = a.seen /\ w.steps = a.steps
    BY <1>5, <1>7 DEF Call
  <2> QED
    BY <1>6, <2>1, <2>2
<1>9. Members(us) \subseteq Entity
  BY <1>3, MembersOf
<1>10. CASE Allowed = {} \/ us = <<>>
  <2> DEFINE e == [w EXCEPT !.phase = "done", !.kept = Members(us)]
  <2>1. call' = e
    BY <1>1, <1>10 DEF Kept, a
  <2> HIDE DEF w
  <2>2. e \in Call
    BY <1>7, <1>9 DEF Call, Phase
  <2>3. /\ e.phase = "done" /\ e.kept = Members(us) /\ e.tool = w.tool /\ e.acted = w.acted
        /\ e.reply = w.reply /\ e.dropped = w.dropped /\ e.seen = w.seen /\ e.steps = w.steps
    BY <1>7 DEF Call
  <2> HIDE DEF e
  <2>4. ~Deciding(e)
    BY <2>3 DEF Deciding
  <2>5. DutySound(e) /\ RecordSound(e)
    BY <1>8, <2>3, <2>4 DEF DutySound, RecordSound
  <2>6. WatchSound(e, parent)
    <3>1. Allowed # {} => e.kept = {}
      BY <1>10, <2>3 DEF Members
    <3> QED
      BY <1>8, <2>3, <2>4, <3>1 DEF WatchSound
  <2>7. WalkSound(e, parent)
    BY <1>3, <1>8, <2>3, <2>4 DEF CallSound, WalkSound
  <2> QED
    BY <1>2, <1>3, <2>1, <2>2, <2>5, <2>6, <2>7 DEF IInv, Typed, CallSound
<1>11. CASE Allowed # {} /\ us # <<>>
  <2> DEFINE f == [w EXCEPT !.phase = "filter"]
             e == Walk(f, us)
  <2>1. call' = e
    BY <1>1, <1>11 DEF a
  <2> HIDE DEF w
  <2>2. f \in Call
    BY <1>7 DEF Call, Phase
  <2>3. /\ f.phase = "filter" /\ f.tool = w.tool /\ f.acted = w.acted /\ f.reply = w.reply
        /\ f.uids = w.uids /\ f.kept = w.kept /\ f.dropped = w.dropped
    BY <1>7 DEF Call
  <2>4. f.inside = w.inside /\ f.outside = w.outside
    BY <1>7 DEF Call
  <2> HIDE DEF f
  <2>5. Watched(parent, f)
    BY <1>7, <2>3, <2>4 DEF Watched
  <2>6. /\ e \in Call /\ WalkSound(e, parent) /\ (e.at = None <=> us = <<>>)
        /\ e = [f EXCEPT !.todo = us, !.seen = {}, !.steps = 0,
                         !.at = IF us = <<>> THEN None ELSE Head(us)]
    BY <1>3, <2>2, <2>5, WalkBegins
  <2> HIDE DEF e
  <2>7. /\ e.phase = f.phase /\ e.tool = f.tool /\ e.acted = f.acted /\ e.reply = f.reply
        /\ e.uids = f.uids /\ e.todo = us
    BY <2>2, <2>6 DEF Call
  <2>8. e.kept = f.kept /\ e.dropped = f.dropped /\ e.inside = f.inside /\ e.outside = f.outside
    BY <2>2, <2>6 DEF Call
  <2>9. DutySound(e) /\ RecordSound(e)
    <3>1. /\ e.phase = "filter" /\ e.tool = "search" /\ e.acted /\ e.reply = "200"
          /\ e.uids = us
      BY <1>8, <2>3, <2>7
    <3> QED
      BY <1>11, <2>6, <2>7, <3>1 DEF DutySound, RecordSound, Deciding
  <2>10. WatchSound(e, parent)
    <3>1. Watched(parent, e)
      BY <2>5, <2>7, <2>8 DEF Watched
    <3>2. e.kept = {} /\ e.dropped = {} /\ e.inside = w.inside
      BY <1>8, <2>3, <2>4, <2>8
    <3> QED
      BY <1>7, <3>1, <3>2 DEF WatchSound
  <2> QED
    BY <1>2, <1>3, <2>1, <2>6, <2>9, <2>10 DEF IInv, Typed, CallSound
<1> QED
  BY <1>10, <1>11

LEMMA ReadTextStep == ASSUME IInv, ReadText PROVE IInv' /\ call' \in Call
<1> DEFINE e == [call EXCEPT !.acted = TRUE, !.reply = "200", !.phase = "done"]
<1>1. /\ call' = e /\ parent' = parent /\ audit' = audit /\ call # None
      /\ call.phase = "check" /\ call.tool = "read_text" /\ call.todo = <<>>
  <2>1. [Answered EXCEPT !.phase = "done"] = e
    BY DEF Answered
  <2> QED
    BY <2>1 DEF ReadText, Ready
<1>2. call \in Call /\ CallSound(call, parent)
  BY <1>1 DEF IInv, Typed
<1>3. e \in Call
  BY <1>2 DEF Call, Phase, Status
<1>4. /\ e.phase = "done" /\ e.acted = TRUE /\ e.reply = "200" /\ e.tool = call.tool
      /\ e.uids = call.uids /\ e.kept = call.kept /\ e.dropped = call.dropped
  BY <1>2 DEF Call
<1>5. /\ e.seen = call.seen /\ e.steps = call.steps /\ e.changes = call.changes
      /\ e.inside = call.inside /\ e.outside = call.outside
  BY <1>2 DEF Call
<1> HIDE DEF e
<1>6. ~Deciding(e)
  BY <1>4 DEF Deciding
<1>7. WatchSound(e, parent) /\ WalkSound(e, parent)
  BY <1>2, <1>4, <1>5, <1>6, Stopped
<1>8. DutySound(e) /\ RecordSound(e)
  <2>1. Allowed # {} => Members(call.uids) \subseteq call.kept
    BY <1>1, <1>2 DEF CallSound, DutySound, Members
  <2> QED
    BY <1>4, <1>6, <2>1 DEF DutySound, RecordSound
<1> QED
  BY <1>1, <1>3, <1>7, <1>8 DEF IInv, Typed, CallSound

LEMMA AskedInVainStep == ASSUME IInv, AskedInVain PROVE IInv' /\ call' \in Call
<1>1. /\ call # None /\ call.phase = "check" /\ call.tool \in {"search", "read_text"}
      /\ parent' = parent /\ audit' = audit
  BY TargetsAre DEF AskedInVain, Ready
<1>2. PICK status \in IF Enabled THEN Status \ {"200"} ELSE {None} :
        call' = [call EXCEPT !.reply = status,
                             !.phase = IF Raised(Enabled, status) \in Guarded[call.tool]
                                       THEN "denied" ELSE "error"]
  BY DEF AskedInVain
<1> DEFINE phase == IF Raised(Enabled, status) \in Guarded[call.tool] THEN "denied" ELSE "error"
           e == [call EXCEPT !.reply = status, !.phase = phase]
<1>3. call \in Call /\ CallSound(call, parent)
  BY <1>1 DEF IInv, Typed
<1>4. status \in Status \cup {None} /\ phase \in {"denied", "error"}
  OBVIOUS
<1>5. status # None =>
        (phase = "denied" <=> status = "403" \/ (status = "400" /\ call.tool = "search"))
  <2> SUFFICES ASSUME Enabled, status \in Status \ {"200"}
               PROVE  phase = "denied" <=> status = "403" \/ (status = "400" /\ call.tool = "search")
    OBVIOUS
  <2>1. /\ status = "403" => Raised(Enabled, status) = "TextForbidden"
        /\ status = "400" => Raised(Enabled, status) = "BadRequest"
        /\ status \notin {"403", "400"} =>
             Raised(Enabled, status) \notin {"TextForbidden", "BadRequest"}
    BY DEF Raised, Status
  <2>2. Guarded["search"] = {"TextForbidden", "BadRequest"} /\ Guarded["read_text"] = {"TextForbidden"}
    BY DEF Guarded
  <2> QED
    BY <1>1, <2>1, <2>2
<1> HIDE DEF phase
<1>6. e \in Call
  BY <1>3, <1>4 DEF Call, Phase
<1>7. /\ e.phase = phase /\ e.reply = status /\ e.acted = call.acted /\ e.tool = call.tool
      /\ e.uids = call.uids /\ e.kept = call.kept /\ e.dropped = call.dropped
  BY <1>3 DEF Call
<1>8. /\ e.seen = call.seen /\ e.steps = call.steps /\ e.changes = call.changes
      /\ e.inside = call.inside /\ e.outside = call.outside
  BY <1>3 DEF Call
<1>9. call' = e
  BY <1>2 DEF phase
<1> HIDE DEF e
<1>10. ~Deciding(e)
  BY <1>4, <1>7 DEF Deciding
<1>11. WatchSound(e, parent) /\ WalkSound(e, parent)
  BY <1>3, <1>7, <1>8, <1>10, Stopped
<1>12. DutySound(e) /\ RecordSound(e)
  BY <1>1, <1>3, <1>4, <1>5, <1>7, <1>10 DEF CallSound, DutySound, RecordSound
<1> QED
  BY <1>1, <1>6, <1>9, <1>11, <1>12 DEF IInv, Typed, CallSound
-----------------------------------------------------------------------------
\* The core places at most one entity under a target of the call, and that one is
\* another target, or new.
LEMMA EffectIs ==
  ASSUME parent \in Tree, NEW c \in Call, c.uids \in Targets[c.tool],
         c.tool \notin DOMAIN Guarded, NEW new \in Effects(c)
  PROVE  \/ new = parent
         \/ \E x \in Uid : \E p \in Members(c.uids) :
              /\ p \in Entity /\ Exists(p) /\ new = [parent EXCEPT ![x] = p]
              /\ \A n \in Nat : Up(parent, p)[n] # x
              /\ parent[x] = Absent \/ x \in Members(c.uids)
<1>1. parent \in Shape /\ Rooted(parent)
  BY TreeIs
<1>2. c.tool \in {"use", "create", "move", "copy"}
  BY TargetsAre DEF Call
<1>3. ASSUME NEW p \in Members(c.uids), p \in Entity, Exists(p), new \in Placed(c, p)
      PROVE  \E x \in Uid :
               /\ new = [parent EXCEPT ![x] = p] /\ parent[x] = Absent
               /\ \A n \in Nat : Up(parent, p)[n] # x
  <2>1. PICK x \in Uid \ (Allowed \cup Members(c.uids)) :
          parent[x] = Absent /\ new = [parent EXCEPT ![x] = p]
    BY <1>3 DEF Placed
  <2>2. x # p
    BY <1>3, <2>1
  <2> QED
    BY <1>3, <2>1, <2>2, NotAbove
<1>4. CASE c.tool = "use"
  BY <1>4 DEF Effects
<1>5. CASE c.tool = "create"
  <2>1. c.uids[1] \in Members(c.uids) /\ c.uids[1] \in Entity
    BY <1>5, TargetsAre DEF Members
  <2>2. new \in Placed(c, c.uids[1]) /\ Exists(c.uids[1])
    BY <1>5 DEF Effects
  <2> QED
    BY <1>3, <2>1, <2>2
<1>6. CASE c.tool = "copy"
  <2>1. c.uids[2] \in Members(c.uids) /\ c.uids[2] \in Entity
    BY <1>6, TargetsAre DEF Members
  <2>2. new \in Placed(c, c.uids[2]) /\ Exists(c.uids[2])
    BY <1>6, <2>1 DEF Effects
  <2> QED
    BY <1>3, <2>1, <2>2
<1>7. CASE c.tool = "move"
  <2> DEFINE x == c.uids[1]
             p == c.uids[2]
  <2>1. x \in Members(c.uids) /\ p \in Members(c.uids) /\ x \in Entity /\ p \in Entity
    BY <1>7, TargetsAre DEF Members
  <2>2. /\ x # Root /\ (\A u \in Members(c.uids) : Exists(u)) /\ ~Under(parent, p, x)
        /\ new = [parent EXCEPT ![x] = p]
    BY <1>7 DEF Effects
  <2> HIDE DEF x, p
  <2>3. \A n \in Nat : Up(parent, p)[n] # x
    BY <1>1, <2>1, <2>2, Short
  <2>4. x \in Uid
    BY <2>1, <2>2 DEF Entity
  <2> QED
    BY <2>1, <2>2, <2>3, <2>4
<1> QED
  BY <1>2, <1>4, <1>5, <1>6, <1>7

LEMMA ActStep == ASSUME IInv, Act PROVE IInv' /\ call' \in Call
<1>1. /\ call # None /\ call.phase = "check" /\ call.todo = <<>>
      /\ call.tool \notin DOMAIN Guarded /\ parent' \in Effects(call) /\ audit' = audit
  BY DEF Act, Ready
<1>2. PICK phase \in {"done", "error"} : call' = [call EXCEPT !.phase = phase, !.acted = TRUE]
  BY DEF Act
<1> DEFINE e == [call EXCEPT !.phase = phase, !.acted = TRUE]
<1>3. call \in Call /\ CallSound(call, parent) /\ parent \in Tree
  BY <1>1 DEF IInv, Typed
<1>4. call.uids \in Targets[call.tool] /\ call.reply = None
  BY <1>1, <1>3 DEF CallSound, DutySound
<1>5. parent' \in Tree
  <2>1. CASE parent' = parent
    BY <1>3, <2>1
  <2>2. CASE parent' # parent
    <3>1. PICK new \in Effects(call) : new = parent'
      BY <1>1
    <3>2. \E x \in Uid : \E p \in Members(call.uids) :
            /\ p \in Entity /\ Exists(p) /\ new = [parent EXCEPT ![x] = p]
            /\ \A n \in Nat : Up(parent, p)[n] # x
            /\ parent[x] = Absent \/ x \in Members(call.uids)
      BY <1>1, <1>3, <1>4, <2>2, <3>1, EffectIs, Zenon
    <3>3. PICK x \in Uid, p \in Members(call.uids) :
            /\ p \in Entity /\ Exists(p) /\ new = [parent EXCEPT ![x] = p]
            /\ \A n \in Nat : Up(parent, p)[n] # x
      BY <3>2, Zenon
    <3>4. new \in Tree
      BY <1>3, <3>3, Placing, Zenon DEF Exists
    <3> QED
      BY <3>1, <3>4
  <2> QED
    BY <2>1, <2>2
<1>6. e \in Call
  BY <1>3 DEF Call, Phase
<1>7. /\ e.phase = phase /\ e.acted = TRUE /\ e.reply = call.reply /\ e.tool = call.tool
      /\ e.uids = call.uids /\ e.kept = call.kept /\ e.dropped = call.dropped
  BY <1>3 DEF Call
<1>8. /\ e.seen = call.seen /\ e.steps = call.steps /\ e.changes = call.changes
      /\ e.inside = call.inside /\ e.outside = call.outside
  BY <1>3 DEF Call
<1> HIDE DEF e
<1>9. ~Deciding(e)
  BY <1>7 DEF Deciding
<1>10. WatchSound(e, parent') /\ WalkSound(e, parent')
  BY <1>3, <1>7, <1>8, <1>9, Stopped
<1>11. DutySound(e) /\ RecordSound(e)
  <2>1. Allowed # {} => Members(call.uids) \subseteq call.kept
    BY <1>1, <1>3 DEF CallSound, DutySound, Members
  <2> QED
    BY <1>4, <1>7, <1>9, <2>1 DEF DutySound, RecordSound
<1>12. call' = e
  BY <1>2 DEF e
<1> QED
  BY <1>1, <1>3, <1>5, <1>6, <1>10, <1>11, <1>12 DEF IInv, Typed, CallSound

\* Another door makes a change: the walk is then along a path of the new tree, or
\* the change is behind it and it stays on its path of the old one.
LEMMA OthersChangeStep ==
  ASSUME IInv, NEW u \in Uid, NEW p \in Entity \cup {Absent}, OthersChange(u, p)
  PROVE  IInv' /\ (call # None => call' \in Call)
<1> DEFINE new == [parent EXCEPT ![u] = p]
           S == Members(call.uids)
           changes == IF call.changes < 2 THEN call.changes + 1 ELSE call.changes
           in == call.inside \cup {v \in S : Inside(new, v)}
           out == call.outside \cup {v \in S : ~Inside(new, v)}
           e == [call EXCEPT !.changes = changes, !.inside = in, !.outside = out]
<1>1. /\ parent' = new /\ new \in Tree /\ audit' = audit
      /\ call # None => Deciding(call) /\ call' = e
      /\ call = None => call' = None
  BY DEF OthersChange, Deciding
<1>2. CASE call = None
  BY <1>1, <1>2 DEF IInv, Typed
<1>3. CASE call # None
  <2> DEFINE c == call
  <2>1. c \in Call /\ CallSound(c, parent) /\ Deciding(c) /\ parent \in Tree
    BY <1>1, <1>3 DEF IInv, Typed
  <2>2. parent \in Shape /\ new \in Shape /\ AlikeBut(parent, new, u)
    BY <1>1, <2>1, TreeIs DEF AlikeBut, Shape
  <2>3. changes \in 0..2 /\ (changes <= 1 => c.changes = 0 /\ changes = 1) /\ changes # 0
    BY <2>1 DEF Call
  <2>4. in \in SUBSET Entity /\ out \in SUBSET Entity
    <3>1. c.uids \in Seq(Entity) /\ c.inside \subseteq Entity /\ c.outside \subseteq Entity
      BY <2>1 DEF Call
    <3> QED
      BY <3>1, MembersOf
  <2>5. /\ c.inside \subseteq in /\ c.outside \subseteq out
        /\ \A v \in Members(c.uids) : IF Inside(new, v) THEN v \in in ELSE v \in out
    OBVIOUS
  <2> HIDE DEF changes, in, out, new
  <2>6. e \in Call
    BY <2>1, <2>3, <2>4 DEF Call
  <2>7. /\ e.changes = changes /\ e.inside = in /\ e.outside = out
        /\ e.uids = c.uids /\ e.todo = c.todo /\ e.tool = c.tool /\ e.at = c.at
    BY <2>1 DEF Call
  <2>8. /\ e.phase = c.phase /\ e.acted = c.acted /\ e.reply = c.reply
        /\ e.kept = c.kept /\ e.dropped = c.dropped /\ e.seen = c.seen /\ e.steps = c.steps
    BY <2>1 DEF Call
  <2> HIDE DEF e, c
  <2>9. DutySound(e) /\ RecordSound(e)
    <3>1. DutySound(e)
      BY <2>1, <2>7, <2>8 DEF CallSound, DutySound, Deciding
    <3>2. RecordSound(e)
      BY <2>1, <2>7, <2>8 DEF CallSound, RecordSound
    <3> QED
      BY <3>1, <3>2
  <2>10. Watched(new, e)
    BY <2>5, <2>7 DEF Watched
  <2>11. WatchSound(e, new)
    <3>1. e.changes <= 1 => c.changes <= 1
      BY <2>3, <2>7
    <3>2. WatchSound(c, parent)
      BY <2>1 DEF CallSound
    <3>3. e.changes <= 1 /\ Allowed # {} => e.kept \subseteq e.inside
      BY <2>5, <2>7, <2>8, <3>1, <3>2 DEF WatchSound
    <3>4. e.changes <= 1 => e.dropped \subseteq e.outside
      BY <2>5, <2>7, <2>8, <3>1, <3>2 DEF WatchSound
    <3> QED
      BY <2>3, <2>7, <2>10, <3>3, <3>4 DEF WatchSound
  <2>12. WalkSound(e, new)
    <3>1. Cardinality(e.seen) = e.steps
      BY <2>1, <2>8 DEF CallSound, WalkSound
    <3>2. ASSUME c.changes = 0, changes = 1, c.todo # <<>>
          PROVE  \E t \in Tree : /\ Along(t, e) /\ Watched(t, e)
                                 /\ \/ t = new
                                    \/ e.changes = 1 /\ \E x \in e.seen : AlikeBut(t, new, x)
      <4>1. Along(parent, c) /\ Watched(parent, c)
        BY <2>1, <3>2 DEF CallSound, WalkSound
      <4>2. Along(parent, e)
        BY <2>7, <2>8, <4>1 DEF Along
      <4>3. CASE u \in e.seen
        <5>1. Watched(parent, e)
          BY <2>5, <2>7, <4>1 DEF Watched
        <5> QED
          BY <2>1, <2>2, <2>7, <3>2, <4>2, <4>3, <5>1
      <4>4. CASE u \notin e.seen
        <5> DEFINE h == Head(e.todo)
        <5>1. h \in Entity /\ e.steps \in Nat
          <6>1. e.todo \in Seq(Entity) /\ e.todo # <<>> /\ e.steps \in 0..MaxDepth
            BY <2>6, <2>7, <3>2 DEF Call
          <6> QED
            BY <6>1, MembersOf, DepthAssumption
        <5>2. \A i \in 0..e.steps - 1 : Up(parent, h)[i] # u
          BY <4>2, <4>4 DEF Along
        <5>3. \A i \in 0..e.steps : Up(new, h)[i] = Up(parent, h)[i]
          BY <2>2, <5>1, <5>2, SamePath
        <5>4. e.steps \in 0..e.steps /\ \A i \in 0..e.steps - 1 : i \in 0..e.steps
          BY <5>1
        <5>5. Along(new, e)
          <6>1. e.at = Up(new, h)[e.steps]
            BY <4>2, <5>3, <5>4 DEF Along
          <6>2. {Up(new, h)[i] : i \in 0..e.steps - 1} = {Up(parent, h)[i] : i \in 0..e.steps - 1}
            BY <5>3, <5>4
          <6> QED
            BY <4>2, <6>1, <6>2 DEF Along
        <5> QED
          BY <1>1, <2>10, <5>5
      <4> QED
        BY <4>3, <4>4
    <3> QED
      BY <2>3, <2>7, <3>1, <3>2 DEF WalkSound
  <2> QED
    BY <1>1, <1>3, <2>6, <2>9, <2>11, <2>12 DEF IInv, Typed, CallSound
<1> QED
  BY <1>2, <1>3

LEMMA Consecution == IInv /\ [Next]_vars => IInv'
<1> SUFFICES ASSUME IInv, [Next]_vars PROVE IInv'
  OBVIOUS
<1>1. ASSUME NEW tool \in DOMAIN Targets, NEW us \in Targets[tool], Begin(tool, us) PROVE IInv'
  BY <1>1, BeginStep
<1>2. ASSUME NEW u \in Uid, NEW p \in Entity \cup {Absent}, OthersChange(u, p) PROVE IInv'
  BY <1>2, OthersChangeStep
<1>3. CASE Climb
  BY <1>3, ClimbStep
<1>4. CASE Accept
  BY <1>4, AcceptStep
<1>5. CASE Reject
  BY <1>5, RejectStep
<1>6. CASE Act
  BY <1>6, ActStep
<1>7. CASE Search
  BY <1>7, SearchStep
<1>8. CASE ReadText
  BY <1>8, ReadTextStep
<1>9. CASE AskedInVain
  BY <1>9, AskedInVainStep
<1>10. CASE Raise
  BY <1>10, RaiseStep
<1>11. CASE ToolRefuses
  BY <1>11, ToolRefusesStep
<1>12. CASE Return
  BY <1>12, ReturnStep
<1>13. CASE UNCHANGED vars
  BY <1>13 DEF vars, IInv, Typed
<1> QED
  BY <1>1, <1>2, <1>3, <1>4, <1>5, <1>6, <1>7, <1>8, <1>9, <1>10, <1>11, <1>12, <1>13 DEF Next

LEMMA Invariance == Spec => []IInv
BY Initially, Consecution, PTL DEF Spec

\* The tree stays a tree, and a walk ends: it has seen as many entities as it took
\* steps, and took no more than MaxDepth.
THEOREM TypeCorrect == Spec => []TypeOK
<1>1. IInv => TypeOK
  <2> SUFFICES ASSUME IInv PROVE TypeOK
    OBVIOUS
  <2>1. parent \in Tree /\ audit \in {None, "ok", "denied", "error"}
    BY DEF IInv, Typed
  <2>2. ASSUME call # None PROVE call \in Call /\ Cardinality(call.seen) = call.steps
    BY <2>2 DEF IInv, Typed, CallSound, WalkSound
  <2> QED
    BY <2>1, <2>2 DEF TypeOK, Call
<1> QED
  BY <1>1, Invariance, PTL

\* For every tree, allow-list and depth: with one change by others at most, whatever
\* a tool acted on and whatever search returns was inside at a moment of the check.
THEOREM GrantsInside == Spec => []GrantedWasInside
<1>1. IInv => GrantedWasInside
  <2> SUFFICES ASSUME IInv, call # None, Allowed # {}, call.changes <= 1
               PROVE  Granted(call) \subseteq call.inside
    BY DEF GrantedWasInside
  <2>1. CallSound(call, parent)
    BY DEF IInv
  <2>2. call.kept \subseteq call.inside
    BY <2>1 DEF CallSound, WatchSound
  <2>3. call.acted /\ call.tool # "search" => Members(call.uids) \subseteq call.kept
    BY <2>1 DEF CallSound, DutySound
  <2> QED
    BY <2>2, <2>3 DEF Granted
<1> QED
  BY <1>1, Invariance, PTL

\* And whatever it refused or left out was outside at a moment of the check: neither
\* the depth limit nor the cycle guard errs.
THEOREM RefusesOutside == Spec => []RefusedWasOutside
<1>1. IInv => RefusedWasOutside
  BY DEF IInv, CallSound, WatchSound, RefusedWasOutside
<1> QED
  BY <1>1, Invariance, PTL

\* A path that comes to an allowed entity is one of ancestry.
LEMMA IsBeneath ==
  ASSUME NEW t \in Tree, NEW u \in Entity, NEW n \in Nat, Up(t, u)[n] \in Allowed
  PROVE  Beneath(t, u)
<1>1. t \in Shape /\ Rooted(t)
  BY TreeIs
<1> QED
  BY <1>1, Short DEF Beneath

LEMMA ConfinedStep ==
  ASSUME IInv, IInv', Allowed # {}, call.changes = 0, Act, NEW u \in Uid, parent'[u] # parent[u]
  PROVE  (parent[u] # Absent => Beneath(parent, u)) /\ Beneath(parent', u)
<1>1. /\ call # None /\ call.phase = "check" /\ call.todo = <<>>
      /\ call.tool \notin DOMAIN Guarded /\ parent' \in Effects(call)
  BY DEF Act, Ready
<1>2. call \in Call /\ CallSound(call, parent) /\ parent \in Tree /\ parent' \in Tree
  BY <1>1 DEF IInv, Typed
<1>3. call.uids \in Targets[call.tool]
  BY <1>1, <1>2 DEF CallSound, DutySound
<1>4. \A v \in Members(call.uids) : Inside(parent, v)
  <2>1. Members(call.uids) \subseteq call.kept
    BY <1>1, <1>2 DEF CallSound, DutySound, Members
  <2>2. call.kept \subseteq call.inside /\ \A v \in call.inside : Inside(parent, v)
    BY <1>1, <1>2 DEF CallSound, WatchSound, Deciding
  <2> QED
    BY <2>1, <2>2
<1>5. PICK x \in Uid, p \in Members(call.uids) :
        /\ p \in Entity /\ Exists(p) /\ parent' = [parent EXCEPT ![x] = p]
        /\ \A n \in Nat : Up(parent, p)[n] # x
        /\ parent[x] = Absent \/ x \in Members(call.uids)
  <2>1. PICK new \in Effects(call) : new = parent'
    BY <1>1
  <2>2. new # parent
    BY <2>1
  <2>3. \E x \in Uid : \E p \in Members(call.uids) :
          /\ p \in Entity /\ Exists(p) /\ new = [parent EXCEPT ![x] = p]
          /\ \A n \in Nat : Up(parent, p)[n] # x
          /\ parent[x] = Absent \/ x \in Members(call.uids)
    BY <1>1, <1>2, <1>3, <2>2, EffectIs, Zenon
  <2> QED
    BY <2>1, <2>3
<1>6. u = x
  BY <1>2, <1>5 DEF Tree
<1>7. ASSUME NEW v, Inside(parent, v) PROVE \E n \in Nat : Up(parent, v)[n] \in Allowed
  BY <1>7, DepthAssumption DEF Inside
<1>8. parent[u] # Absent => Beneath(parent, u)
  BY <1>2, <1>4, <1>5, <1>6, <1>7, IsBeneath DEF Entity
<1>9. Beneath(parent', u)
  <2>1. PICK n \in Nat : Up(parent, p)[n] \in Allowed
    BY <1>4, <1>5, <1>7
  <2>2. Up(parent', u)[n + 1] = Up(parent, p)[n]
    BY <1>2, <1>5, <1>6, Placing DEF Exists
  <2>3. u \in Entity /\ n + 1 \in Nat
    BY DEF Entity
  <2> QED
    BY <1>2, <2>1, <2>2, <2>3, IsBeneath
<1> QED
  BY <1>8, <1>9

\* Under an allow-list a tool moves or adds nothing but inside the allowed subtrees.
THEOREM StaysConfined == Spec => Confined
<1> DEFINE A == (call # None /\ Allowed # {} /\ call.changes = 0 /\ Act)
                  => \A u \in Uid : parent'[u] # parent[u] =>
                       /\ parent[u] # Absent => Beneath(parent, u)
                       /\ Beneath(parent', u)
<1>1. IInv /\ IInv' => A
  BY ConfinedStep
<1> QED
  BY <1>1, Invariance, PTL DEF Confined

\* The audit record tells what happened, whichever way the call came to its end.
THEOREM AuditTrue == Spec => AuditHonest
<1> DEFINE A == (call # None /\ call' = None)
                  => /\ audit' = "ok" => call.acted
                     /\ audit' = "denied" => ~call.acted
                     /\ call.reply # None =>
                          /\ audit' = "ok" => call.reply = "200"
                          /\ (audit' = "denied") <=>
                               \/ call.reply = "403"
                               \/ call.reply = "400" /\ call.tool = "search"
<1>1. IInv /\ [Next]_vars => [A]_vars
  <2> SUFFICES ASSUME IInv, Next, call # None, call' = None PROVE A
    OBVIOUS
  <2>1. CallSound(call, parent)
    BY DEF IInv
  <2>2. CASE Return
    <3>1. audit' = Result(call) /\ call.phase \in {"done", "denied", "error"}
      BY <2>2 DEF Return
    <3> QED
      BY <2>1, <3>1 DEF CallSound, RecordSound, Result
  <2>3. CASE ~Return
    <3>1. call' \in Call
      <4>1. ASSUME NEW u \in Uid, NEW p \in Entity \cup {Absent}, OthersChange(u, p)
            PROVE  call' \in Call
        BY <4>1, OthersChangeStep
      <4>2. ~(\E tool \in DOMAIN Targets : \E us \in Targets[tool] : Begin(tool, us))
        BY DEF Begin
      <4> QED
        BY <2>3, <4>1, <4>2, ClimbStep, AcceptStep, RejectStep, RaiseStep, ToolRefusesStep,
           SearchStep, ReadTextStep, AskedInVainStep, ActStep DEF Next
    <3> QED
      BY <3>1, SentinelAssumption
  <2> QED
    BY <2>2, <2>3
<1> QED
  BY <1>1, Invariance, PTL DEF Spec, AuditHonest
=============================================================================
