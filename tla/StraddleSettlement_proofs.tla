--------------------- MODULE StraddleSettlement_proofs ---------------------
(***************************************************************************)
(* Where every leg fills the desk settles, for every number of books,      *)
(* strikes, trades and queued orders.                                      *)
(***************************************************************************)
EXTENDS StraddleSettlement, StraddleTrading_proofs, FiniteSetTheorems

USE BooksAssumption, FlatAssumption, QtyAssumption, BoundsAssumption, FillsAssumption

----------------------------------------------------------------------------
(* Chains *)

\* Publishing an order that starts from the believed leg lengthens the chain
\* of its side; the chains of other sides and books stay.
LEMMA LinkAppend ==
  ASSUME NEW q \in Seq(Order), NEW o \in Order, NEW left, NEW b, NEW s, NEW h, NEW k, NEW k2,
         Linked(q, left, b, s, h, k),
         q = <<>> => s \in left,
         IF o.book = b /\ s \in o.legs THEN Before(o, s) = k /\ k2 = After(o, s) ELSE k2 = k
  PROVE  Linked(Append(q, o), left, b, s, h, k2)
<1> DEFINE n == Len(q)
           r == Append(q, o)
           T(i) == Touches(q, left, i, b, s)
           U(i) == Touches(r, left, i, b, s)
           own == o.book = b /\ s \in o.legs
<1>1. n \in Nat /\ Len(r) = n + 1 /\ r[n + 1] = o /\ \A i \in 1..n : r[i] = q[i]
  OBVIOUS
<1>2. \A i \in 1..n : U(i) <=> T(i)
  BY <1>1 DEF Touches
<1>3. U(n + 1) <=> own
  <2>1. n + 1 = 1 => s \in left
    BY <1>1
  <2> QED
    BY <1>1, <2>1 DEF Touches
<1>4. /\ (\A i \in 1..n : ~T(i)) => h = k
      /\ \A i \in 1..n : T(i) /\ (\A j \in 1..(i-1) : ~T(j)) => h = Before(q[i], s)
      /\ \A i \in 1..n : T(i) /\ (\A j \in (i+1)..n : ~T(j)) => After(q[i], s) = k
      /\ \A i \in 1..n, j \in 1..n :
           i < j /\ T(i) /\ T(j) /\ (\A m \in (i+1)..(j-1) : ~T(m))
             => After(q[i], s) = Before(q[j], s)
  BY DEF Linked
<1> HIDE DEF n, r, T, U, own
<1>5. IF own THEN Before(o, s) = k /\ k2 = After(o, s) ELSE k2 = k
  BY DEF own
<1>6. (\A i \in 1..(n+1) : ~U(i)) => h = k2
  BY <1>1, <1>2, <1>3, <1>4, <1>5
<1>7. ASSUME NEW i \in 1..(n+1), U(i), \A j \in 1..(i-1) : ~U(j)
      PROVE  h = Before(r[i], s)
  <2>1. CASE i \in 1..n
    BY <1>1, <1>2, <1>4, <1>7, <2>1
  <2>2. CASE i = n + 1
    BY <1>1, <1>2, <1>3, <1>4, <1>5, <1>7, <2>2
  <2> QED
    BY <1>1, <2>1, <2>2
<1>8. ASSUME NEW i \in 1..(n+1), U(i), \A j \in (i+1)..(n+1) : ~U(j)
      PROVE  After(r[i], s) = k2
  <2>1. CASE i \in 1..n
    BY <1>1, <1>2, <1>3, <1>4, <1>5, <1>8, <2>1
  <2>2. CASE i = n + 1
    BY <1>1, <1>3, <1>5, <1>8, <2>2
  <2> QED
    BY <1>1, <2>1, <2>2
<1>9. ASSUME NEW i \in 1..(n+1), NEW j \in 1..(n+1), i < j, U(i), U(j),
             \A m \in (i+1)..(j-1) : ~U(m)
      PROVE  After(r[i], s) = Before(r[j], s)
  <2>1. CASE j \in 1..n
    BY <1>1, <1>2, <1>4, <1>9, <2>1
  <2>2. CASE j = n + 1
    BY <1>1, <1>2, <1>3, <1>4, <1>5, <1>9, <2>2
  <2> QED
    BY <1>1, <2>1, <2>2
<1> QED
  BY <1>1, <1>6, <1>7, <1>8, <1>9 DEF Linked, U, r

\* A chain depends on the unexecuted sides of the head only through the orders
\* that touch it.
LEMMA LinkSame ==
  ASSUME NEW q \in Seq(Order), NEW left, NEW left2, NEW b, NEW s, NEW h, NEW k,
         Linked(q, left, b, s, h, k),
         \A i \in 1..Len(q) : Touches(q, left2, i, b, s) <=> Touches(q, left, i, b, s)
  PROVE  Linked(q, left2, b, s, h, k)
BY DEF Linked

\* Executing side s of the head order takes its link off the chain.
LEMMA LinkHead ==
  ASSUME NEW q \in Seq(Order), NEW left, NEW b, NEW s, NEW h, NEW k,
         Linked(q, left, b, s, h, k),
         q # <<>>, Touches(q, left, 1, b, s)
  PROVE  Linked(q, left \ {s}, b, s, After(q[1], s), k)
<1> DEFINE n == Len(q)
           T(i) == Touches(q, left, i, b, s)
           U(i) == Touches(q, left \ {s}, i, b, s)
<1>1. n \in Nat /\ n >= 1
  OBVIOUS
<1>2. ~U(1) /\ T(1) /\ \A i \in 2..n : U(i) <=> T(i)
  BY <1>1 DEF Touches
<1>4. /\ \A i \in 1..n : T(i) /\ (\A j \in (i+1)..n : ~T(j)) => After(q[i], s) = k
      /\ \A i \in 1..n, j \in 1..n :
           i < j /\ T(i) /\ T(j) /\ (\A m \in (i+1)..(j-1) : ~T(m))
             => After(q[i], s) = Before(q[j], s)
  BY DEF Linked
<1> HIDE DEF n, T, U
<1>6. (\A i \in 1..n : ~U(i)) => After(q[1], s) = k
  BY <1>1, <1>2, <1>4
<1>7. ASSUME NEW i \in 1..n, U(i), \A j \in 1..(i-1) : ~U(j)
      PROVE  After(q[1], s) = Before(q[i], s)
  <2>1. i # 1
    BY <1>2, <1>7
  <2>2. i \in 2..n /\ T(i) /\ 1 < i /\ \A m \in (1+1)..(i-1) : ~T(m)
    BY <1>1, <1>2, <1>7, <2>1
  <2>3. After(q[1], s) = Before(q[i], s)
    BY <1>1, <1>2, <1>4, <2>2
  <2> QED
    BY <2>3
<1>8. ASSUME NEW i \in 1..n, U(i), \A j \in (i+1)..n : ~U(j)
      PROVE  After(q[i], s) = k
  <2>1. i \in 2..n
    BY <1>1, <1>2, <1>8
  <2> QED
    BY <1>1, <1>2, <1>4, <1>8, <2>1
<1>9. ASSUME NEW i \in 1..n, NEW j \in 1..n, i < j, U(i), U(j),
             \A m \in (i+1)..(j-1) : ~U(m)
      PROVE  After(q[i], s) = Before(q[j], s)
  <2>1. i \in 2..n /\ j \in 2..n
    BY <1>1, <1>2, <1>9
  <2> QED
    BY <1>1, <1>2, <1>4, <1>9, <2>1
<1> QED
  BY <1>1, <1>6, <1>7, <1>8, <1>9 DEF Linked, U, n

\* An order with no side left for the account may leave the queue.
LEMMA LinkTail ==
  ASSUME NEW q \in Seq(Order), NEW left, NEW b, NEW s \in Sides, NEW h, NEW k,
         Linked(q, left, b, s, h, k), q # <<>>, ~Touches(q, left, 1, b, s)
  PROVE  Linked(Tail(q), Sides, b, s, h, k)
<1> DEFINE n == Len(q)
           r == Tail(q)
           T(i) == Touches(q, left, i, b, s)
           U(i) == Touches(r, Sides, i, b, s)
<1>1. n \in Nat /\ n >= 1 /\ Len(r) = n - 1 /\ \A i \in 1..(n-1) : r[i] = q[i + 1]
  OBVIOUS
<1>2. ~T(1) /\ \A i \in 1..(n-1) : U(i) <=> T(i + 1)
  BY <1>1 DEF Touches
<1>4. /\ (\A i \in 1..n : ~T(i)) => h = k
      /\ \A i \in 1..n : T(i) /\ (\A j \in 1..(i-1) : ~T(j)) => h = Before(q[i], s)
      /\ \A i \in 1..n : T(i) /\ (\A j \in (i+1)..n : ~T(j)) => After(q[i], s) = k
      /\ \A i \in 1..n, j \in 1..n :
           i < j /\ T(i) /\ T(j) /\ (\A m \in (i+1)..(j-1) : ~T(m))
             => After(q[i], s) = Before(q[j], s)
  BY DEF Linked
<1> HIDE DEF n, r, T, U
<1>5. \A i \in 2..n : i - 1 \in 1..(n-1) /\ (i - 1) + 1 = i
  BY <1>1
<1>6. (\A i \in 1..(n-1) : ~U(i)) => h = k
  <2>1. SUFFICES ASSUME \A i \in 1..(n-1) : ~U(i) PROVE \A i \in 1..n : ~T(i)
    BY <1>4
  <2>2. TAKE i \in 1..n
  <2>3. CASE i = 1
    BY <1>2, <2>3
  <2>4. CASE i # 1
    <3>1. i \in 2..n
      BY <1>1, <2>4
    <3> QED
      BY <1>2, <1>5, <2>1, <3>1
  <2> QED
    BY <2>3, <2>4
<1>7. ASSUME NEW i \in 1..(n-1), U(i), \A j \in 1..(i-1) : ~U(j)
      PROVE  h = Before(r[i], s)
  <2>1. i + 1 \in 1..n /\ T(i + 1)
    BY <1>1, <1>2, <1>7
  <2>2. ASSUME NEW j \in 1..i PROVE ~T(j)
    <3>1. CASE j = 1
      BY <1>2, <3>1
    <3>2. CASE j # 1
      <4>1. j - 1 \in 1..(i-1) /\ j - 1 \in 1..(n-1) /\ (j - 1) + 1 = j
        BY <1>1, <3>2
      <4> QED
        BY <1>2, <1>7, <4>1
    <3> QED
      BY <3>1, <3>2
  <2>3. (i + 1) - 1 = i
    OBVIOUS
  <2> QED
    BY <1>1, <1>4, <2>1, <2>2, <2>3
<1>8. ASSUME NEW i \in 1..(n-1), U(i), \A j \in (i+1)..(n-1) : ~U(j)
      PROVE  After(r[i], s) = k
  <2>1. i + 1 \in 1..n /\ T(i + 1)
    BY <1>1, <1>2, <1>8
  <2>2. ASSUME NEW j \in ((i+1)+1)..n PROVE ~T(j)
    <3>1. j - 1 \in (i+1)..(n-1) /\ j - 1 \in 1..(n-1) /\ (j - 1) + 1 = j
      BY <1>1
    <3> QED
      BY <1>2, <1>8, <3>1
  <2> QED
    BY <1>1, <1>4, <2>1, <2>2
<1>9. ASSUME NEW i \in 1..(n-1), NEW j \in 1..(n-1), i < j, U(i), U(j),
             \A m \in (i+1)..(j-1) : ~U(m)
      PROVE  After(r[i], s) = Before(r[j], s)
  <2>1. i + 1 \in 1..n /\ j + 1 \in 1..n /\ i + 1 < j + 1 /\ T(i + 1) /\ T(j + 1)
    BY <1>1, <1>2, <1>9
  <2>2. ASSUME NEW m \in ((i+1)+1)..((j+1)-1) PROVE ~T(m)
    <3>1. m - 1 \in (i+1)..(j-1) /\ m - 1 \in 1..(n-1) /\ (m - 1) + 1 = m
      BY <1>1
    <3> QED
      BY <1>2, <1>9, <3>1
  <2> QED
    BY <1>1, <1>4, <2>1, <2>2
<1> QED
  BY <1>1, <1>6, <1>7, <1>8, <1>9 DEF Linked, U, r

\* The same of the chain that starts at an account.
LEMMA ChainAppend ==
  ASSUME NEW q \in Seq(Order), NEW o \in Order, NEW left, NEW b, NEW s, NEW a, NEW k, NEW k2,
         Chained(q, left, b, s, a, k),
         q = <<>> => s \in left,
         IF o.book = b /\ s \in o.legs THEN Before(o, s) = k /\ k2 = After(o, s) ELSE k2 = k
  PROVE  Chained(Append(q, o), left, b, s, a, k2)
<1>1. PICK h \in Strikes \cup {Flat} : Within(a, h) /\ Linked(q, left, b, s, h, k)
  BY DEF Chained
<1>2. Linked(Append(q, o), left, b, s, h, k2)
  BY <1>1, LinkAppend
<1> QED
  BY <1>1, <1>2 DEF Chained

\* An account depends on the orders that touch its side only.
LEMMA ChainSame ==
  ASSUME NEW q \in Seq(Order), NEW left, NEW left2, NEW b, NEW s, NEW a, NEW k,
         Chained(q, left, b, s, a, k),
         \A i \in 1..Len(q) : Touches(q, left2, i, b, s) <=> Touches(q, left, i, b, s)
  PROVE  Chained(q, left2, b, s, a, k)
<1>1. PICK h \in Strikes \cup {Flat} : Within(a, h) /\ Linked(q, left, b, s, h, k)
  BY DEF Chained
<1>2. Linked(q, left2, b, s, h, k)
  BY <1>1, LinkSame
<1> QED
  BY <1>1, <1>2 DEF Chained

\* The account moves one link down the chain, if it gets from where the order
\* expects it to where the order leaves it.
LEMMA ChainHead ==
  ASSUME NEW q \in Seq(Order), NEW left, NEW b, NEW s \in Sides, NEW a, NEW c, NEW k,
         Chained(q, left, b, s, a, k), q # <<>>, Touches(q, left, 1, b, s),
         Within(a, Before(q[1], s)) => Within(c, After(q[1], s))
  PROVE  Chained(q, left \ {s}, b, s, c, k)
<1>1. PICK h \in Strikes \cup {Flat} : Within(a, h) /\ Linked(q, left, b, s, h, k)
  BY DEF Chained
<1>2. 1 \in 1..Len(q) /\ q[1] \in Order
  BY DEF Touches
<1>3. h = Before(q[1], s)
  BY <1>1, <1>2 DEF Linked
<1>4. Linked(q, left \ {s}, b, s, After(q[1], s), k)
  BY <1>1, LinkHead
<1>5. After(q[1], s) \in Strikes \cup {Flat}
  BY <1>2 DEF After, Order, Pairs
<1> QED
  BY <1>1, <1>3, <1>4, <1>5 DEF Chained

\* An order with no side left for the account may leave the queue.
LEMMA ChainTail ==
  ASSUME NEW q \in Seq(Order), NEW left, NEW b, NEW s \in Sides, NEW a, NEW k,
         Chained(q, left, b, s, a, k), q # <<>>, ~Touches(q, left, 1, b, s)
  PROVE  Chained(Tail(q), Sides, b, s, a, k)
<1>1. PICK h \in Strikes \cup {Flat} : Within(a, h) /\ Linked(q, left, b, s, h, k)
  BY DEF Chained
<1>2. Linked(Tail(q), Sides, b, s, h, k)
  BY <1>1, LinkTail
<1> QED
  BY <1>1, <1>2 DEF Chained

\* _do_leg with a full fill takes an account from where an order expects it to
\* where it leaves it.
LEMMA LegSettles ==
  ASSUME NEW a \in [Strikes -> Int], NEW o \in Order, NEW s \in Sides, Within(a, Before(o, s))
  PROVE  Within([a EXCEPT ![o.strikes[s]] = @ + Signed(o, Qty)], After(o, s))
<1>1. o.strikes[s] \in Strikes /\ o.action \in {"ENTRY", "EXIT"}
  BY DEF Order, Pairs
<1>2. CASE o.action = "ENTRY"
  BY <1>1, <1>2 DEF Within, ShortOf, Before, After, Signed
<1>3. CASE o.action = "EXIT"
  BY <1>1, <1>3 DEF Within, ShortOf, Before, After, Signed
<1> QED
  BY <1>1, <1>2, <1>3

\* An entry that is not sent leaves the account short of no more than it would.
LEMMA DropSettles ==
  ASSUME NEW a \in [Strikes -> Int], NEW o \in Order, NEW s \in Sides, o.action = "ENTRY",
         "run_off" \in Faults, Within(a, Before(o, s))
  PROVE  Within(a, After(o, s))
BY DEF Within, Before, After

----------------------------------------------------------------------------
(* The legs an account has still to reach *)

\* e lists the numbers of T, from the least.
Lists(e, n, T) ==
  /\ e \in [1..n -> T]
  /\ \A i, j \in 1..n : i < j => e[i] < e[j]
  /\ \A t \in T : \E i \in 1..n : e[i] = t

\* The turn of a number grows with it.
LEMMA TurnGrows ==
  ASSUME NEW T \in SUBSET Int, IsFiniteSet(T), NEW i \in T
  PROVE  /\ Turn(T, i) \in 1..Cardinality(T)
         /\ \A j \in T : j < i => Turn(T, j) < Turn(T, i)
<1> DEFINE S(k) == {j \in T : j <= k}
<1>1. \A k : S(k) \in SUBSET T /\ IsFiniteSet(S(k))
  BY FS_Subset
<1>2. \A k : /\ Cardinality(S(k)) \in Nat /\ Cardinality(T) \in Nat
             /\ Cardinality(S(k)) <= Cardinality(T)
  BY <1>1, FS_Subset, FS_CardinalityType
<1>3. Cardinality(S(i)) # 0
  <2>1. i \in S(i)
    OBVIOUS
  <2> QED
    BY <1>1, <2>1, FS_EmptySet
<1>4. ASSUME NEW j \in T, j < i PROVE Cardinality(S(j)) < Cardinality(S(i))
  <2>1. S(j) \in SUBSET S(i) /\ i \in S(i) /\ i \notin S(j)
    <3>1. i \in Int /\ j \in Int /\ \A k \in T : k \in Int
      OBVIOUS
    <3>2. \A k \in T : k <= j => k <= i
      BY <1>4, <3>1
    <3>3. ~(i <= j) /\ i <= i
      BY <1>4, <3>1
    <3> QED
      BY <3>2, <3>3
  <2>2. Cardinality(S(j)) <= Cardinality(S(i)) /\ Cardinality(S(i)) # Cardinality(S(j))
    <3> HIDE DEF S
    <3> QED
      BY <1>1, <2>1, FS_Subset
  <2> QED
    BY <1>2, <2>2
<1> QED
  BY <1>2, <1>3, <1>4 DEF Turn

\* Nth lists a finite set.
LEMMA NthLists ==
  ASSUME NEW T \in SUBSET Int, IsFiniteSet(T)
  PROVE  /\ Cardinality(T) \in Nat
         /\ Lists([m \in 1..Cardinality(T) |-> Nth(T, m)], Cardinality(T), T)
<1> DEFINE n == Cardinality(T)
           f == [i \in T |-> Turn(T, i)]
           e == [m \in 1..n |-> Nth(T, m)]
<1>1. n \in Nat
  BY FS_CardinalityType
<1>2. f \in [T -> 1..n] /\ \A i, j \in T : i < j => f[i] < f[j]
  BY TurnGrows
<1>3. f \in Injection(T, 1..n)
  <2>1. \A i, j \in T : f[i] = f[j] => i = j
    <3>1. ASSUME NEW i \in T, NEW j \in T, f[i] = f[j] PROVE i = j
      <4>1. ~(i < j) /\ ~(j < i)
        <5>1. f[i] \in Int /\ f[j] \in Int
          BY <1>2
        <5> HIDE DEF f
        <5> QED
          BY <1>2, <3>1, <5>1
      <4> QED
        BY <4>1
    <3> QED
      BY <3>1
  <2> QED
    BY <1>2, <2>1 DEF Injection, IsInjective
<1>4. f \in Surjection(T, 1..n)
  <2>1. IsFiniteSet(1..n) /\ Cardinality(1..n) = n
    BY <1>1, FS_Interval
  <2> HIDE DEF f
  <2> QED
    BY <1>3, <2>1, FS_Injection
<1>5. \A m \in 1..n : Nth(T, m) \in T /\ f[Nth(T, m)] = m
  <2>1. ASSUME NEW m \in 1..n PROVE \E i \in T : Turn(T, i) = m
    BY <1>4 DEF Surjection
  <2> QED
    BY <2>1 DEF Nth
<1> HIDE DEF f
<1>6. \A i, j \in 1..n : i < j => e[i] < e[j]
  <2>1. ASSUME NEW i \in 1..n, NEW j \in 1..n, i < j PROVE e[i] < e[j]
    <3>1. e[i] \in T /\ e[j] \in T /\ f[e[i]] = i /\ f[e[j]] = j
      BY <1>5
    <3> HIDE DEF e
    <3>2. e[i] # e[j] /\ e[i] \in Int /\ e[j] \in Int
      <4>1. i \in Int /\ j \in Int /\ i # j
        BY <2>1
      <4>2. \A t \in T : t \in Int
        OBVIOUS
      <4> QED
        BY <3>1, <4>1, <4>2
    <3>3. ASSUME e[j] < e[i] PROVE FALSE
      <4>1. j < i
        BY <1>2, <3>1, <3>3
      <4> QED
        BY <2>1, <4>1
    <3> QED
      BY <3>2, <3>3
  <2> QED
    BY <2>1
<1>7. \A t \in T : \E m \in 1..n : e[m] = t
  <2>1. ASSUME NEW t \in T PROVE f[t] \in 1..n /\ e[f[t]] = t
    <3>1. f[t] \in 1..n
      BY <1>2
    <3>2. Nth(T, f[t]) \in T /\ f[Nth(T, f[t])] = f[t]
      BY <1>5, <3>1
    <3>3. Nth(T, f[t]) = t
      BY <1>3, <3>2 DEF Injection, IsInjective
    <3> QED
      BY <3>1, <3>3
  <2> QED
    BY <2>1
<1> QED
  BY <1>1, <1>5, <1>6, <1>7 DEF Lists

\* Nothing else does.
LEMMA ListsNth ==
  ASSUME NEW T \in SUBSET Int, NEW n \in Nat, NEW e, Lists(e, n, T)
  PROVE  /\ IsFiniteSet(T) /\ Cardinality(T) = n
         /\ \A m \in 1..n : Nth(T, m) = e[m]
<1>1. /\ e \in [1..n -> T]
      /\ \A i, j \in 1..n : i < j => e[i] < e[j]
      /\ \A t \in T : \E i \in 1..n : e[i] = t
  BY DEF Lists
<1>2. ASSUME NEW i \in 1..n, NEW j \in 1..n
      PROVE  (e[i] <= e[j] <=> i <= j) /\ (e[i] = e[j] => i = j)
  <2>1. e[i] \in Int /\ e[j] \in Int
    <3>1. \A t \in T : t \in Int
      OBVIOUS
    <3>2. e[i] \in T /\ e[j] \in T
      BY <1>1
    <3> QED
      BY <3>1, <3>2
  <2>3. i < j \/ i = j \/ j < i
    OBVIOUS
  <2>2. (i < j => e[i] < e[j]) /\ (j < i => e[j] < e[i])
    BY <1>1
  <2> QED
    BY <2>1, <2>2, <2>3
<1>3. \A i, j \in 1..n : e[i] = e[j] => i = j
  BY <1>2
<1>4. ExistsBijection(1..n, T)
  <2>1. e \in Bijection(1..n, T)
    BY <1>1, <1>3 DEF Bijection, Injection, Surjection, IsInjective
  <2> QED
    BY <2>1 DEF ExistsBijection
<1>5. IsFiniteSet(T) /\ Cardinality(T) = n
  BY <1>4, FS_NatBijection, FS_CountingElements
<1>6. ASSUME NEW m \in 1..n PROVE Turn(T, e[m]) = m
  <2> DEFINE S == {j \in T : j <= e[m]}
             g == [i \in 1..m |-> e[i]]
  <2>1. g \in [1..m -> S]
    BY <1>1, <1>2
  <2>2. \A t \in S : \E i \in 1..m : g[i] = t
    <3>1. ASSUME NEW t \in S PROVE \E i \in 1..m : g[i] = t
      <4>1. PICK i \in 1..n : e[i] = t
        BY <1>1
      <4>2. i \in 1..m
        BY <1>2, <4>1
      <4> QED
        BY <4>1, <4>2
    <3> QED
      BY <3>1
  <2>3. \A i, j \in 1..m : g[i] = g[j] => i = j
    BY <1>3
  <2> HIDE DEF g, S
  <2>4. g \in Bijection(1..m, S)
    BY <2>1, <2>2, <2>3 DEF Bijection, Injection, Surjection, IsInjective
  <2>5. Cardinality(S) = m
    BY <2>4, FS_CountingElements DEF ExistsBijection
  <2> QED
    BY <2>5 DEF Turn, S
<1>7. ASSUME NEW m \in 1..n PROVE Nth(T, m) = e[m]
  <2>1. e[m] \in T /\ Turn(T, e[m]) = m
    BY <1>1, <1>6
  <2>2. ASSUME NEW i \in T, Turn(T, i) = m PROVE i = e[m]
    BY <1>1, <1>6, <2>2
  <2> QED
    BY <2>1, <2>2 DEF Nth
<1> QED
  BY <1>5, <1>7

\* The waiting orders have a list, and it gives the legs they leave.
LEMMA LegsListed ==
  ASSUME NEW q \in Seq(Order), NEW left, NEW b, NEW s \in Sides
  PROVE  /\ \E n \in Nat : \E e : Lists(e, n, Waiting(q, left, b, s))
         /\ \A n \in Nat : \A e : Lists(e, n, Waiting(q, left, b, s)) =>
              LegsOf(q, left, b, s) = [m \in 1..n |-> After(q[e[m]], s)]
         /\ LegsOf(q, left, b, s) \in Seq(Strikes \cup {Flat})
<1> DEFINE T == Waiting(q, left, b, s)
           N == Cardinality(T)
<1>1. T \in SUBSET Int /\ IsFiniteSet(T)
  <2>1. T \in SUBSET (1..Len(q)) /\ Len(q) \in Nat
    BY DEF Waiting
  <2>2. IsFiniteSet(1..Len(q))
    BY <2>1, FS_Interval
  <2> QED
    BY <2>1, <2>2, FS_Subset
<1>2. N \in Nat /\ \E e : Lists(e, N, T)
  BY <1>1, NthLists
<1>3. ASSUME NEW n \in Nat, NEW e, Lists(e, n, T)
      PROVE  LegsOf(q, left, b, s) = [m \in 1..n |-> After(q[e[m]], s)]
  <2>1. N = n /\ \A m \in 1..n : Nth(T, m) = e[m]
    BY <1>1, <1>3, ListsNth
  <2> QED
    BY <2>1 DEF LegsOf
<1>4. LegsOf(q, left, b, s) \in Seq(Strikes \cup {Flat})
  <2>1. ASSUME NEW m \in 1..N PROVE After(q[Nth(T, m)], s) \in Strikes \cup {Flat}
    <3>1. Nth(T, m) \in T
      BY <1>1, <1>2, NthLists DEF Lists
    <3>2. q[Nth(T, m)] \in Order
      BY <3>1 DEF Waiting
    <3> QED
      BY <3>2 DEF After, Order, Pairs
  <2> QED
    BY <1>2, <2>1 DEF LegsOf
<1> QED
  BY <1>2, <1>3, <1>4

\* The legs, from any list of the waiting orders.
LEMMA LegsFrom ==
  ASSUME NEW q \in Seq(Order), NEW left, NEW b, NEW s \in Sides, NEW n \in Nat, NEW e,
         Lists(e, n, Waiting(q, left, b, s))
  PROVE  LegsOf(q, left, b, s) = [m \in 1..n |-> After(q[e[m]], s)]
BY LegsListed

\* A sequence is the function of its elements.
LEMMA SeqIsFunction ==
  ASSUME NEW S, NEW x \in Seq(S)
  PROVE  x = [m \in 1..Len(x) |-> x[m]]
OBVIOUS

\* A published order is the last to be waited for.
LEMMA LegsAppend ==
  ASSUME NEW q \in Seq(Order), NEW o \in Order, NEW left, NEW b, NEW s \in Sides,
         q = <<>> => s \in left
  PROVE  LegsOf(Append(q, o), left, b, s)
           = IF o.book = b /\ s \in o.legs THEN Append(LegsOf(q, left, b, s), After(o, s))
                                           ELSE LegsOf(q, left, b, s)
<1> DEFINE l == Len(q)
           r == Append(q, o)
           T == Waiting(q, left, b, s)
           U == Waiting(r, left, b, s)
           own == o.book = b /\ s \in o.legs
<1>1. /\ l \in Nat /\ Len(r) = l + 1 /\ r[l + 1] = o /\ \A i \in 1..l : r[i] = q[i]
      /\ r \in Seq(Order)
  BY AppendType
<1>0. PICK n \in Nat : \E e : Lists(e, n, T)
  BY LegsListed
<1>2. PICK e : Lists(e, n, T)
  BY <1>0
<1>3. /\ e \in [1..n -> T] /\ \A i, j \in 1..n : i < j => e[i] < e[j]
      /\ \A t \in T : \E i \in 1..n : e[i] = t
  BY <1>2 DEF Lists
<1>4. T \subseteq 1..l /\ l + 1 \notin T /\ \A i \in 1..n : e[i] \in 1..l /\ r[e[i]] = q[e[i]]
  BY <1>1, <1>3 DEF Waiting
<1>5. LegsOf(q, left, b, s) = [m \in 1..n |-> After(q[e[m]], s)]
  BY <1>2, LegsListed
<1>6. U = IF own THEN T \cup {l + 1} ELSE T
  <2>1. ASSUME NEW i \in 1..l PROVE i \in U <=> i \in T
    BY <1>1, <2>1 DEF Waiting, Touches
  <2>2. l + 1 \in U <=> own
    <3>1. l + 1 = 1 => s \in left
      BY <1>1
    <3> QED
      BY <1>1, <3>1 DEF Waiting, Touches
  <2>3. U \subseteq 1..(l + 1) /\ \A i \in 1..(l + 1) : i \in 1..l \/ i = l + 1
    BY <1>1 DEF Waiting
  <2>4. \A i \in T : i \in 1..l
    BY <1>4
  <2>5. l + 1 \in 1..(l + 1) /\ \A i \in 1..l : i \in 1..(l + 1)
    BY <1>1
  <2> HIDE DEF T, U, own
  <2>6. CASE own
    BY <2>1, <2>2, <2>3, <2>4, <2>5, <2>6
  <2>7. CASE ~own
    <3>1. \A i \in U : i \in T
      BY <2>1, <2>2, <2>3, <2>7
    <3>2. \A i \in T : i \in U
      BY <2>1, <2>4
    <3> QED
      BY <2>7, <3>1, <3>2
  <2> QED
    BY <2>6, <2>7
<1> HIDE DEF l, r
<1>7. CASE ~own
  <2>1. Lists(e, n, U)
    BY <1>2, <1>6, <1>7
  <2>2. LegsOf(r, left, b, s) = [m \in 1..n |-> After(r[e[m]], s)]
    BY <1>1, <2>1, LegsFrom
  <2> QED
    BY <1>4, <1>5, <1>7, <2>2 DEF r
<1>8. CASE own
  <2> DEFINE f == [m \in 1..(n + 1) |-> IF m = n + 1 THEN l + 1 ELSE e[m]]
  <2>1. \A m \in 1..(n + 1) : m = n + 1 \/ m \in 1..n
    OBVIOUS
  <2>2. f[n + 1] = l + 1 /\ \A m \in 1..n : m \in 1..(n + 1) /\ f[m] = e[m]
    OBVIOUS
  <2>3. f \in [1..(n + 1) -> U]
    BY <1>3, <1>6, <1>8, <2>1
  <2> HIDE DEF f
  <2>4. ASSUME NEW i \in 1..(n + 1), NEW j \in 1..(n + 1), i < j PROVE f[i] < f[j]
    <3>1. i \in 1..n /\ f[i] = e[i] /\ e[i] \in 1..l
      BY <1>4, <2>1, <2>2, <2>4
    <3>2. CASE j = n + 1
      BY <1>1, <2>2, <3>1, <3>2
    <3>3. CASE j \in 1..n
      BY <1>3, <2>2, <2>4, <3>1, <3>3
    <3> QED
      BY <2>1, <3>2, <3>3
  <2>5. ASSUME NEW t \in U PROVE \E i \in 1..(n + 1) : f[i] = t
    <3>1. CASE t = l + 1
      BY <2>2, <3>1
    <3>2. CASE t \in T
      BY <1>3, <2>2, <3>2
    <3> QED
      BY <1>6, <1>8, <3>1, <3>2
  <2>6. Lists(f, n + 1, U) /\ n + 1 \in Nat
    BY <2>3, <2>4, <2>5 DEF Lists
  <2>7. LegsOf(r, left, b, s) = [m \in 1..(n + 1) |-> After(r[f[m]], s)]
    BY <1>1, <2>6, LegsFrom
  <2> DEFINE x == LegsOf(q, left, b, s)
  <2>8. Len(x) = n /\ x \in Seq(Strikes \cup {Flat})
    BY <1>5, LegsListed
  <2>9. ASSUME NEW m \in 1..(n + 1)
        PROVE  After(r[f[m]], s) = Append(x, After(o, s))[m]
    <3>1. CASE m = n + 1
      BY <1>1, <2>2, <2>8, <3>1
    <3>2. CASE m \in 1..n
      <4>1. f[m] = e[m] /\ r[e[m]] = q[e[m]]
        BY <1>4, <2>2, <3>2
      <4>2. x[m] = After(q[e[m]], s)
        BY <1>5, <3>2
      <4> HIDE DEF x
      <4>3. Append(x, After(o, s))[m] = x[m]
        BY <2>8, <3>2
      <4> QED
        BY <4>1, <4>2, <4>3
    <3> QED
      BY <2>1, <3>1, <3>2
  <2>10. /\ Len(Append(x, After(o, s))) = n + 1
         /\ Append(x, After(o, s)) = [m \in 1..(n + 1) |-> Append(x, After(o, s))[m]]
    <3> DEFINE a == After(o, s)
               y == Append(x, a)
    <3>1. a \in Strikes \cup {Flat}
      BY DEF After, Order, Pairs
    <3> HIDE DEF x, a
    <3>2. y \in Seq(Strikes \cup {Flat}) /\ Len(y) = n + 1
      BY <2>8, <3>1, AppendType
    <3> HIDE DEF y
    <3>3. y = [m \in 1..(n + 1) |-> y[m]]
      BY <3>2, SeqIsFunction
    <3> QED
      BY <3>2, <3>3 DEF y, a
  <2> QED
    BY <1>8, <2>7, <2>9, <2>10 DEF r
<1> QED
  BY <1>7, <1>8

\* Executing side s of the head order serves the first leg.
LEMMA LegsHead ==
  ASSUME NEW q \in Seq(Order), NEW left, NEW b, NEW s \in Sides,
         q # <<>>, Touches(q, left, 1, b, s)
  PROVE  /\ LegsOf(q, left, b, s) # <<>> /\ Head(LegsOf(q, left, b, s)) = After(q[1], s)
         /\ LegsOf(q, left \ {s}, b, s) = Tail(LegsOf(q, left, b, s))
<1> DEFINE T == Waiting(q, left, b, s)
           U == Waiting(q, left \ {s}, b, s)
           x == LegsOf(q, left, b, s)
<1>0. PICK n \in Nat : \E e : Lists(e, n, T)
  BY LegsListed
<1>1. PICK e : Lists(e, n, T)
  BY <1>0
<1>2. /\ e \in [1..n -> T] /\ \A i, j \in 1..n : i < j => e[i] < e[j]
      /\ \A t \in T : \E i \in 1..n : e[i] = t
  BY <1>1 DEF Lists
<1>3. /\ T \subseteq 1..Len(q) /\ 1 \in T /\ U = T \ {1}
      /\ \A t \in T : t \in Int /\ t >= 1
  BY DEF Waiting, Touches
<1>4. x = [m \in 1..n |-> After(q[e[m]], s)] /\ x \in Seq(Strikes \cup {Flat})
  BY <1>1, LegsListed
<1> HIDE DEF T, U, x
<1>5. n >= 1 /\ 1 \in 1..n /\ e[1] = 1
  <2>1. PICK i \in 1..n : e[i] = 1
    BY <1>2, <1>3
  <2>2. 1 \in 1..n /\ e[1] \in Int /\ e[1] >= 1
    <3>1. 1 \in 1..n
      BY <2>1
    <3>2. e[1] \in T
      BY <1>2, <3>1
    <3> QED
      BY <1>3, <3>1, <3>2
  <2>3. 1 < i => e[1] < e[i]
    BY <1>2, <2>2
  <2> QED
    BY <2>1, <2>2, <2>3
<1> DEFINE f == [m \in 1..(n - 1) |-> e[m + 1]]
<1>6. /\ \A m \in 1..(n - 1) : m + 1 \in 1..n /\ f[m] = e[m + 1]
      /\ \A m \in 1..n : m # 1 => m - 1 \in 1..(n - 1) /\ f[m - 1] = e[m] /\ 1 < m
      /\ n - 1 \in Nat
  <2>1. \A m \in 1..n : m # 1 => m - 1 \in 1..(n - 1) /\ (m - 1) + 1 = m /\ 1 < m
    OBVIOUS
  <2> QED
    BY <1>5, <2>1
<1>7. f \in [1..(n - 1) -> U]
  <2>1. ASSUME NEW m \in 1..(n - 1) PROVE e[m + 1] \in U
    <3>1. m + 1 \in 1..n /\ 1 < m + 1
      OBVIOUS
    <3>2. e[1] < e[m + 1] /\ e[m + 1] \in T
      BY <1>2, <1>5, <3>1
    <3> QED
      BY <1>3, <1>5, <3>2
  <2> QED
    BY <2>1
<1> HIDE DEF f
<1>8. \A i, j \in 1..(n - 1) : i < j => f[i] < f[j]
  <2>1. ASSUME NEW i \in 1..(n - 1), NEW j \in 1..(n - 1), i < j PROVE f[i] < f[j]
    <3>1. i + 1 < j + 1
      BY <2>1
    <3> QED
      BY <1>2, <1>6, <3>1
  <2> QED
    BY <2>1
<1>9. \A t \in U : \E i \in 1..(n - 1) : f[i] = t
  BY <1>2, <1>3, <1>5, <1>6
<1>10. Lists(f, n - 1, U)
  BY <1>7, <1>8, <1>9 DEF Lists
<1>11. LegsOf(q, left \ {s}, b, s) = [m \in 1..(n - 1) |-> After(q[f[m]], s)]
  BY <1>6, <1>10, LegsFrom DEF U
<1>12. Len(x) = n /\ x # <<>> /\ Head(x) = After(q[1], s)
  BY <1>4, <1>5
<1>13. Tail(x) = [m \in 1..(n - 1) |-> x[m + 1]]
  BY <1>4, <1>12
<1>14. \A m \in 1..(n - 1) : x[m + 1] = After(q[f[m]], s)
  BY <1>4, <1>6
<1> QED
  BY <1>11, <1>12, <1>13, <1>14 DEF x

\* An order with no side left for the account leaves the queue, and the legs stay.
LEMMA LegsTail ==
  ASSUME NEW q \in Seq(Order), NEW left, NEW b, NEW s \in Sides,
         q # <<>>, ~Touches(q, left, 1, b, s)
  PROVE  LegsOf(Tail(q), Sides, b, s) = LegsOf(q, left, b, s)
<1> DEFINE l == Len(q)
           r == Tail(q)
           T == Waiting(q, left, b, s)
           U == Waiting(r, Sides, b, s)
<1>1. /\ l \in Nat /\ l >= 1 /\ Len(r) = l - 1 /\ r \in Seq(Order)
      /\ \A i \in 1..(l - 1) : i + 1 \in 1..l /\ r[i] = q[i + 1]
  OBVIOUS
<1>0. PICK n \in Nat : \E e : Lists(e, n, T)
  BY LegsListed
<1>2. PICK e : Lists(e, n, T)
  BY <1>0
<1>3. /\ e \in [1..n -> T] /\ \A i, j \in 1..n : i < j => e[i] < e[j]
      /\ \A t \in T : \E i \in 1..n : e[i] = t
  BY <1>2 DEF Lists
<1>4. LegsOf(q, left, b, s) = [m \in 1..n |-> After(q[e[m]], s)]
  BY <1>2, LegsListed
<1>5. 1 \notin T /\ T \subseteq 1..l
  BY DEF Waiting
<1>6. \A i \in 1..(l - 1) : i \in U <=> i + 1 \in T
  BY <1>1 DEF Waiting, Touches
<1>7. U \subseteq 1..(l - 1)
  BY <1>1 DEF Waiting
<1> HIDE DEF T, U, l, r
<1>8. ASSUME NEW m \in 1..n PROVE e[m] - 1 \in U /\ e[m] \in Int /\ (e[m] - 1) + 1 = e[m]
  <2>1. e[m] \in T /\ e[m] \in 1..l /\ e[m] # 1
    BY <1>3, <1>5
  <2>2. e[m] - 1 \in 1..(l - 1) /\ (e[m] - 1) + 1 = e[m]
    BY <1>1, <2>1
  <2> QED
    BY <1>6, <2>1, <2>2
<1> DEFINE f == [m \in 1..n |-> e[m] - 1]
<1>9. f \in [1..n -> U] /\ \A m \in 1..n : f[m] = e[m] - 1
  BY <1>8
<1> HIDE DEF f
<1>10. \A i, j \in 1..n : i < j => f[i] < f[j]
  <2>1. ASSUME NEW i \in 1..n, NEW j \in 1..n, i < j PROVE f[i] < f[j]
    <3>1. e[i] < e[j] /\ e[i] \in Int /\ e[j] \in Int
      BY <1>3, <1>8, <2>1
    <3> QED
      BY <1>9, <3>1
  <2> QED
    BY <2>1
<1>11. \A t \in U : \E i \in 1..n : f[i] = t
  <2>1. ASSUME NEW t \in U PROVE \E i \in 1..n : f[i] = t
    <3>1. t \in Int /\ t + 1 \in T
      BY <1>6, <1>7, <2>1
    <3>2. PICK i \in 1..n : e[i] = t + 1
      BY <1>3, <3>1
    <3>3. f[i] = t
      BY <1>9, <3>1, <3>2
    <3> QED
      BY <3>3
  <2> QED
    BY <2>1
<1>12. LegsOf(r, Sides, b, s) = [m \in 1..n |-> After(r[f[m]], s)]
  <2>1. Lists(f, n, U)
    BY <1>9, <1>10, <1>11 DEF Lists
  <2> QED
    BY <1>1, <2>1, LegsFrom DEF U
<1>13. \A m \in 1..n : r[f[m]] = q[e[m]]
  <2>1. ASSUME NEW m \in 1..n PROVE r[f[m]] = q[e[m]]
    <3>1. f[m] \in 1..(l - 1) /\ f[m] + 1 = e[m]
      BY <1>7, <1>8, <1>9
    <3> QED
      BY <1>1, <3>1
  <2> QED
    BY <2>1
<1> QED
  BY <1>4, <1>12, <1>13 DEF r

\* The legs depend on the orders that touch the side only.
LEMMA LegsSame ==
  ASSUME NEW q \in Seq(Order), NEW left, NEW left2, NEW b, NEW s,
         \A i \in 1..Len(q) : Touches(q, left2, i, b, s) <=> Touches(q, left, i, b, s)
  PROVE  LegsOf(q, left2, b, s) = LegsOf(q, left, b, s)
<1>1. Waiting(q, left2, b, s) = Waiting(q, left, b, s)
  BY DEF Waiting
<1> QED
  BY <1>1 DEF LegsOf

\* What a step does to the account LaggedAccount describes.
Follows == [Account!Next]_(Account!vars)

Stays(b, s) ==
  /\ Believed(b, s)' = Believed(b, s)
  /\ Outstanding(b, s)' = Outstanding(b, s)
  /\ HeldLeg(b, s)' = HeldLeg(b, s)

\* Nothing is decided or executed.
LEMMA AllStay ==
  ASSUME \A b \in Live, s \in Sides : Stays(b, s)
  PROVE  Follows
<1>1. /\ [b \in Live |-> [s \in Sides |-> Believed(b, s)]]'
           = [b \in Live |-> [s \in Sides |-> Believed(b, s)]]
      /\ [b \in Live |-> [s \in Sides |-> Outstanding(b, s)]]'
           = [b \in Live |-> [s \in Sides |-> Outstanding(b, s)]]
      /\ [b \in Live |-> [s \in Sides |-> HeldLeg(b, s)]]'
           = [b \in Live |-> [s \in Sides |-> HeldLeg(b, s)]]
  BY DEF Stays
<1> QED
  BY <1>1 DEF Follows, Account!vars

\* The sides of one account go where a decision leads from its belief.
LEMMA OneDecides ==
  ASSUME NEW b \in Live,
         \A s \in Sides :
           \/ Stays(b, s)
           \/ /\ HeldLeg(b, s)' = HeldLeg(b, s)
              /\ \E d \in Account!Decisions(Believed(b, s)) :
                   /\ Outstanding(b, s)' = Outstanding(b, s) \o d
                   /\ Believed(b, s)' = d[Len(d)],
         \A c \in Live \ {b}, s \in Sides : Stays(c, s)
  PROVE  Follows
<1> DEFINE B == [c \in Live |-> [s \in Sides |-> Believed(c, s)]]
           O == [c \in Live |-> [s \in Sides |-> Outstanding(c, s)]]
           H == [c \in Live |-> [s \in Sides |-> HeldLeg(c, s)]]
<1>1. H' = H
  BY DEF Stays
<1>2. \A c \in Live \ {b} : O'[c] = O[c] /\ B'[c] = B[c]
  BY DEF Stays
<1>3. ASSUME NEW s \in Sides PROVE Account!Decided(b, s) \/ Account!Unmoved(b, s)
  <2>1. /\ O[b][s] = Outstanding(b, s) /\ O'[b][s] = Outstanding(b, s)'
        /\ B[b][s] = Believed(b, s) /\ B'[b][s] = Believed(b, s)'
    OBVIOUS
  <2>2. CASE Stays(b, s)
    BY <2>1, <2>2 DEF Stays, Account!Unmoved
  <2>3. CASE \E d \in Account!Decisions(Believed(b, s)) :
               /\ Outstanding(b, s)' = Outstanding(b, s) \o d
               /\ Believed(b, s)' = d[Len(d)]
    BY <2>1, <2>3 DEF Account!Decided
  <2> QED
    BY <2>2, <2>3
<1> HIDE DEF B, O, H
<1>4. Account!Decide(b)
  BY <1>1, <1>2, <1>3 DEF Account!Decide, B, O, H
<1> QED
  BY <1>4 DEF Follows, Account!Next

\* One side of one account takes the next leg.
LEMMA OneExecutes ==
  ASSUME NEW b \in Live, NEW s \in Sides, Outstanding(b, s) # <<>>,
         Believed(b, s)' = Believed(b, s),
         Outstanding(b, s)' = Tail(Outstanding(b, s)),
         HeldLeg(b, s)' = Head(Outstanding(b, s)),
         \A c \in Live, t \in Sides : ~(c = b /\ t = s) => Stays(c, t)
  PROVE  Follows
<1> DEFINE B == [c \in Live |-> [t \in Sides |-> Believed(c, t)]]
           O == [c \in Live |-> [t \in Sides |-> Outstanding(c, t)]]
           H == [c \in Live |-> [t \in Sides |-> HeldLeg(c, t)]]
<1>1. B' = B
  BY DEF Stays
<1>2. O[b][s] = Outstanding(b, s)
  OBVIOUS
<1>3. O' = [O EXCEPT ![b][s] = Tail(O[b][s])]
  BY DEF Stays
<1>4. H' = [H EXCEPT ![b][s] = Head(O[b][s])]
  BY DEF Stays
<1> HIDE DEF B, O, H
<1>5. Account!Execute(b, s)
  BY <1>1, <1>2, <1>3, <1>4 DEF Account!Execute, B, O, H
<1> QED
  BY <1>5 DEF Follows, Account!Next

\* Appending one by one and at once.
LEMMA AppendIsConcat ==
  ASSUME NEW S, NEW x \in Seq(S), NEW a \in S, NEW c \in S
  PROVE  Append(x, a) = x \o <<a>> /\ Append(Append(x, a), c) = x \o <<a, c>>
<1> DEFINE n == Len(x)
           y == Append(Append(x, a), c)
           z == x \o <<a, c>>
<1>1. n \in Nat /\ y \in Seq(S) /\ z \in Seq(S) /\ Len(y) = n + 2 /\ Len(z) = n + 2
  OBVIOUS
<1>2. \A i \in 1..n : y[i] = x[i] /\ z[i] = x[i]
  OBVIOUS
<1>3. y[n + 1] = a /\ z[n + 1] = a /\ y[n + 2] = c /\ z[n + 2] = c
  OBVIOUS
<1>4. \A i \in 1..(n + 2) : i \in 1..n \/ i = n + 1 \/ i = n + 2
  BY <1>1
<1>5. Append(x, a) = x \o <<a>>
  OBVIOUS
<1>6. y = [i \in 1..Len(y) |-> y[i]] /\ z = [i \in 1..Len(z) |-> z[i]]
  BY <1>1, SeqIsFunction
<1> HIDE DEF y, z, n
<1>7. \A i \in 1..(n + 2) : y[i] = z[i]
  BY <1>2, <1>3, <1>4
<1>8. y = z
  BY <1>1, <1>6, <1>7
<1> QED
  BY <1>5, <1>8 DEF y, z

\* The legs one order leads through are a decision, from the leg it starts at.
LEMMA OrderDecides ==
  ASSUME NEW o \in Order, NEW s \in o.legs
  PROVE  /\ <<After(o, s)>> \in Account!Decisions(Before(o, s))
         /\ Before(o, s) \in Strikes \cup {Flat} /\ After(o, s) \in Strikes \cup {Flat}
<1>1. o.action \in {"ENTRY", "EXIT"} /\ o.strikes[s] \in Strikes
  BY DEF Order, Pairs, Legs, Sides
<1> QED
  BY <1>1 DEF Before, After, Account!Decisions

\* What a change of the queue's end, of memory and file leaves of an account.
LEMMA HeldStays ==
  ASSUME net' = net, NEW b, NEW s
  PROVE  HeldLeg(b, s)' = HeldLeg(b, s)
BY DEF HeldLeg

----------------------------------------------------------------------------
(* The bridge *)

\* What the bridge may disturb of the invariant.
BridgePart == LegsFill /\ NoAborts /\ SettlementChain

BeliefsKept == UNCHANGED <<running, pos, store>>

\* An element of a lengthened queue is an old one or the new one.
LEMMA AppendElement ==
  ASSUME NEW S, NEW q \in Seq(S), NEW x \in S, NEW i \in 1..Len(Append(q, x))
  PROVE  (i \in 1..Len(q) /\ Append(q, x)[i] = q[i]) \/ Append(q, x)[i] = x
OBVIOUS

\* The head of the queue is the order the bridge works on.
LEMMA HeadIsCurrent ==
  ASSUME DeskTypeOK, orderQ # <<>>
  PROVE  Len(orderQ) \in Nat /\ Len(orderQ) >= 1 /\ orderQ[1] = Current
BY DEF DeskTypeOK, Current

\* _live_fill, _paper_fill, at their end: the order leaves the queue, its fill
\* is published; no account has a link of its chain there any more.
LEMMA FinishKeeps ==
  ASSUME SettlementInv, BeliefsKept, orderQ # <<>>, Finish, UNCHANGED <<net, resting>>,
         PublishFill(FillOf(Current, FALSE)),
         \A b \in Live, s \in Sides : ~Touches(orderQ, Left, 1, b, s)
  PROVE  BridgePart'
<1>1. DeskTypeOK /\ orderQ \in Seq(Order)
  BY DEF SettlementInv, TypeOK, DeskTypeOK
<1>2. orderQ' = Tail(orderQ) /\ exec' = Idle /\ Left' = Sides
  BY DEF Finish, Left, Idle
<1>3. LegsFill'
  BY <1>2 DEF LegsFill, Idle, SettlementInv
<1>4. NoAborts'
  <2>1. ASSUME NEW b \in Books, NEW i \in 1..Len(fillQ'[b]) PROVE ~fillQ'[b][i].aborted
    <3>1. fillQ[b] \in Seq(Fill) /\ \A j \in 1..Len(fillQ[b]) : ~fillQ[b][j].aborted
      BY <1>1 DEF DeskTypeOK, SettlementInv, NoAborts
    <3>2. CASE fillQ'[b] = fillQ[b]
      BY <2>1, <3>1, <3>2
    <3>3. CASE fillQ'[b] = Append(fillQ[b], FillOf(Current, FALSE))
      <4> DEFINE q == fillQ[b]
                 f == FillOf(Current, FALSE)
      <4>1. q \in Seq(Fill) /\ f \in Fill /\ ~f.aborted
        BY <1>1, <3>1, CurrentType, FillType DEF FillOf
      <4>2. i \in 1..Len(Append(q, f)) /\ fillQ'[b] = Append(q, f)
        BY <2>1, <3>3
      <4> HIDE DEF q, f
      <4>3. (i \in 1..Len(q) /\ Append(q, f)[i] = q[i]) \/ Append(q, f)[i] = f
        BY <4>1, <4>2, AppendElement
      <4>4. CASE i \in 1..Len(q) /\ Append(q, f)[i] = q[i]
        BY <3>1, <4>2, <4>4 DEF q
      <4>5. CASE Append(q, f)[i] = f
        BY <4>1, <4>2, <4>5
      <4> QED
        BY <4>3, <4>4, <4>5
    <3> QED
      BY <3>2, <3>3 DEF PublishFill
  <2> QED
    BY <2>1 DEF NoAborts
<1>6. SettlementChain'
  <2>1. ASSUME NEW b \in Live, NEW s \in Sides
        PROVE  Chained(Tail(orderQ), Sides, b, s, net[b][s], Believed(b, s))
    <3>1. Chained(orderQ, Left, b, s, net[b][s], Believed(b, s))
      BY DEF SettlementInv, SettlementChain
    <3> QED
      BY <1>1, <3>1, ChainTail
  <2> QED
    BY <1>2, <2>1 DEF SettlementChain, Believed, BeliefsKept
<1> QED
  BY <1>3, <1>4, <1>6 DEF BridgePart

\* _handle, of an entry that finds the Run toggle off: the order leaves the queue,
\* and no leg of it is sold.
LEMMA DropKeeps ==
  ASSUME Toggled, SettlementInv, BeliefsKept, DropUnrouted
  PROVE  BridgePart'
<1>1. /\ DeskTypeOK /\ orderQ \in Seq(Order) /\ orderQ # <<>>
      /\ net \in [Books -> [Sides -> [Strikes -> Int]]]
  BY DEF SettlementInv, TypeOK, DeskTypeOK, BridgeTypeOK, DropUnrouted
<1>2. Current \in Order /\ Current.book \in Books /\ orderQ[1] = Current
  BY <1>1, CurrentType, HeadIsCurrent
<1>3. Current.action = "ENTRY" /\ "run_off" \in Faults
  BY <1>2 DEF DropUnrouted, Routable, Toggled, SettlementInv, OneSession
<1>4. /\ orderQ' = Tail(orderQ) /\ exec' = Idle /\ fillQ' = fillQ /\ net' = net
      /\ resting' = resting /\ Left = Sides /\ Left' = Sides
  BY DEF DropUnrouted, Finish, Left, Idle
<1>5. LegsFill' /\ NoAborts'
  BY <1>4 DEF LegsFill, Idle, SettlementInv, NoAborts
<1>6. SettlementChain'
  <2>1. ASSUME NEW b \in Live, NEW s \in Sides
        PROVE  Chained(Tail(orderQ), Sides, b, s, net[b][s], Believed(b, s))
    <3>1. Chained(orderQ, Sides, b, s, net[b][s], Believed(b, s))
      BY <1>4 DEF SettlementInv, SettlementChain
    <3>2. CASE Touches(orderQ, Sides, 1, b, s)
      <4>1. net[b][s] \in [Strikes -> Int]
        BY <1>1
      <4>2. Within(net[b][s], Before(orderQ[1], s)) => Within(net[b][s], After(orderQ[1], s))
        BY <1>2, <1>3, <4>1, DropSettles
      <4>3. Chained(orderQ, Sides \ {s}, b, s, net[b][s], Believed(b, s))
        BY <1>1, <3>1, <3>2, <4>2, ChainHead
      <4>4. ~Touches(orderQ, Sides \ {s}, 1, b, s)
        BY DEF Touches
      <4> QED
        BY <1>1, <4>3, <4>4, ChainTail
    <3>3. CASE ~Touches(orderQ, Sides, 1, b, s)
      BY <1>1, <3>1, <3>3, ChainTail
    <3> QED
      BY <3>2, <3>3
  <2> QED
    BY <1>4, <2>1 DEF SettlementChain, Believed, BeliefsKept
<1> QED
  BY <1>5, <1>6 DEF BridgePart

\* _live_fill begins: the legs of the order are all still to do.
LEMMA StartLiveKeeps ==
  ASSUME SettlementInv, BeliefsKept, StartLive
  PROVE  BridgePart'
<1>1. DeskTypeOK /\ orderQ \in Seq(Order) /\ orderQ # <<>>
  BY DEF SettlementInv, TypeOK, DeskTypeOK, StartLive
<1>2. /\ orderQ' = orderQ /\ fillQ' = fillQ /\ net' = net /\ Current' = Current
      /\ resting' = resting
  BY DEF StartLive, busVars, Current
<1>3. exec' = [Idle EXCEPT !.phase = "legs", !.todo = Current.legs]
  BY DEF StartLive
<1>4. Left = Sides /\ Left' = Current.legs
  BY <1>3 DEF Left, StartLive, Idle
<1>5. LegsFill'
  <2>1. /\ exec'.phase = "legs" /\ exec'.todo = Current'.legs
        /\ \A t \in Tickets : resting'[t] = 0
    BY <1>2, <1>3 DEF Idle, SettlementInv, LegsFill
  <2>2. Current'.book \in Live
    BY <1>2 DEF StartLive
  <2> QED
    BY <2>1, <2>2 DEF LegsFill
<1>6. NoAborts'
  BY <1>2 DEF SettlementInv, NoAborts
<1>7. SettlementChain'
  <2>1. ASSUME NEW b \in Live, NEW s \in Sides
        PROVE  Chained(orderQ, Current.legs, b, s, net[b][s], Believed(b, s))
    <3>1. Chained(orderQ, Sides, b, s, net[b][s], Believed(b, s))
      BY <1>4 DEF SettlementInv, SettlementChain
    <3>2. \A i \in 1..Len(orderQ) :
            Touches(orderQ, Current.legs, i, b, s) <=> Touches(orderQ, Sides, i, b, s)
      BY <1>1, HeadIsCurrent DEF Touches
    <3> QED
      BY <1>1, <3>1, <3>2, ChainSame
  <2> QED
    BY <1>2, <1>4, <2>1 DEF SettlementChain, Believed, BeliefsKept
<1> QED
  BY <1>5, <1>6, <1>7 DEF BridgePart

\* _do_leg: the leg fills in full; its account moves one link down the chain.
LEMMA LegDoneKeeps ==
  ASSUME Toggled, SettlementInv, BeliefsKept,
         NEW s \in Sides, NEW q \in 0..Qty, NEW r \in 0..Qty, LegDone(s, q, r)
  PROVE  BridgePart'
<1> DEFINE o == Current
<1>1. /\ DeskTypeOK /\ orderQ \in Seq(Order) /\ orderQ # <<>>
      /\ exec \in Exec /\ net \in [Books -> [Sides -> [Strikes -> Int]]]
      /\ resting \in [Tickets -> Nat]
  BY DEF SettlementInv, TypeOK, DeskTypeOK, BridgeTypeOK, Busy, LegDone
<1>2. o \in Order /\ orderQ[1] = o /\ o.book \in Books /\ o.legs \subseteq Sides
  BY <1>1, CurrentType, HeadIsCurrent
<1>3. o.book \in Live /\ s \in o.legs /\ s \in exec.todo /\ exec.phase = "legs" /\ q = Qty
  BY DEF SettlementInv, LegsFill, LegDone, Toggled
<1>3a. r = Qty /\ "late_fill" \notin Faults
  BY <1>3, QtyAssumption DEF LegDone, Reported, Toggled
<1>4. orderQ' = orderQ /\ fillQ' = fillQ /\ Current' = Current
  BY DEF LegDone, busVars, Current
<1>5. /\ exec' = [exec EXCEPT !.todo = @ \ {s}, !.filled[s] = Qty]
      /\ Rests(Ticket(o, s, "SELL"), 0)
  BY <1>3a DEF LegDone
<1>6. Left = exec.todo /\ Left' = exec.todo \ {s}
  BY <1>1, <1>3, <1>5 DEF Left, Exec
<1>7. LegsFill'
  <2>1. exec'.phase = "legs" /\ exec'.todo = exec.todo \ {s}
    BY <1>1, <1>3, <1>5 DEF Exec
  <2>1a. \A t \in Tickets : resting'[t] = 0
    BY <1>1, <1>5 DEF Rests, SettlementInv, LegsFill
  <2>2. exec'.filled = [exec.filled EXCEPT ![s] = Qty] /\ exec.filled \in [Sides -> 0..Qty]
    BY <1>1, <1>5 DEF Exec
  <2>3. /\ exec.todo \subseteq o.legs
        /\ \A t \in o.legs \ exec.todo : exec.filled[t] = Qty
    BY <1>3 DEF SettlementInv, LegsFill
  <2>4. \A t \in o.legs \ exec'.todo : exec'.filled[t] = Qty
    BY <1>2, <2>1, <2>2, <2>3
  <2> QED
    BY <1>3, <1>4, <2>1, <2>1a, <2>3, <2>4 DEF LegsFill
<1>8. NoAborts'
  BY <1>4 DEF SettlementInv, NoAborts
<1> DEFINE before == net[o.book][s]
           after == [before EXCEPT ![o.strikes[s]] = @ + Signed(o, Qty)]
<1>9. net' = [net EXCEPT ![o.book][s] = after] /\ before \in [Strikes -> Int]
  BY <1>1, <1>2, <1>3 DEF LegDone, Traded
<1>10. Touches(orderQ, Left, 1, o.book, s)
  BY <1>2, <1>3, <1>6 DEF Touches
<1>12. Within(before, Before(orderQ[1], s)) => Within(after, After(orderQ[1], s))
  BY <1>2, <1>9, LegSettles
<1> HIDE DEF before, after
<1>14. ASSUME NEW b \in Live, NEW t \in Sides, ~(b = o.book /\ t = s)
       PROVE  net'[b][t] = net[b][t]
  BY <1>1, <1>2, <1>9, <1>14
<1>15. net'[o.book][s] = after
  BY <1>1, <1>2, <1>9
<1>17. SettlementChain'
  <2>1. ASSUME NEW b \in Live, NEW t \in Sides
        PROVE  Chained(orderQ, exec.todo \ {s}, b, t, net'[b][t], Believed(b, t))
    <3>1. Chained(orderQ, exec.todo, b, t, net[b][t], Believed(b, t))
      BY <1>6 DEF SettlementInv, SettlementChain
    <3>2. CASE b = o.book /\ t = s
      BY <1>1, <1>6, <1>10, <1>12, <1>15, <3>1, <3>2, ChainHead DEF before
    <3>3. CASE ~(b = o.book /\ t = s)
      <4>1. \A i \in 1..Len(orderQ) :
              Touches(orderQ, exec.todo \ {s}, i, b, t) <=> Touches(orderQ, exec.todo, i, b, t)
        BY <1>1, <1>2, <3>3 DEF Touches
      <4>2. net'[b][t] = net[b][t]
        BY <1>14, <3>3
      <4> QED
        BY <1>1, <3>1, <4>1, <4>2, ChainSame
    <3> QED
      BY <3>2, <3>3
  <2> QED
    BY <1>4, <1>6, <2>1 DEF SettlementChain, Believed, BeliefsKept
<1> QED
  BY <1>7, <1>8, <1>17 DEF BridgePart

\* Where every leg fills the bridge begins, executes, finishes and drops orders,
\* and aborts none.
LEMMA BridgeKeeps ==
  ASSUME Toggled, SettlementInv, BeliefsKept, BridgeStep
  PROVE  BridgePart'
<1>1. DeskTypeOK /\ LegsFill /\ Busy
  BY DEF SettlementInv, TypeOK
<1>2. orderQ # <<>> =>
        /\ Current \in Order /\ Current.book \in Books /\ orderQ[1] = Current
        /\ Current.legs \subseteq Sides
  BY <1>1, CurrentType, HeadIsCurrent
<1>3. CASE DropUnrouted
  BY <1>3, DropKeeps
<1>4. CASE PaperFill
  <2>1. \A b \in Live, s \in Sides : ~Touches(orderQ, Left, 1, b, s)
    BY <1>2, <1>4 DEF PaperFill, Touches
  <2> QED
    BY <1>4, <2>1, FinishKeeps DEF PaperFill
<1>5. CASE ConfirmFill
  <2>1. Left = {} /\ orderQ # <<>>
    BY <1>1, <1>5 DEF ConfirmFill, Left, Busy
  <2>2. \A b \in Live, s \in Sides : ~Touches(orderQ, Left, 1, b, s)
    BY <2>1 DEF Touches
  <2> QED
    BY <1>5, <2>1, <2>2, FinishKeeps DEF ConfirmFill
<1>6. CASE StartLive
  BY <1>6, StartLiveKeeps
<1>7. ASSUME NEW s \in Sides, NEW q \in 0..Qty, NEW r \in 0..Qty, LegDone(s, q, r) PROVE BridgePart'
  BY <1>7, LegDoneKeeps
<1>8. CASE StartFlatten
  <2>1. /\ exec.phase = "legs" /\ exec.todo = {}
        /\ \E s \in Current.legs : exec.filled[s] < Qty
    BY <1>8 DEF StartFlatten, Asymmetric
  <2> QED
    BY <1>1, <2>1 DEF LegsFill
<1>9. ASSUME NEW s \in Sides, FlattenLeg(s) \/ SquareLeg(s) PROVE FALSE
  BY <1>1, <1>9 DEF FlattenLeg, SquareLeg, LegsFill
<1>9a. ASSUME NEW t \in Tickets, NEW q \in 1..resting[t], LateFill(t, q) PROVE FALSE
  BY <1>1, <1>9a DEF LateFill, LegsFill
<1>10. CASE CancelResting \/ ReadPositions \/ AbortEntry
  BY <1>1, <1>10 DEF CancelResting, ReadPositions, AbortEntry, LegsFill
<1> QED
  BY <1>3, <1>4, <1>5, <1>6, <1>7, <1>8, <1>9, <1>9a, <1>10 DEF BridgeStep

\* A bridge step leaves the beliefs of every book alone.
LEMMA BeliefsStay ==
  ASSUME BeliefsKept, NEW b, NEW s
  PROVE  Believed(b, s)' = Believed(b, s)
BY DEF BeliefsKept, Believed

\* An order leaves the queue, and no account waits for it any more.
LEMMA FinishFollows ==
  ASSUME SettlementInv, BeliefsKept, orderQ # <<>>, Finish, net' = net,
         \A b \in Live, s \in Sides : ~Touches(orderQ, Left, 1, b, s)
  PROVE  Follows
<1>1. orderQ \in Seq(Order) /\ orderQ' = Tail(orderQ) /\ Left' = Sides
  BY DEF SettlementInv, TypeOK, DeskTypeOK, Finish, Left, Idle
<1>2. ASSUME NEW b \in Live, NEW s \in Sides PROVE Stays(b, s)
  <2>1. LegsOf(Tail(orderQ), Sides, b, s) = LegsOf(orderQ, Left, b, s)
    BY <1>1, LegsTail
  <2> QED
    BY <1>1, <2>1, BeliefsStay, HeldStays DEF Stays, Outstanding
<1> QED
  BY <1>2, AllStay

\* _live_fill begins: the same legs are still to be reached.
LEMMA StartLiveFollows ==
  ASSUME SettlementInv, BeliefsKept, StartLive
  PROVE  Follows
<1>1. DeskTypeOK /\ orderQ \in Seq(Order) /\ orderQ # <<>>
  BY DEF SettlementInv, TypeOK, DeskTypeOK, StartLive
<1>2. orderQ' = orderQ /\ net' = net
  BY DEF StartLive, busVars
<1>3. Left = Sides /\ Left' = Current.legs
  BY DEF Left, StartLive, Idle
<1>4. ASSUME NEW b \in Live, NEW s \in Sides PROVE Stays(b, s)
  <2>1. \A i \in 1..Len(orderQ) :
          Touches(orderQ, Current.legs, i, b, s) <=> Touches(orderQ, Sides, i, b, s)
    BY <1>1, HeadIsCurrent DEF Touches
  <2>2. LegsOf(orderQ, Current.legs, b, s) = LegsOf(orderQ, Sides, b, s)
    BY <1>1, <2>1, LegsSame
  <2> QED
    BY <1>2, <1>3, <2>2, BeliefsStay, HeldStays DEF Stays, Outstanding
<1> QED
  BY <1>4, AllStay

\* An account of one side tells at which leg it is.
LEMMA LegIs ==
  ASSUME NEW a, NEW h \in Strikes \cup {Flat}, ShortOf(a, h)
  PROVE  LegOf(a) = h
<1>1. CASE h = Flat
  BY <1>1 DEF LegOf
<1>2. CASE h \in Strikes
  <2>1. a[h] = Qty /\ Qty # 0 /\ h # Flat
    BY <1>2 DEF ShortOf
  <2>2. ~ShortOf(a, Flat) /\ \A k \in Strikes : ShortOf(a, k) => k = h
    BY <1>2, <2>1 DEF ShortOf
  <2> QED
    BY <1>2, <2>2 DEF LegOf
<1> QED
  BY <1>1, <1>2

\* _do_leg: the account reaches the leg the order leaves, the next on the list.
LEMMA LegDoneFollows ==
  ASSUME Reliable, SettlementInv, BeliefsKept,
         NEW s \in Sides, NEW q \in 0..Qty, NEW r \in 0..Qty, LegDone(s, q, r)
  PROVE  Follows
<1> DEFINE o == Current
           before == net[o.book][s]
           after == [before EXCEPT ![o.strikes[s]] = @ + Signed(o, Qty)]
<1>1. /\ DeskTypeOK /\ orderQ \in Seq(Order) /\ orderQ # <<>>
      /\ exec \in Exec /\ net \in [Books -> [Sides -> [Strikes -> Int]]]
  BY DEF SettlementInv, TypeOK, DeskTypeOK, BridgeTypeOK, Busy, LegDone
<1>2. o \in Order /\ orderQ[1] = o /\ o.book \in Books /\ o.legs \subseteq Sides
  BY <1>1, CurrentType, HeadIsCurrent
<1>3. /\ o.book \in Live /\ s \in o.legs /\ s \in exec.todo /\ exec.phase = "legs" /\ q = Qty
      /\ orderQ' = orderQ
  BY DEF SettlementInv, LegsFill, LegDone, Toggled, Reliable, busVars
<1>4. Left = exec.todo /\ Left' = exec.todo \ {s}
  BY <1>1, <1>3 DEF Left, Exec, LegDone
<1>5. net' = [net EXCEPT ![o.book][s] = after] /\ before \in [Strikes -> Int]
  BY <1>1, <1>2, <1>3 DEF LegDone, Traded
<1>6. Touches(orderQ, Left, 1, o.book, s)
  BY <1>2, <1>3, <1>4 DEF Touches
<1>7. ShortOf(before, Before(o, s))
  <2>1. PICK h \in Strikes \cup {Flat} :
          Within(before, h) /\ Linked(orderQ, Left, o.book, s, h, Believed(o.book, s))
    BY <1>3 DEF SettlementInv, SettlementChain, Chained
  <2>2. 1 \in 1..Len(orderQ)
    BY <1>1
  <2>3. h = Before(orderQ[1], s)
    BY <1>6, <2>1, <2>2 DEF Linked
  <2> QED
    BY <1>2, <2>1, <2>3 DEF Within, Reliable
<1>8. ShortOf(after, After(o, s))
  BY <1>2, <1>5, <1>7, LegSettles DEF Within, Reliable
<1>9. net'[o.book][s] = after
  BY <1>1, <1>2, <1>5
<1>10. \A c \in Live, t \in Sides : ~(c = o.book /\ t = s) => net'[c][t] = net[c][t]
  BY <1>1, <1>2, <1>5
<1> HIDE DEF before, after
<1>b. PICK b \in Live : b = o.book
  BY <1>3
<1>11. HeldLeg(b, s)' = After(o, s)
  <2>1. After(o, s) \in Strikes \cup {Flat}
    BY <1>2, <1>3, OrderDecides
  <2>2. LegOf(after) = After(o, s)
    BY <1>8, <2>1, LegIs
  <2> QED
    BY <1>9, <1>b, <2>2 DEF HeldLeg
<1>12. /\ Outstanding(b, s) # <<>> /\ Head(Outstanding(b, s)) = After(o, s)
       /\ Outstanding(b, s)' = Tail(Outstanding(b, s))
  <2>1. /\ LegsOf(orderQ, Left, b, s) # <<>>
        /\ Head(LegsOf(orderQ, Left, b, s)) = After(orderQ[1], s)
        /\ LegsOf(orderQ, Left \ {s}, b, s) = Tail(LegsOf(orderQ, Left, b, s))
    BY <1>1, <1>6, <1>b, LegsHead
  <2> QED
    BY <1>2, <1>3, <1>4, <2>1 DEF Outstanding
<1>13. ASSUME NEW c \in Live, NEW t \in Sides, ~(c = b /\ t = s) PROVE Stays(c, t)
  <2>1. \A i \in 1..Len(orderQ) :
          Touches(orderQ, Left \ {s}, i, c, t) <=> Touches(orderQ, Left, i, c, t)
    BY <1>1, <1>2, <1>13, <1>b DEF Touches
  <2>2. LegsOf(orderQ, Left \ {s}, c, t) = LegsOf(orderQ, Left, c, t)
    <3>1. Waiting(orderQ, Left \ {s}, c, t) = Waiting(orderQ, Left, c, t)
      BY <2>1 DEF Waiting
    <3> QED
      BY <3>1 DEF LegsOf
  <2>3. net'[c][t] = net[c][t]
    BY <1>10, <1>13, <1>b
  <2> QED
    BY <1>3, <1>4, <2>2, <2>3, BeliefsStay DEF Stays, Outstanding, HeldLeg
<1>14. Believed(b, s)' = Believed(b, s)
  BY BeliefsStay
<1> QED
  BY <1>3, <1>11, <1>12, <1>13, <1>14, OneExecutes

\* While the client leaves the switches alone the bridge serves each order, and
\* brings each account to the next leg decided on.
LEMMA BridgeFollows ==
  ASSUME Reliable, SettlementInv, BeliefsKept, BridgeStep
  PROVE  Follows
<1>1. DeskTypeOK /\ LegsFill /\ Busy
  BY DEF SettlementInv, TypeOK
<1>2. orderQ # <<>> =>
        /\ Current \in Order /\ Current.book \in Books /\ orderQ[1] = Current
  BY <1>1, CurrentType, HeadIsCurrent
<1>3. ~DropUnrouted
  BY <1>2 DEF DropUnrouted, Routable, Reliable, Toggled, SettlementInv, OneSession
<1>4. CASE PaperFill
  <2>1. \A b \in Live, s \in Sides : ~Touches(orderQ, Left, 1, b, s)
    BY <1>2, <1>4 DEF PaperFill, Touches
  <2> QED
    BY <1>4, <2>1, FinishFollows DEF PaperFill
<1>5. CASE ConfirmFill
  <2>1. Left = {} /\ orderQ # <<>>
    BY <1>1, <1>5 DEF ConfirmFill, Left, Busy
  <2>2. \A b \in Live, s \in Sides : ~Touches(orderQ, Left, 1, b, s)
    BY <2>1 DEF Touches
  <2> QED
    BY <1>5, <2>1, <2>2, FinishFollows DEF ConfirmFill
<1>6. ASSUME NEW s \in Sides, NEW q \in 0..Qty, NEW r \in 0..Qty, LegDone(s, q, r) PROVE Follows
  BY <1>6, LegDoneFollows
<1>7. ~StartFlatten
  BY <1>1 DEF StartFlatten, Asymmetric, LegsFill
<1>8. /\ \A s \in Sides : ~FlattenLeg(s) /\ ~SquareLeg(s)
      /\ \A t \in Tickets : \A q \in 1..resting[t] : ~LateFill(t, q)
  BY <1>1 DEF LateFill, FlattenLeg, SquareLeg, LegsFill
<1>9. ~CancelResting /\ ~ReadPositions /\ ~AbortEntry
  BY <1>1 DEF CancelResting, ReadPositions, AbortEntry, LegsFill
<1> QED
  BY <1>3, <1>4, <1>5, <1>6, <1>7, <1>8, <1>9, StartLiveFollows DEF BridgeStep

----------------------------------------------------------------------------
(* The books *)

\* What a step of a book may disturb of the invariant, besides the session.
BookPart ==
  FilesOfToday /\ NoAborts /\ LegsFill /\ StoreMatches /\ SettlementChain

\* _persist follows every change of _position: file and belief stay together.
LEMMA RepositionKeeps ==
  ASSUME SettlementInv, NEW b \in Books, NEW p \in Position \cup {NoPosition},
         pos' = [pos EXCEPT ![b] = p], store' = [store EXCEPT ![b] = PositionFile(p)],
         running' = running, day' = day
  PROVE  /\ StoreMatches' /\ FilesOfToday'
         /\ pos'[b] = p /\ \A c \in Books \ {b} : pos'[c] = pos[c] /\ store'[c] = store[c]
<1>1. pos \in [Books -> Position \cup {NoPosition}] /\ store \in [Books -> PositionFiles]
  BY DEF SettlementInv, TypeOK, BookTypeOK, PositionFiles
<1>2. PositionFile(p).pos = p /\ (p # NoPosition => PositionFile(p).day = day)
  BY DEF PositionFile, Cleared
<1>3. pos'[b] = p /\ store'[b] = PositionFile(p)
  BY <1>1
<1>4. \A c \in Books \ {b} : pos'[c] = pos[c] /\ store'[c] = store[c]
  BY <1>1
<1>5. StoreMatches'
  BY <1>2, <1>3, <1>4 DEF StoreMatches, SettlementInv
<1>6. FilesOfToday'
  BY <1>2, <1>3, <1>4 DEF FilesOfToday, SettlementInv
<1> QED
  BY <1>3, <1>4, <1>5, <1>6

\* EventBus.publish: what waits in front of the new order is left alone.
LEMMA PublishKeeps ==
  ASSUME SettlementInv, UNCHANGED <<fillQ, exec, net, resting>>,
         orderQ # <<>> => Head(orderQ') = Head(orderQ)
  PROVE  NoAborts' /\ LegsFill' /\ Left' = Left
<1>1. NoAborts' /\ Left' = Left
  BY DEF SettlementInv, NoAborts, Left, bridgeVars
<1>2. exec.phase = "legs" => Current' = Current
  BY DEF SettlementInv, Busy, Current
<1>3. LegsFill'
  BY <1>2 DEF SettlementInv, LegsFill, bridgeVars
<1> QED
  BY <1>1, <1>3

\* An empty queue leaves the bridge idle, with no side executed.
LEMMA EmptyLeft ==
  ASSUME SettlementInv, orderQ = <<>>
  PROVE  Left = Sides
BY DEF SettlementInv, Busy, Left

\* What a running book believes, and whether a stopped one is left alone.
LEMMA RunningBelief ==
  ASSUME NEW b \in Books, running[b], NEW s \in Sides
  PROVE  Believed(b, s) = pos[b].strike[s]
BY DEF Believed

\* Order o leads from the legs u to the legs v.
Leads(o, u, v) ==
  \A s \in Sides : IF s \in o.legs THEN Before(o, s) = u[s] /\ v[s] = After(o, s) ELSE v[s] = u[s]

\* One order published with the position it stands for.
LEMMA OneOrderKeeps ==
  ASSUME SettlementInv, NEW b \in Books, running[b], NEW p \in Position \cup {NoPosition},
         NEW o \in Order, o.book = b, Leads(o, pos[b].strike, p.strike),
         pos' = [pos EXCEPT ![b] = p], store' = [store EXCEPT ![b] = PositionFile(p)],
         orderQ' = Append(orderQ, o), UNCHANGED <<fillQ, running, day, exec, net, resting>>
  PROVE  BookPart'
<1>1. orderQ \in Seq(Order)
  BY DEF SettlementInv, TypeOK, DeskTypeOK
<1>2. /\ StoreMatches' /\ FilesOfToday' /\ pos'[b] = p
      /\ \A c \in Books \ {b} : pos'[c] = pos[c] /\ store'[c] = store[c]
  <2>1. running' = running /\ day' = day
    OBVIOUS
  <2> QED
    BY <2>1, RepositionKeeps, ZenonT(30)
<1>4. NoAborts' /\ LegsFill' /\ Left' = Left
  BY <1>1, HeadAppend, PublishKeeps
<1>5. SettlementChain'
  <2>1. ASSUME NEW c \in Live, NEW s \in Sides, NEW k,
               k = IF c = b THEN p.strike[s] ELSE Believed(c, s)
        PROVE  Chained(Append(orderQ, o), Left, c, s, net[c][s], k)
    <3>1. Chained(orderQ, Left, c, s, net[c][s], Believed(c, s))
      BY DEF SettlementInv, SettlementChain
    <3>2. orderQ = <<>> => s \in Left
      BY EmptyLeft
    <3>3. IF o.book = c /\ s \in o.legs THEN Before(o, s) = Believed(c, s) /\ k = After(o, s)
                                        ELSE k = Believed(c, s)
      BY <2>1, RunningBelief DEF Leads
    <3> QED
      BY <1>1, <3>1, <3>2, <3>3, ChainAppend
  <2>2. \A c \in Live, s \in Sides :
          Believed(c, s)' = IF c = b THEN p.strike[s] ELSE Believed(c, s)
    BY <1>2 DEF Believed
  <2> QED
    BY <1>4, <2>1, <2>2 DEF SettlementChain
<1> QED
  BY <1>2, <1>4, <1>5 DEF BookPart

\* Two orders published for one book, the second from where the first leads.
LEMMA TwoOrdersKeep ==
  ASSUME SettlementInv, NEW b \in Books, running[b], NEW p \in Position \cup {NoPosition},
         NEW o1 \in Order, NEW o2 \in Order, o1.book = b, o2.book = b, NEW m,
         Leads(o1, pos[b].strike, m), Leads(o2, m, p.strike),
         pos' = [pos EXCEPT ![b] = p], store' = [store EXCEPT ![b] = PositionFile(p)],
         orderQ' = Append(Append(orderQ, o1), o2), UNCHANGED <<fillQ, running, day, exec, net, resting>>
  PROVE  BookPart'
<1>1. orderQ \in Seq(Order) /\ Append(orderQ, o1) \in Seq(Order) /\ Append(orderQ, o1) # <<>>
  BY AppendType DEF SettlementInv, TypeOK, DeskTypeOK
<1>2. /\ StoreMatches' /\ FilesOfToday' /\ pos'[b] = p
      /\ \A c \in Books \ {b} : pos'[c] = pos[c] /\ store'[c] = store[c]
  <2>1. running' = running /\ day' = day
    OBVIOUS
  <2> QED
    BY <2>1, RepositionKeeps, ZenonT(30)
<1>4. NoAborts' /\ LegsFill' /\ Left' = Left
  BY <1>1, HeadAppend, PublishKeeps
<1>5. SettlementChain'
  <2>1. ASSUME NEW c \in Live, NEW s \in Sides, NEW k1, NEW k2,
               k1 = IF c = b THEN m[s] ELSE Believed(c, s),
               k2 = IF c = b THEN p.strike[s] ELSE Believed(c, s)
        PROVE  Chained(Append(Append(orderQ, o1), o2), Left, c, s, net[c][s], k2)
    <3>1. Chained(orderQ, Left, c, s, net[c][s], Believed(c, s))
      BY DEF SettlementInv, SettlementChain
    <3>2. orderQ = <<>> => s \in Left
      BY EmptyLeft
    <3>3. IF o1.book = c /\ s \in o1.legs THEN Before(o1, s) = Believed(c, s) /\ k1 = After(o1, s)
                                          ELSE k1 = Believed(c, s)
      BY <2>1, RunningBelief DEF Leads
    <3>4. Chained(Append(orderQ, o1), Left, c, s, net[c][s], k1)
      BY <1>1, <3>1, <3>2, <3>3, ChainAppend
    <3>5. IF o2.book = c /\ s \in o2.legs THEN Before(o2, s) = k1 /\ k2 = After(o2, s) ELSE k2 = k1
      BY <2>1 DEF Leads
    <3> QED
      BY <1>1, <3>4, <3>5, ChainAppend
  <2>2. \A c \in Live, s \in Sides :
          Believed(c, s)' = IF c = b THEN p.strike[s] ELSE Believed(c, s)
    BY <1>2 DEF Believed
  <2> QED
    BY <1>4, <2>1, <2>2 DEF SettlementChain
<1> QED
  BY <1>2, <1>4, <1>5 DEF BookPart

\* One order is a decision of its book, on the legs it names.
LEMMA OneOrderFollows ==
  ASSUME SettlementInv, NEW b \in Books, running[b], NEW p \in Position \cup {NoPosition},
         NEW o \in Order, o.book = b, Leads(o, pos[b].strike, p.strike),
         pos' = [pos EXCEPT ![b] = p], store' = [store EXCEPT ![b] = PositionFile(p)],
         orderQ' = Append(orderQ, o), UNCHANGED <<fillQ, running, day, exec, net, resting>>
  PROVE  Follows
<1>1. orderQ \in Seq(Order) /\ Left' = Left
  BY DEF SettlementInv, TypeOK, DeskTypeOK, Left
<1>2. /\ pos'[b] = p /\ \A c \in Books \ {b} : pos'[c] = pos[c] /\ store'[c] = store[c]
  <2>1. running' = running /\ day' = day
    OBVIOUS
  <2> QED
    BY <2>1, RepositionKeeps, ZenonT(30)
<1>3. \A c \in Live, s \in Sides :
        /\ Believed(c, s)' = IF c = b THEN p.strike[s] ELSE Believed(c, s)
        /\ HeldLeg(c, s)' = HeldLeg(c, s)
  BY <1>2, HeldStays DEF Believed
<1>4. \A c \in Live, s \in Sides :
        Outstanding(c, s)' = IF o.book = c /\ s \in o.legs
                             THEN Append(Outstanding(c, s), After(o, s)) ELSE Outstanding(c, s)
  BY <1>1, EmptyLeft, LegsAppend DEF Outstanding
<1>5. \A c \in Live \ {b}, s \in Sides : Stays(c, s)
  BY <1>3, <1>4 DEF Stays
<1>6. CASE b \notin Live
  BY <1>5, <1>6, AllStay
<1>7. CASE b \in Live
  <2>1. ASSUME NEW s \in Sides, s \notin o.legs PROVE Stays(b, s)
    BY <1>3, <1>4, <1>7, <2>1, RunningBelief DEF Stays, Leads
  <2>2. ASSUME NEW s \in Sides, s \in o.legs
        PROVE  \E d \in Account!Decisions(Believed(b, s)) :
                 Outstanding(b, s)' = Outstanding(b, s) \o d /\ Believed(b, s)' = d[Len(d)]
    <3> DEFINE d == <<After(o, s)>>
    <3>1. Believed(b, s) = Before(o, s) /\ Believed(b, s)' = After(o, s)
      BY <1>3, <1>7, <2>2, RunningBelief DEF Leads
    <3>2. d \in Account!Decisions(Believed(b, s))
      BY <2>2, <3>1, OrderDecides
    <3>3. Outstanding(b, s)' = Outstanding(b, s) \o d
      <4>1. Outstanding(b, s) \in Seq(Strikes \cup {Flat}) /\ After(o, s) \in Strikes \cup {Flat}
        BY <1>1, <2>2, LegsListed, OrderDecides DEF Outstanding
      <4>2. Append(Outstanding(b, s), After(o, s)) = Outstanding(b, s) \o d
        BY <4>1, AppendIsConcat
      <4> QED
        BY <1>4, <1>7, <2>2, <4>2
    <3>4. d[Len(d)] = After(o, s)
      OBVIOUS
    <3> QED
      BY <3>1, <3>2, <3>3, <3>4
  <2>3. \A s \in Sides : \/ Stays(b, s)
                         \/ /\ HeldLeg(b, s)' = HeldLeg(b, s)
                            /\ \E d \in Account!Decisions(Believed(b, s)) :
                                 /\ Outstanding(b, s)' = Outstanding(b, s) \o d
                                 /\ Believed(b, s)' = d[Len(d)]
    BY <1>3, <1>7, <2>1, <2>2
  <2> QED
    BY <1>5, <1>7, <2>3, OneDecides
<1> QED
  BY <1>6, <1>7

\* Two orders are one decision, by way of flat where they name the same leg.
LEMMA TwoOrdersFollow ==
  ASSUME SettlementInv, NEW b \in Books, running[b], NEW p \in Position \cup {NoPosition},
         NEW o1 \in Order, NEW o2 \in Order, o1.book = b, o2.book = b, NEW m,
         Leads(o1, pos[b].strike, m), Leads(o2, m, p.strike),
         \A s \in o1.legs \cap o2.legs :
           o1.action = "EXIT" /\ o2.action = "ENTRY" /\ o1.strikes[s] # o2.strikes[s],
         pos' = [pos EXCEPT ![b] = p], store' = [store EXCEPT ![b] = PositionFile(p)],
         orderQ' = Append(Append(orderQ, o1), o2), UNCHANGED <<fillQ, running, day, exec, net, resting>>
  PROVE  Follows
<1>1. orderQ \in Seq(Order) /\ Append(orderQ, o1) \in Seq(Order) /\ Append(orderQ, o1) # <<>>
  <2>1. orderQ \in Seq(Order)
    BY DEF SettlementInv, TypeOK, DeskTypeOK
  <2> QED
    BY ONLY <2>1, o1 \in Order, AppendType
<1>2. /\ pos'[b] = p /\ \A c \in Books \ {b} : pos'[c] = pos[c] /\ store'[c] = store[c]
  <2>1. running' = running /\ day' = day
    OBVIOUS
  <2> QED
    BY <2>1, RepositionKeeps, ZenonT(30)
<1>3. \A c \in Live, s \in Sides :
        /\ Believed(c, s)' = IF c = b THEN p.strike[s] ELSE Believed(c, s)
        /\ HeldLeg(c, s)' = HeldLeg(c, s)
  BY <1>2, HeldStays DEF Believed
<1> DEFINE L(q, c, s) == LegsOf(q, Left, c, s)
           q1 == Append(orderQ, o1)
<1>4. \A c \in Live, s \in Sides :
        /\ Outstanding(c, s) = L(orderQ, c, s)
        /\ Outstanding(c, s)' = L(Append(q1, o2), c, s)
        /\ L(q1, c, s) = IF b = c /\ s \in o1.legs THEN Append(L(orderQ, c, s), After(o1, s))
                                                   ELSE L(orderQ, c, s)
        /\ L(Append(q1, o2), c, s) = IF b = c /\ s \in o2.legs THEN Append(L(q1, c, s), After(o2, s))
                                                               ELSE L(q1, c, s)
  <2>1. Left' = Left
    BY DEF Left
  <2>2. ASSUME NEW c \in Live, NEW s \in Sides
        PROVE  L(q1, c, s) = IF b = c /\ s \in o1.legs THEN Append(L(orderQ, c, s), After(o1, s))
                                                       ELSE L(orderQ, c, s)
    BY <1>1, EmptyLeft, LegsAppend
  <2>3. ASSUME NEW c \in Live, NEW s \in Sides
        PROVE  L(Append(q1, o2), c, s)
                 = IF b = c /\ s \in o2.legs THEN Append(L(q1, c, s), After(o2, s)) ELSE L(q1, c, s)
    <3>1. q1 \in Seq(Order) /\ q1 # <<>>
      BY <1>1
    <3> HIDE DEF q1
    <3> QED
      BY <3>1, LegsAppend
  <2> QED
    BY <2>1, <2>2, <2>3 DEF Outstanding
<1>5. \A s \in Sides : L(orderQ, b, s) \in Seq(Strikes \cup {Flat})
  BY <1>1, LegsListed
<1> HIDE DEF L, q1
<1>6. \A c \in Live \ {b}, s \in Sides : Stays(c, s)
  BY <1>3, <1>4 DEF Stays
<1>7. CASE b \notin Live
  BY <1>6, <1>7, AllStay
<1>8. CASE b \in Live
  <2>1. ASSUME NEW s \in Sides, s \notin o1.legs, s \notin o2.legs PROVE Stays(b, s)
    BY <1>3, <1>4, <1>8, <2>1, RunningBelief DEF Stays, Leads
  <2>2. ASSUME NEW s \in Sides, NEW o \in {o1, o2}, s \in o.legs, s \notin o1.legs \cap o2.legs
        PROVE  \E d \in Account!Decisions(Believed(b, s)) :
                 Outstanding(b, s)' = Outstanding(b, s) \o d /\ Believed(b, s)' = d[Len(d)]
    <3> DEFINE d == <<After(o, s)>>
    <3>1. Believed(b, s) = Before(o, s) /\ Believed(b, s)' = After(o, s)
      BY <1>3, <1>8, <2>2, RunningBelief DEF Leads
    <3>2. d \in Account!Decisions(Believed(b, s)) /\ After(o, s) \in Strikes \cup {Flat}
      BY <2>2, <3>1, OrderDecides
    <3>3. Outstanding(b, s)' = Outstanding(b, s) \o d
      <4>1. Outstanding(b, s)' = Append(Outstanding(b, s), After(o, s))
        BY <1>4, <1>8, <2>2
      <4>2. Outstanding(b, s) \in Seq(Strikes \cup {Flat})
        BY <1>4, <1>5, <1>8
      <4> QED
        BY <3>2, <4>1, <4>2, AppendIsConcat
    <3>4. d[Len(d)] = After(o, s)
      OBVIOUS
    <3> QED
      BY <3>1, <3>2, <3>3, <3>4
  <2>3. ASSUME NEW s \in Sides, s \in o1.legs, s \in o2.legs
        PROVE  \E d \in Account!Decisions(Believed(b, s)) :
                 Outstanding(b, s)' = Outstanding(b, s) \o d /\ Believed(b, s)' = d[Len(d)]
    <3> DEFINE k == o2.strikes[s]
               d == <<Flat, k>>
    <3>1. o1.action = "EXIT" /\ o2.action = "ENTRY" /\ o1.strikes[s] # k
      BY <2>3
    <3>2. o1.strikes[s] \in Strikes /\ k \in Strikes
      BY DEF Order, Pairs
    <3>3. Believed(b, s) = o1.strikes[s] /\ Believed(b, s)' = k
      BY <1>3, <1>8, <2>3, <3>1, RunningBelief DEF Leads, Before, After
    <3>4. d \in Account!Decisions(Believed(b, s))
      BY <3>1, <3>2, <3>3 DEF Account!Decisions
    <3>5. Outstanding(b, s)' = Outstanding(b, s) \o d
      <4>1. Outstanding(b, s)' = Append(Append(Outstanding(b, s), Flat), k)
        BY <1>4, <1>8, <2>3, <3>1 DEF After
      <4>2. Outstanding(b, s) \in Seq(Strikes \cup {Flat})
        BY <1>4, <1>5, <1>8
      <4> QED
        BY <3>2, <4>1, <4>2, AppendIsConcat
    <3>6. d[Len(d)] = k
      OBVIOUS
    <3> QED
      BY <3>3, <3>4, <3>5, <3>6
  <2>4. \A s \in Sides : \/ Stays(b, s)
                         \/ /\ HeldLeg(b, s)' = HeldLeg(b, s)
                            /\ \E d \in Account!Decisions(Believed(b, s)) :
                                 /\ Outstanding(b, s)' = Outstanding(b, s) \o d
                                 /\ Believed(b, s)' = d[Len(d)]
    BY <1>3, <1>8, <2>1, <2>2, <2>3
  <2> QED
    BY <1>6, <1>8, <2>4, OneDecides
<1> QED
  BY <1>7, <1>8

\* _open_position: from two flat legs to two sold ones.
LEMMA OpenPositionKeeps ==
  ASSUME SettlementInv, NEW b \in Books, NEW k \in Pairs, OpenPosition(b, k), UNCHANGED <<day, exec, net, resting>>
  PROVE  BookPart' /\ Follows
<1> DEFINE p == [strike |-> k, sold |-> k]
           o == EntryOrder(b, Sides, k)
<1>1. p \in Position \cup {NoPosition} /\ p.strike = k
  BY DEF Position
<1>2. Sides \in Legs
  BY DEF Sides, Legs
<1>3. o \in Order /\ o.book = b /\ o.legs = Sides /\ o.action = "ENTRY" /\ o.strikes = k
  BY <1>2, OrderType DEF EntryOrder
<1>4. running[b] /\ \A s \in Sides : pos[b].strike[s] = Flat
  BY DEF OpenPosition, MayEnter, NoPosition
<1>5. Leads(o, pos[b].strike, p.strike)
  BY <1>1, <1>3, <1>4 DEF Leads, Before, After
<1>6. /\ pos' = [pos EXCEPT ![b] = p] /\ store' = [store EXCEPT ![b] = PositionFile(p)]
      /\ orderQ' = Append(orderQ, o) /\ UNCHANGED <<fillQ, running, day, exec, net, resting>>
  BY DEF OpenPosition, Persist, Sets, PositionFile, PublishOrder
<1> HIDE DEF p, o
<1> QED
  BY <1>1, <1>3, <1>4, <1>5, <1>6, OneOrderKeeps, OneOrderFollows, ZenonT(30)

\* _close_position: from the believed legs to none.
LEMMA ClosePositionKeeps ==
  ASSUME SettlementInv, NEW b \in Books, NEW st, ClosePosition(b, st), UNCHANGED <<day, exec, net, resting>>
  PROVE  BookPart' /\ Follows
<1> DEFINE p == NoPosition
           o == ExitOrder(b, Sides, pos[b].strike)
<1>1. p \in Position \cup {NoPosition} /\ \A s \in Sides : p.strike[s] = Flat
  BY DEF NoPosition
<1>2. Sides \in Legs /\ pos[b].strike \in Pairs
  BY OpenIsPosition DEF Sides, Legs, SettlementInv, TypeOK, ClosePosition
<1>3. o \in Order /\ o.book = b /\ o.legs = Sides /\ o.action = "EXIT" /\ o.strikes = pos[b].strike
  BY <1>2, OrderType DEF ExitOrder
<1>4. running[b]
  BY DEF ClosePosition
<1>5. Leads(o, pos[b].strike, p.strike)
  BY <1>1, <1>3 DEF Leads, Before, After
<1>6. /\ pos' = [pos EXCEPT ![b] = p] /\ store' = [store EXCEPT ![b] = PositionFile(p)]
      /\ orderQ' = Append(orderQ, o) /\ UNCHANGED <<fillQ, running, day, exec, net, resting>>
  BY DEF ClosePosition, Persist, Sets, PositionFile, PublishOrder
<1> HIDE DEF p, o
<1> QED
  BY <1>1, <1>3, <1>4, <1>5, <1>6, OneOrderKeeps, OneOrderFollows, ZenonT(30)

\* _single_side_roll with a partner: one leg through flat to another strike.
LEMMA RollKeeps ==
  ASSUME SettlementInv, NEW b \in Books, NEW t \in Sides, NEW k \in Strikes, Roll(b, t, k),
         UNCHANGED <<day, exec, net, resting>>
  PROVE  BookPart' /\ Follows
<1> DEFINE p == Rolled(pos[b], t, k)
           o1 == ExitOrder(b, {t}, pos[b].strike)
           o2 == EntryOrder(b, {t}, p.strike)
           m == [pos[b].strike EXCEPT ![t] = Flat]
<1>1. pos[b] \in Position /\ pos[b].strike \in Pairs /\ running[b]
  BY OpenIsPosition DEF SettlementInv, TypeOK, Roll, MayRoll
<1>2. p \in Position /\ p.strike \in Pairs /\ p.strike = [pos[b].strike EXCEPT ![t] = k]
  BY <1>1, RolledType DEF Rolled
<1>3. {t} \in Legs
  BY DEF Legs
<1>4. o1 \in Order /\ o1.book = b /\ o1.legs = {t} /\ o1.action = "EXIT" /\ o1.strikes = pos[b].strike
  BY <1>1, <1>3, OrderType DEF ExitOrder
<1>5. o2 \in Order /\ o2.book = b /\ o2.legs = {t} /\ o2.action = "ENTRY" /\ o2.strikes = p.strike
  BY <1>2, <1>3, OrderType DEF EntryOrder
<1>6. m[t] = Flat /\ \A s \in Sides \ {t} : m[s] = pos[b].strike[s]
  BY <1>1 DEF Pairs
<1>7. Leads(o1, pos[b].strike, m)
  BY <1>4, <1>6 DEF Leads, Before, After
<1>8. Leads(o2, m, p.strike)
  BY <1>1, <1>2, <1>5, <1>6 DEF Leads, Before, After, Pairs
<1>9. /\ pos' = [pos EXCEPT ![b] = p] /\ store' = [store EXCEPT ![b] = PositionFile(p)]
      /\ orderQ' = Append(Append(orderQ, o1), o2) /\ UNCHANGED <<fillQ, running, day, exec, net, resting>>
  BY DEF Roll, RollOrders, Persist, Sets, PositionFile
<1>10. p \in Position \cup {NoPosition}
  BY <1>2
<1>11. \A s \in o1.legs \cap o2.legs :
         o1.action = "EXIT" /\ o2.action = "ENTRY" /\ o1.strikes[s] # o2.strikes[s]
  <2>1. t \in DOMAIN pos[b].strike /\ p.strike[t] = k
    BY <1>1, <1>2 DEF Pairs
  <2>2. k # pos[b].strike[t]
    BY DEF Roll
  <2>3. \A s \in o1.legs \cap o2.legs : s = t
    BY <1>4, <1>5
  <2> HIDE DEF p, o1, o2
  <2> QED
    BY <1>4, <1>5, <2>1, <2>2, <2>3
<1> HIDE DEF p, o1, o2, m
<1>12. BookPart'
  BY <1>1, <1>4, <1>5, <1>7, <1>8, <1>9, <1>10, TwoOrdersKeep, ZenonT(60)
<1>13. Follows
  BY <1>1, <1>4, <1>5, <1>7, <1>8, <1>9, <1>10, <1>11, TwoOrdersFollow, ZenonT(60)
<1> QED
  BY <1>12, <1>13

\* _single_side_roll without a partner: both legs to flat, one order each.
LEMMA RollNoPartnerKeeps ==
  ASSUME SettlementInv, NEW b \in Books, NEW t \in Sides, RollNoPartner(b, t), UNCHANGED <<day, exec, net, resting>>
  PROVE  BookPart' /\ Follows
<1> DEFINE p == NoPosition
           o1 == ExitOrder(b, {t}, pos[b].strike)
           o2 == ExitOrder(b, {Other(t)}, pos[b].strike)
           m == [pos[b].strike EXCEPT ![t] = Flat]
<1>1. pos[b].strike \in Pairs /\ running[b]
  BY OpenIsPosition DEF SettlementInv, TypeOK, RollNoPartner, MayRoll
<1>2. p \in Position \cup {NoPosition} /\ \A s \in Sides : p.strike[s] = Flat
  BY DEF NoPosition
<1>3. /\ {t} \in Legs /\ {Other(t)} \in Legs /\ Other(t) # t
      /\ \A s \in Sides : s \in {Other(t)} <=> s # t
  BY DEF Legs, Other, Sides
<1>4. o1 \in Order /\ o1.book = b /\ o1.legs = {t} /\ o1.action = "EXIT" /\ o1.strikes = pos[b].strike
  BY <1>1, <1>3, OrderType DEF ExitOrder
<1>5. o2 \in Order /\ o2.book = b /\ o2.legs = {Other(t)} /\ o2.action = "EXIT" /\ o2.strikes = pos[b].strike
  BY <1>1, <1>3, OrderType DEF ExitOrder
<1>6. m[t] = Flat /\ \A s \in Sides \ {t} : m[s] = pos[b].strike[s]
  BY <1>1 DEF Pairs
<1>7. Leads(o1, pos[b].strike, m)
  BY <1>4, <1>6 DEF Leads, Before, After
<1>8. Leads(o2, m, p.strike)
  BY <1>2, <1>3, <1>5, <1>6 DEF Leads, Before, After
<1>9. /\ pos' = [pos EXCEPT ![b] = p] /\ store' = [store EXCEPT ![b] = PositionFile(p)]
      /\ orderQ' = Append(Append(orderQ, o1), o2) /\ UNCHANGED <<fillQ, running, day, exec, net, resting>>
  BY DEF RollNoPartner, CleanupOrders, Persist, Sets, PositionFile
<1>10. o1.legs \cap o2.legs = {}
  BY <1>3, <1>4, <1>5
<1> HIDE DEF p, o1, o2, m
<1>11. BookPart'
  BY <1>1, <1>2, <1>4, <1>5, <1>7, <1>8, <1>9, TwoOrdersKeep, ZenonT(60)
<1>12. Follows
  BY <1>1, <1>2, <1>4, <1>5, <1>7, <1>8, <1>9, <1>10, TwoOrdersFollow, ZenonT(60)
<1> QED
  BY <1>11, <1>12

\* What leaves queue, bridge and accounts alone, and every book's strikes in
\* memory or on file, leaves the chains alone.
LEMMA SameBeliefsKeep ==
  ASSUME SettlementInv, UNCHANGED <<orderQ, exec, net, resting>>, NoAborts',
         \A b \in Books, s \in Sides :
           (IF running'[b] THEN pos'[b].strike[s] ELSE store'[b].pos.strike[s])
             = (IF running[b] THEN pos[b].strike[s] ELSE store[b].pos.strike[s])
  PROVE  NoAborts' /\ LegsFill' /\ SettlementChain' /\ Follows
<1>1. LegsFill'
  BY DEF SettlementInv, LegsFill, Current, bridgeVars
<1>2. \A b \in Live, s \in Sides : Believed(b, s)' = Believed(b, s)
  BY DEF Believed
<1>3. SettlementChain'
  BY <1>2 DEF SettlementInv, SettlementChain, Left
<1>4. Follows
  <2>1. \A b \in Live, s \in Sides : HeldLeg(b, s)' = HeldLeg(b, s)
    BY HeldStays
  <2>2. \A b \in Live, s \in Sides : Outstanding(b, s)' = Outstanding(b, s)
    BY DEF Outstanding, Left
  <2> QED
    BY <1>2, <2>1, <2>2, AllStay DEF Stays
<1> QED
  BY <1>1, <1>3, <1>4

\* _on_fill: a fill moves entry prices only; its file follows.
LEMMA HandleFillKeeps ==
  ASSUME SettlementInv, NEW b \in Books, HandleFill(b), UNCHANGED <<day, exec, net, resting>>
  PROVE  BookPart' /\ Follows
<1>1. TakeFill(b)
  BY DEF HandleFill, EntryFilled, EntryAborted, ExitFilled
<1>2. /\ running[b] /\ orderQ' = orderQ /\ running' = running
      /\ fillQ' = [fillQ EXCEPT ![b] = Tail(fillQ[b])]
      /\ fillQ \in [Books -> Seq(Fill)] /\ fillQ[b] # <<>> /\ fillQ[b] \in Seq(Fill)
  BY <1>1 DEF TakeFill, SettlementInv, TypeOK, DeskTypeOK
<1>3. NoAborts'
  <2>1. ASSUME NEW c \in Books, NEW i \in 1..Len(fillQ'[c]) PROVE ~fillQ'[c][i].aborted
    <3>1. CASE c = b
      <4>1. i + 1 \in 1..Len(fillQ[b]) /\ fillQ'[b][i] = fillQ[b][i + 1]
        BY <1>2, <2>1, <3>1
      <4> QED
        BY <3>1, <4>1 DEF SettlementInv, NoAborts
    <3>2. CASE c # b
      BY <1>2, <2>1, <3>2 DEF SettlementInv, NoAborts
    <3> QED
      BY <3>1, <3>2
  <2> QED
    BY <2>1 DEF NoAborts
<1>4. ~EntryAborted(b)
  <2>1. Head(fillQ[b]) = fillQ[b][1] /\ 1 \in 1..Len(fillQ[b])
    BY <1>2
  <2> QED
    BY <2>1 DEF EntryAborted, SettlementInv, NoAborts
<1>5. CASE UNCHANGED <<pos, store>>
  <2>1. StoreMatches' /\ FilesOfToday'
    BY <1>2, <1>5 DEF SettlementInv, StoreMatches, FilesOfToday
  <2> QED
    BY <1>2, <1>3, <1>5, <2>1, SameBeliefsKeep DEF BookPart
<1>6. CASE EntryFilled(b) /\ pos[b] # NoPosition
  <2> DEFINE p == Adopt(pos[b], Head(fillQ[b]))
  <2>1. DeskTypeOK /\ BookTypeOK
    BY DEF SettlementInv, TypeOK
  <2>2. p \in Position \cup {NoPosition}
    BY <1>1, <1>6, <2>1, OpenIsPosition, TakeFillType, AdoptType
  <2>3. p.strike = pos[b].strike
    BY <1>6, <2>1, OpenIsPosition DEF Adopt, Position
  <2>4. pos' = [pos EXCEPT ![b] = p] /\ store' = [store EXCEPT ![b] = PositionFile(p)]
    BY <1>6 DEF EntryFilled, Persist, Sets, PositionFile
  <2> HIDE DEF p
  <2>5. /\ StoreMatches' /\ FilesOfToday' /\ pos'[b] = p
        /\ \A c \in Books \ {b} : pos'[c] = pos[c] /\ store'[c] = store[c]
    <3>1. running' = running /\ day' = day
      BY <1>2
    <3> QED
      BY <2>2, <2>4, <3>1, RepositionKeeps, ZenonT(30)
  <2>6. \A c \in Books, s \in Sides :
           (IF running'[c] THEN pos'[c].strike[s] ELSE store'[c].pos.strike[s])
             = (IF running[c] THEN pos[c].strike[s] ELSE store[c].pos.strike[s])
    BY <1>2, <2>3, <2>5
  <2>7. UNCHANGED <<orderQ, exec, net, resting>>
    BY <1>2
  <2> QED
    BY <1>3, <2>5, <2>6, <2>7, SameBeliefsKeep DEF BookPart
<1> QED
  BY <1>4, <1>5, <1>6 DEF HandleFill, EntryFilled, ExitFilled, diskVars

\* A step of a book keeps the invariant, whichever handler it is.
LEMMA BookKeeps ==
  ASSUME SettlementInv, NEW b \in Books, Trade(b) \/ EndOfDay(b) \/ Quiet(b) \/ HandleFill(b),
         UNCHANGED <<clockVars, flagVars, bridgeVars, op>>
  PROVE  BookPart' /\ OneSession' /\ Follows
<1>1. UNCHANGED <<day, exec, net, resting>> /\ UNCHANGED <<run, terminal, op>>
  BY DEF clockVars, flagVars, bridgeVars
<1>2. ASSUME NEW st, ClosePosition(b, st) PROVE BookPart' /\ Follows
  BY <1>1, <1>2, ClosePositionKeeps, ZenonT(30)
<1>3. CASE Trade(b)
  <2>1. ASSUME NEW k \in Pairs, OpenPosition(b, k) PROVE BookPart' /\ Follows /\ sday' = sday
    <3>1. BookPart' /\ Follows
      BY <1>1, <2>1, OpenPositionKeeps, ZenonT(30)
    <3> QED
      BY <2>1, <3>1 DEF OpenPosition
  <2>2. ASSUME NEW s \in Sides, NEW k \in Strikes, Roll(b, s, k) PROVE BookPart' /\ Follows /\ sday' = sday
    <3>1. BookPart' /\ Follows
      BY <1>1, <2>2, RollKeeps, ZenonT(30)
    <3> QED
      BY <2>2, <3>1 DEF Roll
  <2>3. ASSUME NEW s \in Sides, RollNoPartner(b, s) PROVE BookPart' /\ Follows /\ sday' = sday
    <3>1. BookPart' /\ Follows
      BY <1>1, <2>3, RollNoPartnerKeeps, ZenonT(30)
    <3> QED
      BY <2>3, <3>1 DEF RollNoPartner
  <2>4. ASSUME ExitAndReenter(b) \/ ExitForDay(b) PROVE BookPart' /\ Follows /\ sday' = sday
    BY <1>2, <2>4 DEF ExitAndReenter, ExitForDay
  <2>5. BookPart' /\ Follows /\ sday' = sday
    BY <1>3, <2>1, <2>2, <2>3, <2>4 DEF Trade, ExitAndReenter, ExitForDay
  <2> QED
    BY <1>1, <2>5 DEF SettlementInv, OneSession
<1>4. CASE EndOfDay(b)
  <2>1. BookPart' /\ Follows
    BY <1>2, <1>4 DEF EndOfDay, EodTick, EodCandle
  <2>2. sday' = sday \/ sday' = [sday EXCEPT ![b] = day]
    BY <1>4 DEF EndOfDay, EodTick, EodCandle, Sets
  <2> QED
    BY <1>1, <2>1, <2>2 DEF SettlementInv, OneSession, TypeOK, BookTypeOK
<1>5. CASE Quiet(b)
  <2>1. ~ResetSession(b)
    BY DEF ResetSession, SettlementInv, OneSession
  <2>2. UNCHANGED <<orderQ, fillQ, running, pos, store>>
    BY <1>5, <2>1 DEF Quiet, CheckTerminal, WarmUpEnds, CooldownEnds, QuietCandle, busVars, diskVars
  <2>3. sday' = sday \/ sday' = [sday EXCEPT ![b] = day]
    BY <1>5, <2>1 DEF Quiet, CheckTerminal, WarmUpEnds, CooldownEnds, QuietCandle, Sets
  <2>4. NoAborts' /\ StoreMatches' /\ FilesOfToday'
    BY <1>1, <2>2 DEF SettlementInv, NoAborts, StoreMatches, FilesOfToday
  <2>5. BookPart' /\ Follows
    BY <1>1, <2>2, <2>4, SameBeliefsKeep DEF BookPart
  <2> QED
    BY <1>1, <2>3, <2>5 DEF SettlementInv, OneSession, TypeOK, BookTypeOK
<1>6. CASE HandleFill(b)
  <2>1. BookPart' /\ Follows
    BY <1>1, <1>6, HandleFillKeeps, ZenonT(30)
  <2>2. sday' = sday
    BY <1>6 DEF HandleFill, EntryFilled, EntryAborted, ExitFilled, TakeFill
  <2> QED
    BY <1>1, <2>1, <2>2 DEF SettlementInv, OneSession
<1> QED
  BY <1>3, <1>4, <1>5, <1>6

\* start(): the restored position is the one on file, and it is today's.
LEMMA StartBookKeeps ==
  ASSUME SettlementInv, NEW b \in Books, StartBook(b), UNCHANGED <<clockVars, flagVars, bridgeVars, op>>
  PROVE  BookPart' /\ OneSession' /\ Follows
<1>1. pos \in [Books -> Position \cup {NoPosition}] /\ store \in [Books -> PositionFiles]
      /\ running \in [Books -> BOOLEAN]
  BY DEF SettlementInv, TypeOK, DeskTypeOK, BookTypeOK, PositionFiles
<1>2. /\ UNCHANGED <<orderQ, fillQ, sday, exec, net, resting, day, run, terminal, op>>
      /\ ~running[b] /\ running' = [running EXCEPT ![b] = TRUE]
      /\ pos' = [pos EXCEPT ![b] = Saved(b)]
      /\ store' = [store EXCEPT ![b] = IF Saved(b) = NoPosition THEN Cleared ELSE store[b]]
  BY DEF StartBook, Sets, busVars, clockVars, flagVars, bridgeVars
<1>3. Saved(b) = store[b].pos
  BY DEF Saved, SettlementInv, FilesOfToday
<1>4. pos'[b] = store[b].pos /\ store'[b].pos = store[b].pos
  BY <1>1, <1>2, <1>3 DEF Cleared
<1>5. \A c \in Books \ {b} : pos'[c] = pos[c] /\ store'[c] = store[c] /\ running'[c] = running[c]
  BY <1>1, <1>2
<1>6. StoreMatches'
  BY <1>4, <1>5 DEF SettlementInv, StoreMatches
<1>7. FilesOfToday'
  <2>1. store'[b].pos # NoPosition => store'[b].day = day
    BY <1>1, <1>2, <1>3 DEF Cleared, SettlementInv, FilesOfToday
  <2> QED
    BY <1>2, <1>5, <2>1 DEF SettlementInv, FilesOfToday
<1>8. NoAborts' /\ OneSession'
  BY <1>2 DEF SettlementInv, NoAborts, OneSession
<1>9. \A c \in Books, s \in Sides :
         (IF running'[c] THEN pos'[c].strike[s] ELSE store'[c].pos.strike[s])
           = (IF running[c] THEN pos[c].strike[s] ELSE store[c].pos.strike[s])
  BY <1>1, <1>2, <1>4, <1>5
<1> QED
  BY <1>2, <1>6, <1>7, <1>8, <1>9, SameBeliefsKeep DEF BookPart

\* A book that is stopped leaves on file what it believed.
LEMMA ForgetKeeps ==
  ASSUME SettlementInv, NEW gone \in SUBSET Books, Forget(gone), orderQ' = orderQ,
         UNCHANGED <<clockVars, flagVars, bridgeVars, op>>
  PROVE  BookPart' /\ OneSession' /\ Follows
<1>1. UNCHANGED <<orderQ, exec, net, resting, day, run, terminal, op, store>>
  BY DEF Forget, diskVars, clockVars, flagVars, bridgeVars
<1>2. \A c \in Books : running'[c] => running[c] /\ pos'[c] = pos[c]
  BY DEF Forget
<1>3. \A c \in Books : running[c] /\ ~running'[c] => store[c].pos = pos[c]
  BY DEF SettlementInv, StoreMatches
<1>4. StoreMatches' /\ FilesOfToday'
  BY <1>1, <1>2 DEF SettlementInv, StoreMatches, FilesOfToday
<1>5. NoAborts'
  <2>1. \A c \in Books : fillQ'[c] = fillQ[c] \/ fillQ'[c] = <<>>
    BY DEF Forget
  <2> QED
    BY <2>1 DEF SettlementInv, NoAborts
<1>6. OneSession'
  <2>1. \A c \in Books : sday'[c] = sday[c] \/ sday'[c] = 0
    BY DEF Forget
  <2> QED
    BY <1>1, <2>1 DEF SettlementInv, OneSession
<1>7. \A c \in Books, s \in Sides :
         (IF running'[c] THEN pos'[c].strike[s] ELSE store'[c].pos.strike[s])
           = (IF running[c] THEN pos[c].strike[s] ELSE store[c].pos.strike[s])
  BY <1>1, <1>2, <1>3
<1> QED
  BY <1>1, <1>4, <1>5, <1>6, <1>7, SameBeliefsKeep DEF BookPart

----------------------------------------------------------------------------
(* The desk *)

\* At start no book runs, no order is queued and every account is flat.
LEMMA SettlementInit == Init => SettlementInv
<1> SUFFICES ASSUME Init PROVE SettlementInv
  OBVIOUS
<1>1. TypeOK /\ Busy
  BY TypeInit DEF TypeInv
<1>2. OneSession /\ StoreMatches /\ FilesOfToday
  BY DEF Init, BookInit, OneSession, StoreMatches, FilesOfToday, Cleared
<1>3. NoAborts /\ LegsFill
  BY DEF Init, BridgeInit, NoAborts, LegsFill, Idle
<1>4. \A b \in Live, s \in Sides : ShortOf(net[b][s], Flat) /\ Believed(b, s) = Flat
  BY DEF Init, BookInit, BridgeInit, Believed, ShortOf, Cleared, NoPosition
<1>5. \A b \in Live, s \in Sides : Within(net[b][s], Flat)
  BY <1>4 DEF Within, ShortOf
<1>6. SettlementChain
  <2>1. Len(orderQ) = 0
    BY DEF Init
  <2>2. \A b \in Live, s \in Sides : Linked(orderQ, Left, b, s, Flat, Believed(b, s))
    BY <1>4, <2>1 DEF Linked
  <2> QED
    BY <1>5, <2>2 DEF SettlementChain, Chained
<1> QED
  BY <1>1, <1>2, <1>3, <1>6 DEF SettlementInv

\* The Run toggle: the book squares off before it is stopped.
LEMMA ClientKeeps ==
  ASSUME Toggled, SettlementInv, NEW b \in Books, ClientStep(b)
  PROVE  BookPart' /\ OneSession' /\ Follows
<1>1. ~TerminalOff(b) /\ ~DisconnectSquareOff(b) /\ ~TerminalOn(b)
  BY DEF Toggled, TerminalOff, DisconnectSquareOff, TerminalOn, SettlementInv, OneSession
<1>2. /\ op \in [Books -> OpStates] /\ run \in [Books -> BOOLEAN]
      /\ BookPart
  BY DEF SettlementInv, TypeOK, DeskTypeOK, BookPart
<1>3. CASE RunOff(b)
  <2>1. /\ UNCHANGED <<day, exec, net, resting>> /\ UNCHANGED <<run, terminal>>
        /\ op' = [op EXCEPT ![b] = "stopping"] /\ "run_off" \in Faults
    BY <1>3 DEF RunOff, clockVars, flagVars, bridgeVars
  <2>2. CASE SquareOff(b)
    <3>1. ClosePosition(b, TRUE) /\ sday' = sday
      BY <2>2 DEF SquareOff
    <3>2. BookPart' /\ Follows
      BY <2>1, <3>1, ClosePositionKeeps, ZenonT(30)
    <3> QED
      BY <1>2, <2>1, <3>1, <3>2 DEF SettlementInv, OneSession
  <2>3. CASE UNCHANGED <<busVars, bookVars>>
    <3>1. UNCHANGED <<orderQ, fillQ, running, pos, store, sday>>
      BY <2>3 DEF busVars, bookVars, memoryVars, diskVars
    <3>2. StoreMatches' /\ FilesOfToday' /\ NoAborts'
      BY <2>1, <3>1 DEF SettlementInv, StoreMatches, FilesOfToday, NoAborts
    <3>3. BookPart' /\ Follows
      BY <2>1, <3>1, <3>2, SameBeliefsKeep DEF BookPart
    <3> QED
      BY <1>2, <2>1, <3>1, <3>3 DEF SettlementInv, OneSession
  <2> QED
    BY <1>3, <2>2, <2>3 DEF RunOff, SquareOffBinding
<1>4. CASE RunCleared(b) \/ RunOn(b)
  <2>1. /\ UNCHANGED <<orderQ, fillQ, running, pos, store, sday, day, exec, net, resting, terminal>>
        /\ op' \in {op, [op EXCEPT ![b] = "none"]}
    BY <1>4 DEF RunCleared, RunOn, busVars, bookVars, memoryVars, diskVars, clockVars, bridgeVars
  <2>2. StoreMatches' /\ FilesOfToday' /\ NoAborts'
    BY <2>1 DEF SettlementInv, StoreMatches, FilesOfToday, NoAborts
  <2>3. BookPart' /\ Follows
    BY <2>1, <2>2, SameBeliefsKeep DEF BookPart
  <2>4. "run_off" \in Faults
    BY <1>4 DEF RunCleared, RunOn, SettlementInv, OneSession
  <2> QED
    BY <1>2, <2>1, <2>3, <2>4 DEF SettlementInv, OneSession
<1> QED
  BY <1>1, <1>3, <1>4 DEF ClientStep

\* Every handler, bridge step and restart keeps the chain between account and
\* belief, as long as every leg that is sent fills.
LEMMA SettlementNext ==
  ASSUME Toggled, SettlementInv, [Next]_vars
  PROVE  SettlementInv' /\ (Reliable => Follows)
<1>1. TypeOK' /\ Busy'
  BY TypeNext DEF TypeInv, SettlementInv
<1>2. SUFFICES BookPart' /\ OneSession' /\ (Reliable => Follows)
  BY <1>1 DEF BookPart, SettlementInv
<1>3. CASE BookStep
  <2>1. PICK b \in Books : Trade(b) \/ EndOfDay(b) \/ Quiet(b) \/ HandleFill(b)
    BY <1>3 DEF BookStep
  <2>2. UNCHANGED <<clockVars, flagVars, bridgeVars, op>>
    BY <1>3 DEF BookStep
  <2> QED
    BY <2>1, <2>2, BookKeeps
<1>4. CASE Bridge
  <2>1. UNCHANGED <<running, pos, store, sday, day, run, terminal, op>> /\ BridgeStep
    BY <1>4 DEF Bridge, memoryVars, diskVars, clockVars, flagVars
  <2>2. BridgePart'
    BY <2>1, BridgeKeeps DEF BeliefsKept
  <2>3. StoreMatches' /\ FilesOfToday' /\ OneSession'
    BY <2>1 DEF SettlementInv, StoreMatches, FilesOfToday, OneSession
  <2>4. Reliable => Follows
    BY <2>1, BridgeFollows DEF BeliefsKept
  <2> QED
    BY <2>2, <2>3, <2>4 DEF BridgePart, BookPart
<1>5. ASSUME NEW b \in Books, SpawnBook(b) PROVE BookPart' /\ OneSession' /\ Follows
  BY <1>5, StartBookKeeps DEF SpawnBook
<1>6. ASSUME NEW b \in Books, RemoveBook(b) PROVE BookPart' /\ OneSession' /\ Follows
  BY <1>6, ForgetKeeps DEF RemoveBook, StopBook
<1>7. CASE ManagerReadError
  BY <1>7, ForgetKeeps DEF ManagerReadError
<1>8. CASE SquareOffTime
  <2>1. UNCHANGED <<orderQ, fillQ, exec, net, resting, running, pos, store, sday, day, run, terminal, op>>
    BY <1>8 DEF SquareOffTime, busVars, bookVars, memoryVars, diskVars, flagVars, bridgeVars
  <2>2. StoreMatches' /\ FilesOfToday' /\ OneSession' /\ NoAborts'
    BY <2>1 DEF SettlementInv, StoreMatches, FilesOfToday, OneSession, NoAborts
  <2> QED
    BY <2>1, <2>2, SameBeliefsKeep DEF BookPart
<1>9. CASE NewDay \/ Crash
  BY <1>9 DEF NewDay, Crash, Toggled
<1>10. CASE UNCHANGED vars
  <2>1. UNCHANGED <<orderQ, fillQ, exec, net, resting, running, pos, store, sday, day, run, terminal, op>>
    BY <1>10 DEF vars, busVars, bookVars, memoryVars, diskVars, clockVars, flagVars, bridgeVars
  <2>2. StoreMatches' /\ FilesOfToday' /\ OneSession' /\ NoAborts'
    BY <2>1 DEF SettlementInv, StoreMatches, FilesOfToday, OneSession, NoAborts
  <2> QED
    BY <2>1, <2>2, SameBeliefsKeep DEF BookPart
<1> QED
  BY <1>3, <1>4, <1>5, <1>6, <1>7, <1>8, <1>9, <1>10, ClientKeeps DEF Next

\* The chain between account and belief holds at every moment of a session whose
\* orders fill (_close_position, _single_side_roll, _live_fill, start, stop, the
\* Run toggle).
THEOREM Settlement == ASSUME Toggled PROVE Spec => []SettlementInv
<1>1. SettlementInv /\ [Next]_vars => SettlementInv'
  BY SettlementNext
<1> QED
  BY <1>1, SettlementInit, PTL DEF Spec

\* A chain without orders ties the account to the belief.
LEMMA ChainSettles ==
  ASSUME SettlementInv, NEW b \in Live, NoOrders(b), NEW s \in Sides
  PROVE  Within(net[b][s], Believed(b, s))
<1>1. PICK h \in Strikes \cup {Flat} :
        Within(net[b][s], h) /\ Linked(orderQ, Left, b, s, h, Believed(b, s))
  BY DEF SettlementInv, SettlementChain, Chained
<1>2. \A i \in 1..Len(orderQ) : ~Touches(orderQ, Left, i, b, s)
  BY DEF NoOrders, Touches
<1> QED
  BY <1>1, <1>2 DEF Linked

\* In a reliable session, whenever no order of a live book is on its way, its
\* exchange account holds exactly the legs the book believes in.
THEOREM SettledTheorem == ASSUME Reliable PROVE Spec => []Settled
<1>1. SettlementInv => Settled
  BY ChainSettles DEF Settled, Within, Reliable
<1> QED
  BY <1>1, Settlement, PTL DEF Reliable

\* In a reliable session no account is ever short two strikes of a side, short
\* one twice, or long, not even between the two orders of a roll.
THEOREM OneShortTheorem == ASSUME Reliable PROVE Spec => []OneShortPerSide
<1>1. SettlementInv => OneShortPerSide
  BY DEF SettlementInv, SettlementChain, Chained, Within, OneShortPerSide, Reliable
<1> QED
  BY <1>1, Settlement, PTL DEF Reliable

\* "Gating the close on is_running would strand the open legs" (_handle): however
\* the client turns the Run toggle off and on, and whenever the manager loses its
\* books, once the orders of a live book are done its account is short nothing the
\* book has forgotten.
THEOREM NoStrandedShortTheorem == ASSUME Toggled PROVE Spec => []NoStrandedShort
<1>1. SettlementInv => NoStrandedShort
  <2> SUFFICES ASSUME SettlementInv, NEW b \in Live, NoOrders(b), NEW s \in Sides,
                      NEW k \in Strikes, net[b][s][k] > 0, k # Believed(b, s)
               PROVE  FALSE
    BY DEF NoStrandedShort
  <2>1. Within(net[b][s], Believed(b, s))
    BY ChainSettles
  <2>2. net[b][s][k] \in Int
    BY DEF SettlementInv, TypeOK, BridgeTypeOK
  <2> QED
    BY <2>1, <2>2 DEF Within, ShortOf
<1> QED
  BY <1>1, Settlement, PTL

\* What the desk owes an account, and nothing else, happens to it: in a reliable
\* session each live account goes through the legs its book decided on
\* (_open_position, _single_side_roll, _close_position), in order, none left out
\* and none repeated (_live_fill).
THEOREM LaggedAccountTheorem == ASSUME Reliable PROVE Spec => ImplementsLaggedAccount
<1>1. Init => Account!Init
  <2> SUFFICES ASSUME Init PROVE Account!Init
    OBVIOUS
  <2>1. ASSUME NEW b \in Live, NEW s \in Sides
        PROVE  Believed(b, s) = Flat /\ Outstanding(b, s) = <<>> /\ HeldLeg(b, s) = Flat
    <3>1. Believed(b, s) = Flat
      BY DEF Init, BookInit, Believed, Cleared, NoPosition
    <3>2. HeldLeg(b, s) = Flat
      BY LegIs DEF Init, BridgeInit, HeldLeg, ShortOf
    <3>3. Outstanding(b, s) = <<>>
      <4>1. orderQ \in Seq(Order) /\ Waiting(orderQ, Left, b, s) = {}
        BY DEF Init, Waiting
      <4>2. Cardinality({}) = 0
        BY FS_EmptySet
      <4>3. DOMAIN LegsOf(orderQ, Left, b, s) = 1..0
        BY <4>1, <4>2 DEF LegsOf
      <4>4. LegsOf(orderQ, Left, b, s) \in Seq(Strikes \cup {Flat})
        BY <4>1, LegsListed
      <4> QED
        BY <4>3, <4>4 DEF Outstanding
    <3> QED
      BY <3>1, <3>2, <3>3
  <2> QED
    BY <2>1 DEF Account!Init
<1>2. SettlementInv /\ [Next]_vars => [Account!Next]_(Account!vars)
  BY SettlementNext DEF Follows, Reliable
<1>3. Spec => []SettlementInv
  BY Settlement DEF Reliable
<1> QED
  BY <1>1, <1>2, <1>3, PTL DEF Spec, ImplementsLaggedAccount, Account!Spec
=============================================================================
