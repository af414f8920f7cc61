--------------------------- MODULE TrapScan_proofs ---------------------------
(***************************************************************************)
(* Ticks make bars in order of time; the scan of a frame finds the traps   *)
(* in its bars and never takes one back; an entry is taken once for a zone *)
(* and only where a trap was completed today: for any frames, prices and   *)
(* histories.                                                              *)
(***************************************************************************)
EXTENDS TrapScan, SequenceTheorems, WellFoundedInduction, TLAPS

----------------------------------------------------------------------------
(* Induction, and lists of positions *)

\* A set of natural numbers that is not empty has a least one.
LEMMA LeastNumber ==
  ASSUME NEW T \in SUBSET Nat, T # {}
  PROVE  \E x \in T : \A y \in T : x <= y
<1> DEFINE R == OpToRel(<, Nat)
<1>1. IsWellFoundedOn(R, Nat)
  BY NatLessThanWellFounded
<1>2. PICK x \in T : \A y \in T : ~ (<<y, x>> \in R)
  BY <1>1, WFMin
<1>3. \A y \in Nat : y < x => <<y, x>> \in R
  <2> SUFFICES ASSUME NEW y \in Nat, y < x PROVE <<y, x>> \in R
    OBVIOUS
  <2> DEFINE p == <<y, x>>
  <2>1. p \in Nat \X Nat /\ p[1] < p[2]
    OBVIOUS
  <2> HIDE DEF p
  <2>2. p \in R
    BY <2>1 DEF OpToRel
  <2> QED
    BY <2>2 DEF p
<1> HIDE DEF R
<1>4. \A y \in T : ~(y < x)
  BY <1>2, <1>3
<1> QED
  BY <1>4

\* Induction over the natural numbers, for a set that has them all.
LEMMA Induction ==
  ASSUME NEW T, 0 \in T, \A n \in Nat : n \in T => n + 1 \in T
  PROVE  Nat \subseteq T
<1> SUFFICES ASSUME Nat \ T # {} PROVE FALSE
  OBVIOUS
<1>1. PICK x \in Nat \ T : \A y \in Nat \ T : x <= y
  BY LeastNumber
<1>2. x - 1 \in Nat /\ x = (x - 1) + 1
  OBVIOUS
<1>3. x - 1 \in T
  BY <1>1, <1>2
<1> QED
  BY <1>2, <1>3

\* f runs from base, the m-th step taking it by G[m] from value to value of Y.
Runs(f, Y, base, N, G) ==
  f \in [0..N -> Y] /\ f[0] = base /\ \A m \in 1..N : f[m] = G[m][f[m-1]]

\* Recursion up to N.
LEMMA Recursion ==
  ASSUME NEW Y, NEW base \in Y, NEW N \in Nat, NEW G \in [1..N -> [Y -> Y]]
  PROVE  \E f : Runs(f, Y, base, N, G)
<1> DEFINE Goes(f, n) == f[0] = base /\ \A m \in 1..n : f[m] = G[m][f[m-1]]
           T == {n \in Nat : n <= N => \E f \in [0..n -> Y] : Goes(f, n)}
<1>1. 0 \in T
  <2> DEFINE f == [x \in 0..0 |-> base]
  <2>1. f \in [0..0 -> Y] /\ f[0] = base /\ 1..0 = {}
    OBVIOUS
  <2> QED
    BY <2>1
<1>2. ASSUME NEW n \in Nat, n \in T
      PROVE  n + 1 \in T
  <2> SUFFICES ASSUME n + 1 <= N
               PROVE  \E f \in [0..(n+1) -> Y] : Goes(f, n + 1)
    OBVIOUS
  <2>1. PICK f \in [0..n -> Y] : Goes(f, n)
    BY <1>2
  <2> DEFINE g == [x \in 0..(n+1) |-> IF x = n + 1 THEN G[n+1][f[n]] ELSE f[x]]
  <2>2. g \in [0..(n+1) -> Y] /\ g[0] = base
    BY <2>1
  <2>3. \A m \in 1..(n+1) : g[m] = G[m][g[m-1]]
    BY <2>1
  <2> QED
    BY <2>2, <2>3
<1> HIDE DEF T
<1>3. N \in T
  BY <1>1, <1>2, Induction
<1> QED
  BY <1>3 DEF T, Runs

\* f is the list of S as it is made, up to n.
Making(f, S, n) ==
  /\ f \in [0..n -> Seq(Nat)] /\ f[0] = <<>>
  /\ \A m \in 1..n : f[m] = IF m \in S THEN Append(f[m-1], m) ELSE f[m-1]

\* The list of S up to n is made number by number.
LEMMA ListedFrom ==
  ASSUME NEW S, NEW n \in Nat
  PROVE  \E f : Making(f, S, n) /\ Listed(S, n) = f[n]
<1> DEFINE G == [m \in 1..n |-> [y \in Seq(Nat) |-> IF m \in S THEN Append(y, m) ELSE y]]
           Def(g) == [m \in 0..n |-> IF m = 0 THEN <<>>
                        ELSE IF m \in S THEN Append(g[m-1], m) ELSE g[m-1]]
           listed == CHOOSE listed : listed = Def(listed)
<1>1. G \in [1..n -> [Seq(Nat) -> Seq(Nat)]] /\ <<>> \in Seq(Nat)
  OBVIOUS
<1>2. PICK f : Runs(f, Seq(Nat), <<>>, n, G)
  <2> HIDE DEF G
  <2> QED
    BY <1>1, Recursion
<1>3. \A m \in 1..n : f[m] = IF m \in S THEN Append(f[m-1], m) ELSE f[m-1]
  <2> SUFFICES ASSUME NEW m \in 1..n
               PROVE  G[m][f[m-1]] = IF m \in S THEN Append(f[m-1], m) ELSE f[m-1]
    BY <1>2 DEF Runs
  <2>1. f[m-1] \in Seq(Nat)
    <3>1. m - 1 \in 0..n
      OBVIOUS
    <3> QED
      BY <1>2, <3>1 DEF Runs
  <2> QED
    BY <2>1
<1>4. f = Def(f)
  <2>1. f = [m \in 0..n |-> f[m]]
    BY <1>2 DEF Runs
  <2>2. ASSUME NEW m \in 0..n
        PROVE  f[m] = IF m = 0 THEN <<>>
                      ELSE IF m \in S THEN Append(f[m-1], m) ELSE f[m-1]
    <3>1. CASE m = 0
      BY <1>2, <3>1 DEF Runs
    <3>2. CASE m # 0
      <4>1. m \in 1..n
        BY <3>2
      <4> QED
        BY <1>3, <3>2, <4>1
    <3> QED
      BY <3>1, <3>2
  <2> QED
    BY <2>1, <2>2, Zenon
<1>5. listed = Def(listed)
  BY <1>4, Zenon
<1>6. Listed(S, n) = listed[n]
  BY Zenon DEF Listed
<1> HIDE DEF listed
<1>7. ASSUME NEW m \in 0..n
      PROVE  listed[m] = IF m = 0 THEN <<>>
                         ELSE IF m \in S THEN Append(listed[m-1], m) ELSE listed[m-1]
  <2>1. listed[m] = Def(listed)[m]
    BY <1>5, Zenon
  <2> QED
    BY <2>1, Zenon
<1> HIDE DEF Def
<1> DEFINE T == {m \in Nat : m <= n => listed[m] = f[m]}
<1>8. n \in T
  <2>1. 0 \in T
    <3>1. 0 \in 0..n
      OBVIOUS
    <3> QED
      BY <1>2, <1>7, <3>1 DEF Runs
  <2>2. ASSUME NEW m \in Nat, m \in T PROVE m + 1 \in T
    <3> SUFFICES ASSUME m + 1 <= n PROVE listed[m+1] = f[m+1]
      OBVIOUS
    <3>1. listed[m] = f[m] /\ m + 1 \in 0..n /\ m + 1 \in 1..n /\ (m + 1) - 1 = m /\ m + 1 # 0
      BY <2>2
    <3>2. listed[m+1] = IF m + 1 \in S THEN Append(listed[m], m + 1) ELSE listed[m]
      BY <1>7, <3>1, Zenon
    <3>3. f[m+1] = IF m + 1 \in S THEN Append(f[m], m + 1) ELSE f[m]
      BY <1>3, <3>1, Zenon
    <3> QED
      BY <3>1, <3>2, <3>3
  <2> HIDE DEF T
  <2> QED
    BY <2>1, <2>2, Induction
<1>9. listed[n] = f[n]
  BY <1>8
<1> QED
  BY <1>2, <1>3, <1>6, <1>9, Zenon DEF Making, Runs

\* The next number is added to the list or not.
LEMMA ListedStep ==
  ASSUME NEW S, NEW n \in Nat
  PROVE  /\ Listed(S, n) \in Seq(Nat)
         /\ Listed(S, n+1) = IF n + 1 \in S THEN Append(Listed(S, n), n + 1) ELSE Listed(S, n)
<1>0. n + 1 \in Nat
  OBVIOUS
<1>1. PICK f : Making(f, S, n) /\ Listed(S, n) = f[n]
  BY ListedFrom
<1>2. PICK g : Making(g, S, n + 1) /\ Listed(S, n+1) = g[n+1]
  BY <1>0, ListedFrom
<1> DEFINE T == {m \in Nat : m <= n => g[m] = f[m]}
<1>3. 0 \in T
  BY <1>1, <1>2 DEF Making
<1>4. ASSUME NEW m \in Nat, m \in T PROVE m + 1 \in T
  <2> SUFFICES ASSUME m + 1 <= n PROVE g[m+1] = f[m+1]
    OBVIOUS
  <2>1. g[m] = f[m] /\ m + 1 \in 1..n /\ m + 1 \in 1..(n+1) /\ (m + 1) - 1 = m
    BY <1>4
  <2>2. f[m+1] = IF m + 1 \in S THEN Append(f[m], m + 1) ELSE f[m]
    BY <1>1, <2>1, Zenon DEF Making
  <2>3. g[m+1] = IF m + 1 \in S THEN Append(g[m], m + 1) ELSE g[m]
    BY <1>2, <2>1, Zenon DEF Making
  <2> QED
    BY <2>1, <2>2, <2>3
<1>5. n \in T
  <2> HIDE DEF T
  <2> QED
    BY <1>3, <1>4, Induction
<1>6. g[n] = f[n] /\ n + 1 \in 1..(n+1) /\ (n + 1) - 1 = n /\ f[n] \in Seq(Nat)
  BY <1>1, <1>5 DEF Making
<1>7. g[n+1] = IF n + 1 \in S THEN Append(g[n], n + 1) ELSE g[n]
  BY <1>2, <1>6, Zenon DEF Making
<1> QED
  BY <1>1, <1>2, <1>6, <1>7

\* Nothing is listed from nothing.
LEMMA ListedNone ==
  ASSUME NEW S
  PROVE  Listed(S, 0) = <<>>
<1>1. 0 \in Nat
  OBVIOUS
<1> QED
  BY <1>1, ListedFrom DEF Making

\* What is listed up to n depends on the numbers up to n.
LEMMA ListedSame ==
  ASSUME NEW S, NEW U, NEW n \in Nat, \A k \in 1..n : k \in S <=> k \in U
  PROVE  Listed(S, n) = Listed(U, n)
<1> DEFINE T == {m \in Nat : m <= n => Listed(S, m) = Listed(U, m)}
<1>1. 0 \in T
  BY ListedNone
<1>2. ASSUME NEW m \in Nat, m \in T PROVE m + 1 \in T
  <2> SUFFICES ASSUME m + 1 <= n PROVE Listed(S, m+1) = Listed(U, m+1)
    OBVIOUS
  <2>1. Listed(S, m) = Listed(U, m) /\ (m + 1 \in S <=> m + 1 \in U)
    BY <1>2
  <2> QED
    BY <2>1, ListedStep
<1>3. n \in T
  <2> HIDE DEF T
  <2> QED
    BY <1>1, <1>2, Induction
<1> QED
  BY <1>3

\* L lists S up to n: in increasing order, these and no others.
Lists(L, S, n) ==
  /\ L \in Seq(Nat)
  /\ \A i \in DOMAIN L : L[i] \in 1..n /\ L[i] \in S
  /\ \A i, j \in DOMAIN L : i < j => L[i] < L[j]
  /\ \A k \in 1..n : k \in S => \E i \in DOMAIN L : L[i] = k

\* A number after the listed ones is added at the end.
LEMMA ListsMore ==
  ASSUME NEW L, NEW S, NEW n \in Nat, Lists(L, S, n)
  PROVE  /\ n + 1 \in S => Lists(Append(L, n + 1), S, n + 1)
         /\ n + 1 \notin S => Lists(L, S, n + 1)
<1> DEFINE M == Append(L, n + 1)
           c == Len(L)
<1>1. /\ L \in Seq(Nat) /\ c \in Nat /\ DOMAIN L = 1..c
      /\ \A i \in DOMAIN L : L[i] \in 1..n /\ L[i] \in S
      /\ \A i, j \in DOMAIN L : i < j => L[i] < L[j]
      /\ \A k \in 1..n : k \in S => \E i \in DOMAIN L : L[i] = k
  BY DEF Lists
<1>2. M \in Seq(Nat) /\ DOMAIN M = 1..(c+1) /\ M[c+1] = n + 1 /\ \A i \in 1..c : M[i] = L[i]
  BY <1>1
<1>3. \A k \in 1..(n+1) : k \in 1..n \/ k = n + 1
  OBVIOUS
<1> HIDE DEF M, c
<1>4. ASSUME n + 1 \in S PROVE Lists(M, S, n + 1)
  <2>1. \A i \in DOMAIN M : i \in 1..c \/ i = c + 1
    BY <1>1, <1>2
  <2>2. \A i \in DOMAIN M : M[i] \in 1..(n+1) /\ M[i] \in S
    BY <1>1, <1>2, <1>4, <2>1
  <2>3. ASSUME NEW i \in DOMAIN M, NEW j \in DOMAIN M, i < j
        PROVE  M[i] < M[j]
    <3>1. i \in 1..c
      BY <1>1, <1>2, <2>3
    <3>2. CASE j \in 1..c
      BY <1>1, <1>2, <2>3, <3>1, <3>2
    <3>3. CASE j = c + 1
      BY <1>1, <1>2, <3>1, <3>3
    <3> QED
      BY <2>1, <3>2, <3>3
  <2>4. ASSUME NEW k \in 1..(n+1), k \in S
        PROVE  \E i \in DOMAIN M : M[i] = k
    <3>1. CASE k = n + 1
      BY <1>1, <1>2, <3>1
    <3>2. CASE k \in 1..n
      <4>1. PICK i \in DOMAIN L : L[i] = k
        BY <1>1, <2>4, <3>2
      <4> QED
        BY <1>1, <1>2, <4>1
    <3> QED
      BY <1>3, <3>1, <3>2
  <2> QED
    BY <1>2, <2>2, <2>3, <2>4 DEF Lists
<1>5. ASSUME n + 1 \notin S PROVE Lists(L, S, n + 1)
  <2>1. \A i \in DOMAIN L : L[i] \in 1..(n+1)
    BY <1>1
  <2>2. \A k \in 1..(n+1) : k \in S => k \in 1..n
    BY <1>3, <1>5
  <2> QED
    BY <1>1, <2>1, <2>2 DEF Lists
<1> QED
  BY <1>4, <1>5 DEF M

\* Listed lists.
LEMMA ListedLists ==
  ASSUME NEW S, NEW n \in Nat
  PROVE  Lists(Listed(S, n), S, n)
<1> DEFINE T == {m \in Nat : Lists(Listed(S, m), S, m)}
<1>1. 0 \in T
  <2>1. Lists(<<>>, S, 0)
    BY DEF Lists
  <2> QED
    BY <2>1, ListedNone
<1>2. ASSUME NEW m \in Nat, m \in T PROVE m + 1 \in T
  <2> DEFINE L == Listed(S, m)
             M == Listed(S, m + 1)
  <2>1. Lists(L, S, m) /\ M = IF m + 1 \in S THEN Append(L, m + 1) ELSE L
    BY <1>2, ListedStep
  <2> HIDE DEF L, M
  <2>2. Lists(M, S, m + 1)
    BY <2>1, ListsMore
  <2> QED
    BY <2>2 DEF M
<1>3. n \in T
  <2> HIDE DEF T
  <2> QED
    BY <1>1, <1>2, Induction
<1> QED
  BY <1>3

\* What is picked from a sequence, and where.
LEMMA PickedFrom ==
  ASSUME NEW X, NEW s \in Seq(X), NEW S \in SUBSET DOMAIN s
  PROVE  /\ Picked(s, S) \in Seq(X)
         /\ \E at : /\ Lists(at, S, Len(s)) /\ DOMAIN Picked(s, S) = DOMAIN at
                    /\ \A m \in DOMAIN at : at[m] \in S /\ Picked(s, S)[m] = s[at[m]]
<1> DEFINE at == Listed(S, Len(s))
           p == [m \in DOMAIN at |-> s[at[m]]]
<1>1. Lists(at, S, Len(s)) /\ Picked(s, S) = p
  BY ListedLists DEF Picked
<1> HIDE DEF at
<1>2. at \in Seq(Nat) /\ \A m \in DOMAIN at : at[m] \in S
  BY <1>1 DEF Lists
<1>3. DOMAIN at = 1..Len(at) /\ Len(at) \in Nat
  BY <1>2
<1>4. \A m \in DOMAIN at : s[at[m]] \in X
  <2>1. \A i \in S : s[i] \in X
    OBVIOUS
  <2> QED
    BY <1>2, <2>1
<1>5. p \in Seq(X)
  BY <1>3, <1>4
<1>6. DOMAIN p = DOMAIN at /\ \A m \in DOMAIN at : p[m] = s[at[m]]
  OBVIOUS
<1> HIDE DEF p
<1> QED
  BY <1>1, <1>2, <1>5, <1>6

\* What is picked from bars in order are bars of theirs, in order.
LEMMA PickedBars ==
  ASSUME NEW s \in Seq(Bar), InOrder(s), NEW S \in SUBSET DOMAIN s
  PROVE  /\ Picked(s, S) \in Seq(Bar) /\ InOrder(Picked(s, S))
         /\ \A m \in DOMAIN Picked(s, S) : \E i \in S : Picked(s, S)[m] = s[i]
<1> DEFINE p == Picked(s, S)
<1>1. p \in Seq(Bar)
  BY PickedFrom
<1>2. PICK at : /\ Lists(at, S, Len(s)) /\ DOMAIN p = DOMAIN at
                /\ \A m \in DOMAIN at : at[m] \in S /\ p[m] = s[at[m]]
  BY PickedFrom
<1> HIDE DEF p
<1>3. \A m \in DOMAIN p : IsBar(p[m])
  BY <1>2 DEF InOrder
<1>4. \A m, n \in DOMAIN p : m < n => p[m].at < p[n].at
  BY <1>2 DEF InOrder, Lists
<1> QED
  BY <1>1, <1>2, <1>3, <1>4 DEF InOrder, p

----------------------------------------------------------------------------
(* Bars *)

\* Max and Min of two numbers bound both.
LEMMA Two ==
  ASSUME NEW a \in Int, NEW b \in Int
  PROVE  /\ Max({a, b}) \in {a, b} /\ Max({a, b}) >= a /\ Max({a, b}) >= b
         /\ Min({a, b}) \in {a, b} /\ Min({a, b}) <= a /\ Min({a, b}) <= b
<1>1. \E x \in {a, b} : \A y \in {a, b} : x >= y
  OBVIOUS
<1>2. \E x \in {a, b} : \A y \in {a, b} : x <= y
  OBVIOUS
<1>3. Max({a, b}) \in {a, b} /\ \A y \in {a, b} : Max({a, b}) >= y
  BY <1>1 DEF Max
<1>4. Min({a, b}) \in {a, b} /\ \A y \in {a, b} : Min({a, b}) <= y
  BY <1>2 DEF Min
<1> QED
  BY <1>3, <1>4

\* A tick leaves the bar it falls in well formed, at its minute.
LEMMA TickExtends ==
  ASSUME NEW b \in Bar, IsBar(b), NEW p \in Nat \ {0}
  PROVE  Extends(b, p) \in Bar /\ IsBar(Extends(b, p)) /\ Extends(b, p).at = b.at
<1> DEFINE lo == Min({b.low, p})
           hi == Max({b.high, p})
           x == [at |-> b.at, low |-> lo, high |-> hi, close |-> p]
<1>1. b.at \in Int /\ b.low \in Int /\ b.high \in Int /\ b.close \in Int
  BY DEF Bar
<1>2. lo \in {b.low, p} /\ lo <= p /\ hi \in {b.high, p} /\ hi >= p
  BY <1>1, Two, p \in Int
<1>3. b = [at |-> b.at, low |-> b.low, high |-> b.high, close |-> b.close]
  BY DEF Bar
<1>4. Extends(b, p) = x
  <2>1. Extends(b, p) = [[[b EXCEPT !.low = lo] EXCEPT !.high = hi] EXCEPT !.close = p]
    BY <1>3 DEF Extends
  <2> HIDE DEF lo, hi
  <2> QED
    BY <1>3, <2>1
<1>5. lo \in Int /\ hi \in Int /\ lo > 0
  BY <1>1, <1>2 DEF IsBar
<1> HIDE DEF lo, hi
<1>6. x \in Bar /\ IsBar(x) /\ x.at = b.at
  BY <1>1, <1>2, <1>5 DEF Bar, IsBar
<1> QED
  BY <1>4, <1>6

\* A tick begins a well formed bar.
LEMMA TickBegins ==
  ASSUME NEW m \in Int, NEW p \in Nat \ {0}
  PROVE  NewBar(m, p) \in Bar /\ IsBar(NewBar(m, p)) /\ NewBar(m, p).at = m
BY DEF NewBar, Bar, IsBar

\* Bars followed by one bar are in order when they are and it comes after them.
LEMMA OneMore ==
  ASSUME NEW s \in Seq(Bar), NEW b \in Bar
  PROVE  InOrder(s \o <<b>>) <=> /\ InOrder(s) /\ IsBar(b)
                                 /\ \A i \in DOMAIN s : s[i].at < b.at
<1> DEFINE t == s \o <<b>>
<1>1. t \in Seq(Bar) /\ Len(t) = Len(s) + 1
  OBVIOUS
<1>2. t[Len(s) + 1] = b /\ \A i \in 1..Len(s) : t[i] = s[i]
  OBVIOUS
<1>3. /\ DOMAIN t = 1..(Len(s) + 1) /\ DOMAIN s = 1..Len(s) /\ Len(s) \in Nat
  BY <1>1
<1> HIDE DEF t
<1>4. \A i \in 1..Len(s) : s[i].at \in Int
  <2>1. \A i \in 1..Len(s) : s[i] \in Bar
    OBVIOUS
  <2> QED
    BY <2>1 DEF Bar
<1>5. (\A i \in DOMAIN t : IsBar(t[i])) <=> IsBar(b) /\ \A i \in DOMAIN s : IsBar(s[i])
  <2>1. \A i \in DOMAIN t : i \in DOMAIN s \/ i = Len(s) + 1
    BY <1>3
  <2>2. \A i \in DOMAIN s : i \in DOMAIN t /\ t[i] = s[i]
    BY <1>2, <1>3
  <2>3. Len(s) + 1 \in DOMAIN t
    BY <1>3
  <2> QED
    BY <1>2, <2>1, <2>2, <2>3
<1>6. ASSUME \A i, j \in DOMAIN t : i < j => t[i].at < t[j].at
      PROVE  /\ \A i, j \in DOMAIN s : i < j => s[i].at < s[j].at
             /\ \A i \in DOMAIN s : s[i].at < b.at
  <2>1. ASSUME NEW i \in DOMAIN s PROVE i \in DOMAIN t /\ t[i] = s[i]
    BY <1>2, <1>3, <2>1
  <2>2. \A i \in DOMAIN s : i < Len(s) + 1 /\ Len(s) + 1 \in DOMAIN t
    BY <1>3
  <2> QED
    BY <1>2, <1>6, <2>1, <2>2
<1>7. ASSUME \A i, j \in DOMAIN s : i < j => s[i].at < s[j].at,
             \A i \in DOMAIN s : s[i].at < b.at,
             NEW i \in DOMAIN t, NEW j \in DOMAIN t, i < j
      PROVE  t[i].at < t[j].at
  BY <1>2, <1>3, <1>7
<1> QED
  BY <1>5, <1>6, <1>7 DEF InOrder, t

\* What a leg keeps of its bars is a part of them, in order.
LEMMA KeepsOrder ==
  ASSUME NEW s \in Seq(Bar), InOrder(s), NEW n \in Nat \ {0}
  PROVE  /\ LastN(s, n) \in Seq(Bar) /\ InOrder(LastN(s, n))
         /\ \A i \in DOMAIN LastN(s, n) : \E j \in DOMAIN s : LastN(s, n)[i] = s[j]
<1> DEFINE m == Max({1, Len(s) - n + 1})
           t == SubSeq(s, m, Len(s))
<1>1. m \in {1, Len(s) - n + 1} /\ m >= 1 /\ m \in Nat
  <2>1. Len(s) - n + 1 \in Int /\ 1 \in Int
    OBVIOUS
  <2>2. m \in {1, Len(s) - n + 1} /\ m >= 1
    BY <2>1, Two
  <2> HIDE DEF m
  <2> QED
    BY <2>1, <2>2
<1> HIDE DEF m
<1>2. /\ t \in Seq(Bar)
      /\ \A i \in DOMAIN t : i + m - 1 \in DOMAIN s /\ t[i] = s[i + m - 1] /\ i \in Nat
  <2>1. Len(s) \in Nat /\ \A i \in 1..Len(s) : s[i] \in Bar
    OBVIOUS
  <2>2. t = [i \in 1..(Len(s) - m + 1) |-> s[i + m - 1]] /\ Len(s) - m + 1 \in Int
    BY <1>1
  <2>3. ASSUME NEW i \in 1..(Len(s) - m + 1)
        PROVE  i + m - 1 \in 1..Len(s)
    <3>1. i \in Int /\ m \in Int /\ Len(s) \in Int /\ 1 <= i /\ 1 <= m /\ i <= Len(s) - m + 1
      BY <1>1, <2>1
    <3> QED
      BY <3>1
  <2>4. t \in Seq(Bar)
    BY <1>1, <2>1
  <2> QED
    BY <2>1, <2>2, <2>3, <2>4
<1> HIDE DEF t
<1>3. InOrder(t)
  <2>1. \A i \in DOMAIN t : IsBar(t[i])
    BY <1>2 DEF InOrder
  <2>2. ASSUME NEW i \in DOMAIN t, NEW j \in DOMAIN t, i < j
        PROVE  t[i].at < t[j].at
    <3>1. i + m - 1 < j + m - 1
      BY <1>1, <1>2, <2>2
    <3> QED
      BY <1>2, <3>1 DEF InOrder
  <2> QED
    BY <2>1, <2>2 DEF InOrder
<1>4. LastN(s, n) = t
  BY DEF LastN, t, m
<1> QED
  BY <1>2, <1>3, <1>4

----------------------------------------------------------------------------
(* Zones *)

\* y is the zone z, perhaps further on.
SameZone(z, y) ==
  /\ y.kind = z.kind /\ y.ref = z.ref /\ y.entry = z.entry /\ y.sl = z.sl
  /\ y.low = z.low /\ y.high = z.high

\* What a bar does to a zone.
LEMMA AgedBy ==
  ASSUME NEW z \in Zone, NEW b \in Bar
  PROVE  LET y == Aged(z, b)
         IN  /\ y \in Zone /\ SameZone(z, y)
             /\ z.status = "ACTIVE" /\ Broken(z, b) => y.status = "TRAPPED" /\ y.trapped = b.at
             /\ z.status = "ACTIVE" /\ ~Broken(z, b) => y.status = "ACTIVE"
             /\ z.status = "TRAPPED" /\ Returned(z, b) /\ b.at # z.trapped
                  => y.status = "CLOSED" /\ y.trapped = z.trapped
             /\ z.status = "TRAPPED" /\ ~Returned(z, b) => y = z
             /\ z.status = "CLOSED" => y = z
<1>1. b.at \in Int
  BY DEF Bar
<1>2. CASE z.status = "ACTIVE" /\ Broken(z, b)
  <2>1. Aged(z, b) = [z EXCEPT !.status = "TRAPPED", !.trapped = b.at]
    BY <1>2 DEF Aged
  <2> QED
    BY <1>1, <1>2, <2>1 DEF Zone, SameZone
<1>3. CASE z.status = "TRAPPED" /\ Returned(z, b) /\ b.at # z.trapped
  <2>1. Aged(z, b) = [z EXCEPT !.status = "CLOSED", !.closed = b.at]
    BY <1>3 DEF Aged
  <2> QED
    BY <1>1, <1>3, <2>1 DEF Zone, SameZone
<1>4. CASE /\ ~(z.status = "ACTIVE" /\ Broken(z, b))
           /\ ~(z.status = "TRAPPED" /\ Returned(z, b) /\ b.at # z.trapped)
  <2>1. Aged(z, b) = z
    BY <1>4 DEF Aged
  <2> QED
    BY <1>4, <2>1 DEF Zone, SameZone
<1> QED
  BY <1>2, <1>3, <1>4

\* f is the zone z of bar i as it sees the bars after it.
Ageing(f, z, i, bs) ==
  /\ f \in [0..Len(bs) -> Zone] /\ f[i] = z
  /\ \A j \in (i+1)..Len(bs) : f[j] = Aged(f[j-1], bs[j])

\* A zone grows bar by bar.
LEMMA GrownFrom ==
  ASSUME NEW bs \in Seq(Bar), NEW i \in DOMAIN bs, NEW z \in Zone
  PROVE  \E f : Ageing(f, z, i, bs) /\ Grown(z, i, bs) = f[Len(bs)]
<1> DEFINE n == Len(bs)
           G == [j \in 1..n |-> [y \in Zone |-> IF j <= i THEN z ELSE Age(bs[j])[y]]]
           Def(g) == [j \in 0..n |-> IF j <= i THEN z ELSE Age(bs[j])[g[j-1]]]
           seen == CHOOSE seen : seen = Def(seen)
<1>1. i \in 1..n /\ n \in Nat /\ \A j \in 1..n : bs[j] \in Bar
  OBVIOUS
<1>2. ASSUME NEW y \in Zone, NEW b \in Bar
      PROVE  Age(b)[y] = Aged(y, b) /\ Age(b)[y] \in Zone
  <2>1. Age(b)[y] = Aged(y, b)
    BY DEF Age
  <2> QED
    BY <2>1, AgedBy
<1>3. G \in [1..n -> [Zone -> Zone]]
  BY <1>1, <1>2
<1>4. PICK f : Runs(f, Zone, z, n, G)
  <2>1. n \in Nat
    BY <1>1
  <2> HIDE DEF G, n
  <2> QED
    BY <1>3, <2>1, Recursion
<1>5. ASSUME NEW j \in 1..n
      PROVE  f[j] = IF j <= i THEN z ELSE Age(bs[j])[f[j-1]]
  <2>1. j - 1 \in 0..n
    BY <1>1
  <2> QED
    BY <1>4, <2>1 DEF Runs
<1>6. f = Def(f)
  <2>1. f = [j \in 0..n |-> f[j]]
    BY <1>4 DEF Runs
  <2>2. ASSUME NEW j \in 0..n
        PROVE  f[j] = IF j <= i THEN z ELSE Age(bs[j])[f[j-1]]
    <3>1. CASE j = 0
      <4>1. j <= i
        BY <1>1, <3>1
      <4> QED
        BY <1>4, <3>1, <4>1, Zenon DEF Runs
    <3>2. CASE j # 0
      <4>1. j \in 1..n
        BY <1>1, <3>2
      <4> QED
        BY <1>5, <4>1
    <3> QED
      BY <3>1, <3>2
  <2> QED
    BY <2>1, <2>2, Zenon
<1>7. seen = Def(seen)
  BY <1>6, Zenon
<1>8. Grown(z, i, bs) = seen[n]
  BY Zenon DEF Grown
<1> HIDE DEF seen
<1>9. ASSUME NEW j \in 0..n
      PROVE  seen[j] = IF j <= i THEN z ELSE Age(bs[j])[seen[j-1]]
  <2>1. seen[j] = Def(seen)[j]
    BY <1>7, Zenon
  <2> QED
    BY <2>1, Zenon
<1> HIDE DEF Def
<1> DEFINE T == {j \in Nat : j <= n => seen[j] = f[j]}
<1>10. n \in T
  <2>1. 0 \in T
    <3>1. 0 \in 0..n /\ 0 <= i
      BY <1>1
    <3> QED
      BY <1>4, <1>9, <3>1 DEF Runs
  <2>2. ASSUME NEW j \in Nat, j \in T PROVE j + 1 \in T
    <3> SUFFICES ASSUME j + 1 <= n PROVE seen[j+1] = f[j+1]
      OBVIOUS
    <3>1. seen[j] = f[j] /\ j + 1 \in 0..n /\ j + 1 \in 1..n /\ (j + 1) - 1 = j
      BY <1>1, <2>2
    <3>2. seen[j+1] = IF j + 1 <= i THEN z ELSE Age(bs[j+1])[seen[j]]
      BY <1>9, <3>1, Zenon
    <3>3. f[j+1] = IF j + 1 <= i THEN z ELSE Age(bs[j+1])[f[j]]
      BY <1>5, <3>1, Zenon
    <3> QED
      BY <3>1, <3>2, <3>3
  <2> HIDE DEF T
  <2> QED
    BY <1>1, <2>1, <2>2, Induction
<1>11. f[i] = z
  <2>1. i <= i
    BY <1>1
  <2> QED
    BY <1>1, <1>5, <2>1, Zenon
<1>12. ASSUME NEW j \in (i+1)..n
       PROVE  f[j] = Aged(f[j-1], bs[j])
  <2>1. j \in 1..n /\ ~(j <= i) /\ j - 1 \in 0..n
    BY <1>1
  <2>2. f[j] = Age(bs[j])[f[j-1]]
    BY <1>5, <2>1
  <2> QED
    BY <1>1, <1>2, <1>4, <2>1, <2>2 DEF Runs
<1>13. Ageing(f, z, i, bs)
  BY <1>4, <1>11, <1>12 DEF Ageing, Runs
<1>14. Grown(z, i, bs) = f[n]
  BY <1>1, <1>8, <1>10
<1> QED
  BY <1>13, <1>14

\* Bars each opened after those before it.
Rising(bs) == \A i, j \in DOMAIN bs : i < j => bs[i].at < bs[j].at

\* The bars after i up to j left the zone z of bar i as it was, or the first one
\* that broke it trapped its sellers, and a later one let them out or did not.
Left(z, y, i, j, bs) == y.status = "ACTIVE" /\ \A m \in (i+1)..j : ~Broken(z, bs[m])
Trapped(z, y, i, j, bs, t) ==
  /\ Broken(z, bs[t]) /\ y.trapped = bs[t].at
  /\ \A m \in (i+1)..(t-1) : ~Broken(z, bs[m])
  /\ \/ y.status = "TRAPPED" /\ \A k \in (t+1)..j : ~Returned(z, bs[k])
     \/ y.status = "CLOSED" /\ \E k \in (t+1)..j : Returned(z, bs[k])
History(z, y, i, j, bs) ==
  /\ y \in Zone /\ SameZone(z, y)
  /\ Left(z, y, i, j, bs) \/ \E t \in (i+1)..j : Trapped(z, y, i, j, bs, t)

\* The history of a zone, one bar on.
LEMMA HistoryStep ==
  ASSUME NEW bs \in Seq(Bar), Rising(bs), NEW z \in Zone, NEW y,
         NEW i \in Nat, NEW j \in Nat, i <= j, j + 1 \in DOMAIN bs, History(z, y, i, j, bs)
  PROVE  History(z, Aged(y, bs[j+1]), i, j + 1, bs)
<1> DEFINE b == bs[j+1]
           x == Aged(y, b)
<1>1. b \in Bar
  OBVIOUS
<1>2. y \in Zone /\ SameZone(z, y)
  BY DEF History
<1>3. (Broken(y, b) <=> Broken(z, b)) /\ (Returned(y, b) <=> Returned(z, b))
  BY <1>2 DEF SameZone, Broken, Returned
<1>4. /\ x \in Zone /\ SameZone(y, x)
      /\ y.status = "ACTIVE" /\ Broken(y, b) => x.status = "TRAPPED" /\ x.trapped = b.at
      /\ y.status = "ACTIVE" /\ ~Broken(y, b) => x.status = "ACTIVE"
      /\ y.status = "TRAPPED" /\ Returned(y, b) /\ b.at # y.trapped
           => x.status = "CLOSED" /\ x.trapped = y.trapped
      /\ y.status = "TRAPPED" /\ ~Returned(y, b) => x = y
      /\ y.status = "CLOSED" => x = y
  BY <1>1, <1>2, AgedBy
<1>5. SameZone(z, x)
  BY <1>2, <1>4 DEF SameZone
<1>6. \A m \in Nat : m \in (i+1)..(j+1) <=> m \in (i+1)..j \/ m = j + 1
  OBVIOUS
<1> HIDE DEF x
<1>7. CASE Left(z, y, i, j, bs)
  <2>1. y.status = "ACTIVE" /\ \A m \in (i+1)..j : ~Broken(z, bs[m])
    BY <1>7 DEF Left
  <2>2. CASE Broken(z, b)
    <3>1. x.status = "TRAPPED" /\ x.trapped = b.at
      BY <1>3, <1>4, <2>1, <2>2
    <3>2. (i+1)..((j+1)-1) = (i+1)..j /\ ((j+1)+1)..(j+1) = {} /\ j + 1 \in (i+1)..(j+1)
      OBVIOUS
    <3>3. Trapped(z, x, i, j + 1, bs, j + 1)
      BY <2>1, <2>2, <3>1, <3>2 DEF Trapped
    <3> QED
      BY <1>4, <1>5, <3>2, <3>3 DEF History, x
  <2>3. CASE ~Broken(z, b)
    <3>1. x.status = "ACTIVE"
      BY <1>3, <1>4, <2>1, <2>3
    <3>2. Left(z, x, i, j + 1, bs)
      BY <1>6, <2>1, <2>3, <3>1 DEF Left
    <3> QED
      BY <1>4, <1>5, <3>2 DEF History, x
  <2> QED
    BY <2>2, <2>3
<1>8. ASSUME NEW t \in (i+1)..j, Trapped(z, y, i, j, bs, t)
      PROVE  History(z, x, i, j + 1, bs)
  <2>1. /\ Broken(z, bs[t]) /\ y.trapped = bs[t].at
        /\ \A m \in (i+1)..(t-1) : ~Broken(z, bs[m])
        /\ \/ y.status = "TRAPPED" /\ \A k \in (t+1)..j : ~Returned(z, bs[k])
           \/ y.status = "CLOSED" /\ \E k \in (t+1)..j : Returned(z, bs[k])
    BY <1>8 DEF Trapped
  <2>2. \A m \in Nat : m \in (t+1)..(j+1) <=> m \in (t+1)..j \/ m = j + 1
    OBVIOUS
  <2>3. b.at # y.trapped
    <3>1. t \in DOMAIN bs /\ t < j + 1
      OBVIOUS
    <3>2. bs[t].at < b.at /\ bs[t] \in Bar
      BY <3>1 DEF Rising
    <3>3. bs[t].at \in Int /\ b.at \in Int
      BY <1>1, <3>2 DEF Bar
    <3> QED
      BY <2>1, <3>2, <3>3
  <2>4. Trapped(z, x, i, j + 1, bs, t)
    <3>1. CASE y.status = "CLOSED"
      <4>1. x = y /\ \E k \in (t+1)..j : Returned(z, bs[k])
        BY <1>4, <2>1, <3>1
      <4>2. \E k \in (t+1)..(j+1) : Returned(z, bs[k])
        BY <2>2, <4>1
      <4> QED
        BY <2>1, <3>1, <4>1, <4>2 DEF Trapped
    <3>2. CASE y.status = "TRAPPED" /\ Returned(z, b)
      <4>1. x.status = "CLOSED" /\ x.trapped = y.trapped
        BY <1>3, <1>4, <2>3, <3>2
      <4>2. j + 1 \in (t+1)..(j+1)
        OBVIOUS
      <4> QED
        BY <2>1, <3>2, <4>1, <4>2 DEF Trapped
    <3>3. CASE y.status = "TRAPPED" /\ ~Returned(z, b)
      <4>1. x = y /\ \A k \in (t+1)..j : ~Returned(z, bs[k])
        BY <1>3, <1>4, <2>1, <3>3
      <4>2. \A k \in (t+1)..(j+1) : ~Returned(z, bs[k])
        BY <2>2, <3>3, <4>1
      <4> QED
        BY <2>1, <3>3, <4>1, <4>2 DEF Trapped
    <3> QED
      BY <2>1, <3>1, <3>2, <3>3
  <2> QED
    BY <1>4, <1>5, <2>4 DEF History
<1> QED
  BY <1>7, <1>8 DEF History, x

\* A zone when all bars are seen.
LEMMA GrownHistory ==
  ASSUME NEW bs \in Seq(Bar), Rising(bs), NEW i \in DOMAIN bs, NEW z \in Zone,
         z.status = "ACTIVE"
  PROVE  History(z, Grown(z, i, bs), i, Len(bs), bs)
<1> DEFINE n == Len(bs)
<1>1. i \in 1..n /\ n \in Nat /\ DOMAIN bs = 1..n
  OBVIOUS
<1>2. PICK f : Ageing(f, z, i, bs) /\ Grown(z, i, bs) = f[n]
  BY GrownFrom
<1>3. f[i] = z /\ \A j \in (i+1)..n : f[j] = Aged(f[j-1], bs[j])
  BY <1>2 DEF Ageing
<1> HIDE DEF n
<1> DEFINE T == {d \in Nat : i + d <= n => History(z, f[i+d], i, i + d, bs)}
<1>4. 0 \in T
  <2>1. i + 0 = i /\ (i+1)..i = {}
    BY <1>1
  <2>2. History(z, z, i, i, bs)
    BY <2>1 DEF History, Left, SameZone
  <2> QED
    BY <1>3, <2>1, <2>2
<1>5. ASSUME NEW d \in Nat, d \in T PROVE d + 1 \in T
  <2> SUFFICES ASSUME i + (d + 1) <= n
               PROVE  History(z, f[i+(d+1)], i, i + (d + 1), bs)
    OBVIOUS
  <2> DEFINE j == i + d
  <2>1. /\ i \in Nat /\ j \in Nat /\ i <= j /\ j + 1 \in DOMAIN bs /\ i + (d + 1) = j + 1
        /\ j + 1 \in (i+1)..n /\ (j + 1) - 1 = j /\ j <= n
    BY <1>1
  <2>2. History(z, f[j], i, j, bs)
    BY <1>5, <2>1
  <2> HIDE DEF j
  <2>3. f[j+1] = Aged(f[j], bs[j+1])
    BY <1>3, <2>1
  <2>4. History(z, Aged(f[j], bs[j+1]), i, j + 1, bs)
    BY <2>1, <2>2, HistoryStep
  <2> QED
    BY <2>1, <2>3, <2>4
<1>6. n - i \in T
  <2>1. n - i \in Nat
    BY <1>1
  <2> HIDE DEF T
  <2> QED
    BY <1>4, <1>5, <2>1, Induction
<1>7. i + (n - i) = n
  BY <1>1
<1> QED
  BY <1>1, <1>2, <1>6, <1>7 DEF n

\* A zone of each kind opens on bar p of bs, and as it does.
Opens(bs, kind, p) == p \in 2..Len(bs) /\ IF kind = "BEAR" THEN Lower(bs, p) ELSE Higher(bs, p)
Opened(bs, kind, p) ==
  IF kind = "BEAR" THEN BearZone(bs[p-1], bs[p]) ELSE BullZone(bs[p-1], bs[p])

\* The zones of one kind in zs are those that open in bs, with their history.
FoundIn(zs, kind, bs) ==
  /\ zs \in Seq(Zone)
  /\ \A n \in DOMAIN zs : \E p \in 2..Len(bs) :
       Opens(bs, kind, p) /\ History(Opened(bs, kind, p), zs[n], p, Len(bs), bs)
  /\ \A p \in 2..Len(bs) : Opens(bs, kind, p) => \E n \in DOMAIN zs :
       History(Opened(bs, kind, p), zs[n], p, Len(bs), bs)

\* A zone opens active, on the bar before.
LEMMA OpenedZone ==
  ASSUME NEW bs \in Seq(Bar), NEW kind \in {"BEAR", "BULL"}, NEW p \in 2..Len(bs)
  PROVE  LET z == Opened(bs, kind, p)
         IN  z \in Zone /\ z.status = "ACTIVE" /\ z.kind = kind /\ z.ref = bs[p-1].at
<1>1. bs[p] \in Bar /\ bs[p-1] \in Bar
  <2>1. p \in 1..Len(bs) /\ p - 1 \in 1..Len(bs)
    OBVIOUS
  <2> QED
    BY <2>1
<1>2. Never \in Int
  BY DEF Never
<1> DEFINE a == bs[p-1]
           b == bs[p]
<1>3. a \in Bar /\ b \in Bar
  BY <1>1
<1> HIDE DEF a, b
<1>4. /\ BearZone(a, b) \in Zone /\ BearZone(a, b).status = "ACTIVE"
      /\ BearZone(a, b).kind = "BEAR" /\ BearZone(a, b).ref = a.at
  BY <1>2, <1>3 DEF BearZone, Zone, Bar
<1>5. /\ BullZone(a, b) \in Zone /\ BullZone(a, b).status = "ACTIVE"
      /\ BullZone(a, b).kind = "BULL" /\ BullZone(a, b).ref = a.at
  BY <1>2, <1>3 DEF BullZone, Zone, Bar
<1> QED
  BY <1>4, <1>5 DEF Opened, a, b

\* The zones that begin at listed bars.
LEMMA GrownAt ==
  ASSUME NEW bs \in Seq(Bar), Rising(bs), NEW kind \in {"BEAR", "BULL"}, NEW at,
         Lists(at, {p \in 2..Len(bs) : Opens(bs, kind, p)}, Len(bs))
  PROVE  FoundIn([n \in DOMAIN at |-> Grown(Opened(bs, kind, at[n]), at[n], bs)], kind, bs)
<1> DEFINE S == {p \in 2..Len(bs) : Opens(bs, kind, p)}
           zs == [n \in DOMAIN at |-> Grown(Opened(bs, kind, at[n]), at[n], bs)]
<1>1. /\ at \in Seq(Nat) /\ \A n \in DOMAIN at : at[n] \in S
      /\ \A p \in 1..Len(bs) : p \in S => \E n \in DOMAIN at : at[n] = p
  BY DEF Lists
<1>2. Len(at) \in Nat /\ DOMAIN at = 1..Len(at)
  BY <1>1
<1>3. ASSUME NEW p \in S
      PROVE  History(Opened(bs, kind, p), Grown(Opened(bs, kind, p), p, bs), p, Len(bs), bs)
  <2>1. p \in 2..Len(bs) /\ p \in DOMAIN bs
    OBVIOUS
  <2> QED
    BY <2>1, OpenedZone, GrownHistory
<1>4. \A n \in DOMAIN at : zs[n] = Grown(Opened(bs, kind, at[n]), at[n], bs)
  OBVIOUS
<1>5. \A n \in DOMAIN at : zs[n] \in Zone
  BY <1>1, <1>3, <1>4 DEF History
<1>6. zs \in Seq(Zone) /\ DOMAIN zs = DOMAIN at
  BY <1>2, <1>5
<1> HIDE DEF zs
<1>7. ASSUME NEW n \in DOMAIN zs
      PROVE  \E p \in 2..Len(bs) :
               Opens(bs, kind, p) /\ History(Opened(bs, kind, p), zs[n], p, Len(bs), bs)
  <2>1. at[n] \in S
    BY <1>1, <1>6
  <2> QED
    BY <1>3, <1>4, <1>6, <2>1
<1>8. ASSUME NEW p \in 2..Len(bs), Opens(bs, kind, p)
      PROVE  \E n \in DOMAIN zs : History(Opened(bs, kind, p), zs[n], p, Len(bs), bs)
  <2>1. p \in S /\ p \in 1..Len(bs)
    BY <1>8
  <2>2. PICK n \in DOMAIN at : at[n] = p
    BY <1>1, <2>1
  <2> QED
    BY <1>3, <1>4, <1>6, <2>1, <2>2
<1> QED
  BY <1>6, <1>7, <1>8 DEF FoundIn, zs

\* scan_htf finds the zones of sellers.
LEMMA ScanFinds ==
  ASSUME NEW bs \in Seq(Bar), Rising(bs)
  PROVE  FoundIn(ScanHtf[bs], "BEAR", bs)
<1> DEFINE S == {p \in 2..Len(bs) : Lower(bs, p)}
           at == Listed(S, Len(bs))
<1>1. S = {p \in 2..Len(bs) : Opens(bs, "BEAR", p)}
  BY DEF Opens
<1>2. Lists(at, S, Len(bs))
  BY ListedLists
<1>3. ScanHtf[bs] = [n \in DOMAIN at |-> Grown(Opened(bs, "BEAR", at[n]), at[n], bs)]
  BY DEF ScanHtf, Bears, OpenedAt, Opened
<1> HIDE DEF at, S
<1> QED
  BY <1>1, <1>2, <1>3, GrownAt

\* So does scan_htf_spot, and it finds those of buyers.
LEMMA SpotFinds ==
  ASSUME NEW bs \in Seq(Bar), Rising(bs)
  PROVE  \E bears, bulls : /\ FoundIn(bears, "BEAR", bs) /\ FoundIn(bulls, "BULL", bs)
                          /\ ScanHtfSpot[bs] = bears \o bulls
<1> DEFINE S == {p \in 2..Len(bs) : Higher(bs, p)}
           at == Listed(S, Len(bs))
           bulls == [n \in DOMAIN at |-> Grown(Opened(bs, "BULL", at[n]), at[n], bs)]
<1>1. S = {p \in 2..Len(bs) : Opens(bs, "BULL", p)}
  BY DEF Opens
<1>2. Lists(at, S, Len(bs))
  BY ListedLists
<1>3. ScanHtfSpot[bs] = ScanHtf[bs] \o bulls
  BY DEF ScanHtfSpot, Bulls, OpenedAt, Opened
<1> HIDE DEF at, S
<1>4. FoundIn(bulls, "BULL", bs)
  BY <1>1, <1>2, GrownAt
<1> HIDE DEF bulls
<1> QED
  BY <1>3, <1>4, ScanFinds

\* What FoundIn says of a concatenation, without the order.
LEMMA SpotZones ==
  ASSUME NEW bs \in Seq(Bar), Rising(bs)
  PROVE  /\ ScanHtfSpot[bs] \in Seq(Zone)
         /\ \A y \in ToSet(ScanHtfSpot[bs]) : \E kind \in {"BEAR", "BULL"}, p \in 2..Len(bs) :
              Opens(bs, kind, p) /\ History(Opened(bs, kind, p), y, p, Len(bs), bs)
         /\ \A kind \in {"BEAR", "BULL"}, p \in 2..Len(bs) : Opens(bs, kind, p) =>
              \E y \in ToSet(ScanHtfSpot[bs]) : History(Opened(bs, kind, p), y, p, Len(bs), bs)
<1>1. PICK bears, bulls : /\ FoundIn(bears, "BEAR", bs) /\ FoundIn(bulls, "BULL", bs)
                          /\ ScanHtfSpot[bs] = bears \o bulls
  BY SpotFinds
<1> DEFINE zs == bears \o bulls
<1>2. bears \in Seq(Zone) /\ bulls \in Seq(Zone)
  BY <1>1 DEF FoundIn
<1>3. /\ zs \in Seq(Zone) /\ DOMAIN zs = 1..(Len(bears) + Len(bulls))
      /\ DOMAIN bears = 1..Len(bears) /\ DOMAIN bulls = 1..Len(bulls)
      /\ Len(bears) \in Nat /\ Len(bulls) \in Nat
      /\ \A n \in 1..Len(bears) : zs[n] = bears[n]
      /\ \A n \in 1..Len(bulls) : zs[Len(bears) + n] = bulls[n]
  BY <1>2
<1> HIDE DEF zs
<1>4. ASSUME NEW y \in ToSet(zs)
      PROVE  (\E n \in DOMAIN bears : y = bears[n]) \/ (\E n \in DOMAIN bulls : y = bulls[n])
  <2>1. PICK n \in DOMAIN zs : y = zs[n]
    BY DEF ToSet
  <2>2. CASE n <= Len(bears)
    BY <1>3, <2>1, <2>2
  <2>3. CASE n > Len(bears)
    <3>1. n - Len(bears) \in 1..Len(bulls) /\ n = Len(bears) + (n - Len(bears))
      BY <1>3, <2>3
    <3> QED
      BY <1>3, <2>1, <3>1
  <2> QED
    BY <1>3, <2>2, <2>3
<1>5. \A n \in DOMAIN bears : bears[n] \in ToSet(zs)
  BY <1>3 DEF ToSet
<1>6. \A n \in DOMAIN bulls : bulls[n] \in ToSet(zs)
  <2> SUFFICES ASSUME NEW n \in DOMAIN bulls PROVE bulls[n] \in ToSet(zs)
    OBVIOUS
  <2>1. Len(bears) + n \in DOMAIN zs /\ zs[Len(bears) + n] = bulls[n]
    BY <1>3
  <2> QED
    BY <2>1 DEF ToSet
<1>7. ASSUME NEW y \in ToSet(zs)
      PROVE  \E kind \in {"BEAR", "BULL"}, p \in 2..Len(bs) :
               Opens(bs, kind, p) /\ History(Opened(bs, kind, p), y, p, Len(bs), bs)
  BY <1>1, <1>4 DEF FoundIn
<1>8. ASSUME NEW kind \in {"BEAR", "BULL"}, NEW p \in 2..Len(bs), Opens(bs, kind, p)
      PROVE  \E y \in ToSet(zs) : History(Opened(bs, kind, p), y, p, Len(bs), bs)
  <2>1. CASE kind = "BEAR"
    BY <1>1, <1>5, <1>8, <2>1 DEF FoundIn
  <2>2. CASE kind = "BULL"
    BY <1>1, <1>6, <1>8, <2>2 DEF FoundIn
  <2> QED
    BY <2>1, <2>2
<1> QED
  BY <1>1, <1>3, <1>7, <1>8 DEF zs

----------------------------------------------------------------------------
(* What a scan means *)

\* Division by a positive number.
LEMMA Division ==
  ASSUME NEW a \in Int, NEW k \in Nat \ {0}
  PROVE  /\ a \div k \in Int /\ a % k \in 0..(k - 1)
         /\ a = k * (a \div k) + (a % k)
OBVIOUS

\* The grid keeps the order of times.
LEMMA GridOrder ==
  ASSUME NEW a \in Int, NEW b \in Int, NEW k \in Nat \ {0}, a <= b
  PROVE  a - (a % k) <= b - (b % k)
<1> DEFINE q == a \div k
           r == b \div k
<1>1. /\ q \in Int /\ r \in Int /\ a % k \in 0..(k-1) /\ b % k \in 0..(k-1)
      /\ a = k * q + (a % k) /\ b = k * r + (b % k)
  BY Division
<1> HIDE DEF q, r
<1> DEFINE kq == k * q
           kr == k * r
<1>2. a - (a % k) = kq /\ b - (b % k) = kr /\ kq \in Int /\ kr \in Int
  BY <1>1
<1>3. CASE q <= r
  <2>1. kq <= kr
    BY <1>1, <1>3
  <2> HIDE DEF kq, kr
  <2> QED
    BY <1>2, <2>1
<1>4. CASE r <= q - 1
  <2>1. kr <= kq - k
    <3>1. k * r <= k * (q - 1)
      BY <1>1, <1>4
    <3>2. k * (q - 1) = k * q - k
      BY <1>1
    <3> QED
      BY <3>1, <3>2
  <2> HIDE DEF kq, kr
  <2>2. b < kr + k /\ kq <= a
    BY <1>1, <1>2
  <2> QED
    BY <1>1, <1>2, <2>1, <2>2
<1> QED
  BY <1>1, <1>3, <1>4

\* A bar of today opened at one of the minutes of the day.
LEMMA TodayBegins ==
  ASSUME NEW at \in Int, DayOf(at) = 0
  PROVE  at >= 0
<1>1. DayMinutes \in Nat \ {0} /\ at \div DayMinutes = 0
  BY DayAssumption DEF DayOf
<1>2. /\ at = DayMinutes * (at \div DayMinutes) + (at % DayMinutes)
      /\ at % DayMinutes \in 0..(DayMinutes-1)
  BY <1>1, Division
<1> QED
  BY <1>1, <1>2

\* What the zone z looks for in a bar of bs is what ms says of bar i.
LooksAt(z, bs, ms, i) ==
  \A j \in DOMAIN bs : /\ (Broken(z, bs[j]) <=> ms[j].high > ms[i].high)
                       /\ (Returned(z, bs[j]) <=> ms[j].low <= ms[i].low)

\* The status of a zone that opened on bar i + 1 is what the bars ms say of bar
\* i, when they are those of bs as the zone looks at them.
LEMMA StatusMeans ==
  ASSUME NEW bs \in Seq(Bar), NEW ms, Len(ms) = Len(bs), NEW z \in Zone, NEW y,
         NEW i \in Nat, i + 1 \in DOMAIN bs, History(z, y, i + 1, Len(bs), bs),
         LooksAt(z, bs, ms, i)
  PROVE  y.status = StatusAt(ms, i)
<1> DEFINE n == Len(bs)
           traps == {j \in (i+2)..n : ms[j].high > ms[i].high}
<1>1. n \in Nat /\ DOMAIN bs = 1..n /\ (i + 1) + 1 = i + 2
  OBVIOUS
<1>2. StatusAt(ms, i) = IF traps = {} THEN "ACTIVE"
                        ELSE IF \E k \in (Min(traps)+1)..n : ms[k].low <= ms[i].low
                        THEN "CLOSED" ELSE "TRAPPED"
  BY DEF StatusAt
<1>3. \A j \in (i+2)..n : j \in traps <=> Broken(z, bs[j])
  BY <1>1 DEF LooksAt
<1>4. traps \subseteq (i+2)..n
  OBVIOUS
<1> HIDE DEF traps
<1>5. CASE Left(z, y, i + 1, n, bs)
  <2>1. y.status = "ACTIVE" /\ \A m \in (i+2)..n : ~Broken(z, bs[m])
    BY <1>1, <1>5 DEF Left
  <2>2. traps = {}
    BY <1>3, <1>4, <2>1
  <2> QED
    BY <1>2, <2>1, <2>2
<1>6. ASSUME NEW t \in (i+2)..n, Trapped(z, y, i + 1, n, bs, t)
      PROVE  y.status = StatusAt(ms, i)
  <2>1. /\ Broken(z, bs[t])
        /\ \A m \in (i+2)..(t-1) : ~Broken(z, bs[m])
        /\ \/ y.status = "TRAPPED" /\ \A k \in (t+1)..n : ~Returned(z, bs[k])
           \/ y.status = "CLOSED" /\ \E k \in (t+1)..n : Returned(z, bs[k])
    BY <1>1, <1>6 DEF Trapped
  <2>2. t \in traps
    BY <1>3, <2>1
  <2>3. \A m \in traps : t <= m
    <3> SUFFICES ASSUME NEW m \in traps, m < t PROVE FALSE
      BY <1>4
    <3>1. m \in (i+2)..n /\ m \in (i+2)..(t-1)
      BY <1>4
    <3> QED
      BY <1>3, <2>1, <3>1
  <2>4. Min(traps) \in traps /\ \A m \in traps : Min(traps) <= m
    BY <2>2, <2>3 DEF Min
  <2>5. Min(traps) = t
    <3> DEFINE x == Min(traps)
    <3>1. x \in traps /\ x <= t
      BY <2>2, <2>4
    <3> HIDE DEF x
    <3>2. x \in Int /\ t <= x
      BY <1>1, <1>4, <2>3, <3>1
    <3>3. x = t
      BY <3>1, <3>2
    <3> QED
      BY <3>3 DEF x
  <2>6. \A k \in (t+1)..n : Returned(z, bs[k]) <=> ms[k].low <= ms[i].low
    <3>1. \A k \in (t+1)..n : k \in DOMAIN bs
      BY <1>1
    <3> QED
      BY <3>1 DEF LooksAt
  <2> QED
    BY <1>2, <2>1, <2>2, <2>5, <2>6
<1> QED
  BY <1>1, <1>5, <1>6 DEF History

\* The bars as sellers and as buyers look at them.
SeenBy(kind, bs) == IF kind = "BEAR" THEN bs ELSE Mirrored(bs)

\* What each side sees of the bars.
LEMMA SeenFrom ==
  ASSUME NEW bs \in Seq(Bar), NEW kind \in {"BEAR", "BULL"}
  PROVE  LET ms == SeenBy(kind, bs)
         IN  /\ Len(ms) = Len(bs)
             /\ \A i \in DOMAIN bs : ms[i].at = bs[i].at
             /\ \A i, j \in DOMAIN bs :
                  /\ (ms[j].high > ms[i].high <=>
                       IF kind = "BEAR" THEN bs[j].high > bs[i].high ELSE bs[j].low < bs[i].low)
                  /\ (ms[j].low <= ms[i].low <=>
                       IF kind = "BEAR" THEN bs[j].low <= bs[i].low ELSE bs[j].high >= bs[i].high)
                  /\ (ms[j].low < ms[i].low <=>
                       IF kind = "BEAR" THEN bs[j].low < bs[i].low ELSE bs[j].high > bs[i].high)
<1> DEFINE ms == SeenBy(kind, bs)
<1>1. CASE kind = "BEAR"
  <2>1. ms = bs
    BY <1>1 DEF SeenBy
  <2> QED
    BY <1>1, <2>1
<1>2. CASE kind = "BULL"
  <2>1. ms = [i \in DOMAIN bs |-> [bs[i] EXCEPT !.low = -bs[i].high, !.high = -bs[i].low]]
    BY <1>2 DEF SeenBy, Mirrored
  <2>2. Len(bs) \in Nat /\ DOMAIN bs = 1..Len(bs)
    OBVIOUS
  <2>3. Len(ms) = Len(bs)
    <3>1. ASSUME NEW i \in 1..Len(bs)
          PROVE  [bs[i] EXCEPT !.low = -bs[i].high, !.high = -bs[i].low] \in Bar
      <4> DEFINE b == bs[i]
                 lo == -b.high
                 hi == -b.low
      <4>1. b \in Bar
        BY <2>2
      <4> HIDE DEF b
      <4>2. lo \in Int /\ hi \in Int
        BY <4>1 DEF Bar
      <4> HIDE DEF lo, hi
      <4>3. [b EXCEPT !.low = lo, !.high = hi] \in Bar
        BY <4>1, <4>2 DEF Bar
      <4> QED
        BY <4>3 DEF b, lo, hi
    <3>2. ms = [i \in 1..Len(bs) |-> [bs[i] EXCEPT !.low = -bs[i].high, !.high = -bs[i].low]]
      BY <2>1, <2>2
    <3> HIDE DEF ms
    <3>3. \A i \in 1..Len(bs) : ms[i] \in Bar
      BY <3>1, <3>2, Zenon
    <3>4. DOMAIN ms = 1..Len(bs) /\ ms = [i \in 1..Len(bs) |-> ms[i]]
      BY <3>2, Zenon
    <3>5. ms \in Seq(Bar)
      BY <2>2, <3>3, <3>4
    <3> QED
      BY <2>2, <3>4, <3>5
  <2>4. ASSUME NEW i \in DOMAIN bs
        PROVE  /\ ms[i].at = bs[i].at /\ ms[i].low = -bs[i].high /\ ms[i].high = -bs[i].low
               /\ bs[i].high \in Int /\ bs[i].low \in Int
    <3>1. bs[i] \in Bar
      OBVIOUS
    <3>2. ms[i] = [bs[i] EXCEPT !.low = -bs[i].high, !.high = -bs[i].low]
      BY <2>1
    <3> QED
      BY <3>1, <3>2 DEF Bar
  <2> HIDE DEF ms
  <2>5. ASSUME NEW i \in DOMAIN bs, NEW j \in DOMAIN bs
        PROVE  /\ (ms[j].high > ms[i].high <=> bs[j].low < bs[i].low)
               /\ (ms[j].low <= ms[i].low <=> bs[j].high >= bs[i].high)
               /\ (ms[j].low < ms[i].low <=> bs[j].high > bs[i].high)
    <3>1. /\ ms[i].low = -bs[i].high /\ ms[i].high = -bs[i].low
          /\ ms[j].low = -bs[j].high /\ ms[j].high = -bs[j].low
      BY <2>4
    <3>2. /\ bs[i].high \in Int /\ bs[i].low \in Int
          /\ bs[j].high \in Int /\ bs[j].low \in Int
      BY <2>4
    <3> QED
      BY <3>1, <3>2
  <2>6. kind # "BEAR"
    BY <1>2
  <2> QED
    BY <2>3, <2>4, <2>5, <2>6 DEF ms
<1> QED
  BY <1>1, <1>2

\* What scan_htf_spot finds of a kind is what a trap of that kind means.
LEMMA SpotMeans ==
  ASSUME NEW bs \in Seq(Bar), Rising(bs), NEW kind \in {"BEAR", "BULL"}
  PROVE  Found(ScanHtfSpot[bs], kind) = Meaning(SeenBy(kind, bs))
<1> DEFINE zs == ScanHtfSpot[bs]
           ms == SeenBy(kind, bs)
           n == Len(bs)
<1>1. /\ \A y \in ToSet(zs) : \E c \in {"BEAR", "BULL"}, p \in 2..n :
           Opens(bs, c, p) /\ History(Opened(bs, c, p), y, p, n, bs)
      /\ \A c \in {"BEAR", "BULL"}, p \in 2..n : Opens(bs, c, p) =>
           \E y \in ToSet(zs) : History(Opened(bs, c, p), y, p, n, bs)
  BY SpotZones
<1>2. /\ Len(ms) = n /\ \A i \in DOMAIN bs : ms[i].at = bs[i].at
      /\ \A i, j \in DOMAIN bs :
           /\ (ms[j].high > ms[i].high <=>
                IF kind = "BEAR" THEN bs[j].high > bs[i].high ELSE bs[j].low < bs[i].low)
           /\ (ms[j].low <= ms[i].low <=>
                IF kind = "BEAR" THEN bs[j].low <= bs[i].low ELSE bs[j].high >= bs[i].high)
           /\ (ms[j].low < ms[i].low <=>
                IF kind = "BEAR" THEN bs[j].low < bs[i].low ELSE bs[j].high > bs[i].high)
  BY SeenFrom
<1>3. n \in Nat /\ DOMAIN bs = 1..n
  OBVIOUS
<1>4. Meaning(ms) = {<<ms[i].at, StatusAt(ms, i)>> : i \in Shorts(ms)}
      /\ Shorts(ms) = {i \in 1..(n-1) : ms[i+1].low < ms[i].low}
  BY <1>2 DEF Meaning, Shorts
<1> HIDE DEF zs, ms, n
<1>5. ASSUME NEW i \in 1..(n-1), NEW y, History(Opened(bs, kind, i+1), y, i + 1, n, bs)
      PROVE  y.kind = kind /\ y.ref = ms[i].at /\ y.status = StatusAt(ms, i)
  <2> DEFINE z == Opened(bs, kind, i + 1)
  <2>1. i \in Nat /\ i \in DOMAIN bs /\ i + 1 \in DOMAIN bs /\ i + 1 \in 2..n /\ (i + 1) - 1 = i
    BY <1>3
  <2>2. z \in Zone /\ z.kind = kind /\ z.ref = bs[i].at
    BY <2>1, OpenedZone DEF n
  <2>3. /\ z.sl = IF kind = "BEAR" THEN bs[i].high ELSE bs[i].low
        /\ z.entry = IF kind = "BEAR" THEN bs[i].low ELSE bs[i].high
    BY <2>1 DEF Opened, BearZone, BullZone
  <2>4. History(z, y, i + 1, n, bs)
    BY <1>5
  <2> HIDE DEF z
  <2>5. y.kind = kind /\ y.ref = ms[i].at
    BY <1>2, <2>1, <2>2, <2>4 DEF History, SameZone
  <2>6. LooksAt(z, bs, ms, i)
    BY <1>2, <2>1, <2>2, <2>3 DEF LooksAt, Broken, Returned
  <2>7. Len(ms) = Len(bs) /\ History(z, y, i + 1, Len(bs), bs)
    BY <1>2, <2>4 DEF n
  <2>8. y.status = StatusAt(ms, i)
    BY <2>1, <2>2, <2>6, <2>7, StatusMeans
  <2> QED
    BY <2>5, <2>8
<1>6. \A i \in 1..(n-1) : i \in Shorts(ms) <=> Opens(bs, kind, i + 1)
  <2> SUFFICES ASSUME NEW i \in 1..(n-1)
               PROVE  ms[i+1].low < ms[i].low <=> Opens(bs, kind, i + 1)
    BY <1>4
  <2>1. i \in DOMAIN bs /\ i + 1 \in DOMAIN bs /\ i + 1 \in 2..n /\ (i + 1) - 1 = i
    BY <1>3
  <2> QED
    BY <1>2, <2>1 DEF Opens, Lower, Higher, n
<1>7. ASSUME NEW y \in ToSet(zs), y.kind = kind
      PROVE  <<y.ref, y.status>> \in Meaning(ms)
  <2>1. PICK c \in {"BEAR", "BULL"}, p \in 2..n :
          Opens(bs, c, p) /\ History(Opened(bs, c, p), y, p, n, bs)
    BY <1>1
  <2>2. c = kind
    BY <1>7, <2>1, OpenedZone DEF History, SameZone, n
  <2> DEFINE i == p - 1
  <2>3. i \in 1..(n-1) /\ p = i + 1
    BY <1>3
  <2> HIDE DEF i
  <2>4. i \in Shorts(ms) /\ y.ref = ms[i].at /\ y.status = StatusAt(ms, i)
    BY <1>5, <1>6, <2>1, <2>2, <2>3
  <2> QED
    BY <1>4, <2>4
<1>8. ASSUME NEW i \in Shorts(ms)
      PROVE  <<ms[i].at, StatusAt(ms, i)>> \in Found(zs, kind)
  <2>1. i \in 1..(n-1) /\ i + 1 \in 2..n
    BY <1>3, <1>4
  <2>2. PICK y \in ToSet(zs) : History(Opened(bs, kind, i+1), y, i + 1, n, bs)
    BY <1>1, <1>6, <2>1
  <2>3. y.kind = kind /\ y.ref = ms[i].at /\ y.status = StatusAt(ms, i)
    BY <1>5, <2>1, <2>2
  <2> QED
    BY <2>3 DEF Found
<1>9. Found(zs, kind) \subseteq Meaning(ms)
  BY <1>7 DEF Found
<1>10. Meaning(ms) \subseteq Found(zs, kind)
  BY <1>4, <1>8
<1> QED
  BY <1>9, <1>10 DEF zs, ms

----------------------------------------------------------------------------
(* Longer frames *)

\* Of numbers in a sequence that is not empty, one is the least, one the greatest.
LEMMA Extremes ==
  ASSUME NEW n \in Nat, n # 0, NEW f \in [1..n -> Int]
  PROVE  /\ \E i \in 1..n : \A j \in 1..n : f[i] <= f[j]
         /\ \E i \in 1..n : \A j \in 1..n : f[i] >= f[j]
<1> DEFINE Has(m) == /\ \E i \in 1..m : \A j \in 1..m : f[i] <= f[j]
                     /\ \E i \in 1..m : \A j \in 1..m : f[i] >= f[j]
           T == {m \in Nat : m + 1 <= n => Has(m + 1)}
<1>1. 0 \in T
  <2>1. 1..(0+1) = {1} /\ 1 \in 1..n
    OBVIOUS
  <2>2. f[1] \in Int
    BY <2>1
  <2> QED
    BY <2>1, <2>2
<1>2. ASSUME NEW m \in Nat, m \in T PROVE m + 1 \in T
  <2> SUFFICES ASSUME (m + 1) + 1 <= n PROVE Has((m + 1) + 1)
    OBVIOUS
  <2> DEFINE c == m + 1
  <2>1. Has(c) /\ c \in Nat /\ c + 1 <= n
    <3>1. c \in Nat /\ c <= n /\ c + 1 <= n
      OBVIOUS
    <3> HIDE DEF Has
    <3> QED
      BY <1>2, <3>1
  <2> HIDE DEF c
  <2>2. \A j \in 1..(c+1) : (j \in 1..c \/ j = c + 1) /\ f[j] \in Int
    BY <2>1
  <2>3. c + 1 \in 1..(c+1) /\ \A j \in 1..c : j \in 1..(c+1)
    BY <2>1
  <2>4. \E i \in 1..(c+1) : \A j \in 1..(c+1) : f[i] <= f[j]
    <3>1. PICK i \in 1..c : \A j \in 1..c : f[i] <= f[j]
      BY <2>1
    <3>2. CASE f[i] <= f[c+1]
      <4>1. \A j \in 1..(c+1) : f[i] <= f[j]
        BY <2>2, <3>1, <3>2
      <4> QED
        BY <2>3, <4>1
    <3>3. CASE ~(f[i] <= f[c+1])
      <4>1. \A j \in 1..(c+1) : f[c+1] <= f[j]
        BY <2>2, <2>3, <3>1, <3>3
      <4> QED
        BY <2>3, <4>1
    <3> QED
      BY <3>2, <3>3
  <2>5. \E i \in 1..(c+1) : \A j \in 1..(c+1) : f[i] >= f[j]
    <3>1. PICK i \in 1..c : \A j \in 1..c : f[i] >= f[j]
      BY <2>1
    <3>2. CASE f[i] >= f[c+1]
      <4>1. \A j \in 1..(c+1) : f[i] >= f[j]
        BY <2>2, <3>1, <3>2
      <4> QED
        BY <2>3, <4>1
    <3>3. CASE ~(f[i] >= f[c+1])
      <4>1. \A j \in 1..(c+1) : f[c+1] >= f[j]
        BY <2>2, <2>3, <3>1, <3>3
      <4> QED
        BY <2>3, <4>1
    <3> QED
      BY <3>2, <3>3
  <2> QED
    BY <2>4, <2>5 DEF c
<1>3. n - 1 \in T
  <2>1. n - 1 \in Nat
    OBVIOUS
  <2> HIDE DEF T
  <2> QED
    BY <1>1, <1>2, <2>1, Induction
<1>4. (n - 1) + 1 = n
  OBVIOUS
<1> QED
  BY <1>3, <1>4

\* A merged bar spans the bars it is made of.
LEMMA MergedSpans ==
  ASSUME NEW at \in Int, NEW q \in Seq(Bar), q # <<>>
  PROVE  LET c == Merged(at, q)
         IN  /\ c \in Bar /\ c.at = at
             /\ \A b \in ToSet(q) : c.low <= b.low /\ c.high >= b.high
             /\ \E b \in ToSet(q) : c.low = b.low
             /\ \E b \in ToSet(q) : c.high = b.high
<1> DEFINE n == Len(q)
           lows == {b.low : b \in ToSet(q)}
           highs == {b.high : b \in ToSet(q)}
           lo == [i \in 1..n |-> q[i].low]
           hi == [i \in 1..n |-> q[i].high]
<1>1. n \in Nat /\ n # 0 /\ DOMAIN q = 1..n
  BY EmptySeq
<1>2. \A i \in 1..n : q[i] \in Bar
  BY <1>1
<1>3. lo \in [1..n -> Int] /\ hi \in [1..n -> Int]
  BY <1>2 DEF Bar
<1>4. /\ \E i \in 1..n : \A j \in 1..n : lo[i] <= lo[j]
      /\ \E i \in 1..n : \A j \in 1..n : hi[i] >= hi[j]
  <2> HIDE DEF lo, hi, n
  <2> QED
    BY <1>1, <1>3, Extremes
<1>5. /\ \A x \in lows : \E i \in 1..n : x = q[i].low
      /\ \A x \in highs : \E i \in 1..n : x = q[i].high
      /\ \A i \in 1..n : q[i].low \in lows /\ q[i].high \in highs
  BY <1>1 DEF ToSet
<1>6. /\ \E x \in lows : \A y \in lows : x <= y
      /\ \E x \in highs : \A y \in highs : x >= y
  <2>1. PICK i \in 1..n : \A j \in 1..n : lo[i] <= lo[j]
    BY <1>4
  <2>2. PICK k \in 1..n : \A j \in 1..n : hi[k] >= hi[j]
    BY <1>4
  <2>3. /\ \A j \in 1..n : q[i].low <= q[j].low
        /\ \A j \in 1..n : q[k].high >= q[j].high
    BY <2>1, <2>2
  <2> HIDE DEF lows, highs, n
  <2>4. /\ q[i].low \in lows /\ \A y \in lows : q[i].low <= y
        /\ q[k].high \in highs /\ \A y \in highs : q[k].high >= y
    BY <1>5, <2>3
  <2> QED
    BY <2>4
<1>7. Min(lows) \in lows /\ \A y \in lows : Min(lows) <= y
  BY <1>6 DEF Min
<1>8. Max(highs) \in highs /\ \A y \in highs : Max(highs) >= y
  BY <1>6 DEF Max
<1>9. Merged(at, q) = [at |-> at, low |-> Min(lows), high |-> Max(highs), close |-> q[n].close]
  BY DEF Merged, Last
<1>10. Min(lows) \in Int /\ Max(highs) \in Int /\ q[n].close \in Int
  <2>1. q[n] \in Bar
    BY <1>1, <1>2
  <2>2. (\A x \in lows : x \in Int) /\ (\A x \in highs : x \in Int)
    BY <1>2, <1>5 DEF Bar
  <2> QED
    BY <1>7, <1>8, <2>1, <2>2 DEF Bar
<1>11. Merged(at, q) \in Bar
  BY <1>9, <1>10 DEF Bar
<1>12. \A b \in ToSet(q) : b.low \in lows /\ b.high \in highs
  OBVIOUS
<1>13. (\E b \in ToSet(q) : Min(lows) = b.low) /\ (\E b \in ToSet(q) : Max(highs) = b.high)
  BY <1>7, <1>8
<1> HIDE DEF lows, highs, n
<1> QED
  BY <1>7, <1>8, <1>9, <1>11, <1>12, <1>13

\* One more bar widens what is merged.
LEMMA MergedMore ==
  ASSUME NEW at \in Int, NEW q \in Seq(Bar), q # <<>>, NEW a \in Bar
  PROVE  /\ Merged(at, Append(q, a)).low <= Merged(at, q).low
         /\ Merged(at, Append(q, a)).high >= Merged(at, q).high
<1> DEFINE r == Append(q, a)
<1>1. r \in Seq(Bar) /\ r # <<>> /\ ToSet(q) \subseteq ToSet(r)
  <2>1. /\ r \in Seq(Bar) /\ Len(q) \in Nat /\ Len(r) = Len(q) + 1
        /\ \A i \in 1..Len(q) : r[i] = q[i]
    OBVIOUS
  <2>2. r # <<>>
    BY <2>1, EmptySeq
  <2>3. DOMAIN q = 1..Len(q) /\ DOMAIN r = 1..(Len(q) + 1)
    BY <2>1
  <2> HIDE DEF r
  <2>4. \A i \in DOMAIN q : i \in DOMAIN r
    BY <2>1, <2>3
  <2>5. ToSet(q) \subseteq ToSet(r)
    BY <2>1, <2>3, <2>4 DEF ToSet
  <2> QED
    BY <2>1, <2>2, <2>5
<1> HIDE DEF r
<1> DEFINE c == Merged(at, q)
           d == Merged(at, r)
<1>2. (\E b \in ToSet(q) : c.low = b.low) /\ (\E b \in ToSet(q) : c.high = b.high)
  BY MergedSpans
<1>3. \A b \in ToSet(r) : d.low <= b.low /\ d.high >= b.high
  BY <1>1, MergedSpans
<1> HIDE DEF c, d
<1> QED
  BY <1>1, <1>2, <1>3 DEF c, d, r

\* The bars that begin a bin, and the bars from the m-th of them to the next.
Firsts(bs, k) ==
  {i \in DOMAIN bs : i = 1 \/ BinOf(bs, bs[i].at, k) # BinOf(bs, bs[i-1].at, k)}
Block(bs, first, m) ==
  SubSeq(bs, first[m], IF m = Len(first) THEN Len(bs) ELSE first[m+1] - 1)

\* A longer frame, by the bars that begin its bins.
LEMMA ResampleIs ==
  ASSUME NEW bs \in Seq(Bar), NEW k
  PROVE  LET first == Listed(Firsts(bs, k), Len(bs))
         IN  Resample(k)[bs] = [m \in DOMAIN first |->
               Merged(BinOf(bs, bs[first[m]].at, k), Block(bs, first, m))]
<1> DEFINE bin == [i \in DOMAIN bs |-> BinOf(bs, bs[i].at, k)]
           F == {i \in DOMAIN bs : i = 1 \/ bin[i] # bin[i-1]}
           first == Listed(F, Len(bs))
<1>1. F = Firsts(bs, k)
  <2>1. \A i \in DOMAIN bs : i # 1 => i - 1 \in DOMAIN bs
    OBVIOUS
  <2>2. \A i \in DOMAIN bs : bin[i] = BinOf(bs, bs[i].at, k)
    OBVIOUS
  <2> HIDE DEF bin
  <2> QED
    BY <2>1, <2>2 DEF Firsts
<1>2. Resample(k)[bs] = [m \in DOMAIN first |-> Merged(bin[first[m]],
                          SubSeq(bs, first[m], IF m = Len(first) THEN Len(bs) ELSE first[m+1] - 1))]
  BY DEF Resample
<1>3. \A m \in DOMAIN first : bin[first[m]] = BinOf(bs, bs[first[m]].at, k)
  <2>1. Lists(first, F, Len(bs))
    BY ListedLists
  <2>2. \A m \in DOMAIN first : first[m] \in DOMAIN bs
    BY <2>1 DEF Lists
  <2> HIDE DEF first
  <2> QED
    BY <2>2
<1> HIDE DEF bin, F
<1>4. Resample(k)[bs] = [m \in DOMAIN first |->
                          Merged(BinOf(bs, bs[first[m]].at, k), Block(bs, first, m))]
  BY <1>2, <1>3 DEF Block
<1> QED
  BY <1>1, <1>4

\* The grid of bars in order.
LEMMA BinsOrder ==
  ASSUME NEW bs \in Seq(Bar), InOrder(bs), NEW k \in Nat \ {0},
         NEW i \in DOMAIN bs, NEW j \in DOMAIN bs, i <= j
  PROVE  /\ BinOf(bs, bs[i].at, k) \in Int /\ BinOf(bs, bs[j].at, k) \in Int
         /\ BinOf(bs, bs[i].at, k) <= BinOf(bs, bs[j].at, k)
<1> DEFINE base == DayMinutes * DayOf(bs[1].at)
           a == bs[i].at - base
           b == bs[j].at - base
<1>1. bs[i].at \in Int /\ bs[j].at \in Int /\ bs[1].at \in Int
  <2>1. 1 \in DOMAIN bs
    OBVIOUS
  <2>2. bs[i] \in Bar /\ bs[j] \in Bar /\ bs[1] \in Bar
    BY <2>1
  <2> QED
    BY <2>2 DEF Bar
<1>2. base \in Int
  <2>1. DayMinutes \in Nat \ {0}
    BY DayAssumption
  <2>2. DayOf(bs[1].at) \in Int
    BY <1>1, <2>1, Division DEF DayOf
  <2> QED
    BY <2>1, <2>2
<1>3. bs[i].at <= bs[j].at
  <2>1. CASE i = j
    BY <1>1, <2>1
  <2>2. CASE i # j
    <3>1. i < j
      BY <2>2
    <3>2. bs[i].at < bs[j].at
      BY <3>1 DEF InOrder
    <3> QED
      BY <1>1, <3>2
  <2> QED
    BY <2>1, <2>2
<1>4. /\ BinOf(bs, bs[i].at, k) = bs[i].at - (a % k)
      /\ BinOf(bs, bs[j].at, k) = bs[j].at - (b % k)
  BY DEF BinOf
<1> HIDE DEF base
<1>5. a \in Int /\ b \in Int /\ a <= b
  BY <1>1, <1>2, <1>3
<1>6. a % k \in Int /\ b % k \in Int
  <2> HIDE DEF a, b
  <2> QED
    BY <1>5, Division
<1>7. a - (a % k) <= b - (b % k)
  <2> HIDE DEF a, b
  <2> QED
    BY <1>5, GridOrder
<1> DEFINE ra == a % k
           rb == b % k
<1>8. /\ ra \in Int /\ rb \in Int /\ a - ra <= b - rb
      /\ BinOf(bs, bs[i].at, k) = bs[i].at - ra
      /\ BinOf(bs, bs[j].at, k) = bs[j].at - rb
  BY <1>4, <1>6, <1>7
<1> HIDE DEF ra, rb
<1> DEFINE x == bs[i].at
           y == bs[j].at
<1>9. x - base - ra <= y - base - rb /\ x \in Int /\ y \in Int
  BY <1>1, <1>8
<1> HIDE DEF x, y
<1>10. x - ra \in Int /\ y - rb \in Int /\ x - ra <= y - rb
  BY <1>2, <1>8, <1>9
<1> QED
  BY <1>8, <1>10 DEF x, y

\* What is listed of the bars that begin a bin.
LEMMA FirstsListed ==
  ASSUME NEW bs \in Seq(Bar), InOrder(bs), NEW k \in Nat \ {0}
  PROVE  LET first == Listed(Firsts(bs, k), Len(bs))
         IN  /\ first \in Seq(Nat) /\ (bs # <<>> => first # <<>>)
             /\ \A m \in DOMAIN first :
                  /\ first[m] \in DOMAIN bs /\ BinOf(bs, bs[first[m]].at, k) \in Int
                  /\ Block(bs, first, m) \in Seq(Bar) /\ Block(bs, first, m) # <<>>
             /\ \A m, p \in DOMAIN first : m < p =>
                  BinOf(bs, bs[first[m]].at, k) < BinOf(bs, bs[first[p]].at, k)
<1> DEFINE F == Firsts(bs, k)
           n == Len(bs)
           first == Listed(F, n)
<1>1. Lists(first, F, n)
  BY ListedLists
<1>2. n \in Nat /\ DOMAIN bs = 1..n
  OBVIOUS
<1>3. F = {i \in DOMAIN bs : i = 1 \/ BinOf(bs, bs[i].at, k) # BinOf(bs, bs[i-1].at, k)}
  BY DEF Firsts
<1> HIDE DEF first, F
<1>4. /\ first \in Seq(Nat)
      /\ \A m \in DOMAIN first : first[m] \in 1..n /\ first[m] \in F
      /\ \A m, p \in DOMAIN first : m < p => first[m] < first[p]
      /\ \A i \in 1..n : i \in F => \E m \in DOMAIN first : first[m] = i
  BY <1>1 DEF Lists
<1>5. Len(first) \in Nat /\ DOMAIN first = 1..Len(first)
  BY <1>4
<1>6. ASSUME bs # <<>> PROVE first # <<>>
  <2>1. 1 \in 1..n
    BY <1>2, <1>6, EmptySeq
  <2>2. 1 \in F
    BY <1>2, <1>3, <2>1
  <2>3. PICK m \in DOMAIN first : first[m] = 1
    BY <1>4, <2>1, <2>2
  <2> QED
    BY <1>5, <2>3
<1>7. ASSUME NEW m \in DOMAIN first
      PROVE  /\ first[m] \in DOMAIN bs /\ BinOf(bs, bs[first[m]].at, k) \in Int
             /\ Block(bs, first, m) \in Seq(Bar) /\ Block(bs, first, m) # <<>>
  <2> DEFINE e == IF m = Len(first) THEN n ELSE first[m+1] - 1
             f == first[m]
  <2>1. f \in 1..n
    BY <1>4
  <2>2. e \in 1..n /\ f <= e
    <3>1. CASE m = Len(first)
      BY <2>1, <3>1
    <3>2. CASE m # Len(first)
      <4>1. m + 1 \in DOMAIN first /\ m < m + 1
        BY <1>5, <3>2
      <4>2. first[m+1] \in 1..n /\ f < first[m+1]
        BY <1>4, <4>1
      <4> QED
        BY <2>1, <3>2, <4>2
    <3> QED
      BY <3>1, <3>2
  <2>3. Block(bs, first, m) = SubSeq(bs, f, e)
    BY DEF Block
  <2> HIDE DEF e, f
  <2>4. SubSeq(bs, f, e) \in Seq(Bar) /\ Len(SubSeq(bs, f, e)) = e - f + 1
    BY <1>2, <2>1, <2>2
  <2>5. e - f + 1 # 0
    BY <2>1, <2>2
  <2>6. SubSeq(bs, f, e) # <<>>
    BY <2>4, <2>5, EmptySeq
  <2>7. BinOf(bs, bs[f].at, k) \in Int
    BY <1>2, <2>1, BinsOrder
  <2> QED
    BY <1>2, <2>1, <2>3, <2>4, <2>6, <2>7 DEF f
<1>8. ASSUME NEW m \in DOMAIN first, NEW p \in DOMAIN first, m < p
      PROVE  BinOf(bs, bs[first[m]].at, k) < BinOf(bs, bs[first[p]].at, k)
  <2> DEFINE i == first[m]
             j == first[p]
  <2>1. i \in 1..n /\ j \in 1..n /\ i < j /\ j \in F
    BY <1>4, <1>8
  <2> HIDE DEF i, j
  <2>2. /\ j # 1 /\ j - 1 \in DOMAIN bs /\ i <= j - 1
        /\ i \in DOMAIN bs /\ j \in DOMAIN bs /\ j - 1 <= j
    BY <1>2, <2>1
  <2>3. BinOf(bs, bs[j].at, k) # BinOf(bs, bs[j-1].at, k)
    BY <1>3, <2>1, <2>2
  <2>4. /\ BinOf(bs, bs[i].at, k) \in Int /\ BinOf(bs, bs[j-1].at, k) \in Int
        /\ BinOf(bs, bs[i].at, k) <= BinOf(bs, bs[j-1].at, k)
    BY <2>2, BinsOrder
  <2>5. /\ BinOf(bs, bs[j].at, k) \in Int
        /\ BinOf(bs, bs[j-1].at, k) <= BinOf(bs, bs[j].at, k)
    BY <2>2, BinsOrder
  <2>6. BinOf(bs, bs[i].at, k) < BinOf(bs, bs[j].at, k)
    BY <2>3, <2>4, <2>5
  <2> QED
    BY <2>6 DEF i, j
<1> QED
  BY <1>4, <1>6, <1>7, <1>8 DEF first, F, n

\* Bars of a longer frame rise as well.
LEMMA ResampleRises ==
  ASSUME NEW bs \in Seq(Bar), InOrder(bs), NEW k \in Nat \ {0}
  PROVE  Resample(k)[bs] \in Seq(Bar) /\ Rising(Resample(k)[bs])
<1> DEFINE first == Listed(Firsts(bs, k), Len(bs))
           R == Resample(k)[bs]
           at(m) == BinOf(bs, bs[first[m]].at, k)
<1>1. R = [m \in DOMAIN first |-> Merged(at(m), Block(bs, first, m))]
  BY ResampleIs
<1>2. /\ first \in Seq(Nat)
      /\ \A m \in DOMAIN first : /\ at(m) \in Int
                                 /\ Block(bs, first, m) \in Seq(Bar) /\ Block(bs, first, m) # <<>>
      /\ \A m, p \in DOMAIN first : m < p => at(m) < at(p)
  BY FirstsListed
<1> HIDE DEF first, R, at
<1>3. \A m \in DOMAIN first : R[m] \in Bar /\ R[m].at = at(m)
  BY <1>1, <1>2, MergedSpans
<1>4. Len(first) \in Nat /\ DOMAIN first = 1..Len(first) /\ DOMAIN R = DOMAIN first
  BY <1>1, <1>2
<1>5. R \in Seq(Bar)
  <2>1. R = [m \in 1..Len(first) |-> R[m]]
    BY <1>1, <1>4
  <2> QED
    BY <1>3, <1>4, <2>1
<1>6. Rising(R)
  BY <1>2, <1>3, <1>4 DEF Rising
<1> QED
  BY <1>5, <1>6 DEF R

\* A part of a sequence, when one element more comes after it.
LEMMA PartOfMore ==
  ASSUME NEW s \in Seq(Bar), NEW a \in Bar, NEW i \in 1..Len(s)
  PROVE  /\ \A j \in i..Len(s) : SubSeq(Append(s, a), i, j) = SubSeq(s, i, j)
         /\ SubSeq(Append(s, a), i, Len(s) + 1) = Append(SubSeq(s, i, Len(s)), a)
<1> DEFINE n == Len(s)
           t == Append(s, a)
<1>1. /\ n \in Nat /\ t \in Seq(Bar) /\ Len(t) = n + 1 /\ t[n+1] = a
      /\ \A m \in 1..n : t[m] = s[m]
  OBVIOUS
<1> HIDE DEF t
<1>2. ASSUME NEW j \in i..n
      PROVE  SubSeq(t, i, j) = SubSeq(s, i, j)
  <2>1. /\ SubSeq(t, i, j) = [m \in 1..(j-i+1) |-> t[i+m-1]]
        /\ SubSeq(s, i, j) = [m \in 1..(j-i+1) |-> s[i+m-1]]
    BY <1>1
  <2>2. \A m \in 1..(j-i+1) : i + m - 1 \in 1..n
    BY <1>1
  <2>3. \A m \in 1..(j-i+1) : t[i+m-1] = s[i+m-1]
    BY <1>1, <2>2
  <2> QED
    BY <2>1, <2>3
<1>3. SubSeq(t, i, n + 1) = Append(SubSeq(s, i, n), a)
  <2> DEFINE u == SubSeq(t, i, n + 1)
             v == SubSeq(s, i, n)
             c == n - i + 1
  <2>1. c \in Nat /\ (n + 1) - i + 1 = c + 1
    BY <1>1
  <2>2. /\ u \in Seq(Bar) /\ Len(u) = c + 1 /\ \A m \in 1..(c+1) : u[m] = t[i+m-1]
    BY <1>1, <2>1
  <2>3. /\ v \in Seq(Bar) /\ Len(v) = c /\ \A m \in 1..c : v[m] = s[i+m-1]
    BY <1>1, <2>1
  <2>4. \A m \in 1..c : i + m - 1 \in 1..n
    BY <1>1
  <2>5. i + (c + 1) - 1 = n + 1 /\ c + 1 \in 1..(c+1)
    BY <1>1
  <2> HIDE DEF u, v, c
  <2>6. ASSUME NEW m \in 1..c PROVE u[m] = v[m]
    <3>1. m \in 1..(c+1) /\ i + m - 1 \in 1..n
      BY <2>1, <2>4
    <3> QED
      BY <1>1, <2>2, <2>3, <3>1
  <2>7. u[c+1] = a
    BY <1>1, <2>2, <2>5
  <2> DEFINE w == Append(v, a)
  <2>8. /\ w \in Seq(Bar) /\ Len(w) = c + 1 /\ w[c+1] = a /\ \A m \in 1..c : w[m] = v[m]
    BY <2>1, <2>3
  <2> HIDE DEF w
  <2>9. \A m \in 1..(c+1) : u[m] = w[m]
    <3>1. \A m \in 1..(c+1) : m \in 1..c \/ m = c + 1
      BY <2>1
    <3> QED
      BY <2>6, <2>7, <2>8, <3>1
  <2>10. u = w
    BY <2>2, <2>8, <2>9, SeqEqual
  <2> QED
    BY <2>10 DEF u, v, w
<1> QED
  BY <1>2, <1>3 DEF t

\* Q begins with the bars of P, the last of them perhaps wider.
Wider(P, Q) ==
  /\ P # <<>> /\ Len(P) <= Len(Q) /\ \A m \in 1..(Len(P)-1) : Q[m] = P[m]
  /\ Q[Len(P)].low <= P[Len(P)].low /\ Q[Len(P)].high >= P[Len(P)].high

\* A bar more widens the last bar of a longer frame or begins another one.
LEMMA ResampleWider ==
  ASSUME NEW s \in Seq(Bar), s # <<>>, NEW a \in Bar, InOrder(Append(s, a)),
         NEW k \in Nat \ {0}
  PROVE  Wider(Resample(k)[s], Resample(k)[Append(s, a)])
<1> DEFINE n == Len(s)
           t == Append(s, a)
           F == Firsts(s, k)
           G == Firsts(t, k)
           f == Listed(F, n)
           g == Listed(G, n + 1)
           P == Resample(k)[s]
           Q == Resample(k)[t]
           at(m) == BinOf(s, s[f[m]].at, k)
           to(m) == BinOf(t, t[g[m]].at, k)
<1>1. /\ n \in Nat /\ n # 0 /\ t \in Seq(Bar) /\ Len(t) = n + 1 /\ DOMAIN s = 1..n
      /\ DOMAIN t = 1..(n+1) /\ t[n+1] = a /\ \A m \in 1..n : t[m] = s[m]
  BY EmptySeq
<1>2. InOrder(s)
  <2>1. t = s \o <<a>>
    OBVIOUS
  <2> QED
    BY <2>1, OneMore
<1>3. /\ f \in Seq(Nat) /\ f # <<>>
      /\ \A m \in DOMAIN f : /\ f[m] \in DOMAIN s /\ at(m) \in Int
                             /\ Block(s, f, m) \in Seq(Bar) /\ Block(s, f, m) # <<>>
  BY <1>2, FirstsListed
<1>4. P = [m \in DOMAIN f |-> Merged(at(m), Block(s, f, m))]
  BY ResampleIs
<1>5. Q = [m \in DOMAIN g |-> Merged(to(m), Block(t, g, m))]
  <2> DEFINE h == Listed(G, Len(t))
  <2>1. h = g
    BY <1>1
  <2>2. Q = [m \in DOMAIN h |-> Merged(BinOf(t, t[h[m]].at, k), Block(t, h, m))]
    BY <1>1, ResampleIs
  <2> HIDE DEF h, g
  <2> QED
    BY <2>1, <2>2
<1>6. \A i \in 1..n : BinOf(t, t[i].at, k) = BinOf(s, s[i].at, k)
  <2>1. 1 \in 1..n
    BY <1>1
  <2> QED
    BY <1>1, <2>1 DEF BinOf
<1>7. \A i \in 1..n : i \in F <=> i \in G
  <2> SUFFICES ASSUME NEW i \in 1..n PROVE i \in F <=> i \in G
    OBVIOUS
  <2>1. i \in DOMAIN s /\ i \in DOMAIN t /\ (i # 1 => i - 1 \in 1..n)
    BY <1>1
  <2> QED
    BY <1>6, <2>1 DEF Firsts
<1>8. g = IF n + 1 \in G THEN Append(f, n + 1) ELSE f
  <2>1. Listed(G, n) = f
    BY <1>1, <1>7, ListedSame
  <2> HIDE DEF f, G
  <2> QED
    BY <1>1, <2>1, ListedStep DEF f
<1> HIDE DEF t, F, G, f, g, P, Q, at, to
<1> DEFINE c == Len(f)
<1>9. c \in Nat /\ c # 0 /\ DOMAIN f = 1..c
  BY <1>3, EmptySeq
<1>10. /\ Len(g) \in Nat /\ DOMAIN g = 1..Len(g) /\ c <= Len(g)
       /\ \A m \in 1..c : g[m] = f[m]
  BY <1>1, <1>3, <1>8, <1>9
<1>11. Len(f) = c
  OBVIOUS
<1> HIDE DEF c
<1>12. Len(P) = c /\ Len(Q) = Len(g)
  <2>1. Len(g) \in Nat
    BY <1>1, <1>3, <1>8
  <2>2. \A m \in DOMAIN P : TRUE
    OBVIOUS
  <2>3. DOMAIN P = 1..c /\ DOMAIN Q = 1..Len(g)
    BY <1>4, <1>5, <1>9, <1>10
  <2>4. P \in Seq(Bar) /\ Q \in Seq(Bar)
    BY <1>1, <1>2, ResampleRises DEF P, Q, t
  <2> QED
    BY <1>9, <2>1, <2>3, <2>4
<1>13. ASSUME NEW m \in 1..c
       PROVE  /\ to(m) = at(m) /\ at(m) \in Int /\ f[m] \in 1..n
              /\ P[m] = Merged(at(m), Block(s, f, m)) /\ Q[m] = Merged(at(m), Block(t, g, m))
  <2>1. m \in DOMAIN f /\ m \in DOMAIN g /\ g[m] = f[m]
    BY <1>9, <1>10
  <2>2. f[m] \in 1..n /\ at(m) \in Int
    BY <1>1, <1>3, <2>1
  <2>3. to(m) = at(m)
    BY <1>6, <2>1, <2>2 DEF at, to
  <2> QED
    BY <1>4, <1>5, <2>1, <2>2, <2>3
<1>14. ASSUME NEW m \in 1..c, m # c \/ n + 1 \in G
       PROVE  Q[m] = P[m]
  <2> DEFINE e == IF m = c THEN n ELSE f[m+1] - 1
  <2>1. Block(s, f, m) = SubSeq(s, f[m], e)
    BY <1>11 DEF Block
  <2>2. Block(t, g, m) = SubSeq(t, f[m], e)
    <3>1. CASE m # c
      <4>1. m + 1 \in 1..c /\ m # Len(g)
        <5> DEFINE d == Len(g)
        <5>1. m \in Int /\ 1 <= m /\ m < c /\ c <= d /\ d \in Nat
          BY <1>9, <1>10, <3>1
        <5> HIDE DEF d
        <5>2. m + 1 \in 1..c /\ m # d
          BY <1>9, <5>1
        <5> QED
          BY <5>2 DEF d
      <4> QED
        BY <1>10, <1>11, <3>1, <4>1 DEF Block
    <3>2. CASE m = c
      <4>1. g = Append(f, n + 1)
        BY <1>8, <1>14, <3>2
      <4>2. Len(g) = c + 1 /\ g[c+1] = n + 1
        BY <1>1, <1>3, <1>11, <4>1
      <4>3. m # Len(g) /\ g[m+1] - 1 = n
        BY <1>1, <1>9, <3>2, <4>2
      <4> QED
        BY <1>10, <3>2, <4>3 DEF Block
    <3> QED
      BY <3>1, <3>2
  <2>3. f[m] \in 1..n /\ e \in f[m]..n
    <3>1. Block(s, f, m) # <<>> /\ f[m] \in 1..n
      BY <1>3, <1>9, <1>13
    <3>2. e \in Int /\ e <= n
      <4>1. CASE m = c
        BY <1>1, <4>1
      <4>2. CASE m # c
        <5>1. m + 1 \in 1..c
          BY <1>9, <4>2
        <5>2. f[m+1] \in 1..n
          BY <1>13, <5>1
        <5> QED
          BY <1>1, <4>2, <5>2
      <4> QED
        BY <4>1, <4>2
    <3> HIDE DEF e
    <3>3. f[m] <= e
      <4> SUFFICES ASSUME e < f[m] PROVE FALSE
        BY <3>1, <3>2
      <4>1. SubSeq(s, f[m], e) = <<>>
        BY <3>1, <3>2
      <4> QED
        BY <2>1, <3>1, <4>1
    <3> QED
      BY <1>1, <3>1, <3>2, <3>3
  <2> HIDE DEF e
  <2>4. SubSeq(t, f[m], e) = SubSeq(s, f[m], e)
    BY <2>3, PartOfMore DEF t
  <2> QED
    BY <1>13, <2>1, <2>2, <2>4
<1>15. Q[c].low <= P[c].low /\ Q[c].high >= P[c].high
  <2>0. c \in 1..c /\ c \in DOMAIN f
    BY <1>9
  <2>1. CASE n + 1 \in G
    <3>1. Q[c] = P[c]
      BY <1>14, <2>0, <2>1
    <3>2. P[c] \in Bar
      BY <1>3, <1>13, <2>0, MergedSpans
    <3>3. P[c].low \in Int /\ P[c].high \in Int
      BY <3>2 DEF Bar
    <3> QED
      BY <3>1, <3>3
  <2>2. CASE n + 1 \notin G
    <3> DEFINE q == Block(s, f, c)
    <3>1. g = f
      BY <1>8, <2>2
    <3>2. q = SubSeq(s, f[c], n) /\ Block(t, g, c) = SubSeq(t, f[c], n + 1)
      BY <1>1, <1>11, <3>1 DEF Block
    <3>3. f[c] \in 1..n /\ q \in Seq(Bar) /\ q # <<>> /\ at(c) \in Int
      BY <1>3, <1>13, <2>0
    <3>4. Block(t, g, c) = Append(q, a)
      BY <3>2, <3>3, PartOfMore DEF t
    <3>5. P[c] = Merged(at(c), q) /\ Q[c] = Merged(at(c), Append(q, a))
      BY <1>13, <2>0, <3>4
    <3> HIDE DEF q
    <3> QED
      BY <3>3, <3>5, MergedMore
  <2> QED
    BY <2>1, <2>2
<1>16. P # <<>>
  <2>1. P \in Seq(Bar)
    BY <1>2, ResampleRises DEF P
  <2> QED
    BY <1>9, <1>12, <2>1, EmptySeq
<1>17. \A m \in 1..(c-1) : Q[m] = P[m]
  <2>1. \A m \in 1..(c-1) : m \in 1..c /\ m # c
    BY <1>9
  <2> QED
    BY <1>14, <2>1
<1>18. Wider(P, Q)
  BY <1>10, <1>12, <1>15, <1>16, <1>17 DEF Wider
<1> QED
  BY <1>18 DEF P, Q, t

----------------------------------------------------------------------------
(* Zones in wider bars *)

\* What History tells of the bar that opened the zone is in its opening bars.
LEMMA OpenedSame ==
  ASSUME NEW P \in Seq(Bar), NEW Q \in Seq(Bar), Wider(P, Q),
         NEW kind \in {"BEAR", "BULL"}, NEW p \in 2..Len(P), Opens(P, kind, p)
  PROVE  /\ p \in 2..Len(Q) /\ Opens(Q, kind, p)
         /\ LET z == Opened(P, kind, p)
                x == Opened(Q, kind, p)
            IN  /\ x.kind = z.kind /\ x.ref = z.ref /\ x.entry = z.entry /\ x.sl = z.sl
                /\ p < Len(P) => x = z
<1>1. Len(P) \in Nat /\ Len(Q) \in Nat /\ Len(P) <= Len(Q)
  BY DEF Wider
<1>2. p \in 2..Len(Q) /\ p - 1 \in 1..(Len(P)-1) /\ p \in 1..Len(P) /\ p \in 1..Len(Q)
  BY <1>1
<1>3. Q[p-1] = P[p-1]
  BY <1>2 DEF Wider
<1>4. p < Len(P) => Q[p] = P[p]
  <2>1. p < Len(P) => p \in 1..(Len(P)-1)
    BY <1>1, <1>2
  <2> QED
    BY <2>1 DEF Wider
<1>5. Q[p].low <= P[p].low /\ Q[p].high >= P[p].high
  <2>1. P[p] \in Bar
    BY <1>2
  <2>2. P[p].low \in Int /\ P[p].high \in Int
    BY <2>1 DEF Bar
  <2>3. CASE p < Len(P)
    BY <1>4, <2>2, <2>3
  <2>4. CASE p = Len(P)
    BY <2>4 DEF Wider
  <2> QED
    BY <1>1, <2>3, <2>4
<1>6. P[p] \in Bar /\ Q[p] \in Bar /\ P[p-1] \in Bar
  <2>1. p - 1 \in 1..Len(P)
    BY <1>1, <1>2
  <2> QED
    BY <1>2, <2>1
<1>7. Opens(Q, kind, p)
  <2>1. /\ P[p].low \in Int /\ Q[p].low \in Int /\ P[p-1].low \in Int
        /\ P[p].high \in Int /\ Q[p].high \in Int /\ P[p-1].high \in Int
    BY <1>6 DEF Bar
  <2>2. P[p].low < P[p-1].low => Q[p].low < P[p-1].low
    BY <1>5, <2>1
  <2>3. P[p].high > P[p-1].high => Q[p].high > P[p-1].high
    BY <1>5, <2>1
  <2> QED
    BY <1>2, <1>3, <2>2, <2>3 DEF Opens, Lower, Higher
<1>8. LET z == Opened(P, kind, p)
          x == Opened(Q, kind, p)
      IN  /\ x.kind = z.kind /\ x.ref = z.ref /\ x.entry = z.entry /\ x.sl = z.sl
          /\ p < Len(P) => x = z
  BY <1>3, <1>4 DEF Opened, BearZone, BullZone
<1> QED
  BY <1>2, <1>7, <1>8

\* A zone found in P is found in Q, unchanged or further on.
LEMMA WiderHistory ==
  ASSUME NEW P \in Seq(Bar), NEW Q \in Seq(Bar), Wider(P, Q),
         NEW kind \in {"BEAR", "BULL"}, NEW p \in 2..Len(P), Opens(P, kind, p),
         NEW z, History(Opened(P, kind, p), z, p, Len(P), P),
         NEW y, History(Opened(Q, kind, p), y, p, Len(Q), Q)
  PROVE  /\ y.kind = z.kind /\ y.ref = z.ref /\ y.entry = z.entry /\ y.sl = z.sl
         /\ Rank(y.status) >= Rank(z.status)
         /\ z.status # "ACTIVE" => Uid(y) = Uid(z) /\ y.low = z.low
<1> DEFINE a == Opened(P, kind, p)
           b == Opened(Q, kind, p)
           m == Len(P)
           n == Len(Q)
<1>1. /\ b.kind = a.kind /\ b.ref = a.ref /\ b.entry = a.entry /\ b.sl = a.sl
      /\ p < m => b = a
      /\ p \in 2..n
  BY OpenedSame
<1>2. a \in Zone /\ b \in Zone
  BY <1>1, OpenedZone
<1>3. m \in Nat /\ n \in Nat /\ m <= n /\ p \in 2..m
  BY DEF Wider
<1>4. /\ z \in Zone /\ SameZone(a, z)
      /\ Left(a, z, p, m, P) \/ \E t \in (p+1)..m : Trapped(a, z, p, m, P, t)
  BY DEF History
<1>5. /\ y \in Zone /\ SameZone(b, y)
      /\ Left(b, y, p, n, Q) \/ \E t \in (p+1)..n : Trapped(b, y, p, n, Q, t)
  BY DEF History
<1>6. \A j \in 1..m : /\ Broken(a, P[j]) => Broken(a, Q[j])
                      /\ j < m => (Broken(a, Q[j]) => Broken(a, P[j]))
                      /\ Returned(a, P[j]) => Returned(a, Q[j])
  <2> SUFFICES ASSUME NEW j \in 1..m
               PROVE  /\ Broken(a, P[j]) => Broken(a, Q[j])
                      /\ j < m => (Broken(a, Q[j]) => Broken(a, P[j]))
                      /\ Returned(a, P[j]) => Returned(a, Q[j])
    OBVIOUS
  <2>1. P[j] \in Bar /\ Q[j] \in Bar
    BY <1>3
  <2>2. Q[j].low <= P[j].low /\ Q[j].high >= P[j].high /\ (j < m => Q[j] = P[j])
    <3>1. CASE j < m
      <4>1. j \in 1..(m-1)
        BY <1>3, <3>1
      <4>2. Q[j] = P[j]
        BY <4>1 DEF Wider
      <4>3. P[j].low \in Int /\ P[j].high \in Int
        BY <2>1 DEF Bar
      <4>4. P[j].low <= P[j].low /\ P[j].high >= P[j].high
        BY <4>3
      <4> QED
        BY <4>2, <4>4
    <3>2. CASE j = m
      BY <1>3, <3>2 DEF Wider
    <3> QED
      BY <1>3, <3>1, <3>2
  <2>3. /\ P[j].low \in Int /\ P[j].high \in Int /\ Q[j].low \in Int /\ Q[j].high \in Int
    BY <2>1 DEF Bar
  <2> HIDE DEF a
  <2>4. a.sl \in Int /\ a.entry \in Int
    BY <1>2 DEF Zone
  <2>5. /\ P[j].high > a.sl => Q[j].high > a.sl
        /\ P[j].low < a.sl => Q[j].low < a.sl
        /\ P[j].low <= a.entry => Q[j].low <= a.entry
        /\ P[j].high >= a.entry => Q[j].high >= a.entry
    BY <2>2, <2>3, <2>4
  <2> QED
    BY <2>2, <2>5 DEF Broken, Returned
<1> HIDE DEF a, b, m, n
<1>7. y.kind = z.kind /\ y.ref = z.ref /\ y.entry = z.entry /\ y.sl = z.sl
  BY <1>1, <1>4, <1>5 DEF SameZone
<1>8. CASE z.status = "ACTIVE"
  <2>1. Rank(z.status) = 0 /\ Rank(y.status) \in {0, 1, 2}
    BY <1>8 DEF Rank
  <2> QED
    BY <1>7, <1>8, <2>1
<1>9. CASE z.status # "ACTIVE"
  <2>1. PICK t \in (p+1)..m : Trapped(a, z, p, m, P, t)
    BY <1>4, <1>9 DEF Left
  <2>2. /\ Broken(a, P[t]) /\ \A j \in (p+1)..(t-1) : ~Broken(a, P[j])
        /\ \/ z.status = "TRAPPED" /\ \A k \in (t+1)..m : ~Returned(a, P[k])
           \/ z.status = "CLOSED" /\ \E k \in (t+1)..m : Returned(a, P[k])
    BY <2>1 DEF Trapped
  <2>3. t \in 1..m /\ p < m /\ t \in (p+1)..n
    BY <1>3
  <2>4. b = a /\ Broken(a, Q[t])
    BY <1>1, <1>6, <2>2, <2>3
  <2>5. \A j \in (p+1)..(t-1) : ~Broken(a, Q[j])
    <3>1. \A j \in (p+1)..(t-1) : j \in 1..m /\ j < m
      BY <1>3
    <3> QED
      BY <1>6, <2>2, <3>1
  <2>6. PICK u \in (p+1)..n : Trapped(a, y, p, n, Q, u)
    BY <1>5, <2>3, <2>4 DEF Left
  <2>7. /\ Broken(a, Q[u]) /\ \A j \in (p+1)..(u-1) : ~Broken(a, Q[j])
        /\ \/ y.status = "TRAPPED" /\ \A k \in (u+1)..n : ~Returned(a, Q[k])
           \/ y.status = "CLOSED" /\ \E k \in (u+1)..n : Returned(a, Q[k])
    BY <2>6 DEF Trapped
  <2>8. u = t
    <3>1. CASE u < t
      <4>1. u \in (p+1)..(t-1)
        BY <1>3, <3>1
      <4> QED
        BY <2>5, <2>7, <4>1
    <3>2. CASE t < u
      <4>1. t \in (p+1)..(u-1)
        BY <1>3, <3>2
      <4> QED
        BY <2>4, <2>7, <4>1
    <3> QED
      BY <1>3, <3>1, <3>2
  <2>9. Rank(y.status) >= Rank(z.status)
    <3>1. CASE z.status = "TRAPPED"
      BY <2>7, <3>1 DEF Rank
    <3>2. CASE z.status = "CLOSED"
      <4>1. PICK k \in (t+1)..m : Returned(a, P[k])
        BY <2>2, <3>2
      <4>2. k \in 1..m /\ k \in (u+1)..n
        BY <1>3, <2>8
      <4>3. y.status = "CLOSED"
        BY <1>6, <2>7, <4>1, <4>2
      <4> QED
        BY <3>2, <4>3 DEF Rank
    <3> QED
      BY <2>2, <3>1, <3>2
  <2>10. SameZone(a, y)
    BY <1>5, <2>4
  <2>11. Uid(y) = Uid(z) /\ y.low = z.low
    BY <1>4, <2>10 DEF SameZone, Uid
  <2> QED
    BY <1>7, <2>9, <2>11
<1> QED
  BY <1>8, <1>9

\* No zone is repainted: what is found in wider bars is further on.
LEMMA WiderForward ==
  ASSUME NEW P \in Seq(Bar), NEW Q \in Seq(Bar), Rising(P), Rising(Q), Wider(P, Q)
  PROVE  Forward(ScanHtfSpot[P])[ScanHtfSpot[Q]]
<1> DEFINE zs == ScanHtfSpot[P]
           ys == ScanHtfSpot[Q]
<1>1. /\ ys \in Seq(Zone)
      /\ \A kind \in {"BEAR", "BULL"}, p \in 2..Len(Q) : Opens(Q, kind, p) =>
           \E y \in ToSet(ys) : History(Opened(Q, kind, p), y, p, Len(Q), Q)
  BY SpotZones
<1>2. \A z \in ToSet(zs) : \E kind \in {"BEAR", "BULL"}, p \in 2..Len(P) :
        Opens(P, kind, p) /\ History(Opened(P, kind, p), z, p, Len(P), P)
  BY SpotZones
<1> HIDE DEF zs, ys
<1>3. ASSUME NEW z \in ToSet(zs)
      PROVE  \E y \in ToSet(ys) :
               /\ y.kind = z.kind /\ y.ref = z.ref /\ y.entry = z.entry /\ y.sl = z.sl
               /\ Rank(y.status) >= Rank(z.status)
               /\ z.status # "ACTIVE" => Uid(y) = Uid(z) /\ y.low = z.low
  <2>1. PICK kind \in {"BEAR", "BULL"}, p \in 2..Len(P) :
          Opens(P, kind, p) /\ History(Opened(P, kind, p), z, p, Len(P), P)
    BY <1>2
  <2>2. p \in 2..Len(Q) /\ Opens(Q, kind, p)
    BY <2>1, OpenedSame
  <2>3. PICK y \in ToSet(ys) : History(Opened(Q, kind, p), y, p, Len(Q), Q)
    BY <1>1, <2>2
  <2> QED
    BY <2>1, <2>3, WiderHistory
<1>4. Forward(zs)[ys]
  BY <1>1, <1>3 DEF Forward
<1> QED
  BY <1>4 DEF zs, ys

----------------------------------------------------------------------------
(* Zones that were earned *)

\* The bars of today among bs, and a trap of sellers who were let out in them.
TodayBars(bs) == {b \in ToSet(bs) : DayOf(b.at) = 0}
EarnedIn(ref, level, sl, B) ==
  \E x, y, w \in B : /\ x.at < y.at /\ y.at < w.at
                     /\ x.at = ref /\ x.low = level /\ y.high > sl /\ w.low <= level

\* More bars earn no less.
LEMMA EarnedMore ==
  ASSUME NEW ref, NEW level, NEW sl, NEW B, NEW C, B \subseteq C, EarnedIn(ref, level, sl, B)
  PROVE  EarnedIn(ref, level, sl, C)
BY DEF EarnedIn

\* Today's bars, in their order.
LEMMA TodayPicked ==
  ASSUME NEW bs \in Seq(Bar), InOrder(bs)
  PROVE  Today(bs) \in Seq(Bar) /\ InOrder(Today(bs)) /\ ToSet(Today(bs)) = TodayBars(bs)
<1> DEFINE S == {i \in DOMAIN bs : DayOf(bs[i].at) = 0}
           p == Picked(bs, S)
<1>1. Today(bs) = p
  BY DEF Today, Selected
<1>2. S \in SUBSET DOMAIN bs
  OBVIOUS
<1>3. \A i \in DOMAIN bs : i \in S <=> DayOf(bs[i].at) = 0
  OBVIOUS
<1>4. /\ p \in Seq(Bar) /\ InOrder(p)
      /\ \A m \in DOMAIN p : \E i \in S : p[m] = bs[i]
  <2> HIDE DEF S
  <2> QED
    BY <1>2, PickedBars
<1>5. \A i \in S : \E m \in DOMAIN p : p[m] = bs[i]
  <2> DEFINE at == Listed(S, Len(bs))
  <2>1. Lists(at, S, Len(bs)) /\ p = [m \in DOMAIN at |-> bs[at[m]]]
    BY ListedLists DEF Picked
  <2> HIDE DEF at, p, S
  <2>2. \A i \in S : i \in 1..Len(bs)
    BY <1>2
  <2>3. \A i \in S : \E m \in DOMAIN at : at[m] = i
    BY <2>1, <2>2 DEF Lists
  <2> QED
    BY <2>1, <2>3
<1> HIDE DEF p, S
<1>6. ToSet(p) \subseteq TodayBars(bs)
  <2> SUFFICES ASSUME NEW m \in DOMAIN p PROVE p[m] \in TodayBars(bs)
    BY DEF ToSet
  <2>1. PICK i \in S : p[m] = bs[i]
    BY <1>4
  <2> QED
    BY <1>2, <1>3, <2>1 DEF TodayBars, ToSet
<1>7. TodayBars(bs) \subseteq ToSet(p)
  <2> SUFFICES ASSUME NEW b \in TodayBars(bs) PROVE b \in ToSet(p)
    OBVIOUS
  <2>1. PICK i \in DOMAIN bs : b = bs[i] /\ DayOf(b.at) = 0
    BY DEF TodayBars, ToSet
  <2>2. i \in S
    BY <1>3, <2>1
  <2>3. PICK m \in DOMAIN p : p[m] = bs[i]
    BY <1>5, <2>2
  <2> QED
    BY <2>1, <2>3 DEF ToSet
<1> QED
  BY <1>1, <1>4, <1>6, <1>7

\* A closed zone was earned in the bars it was found in.
LEMMA ClosedEarned ==
  ASSUME NEW bs \in Seq(Bar), Rising(bs), NEW z \in ToSet(ScanHtf[bs]), z.status = "CLOSED"
  PROVE  EarnedIn(z.ref, z.entry, z.sl, ToSet(bs))
<1> DEFINE n == Len(bs)
           zs == ScanHtf[bs]
<1>1. FoundIn(zs, "BEAR", bs)
  BY ScanFinds
<1>2. z \in ToSet(zs)
  OBVIOUS
<1> HIDE DEF zs
<1>3. PICK p \in 2..n : History(Opened(bs, "BEAR", p), z, p, n, bs)
  BY <1>1, <1>2 DEF FoundIn, ToSet
<1> DEFINE a == Opened(bs, "BEAR", p)
<1>4. a = BearZone(bs[p-1], bs[p])
  BY DEF Opened
<1>5. a.kind = "BEAR" /\ a.ref = bs[p-1].at /\ a.entry = bs[p-1].low /\ a.sl = bs[p-1].high
  BY <1>4 DEF BearZone
<1> HIDE DEF a
<1>6. SameZone(a, z) /\ \E t \in (p+1)..n : Trapped(a, z, p, n, bs, t)
  BY <1>3 DEF History, Left, a
<1>7. PICK t \in (p+1)..n : Trapped(a, z, p, n, bs, t)
  BY <1>6
<1>8. Broken(a, bs[t]) /\ \E k \in (t+1)..n : Returned(a, bs[k])
  BY <1>7 DEF Trapped
<1>9. PICK k \in (t+1)..n : Returned(a, bs[k])
  BY <1>8
<1> DEFINE i == p - 1
<1>10. n \in Nat /\ i \in DOMAIN bs /\ t \in DOMAIN bs /\ k \in DOMAIN bs /\ i < t /\ t < k
  OBVIOUS
<1> HIDE DEF n
<1>11. bs[i] \in ToSet(bs) /\ bs[t] \in ToSet(bs) /\ bs[k] \in ToSet(bs)
  BY <1>10 DEF ToSet
<1>12. bs[i].at < bs[t].at /\ bs[t].at < bs[k].at
  BY <1>10 DEF Rising
<1>13. bs[i].at = z.ref /\ bs[i].low = z.entry /\ bs[t].high > z.sl /\ bs[k].low <= z.entry
  BY <1>5, <1>6, <1>8, <1>9 DEF SameZone, Broken, Returned
<1> QED
  BY <1>11, <1>12, <1>13 DEF EarnedIn

\* What is selected of zones are zones of theirs that are closed.
LEMMA ChosenClosed ==
  ASSUME NEW zs \in Seq(Zone)
  PROVE  /\ BestEntry(zs) # <<>> =>
              BestEntry(zs)[1] \in ToSet(zs) /\ BestEntry(zs)[1].status = "CLOSED"
         /\ LatestClosed(zs) # <<>> =>
              LatestClosed(zs)[1] \in ToSet(zs) /\ LatestClosed(zs)[1].status = "CLOSED"
<1> DEFINE S == {i \in DOMAIN zs : zs[i].status = "CLOSED"}
           w == Picked(zs, S)
<1>1. With(zs, "CLOSED") = w
  BY DEF With, Selected
<1>2. w \in Seq(Zone) /\ \A m \in DOMAIN w : \E i \in S : w[m] = zs[i]
  <2>1. S \in SUBSET DOMAIN zs
    OBVIOUS
  <2> HIDE DEF S
  <2>2. w \in Seq(Zone)
    BY <2>1, PickedFrom
  <2>3. PICK at : /\ Lists(at, S, Len(zs)) /\ DOMAIN w = DOMAIN at
                  /\ \A m \in DOMAIN at : at[m] \in S /\ w[m] = zs[at[m]]
    BY <2>1, PickedFrom
  <2> QED
    BY <2>2, <2>3
<1>3. \A m \in DOMAIN w : w[m] \in ToSet(zs) /\ w[m].status = "CLOSED"
  <2> HIDE DEF w
  <2> QED
    BY <1>2 DEF ToSet
<1> HIDE DEF w, S
<1>4. ASSUME NEW U \in SUBSET DOMAIN w, Picked(w, U) # <<>>
      PROVE  Picked(w, U)[1] \in ToSet(zs) /\ Picked(w, U)[1].status = "CLOSED"
  <2> DEFINE r == Picked(w, U)
  <2>1. r \in Seq(Zone)
    BY <1>2, PickedFrom
  <2>2. PICK at : /\ Lists(at, U, Len(w)) /\ DOMAIN r = DOMAIN at
                  /\ \A m \in DOMAIN at : at[m] \in U /\ r[m] = w[at[m]]
    BY <1>2, PickedFrom
  <2> HIDE DEF r
  <2>3. 1 \in DOMAIN r
    BY <1>4, <2>1 DEF r
  <2>4. r[1] = w[at[1]] /\ at[1] \in DOMAIN w
    BY <2>2, <2>3
  <2> QED
    BY <1>3, <2>4 DEF r
<1>5. BestEntry(zs) = Picked(w, {i \in DOMAIN w : \A n \in DOMAIN w : ~(w[n].low < w[i].low)})
  BY <1>1 DEF BestEntry, Leading, Selected
<1>6. LatestClosed(zs) =
        Picked(w, {i \in DOMAIN w : \A n \in DOMAIN w : ~(w[n].closed > w[i].closed)})
  BY <1>1 DEF LatestClosed, Leading, Selected
<1>7. {i \in DOMAIN w : \A n \in DOMAIN w : ~(w[n].low < w[i].low)} \in SUBSET DOMAIN w
  OBVIOUS
<1>8. {i \in DOMAIN w : \A n \in DOMAIN w : ~(w[n].closed > w[i].closed)} \in SUBSET DOMAIN w
  OBVIOUS
<1> QED
  BY <1>4, <1>5, <1>6, <1>7, <1>8

\* Bars in order rise, and so do the last of them.
LEMMA LastRise ==
  ASSUME NEW s \in Seq(Bar), InOrder(s), NEW n \in Nat \ {0}
  PROVE  /\ LastN(s, n) \in Seq(Bar) /\ InOrder(LastN(s, n)) /\ Rising(LastN(s, n))
         /\ ToSet(LastN(s, n)) \subseteq ToSet(s)
<1>1. /\ LastN(s, n) \in Seq(Bar) /\ InOrder(LastN(s, n))
      /\ \A i \in DOMAIN LastN(s, n) : \E j \in DOMAIN s : LastN(s, n)[i] = s[j]
  BY KeepsOrder
<1>2. ToSet(LastN(s, n)) \subseteq ToSet(s)
  BY <1>1 DEF ToSet
<1>3. Rising(LastN(s, n))
  BY <1>1 DEF InOrder, Rising
<1> QED
  BY <1>1, <1>2, <1>3

\* The short scan closes what was earned in the bars it is given.
LEMMA ShortEarned ==
  ASSUME NEW bs \in Seq(Bar), InOrder(bs), NEW high, NEW low,
         NEW z \in ToSet(ScanLtf(bs, high, low)), z.status = "CLOSED"
  PROVE  EarnedIn(z.ref, z.entry, z.sl, ToSet(bs))
<1> DEFINE S == {i \in DOMAIN bs : bs[i].low <= high /\ 100 * bs[i].close >= 95 * low}
           p == Picked(bs, S)
<1>1. ScanLtf(bs, high, low) = ScanHtf[p]
  BY DEF ScanLtf, Selected
<1>2. S \in SUBSET DOMAIN bs
  OBVIOUS
<1>3. /\ p \in Seq(Bar) /\ InOrder(p)
      /\ \A m \in DOMAIN p : \E i \in S : p[m] = bs[i]
  <2> HIDE DEF S
  <2> QED
    BY <1>2, PickedBars
<1> HIDE DEF p
<1>4. ToSet(p) \subseteq ToSet(bs)
  BY <1>2, <1>3 DEF ToSet
<1>5. Rising(p) /\ z \in ToSet(ScanHtf[p])
  BY <1>1, <1>3 DEF InOrder, Rising
<1>6. EarnedIn(z.ref, z.entry, z.sl, ToSet(p))
  BY <1>3, <1>5, ClosedEarned
<1> QED
  BY <1>4, <1>6, EarnedMore

\* So does a retest in the bars of today.
LEMMA RetestEarned ==
  ASSUME NEW bs \in Seq(Bar), InOrder(bs), NEW price, Retest(price)[bs] # <<>>
  PROVE  LET z == Retest(price)[bs][1]
         IN  EarnedIn(z.ref, z.entry, z.sl, TodayBars(bs))
<1> DEFINE today == Today(bs)
           gate == IF today = <<>> THEN <<>> ELSE LatestClosed(ScanHtf[Resample(MtfMin)[today]])
           short == ScanLtf(LastN(today, Window), gate[1].high, gate[1].low)
           best == IF gate = <<>> THEN <<>> ELSE BestEntry(short)
<1>1. Retest(price)[bs] = IF best # <<>> /\ 1000 * price <= 1005 * best[1].high
                          THEN <<best[1]>> ELSE <<>>
  <2> DEFINE frame(b) == IF Today(b) = <<>> THEN <<>>
                         ELSE LatestClosed(ScanHtf[Resample(MtfMin)[Today(b)]])
             low(b) == IF frame(b) = <<>> THEN <<>>
                       ELSE BestEntry(ScanLtf(LastN(Today(b), Window), frame(b)[1].high,
                                              frame(b)[1].low))
             R(b) == IF low(b) # <<>> /\ 1000 * price <= 1005 * low(b)[1].high
                     THEN <<low(b)[1]>> ELSE <<>>
  <2>1. Retest(price) = [b \in Seq(Bar) |-> R(b)]
    BY DEF Retest
  <2>2. R(bs) = IF best # <<>> /\ 1000 * price <= 1005 * best[1].high
                THEN <<best[1]>> ELSE <<>>
    OBVIOUS
  <2> HIDE DEF best, R
  <2>3. Retest(price)[bs] = R(bs)
    BY <2>1
  <2> QED
    BY <2>2, <2>3
<1>2. best # <<>> /\ Retest(price)[bs] = <<best[1]>>
  <2> HIDE DEF best
  <2> QED
    BY <1>1
<1>3. best = BestEntry(short) /\ BestEntry(short) # <<>>
  BY <1>2
<1> DEFINE last == LastN(today, Window)
           high == gate[1].high
           low == gate[1].low
<1>4. today \in Seq(Bar) /\ InOrder(today) /\ ToSet(today) = TodayBars(bs)
  BY TodayPicked
<1> HIDE DEF today, gate
<1>5. last \in Seq(Bar) /\ InOrder(last) /\ ToSet(last) \subseteq TodayBars(bs)
  <2>1. Window \in Nat \ {0}
    BY ScanAssumption
  <2> QED
    BY <1>4, <2>1, LastRise
<1>6. short = ScanLtf(last, high, low)
  OBVIOUS
<1> HIDE DEF last, high, low, short
<1>7. short \in Seq(Zone)
  <2> DEFINE S == {i \in DOMAIN last : last[i].low <= high /\ 100 * last[i].close >= 95 * low}
             p == Picked(last, S)
  <2>1. S \in SUBSET DOMAIN last
    OBVIOUS
  <2>2. short = ScanHtf[p]
    BY <1>6 DEF ScanLtf, Selected
  <2> HIDE DEF S
  <2>3. p \in Seq(Bar) /\ InOrder(p)
    BY <1>5, <2>1, PickedBars
  <2> HIDE DEF p
  <2>4. Rising(p)
    BY <2>3 DEF InOrder, Rising
  <2> QED
    BY <2>2, <2>3, <2>4, ScanFinds DEF FoundIn
<1> DEFINE z == BestEntry(short)[1]
<1>8. z \in ToSet(short) /\ z.status = "CLOSED"
  BY <1>3, <1>7, ChosenClosed
<1>9. EarnedIn(z.ref, z.entry, z.sl, ToSet(last))
  <2> HIDE DEF z
  <2> QED
    BY <1>5, <1>6, <1>8, ShortEarned
<1>10. EarnedIn(z.ref, z.entry, z.sl, TodayBars(bs))
  <2> HIDE DEF z
  <2> QED
    BY <1>5, <1>9, EarnedMore
<1>11. Retest(price)[bs][1] = z
  BY <1>2, <1>3
<1> QED
  BY <1>10, <1>11

----------------------------------------------------------------------------
(* Tasks that ask for an entry *)

\* A task of leg l that asks for an entry asks for one that was earned in bs.
SoundFor(t, bs) ==
  /\ t.leg \in DOMAIN bs
  /\ t.at = "entry" => EarnedIn(t.ref, t.level, t.sl, TodayBars(bs[t.leg]))
SoundTasks(r, bs) == r \in Seq(ToSet(r)) /\ \A t \in ToSet(r) : SoundFor(t, bs)

\* No tasks are sound tasks.
LEMMA SoundNone ==
  ASSUME NEW bs
  PROVE  SoundTasks(<<>>, bs)
BY DEF SoundTasks, ToSet

\* A sound task alone.
LEMMA SoundOne ==
  ASSUME NEW bs, NEW t, SoundFor(t, bs)
  PROVE  SoundTasks(<<t>>, bs)
<1>1. ToSet(<<t>>) = {t}
  BY DEF ToSet
<1> QED
  BY <1>1 DEF SoundTasks

\* Sound tasks after sound tasks.
LEMMA SoundBoth ==
  ASSUME NEW bs, NEW p, NEW q, SoundTasks(p, bs), SoundTasks(q, bs)
  PROVE  SoundTasks(p \o q, bs)
<1> DEFINE X == ToSet(p) \cup ToSet(q)
           r == p \o q
<1>1. p \in Seq(X) /\ q \in Seq(X)
  <2>1. p \in Seq(ToSet(p)) /\ q \in Seq(ToSet(q))
    BY DEF SoundTasks
  <2> QED
    BY <2>1
<1>2. r \in Seq(X)
  <2> HIDE DEF X
  <2> QED
    BY <1>1
<1>3. Len(r) \in Nat /\ DOMAIN r = 1..Len(r) /\ \A i \in 1..Len(r) : r[i] \in X
  <2> HIDE DEF X, r
  <2> QED
    BY <1>2
<1>4. \A t \in X : SoundFor(t, bs)
  BY DEF SoundTasks
<1> HIDE DEF X
<1>5. r \in Seq(ToSet(r))
  <2>1. \A i \in 1..Len(r) : r[i] \in ToSet(r)
    BY <1>3 DEF ToSet
  <2> HIDE DEF r
  <2> QED
    BY <1>2, <1>3, <2>1
<1>6. ToSet(r) \subseteq X
  <2> HIDE DEF r
  <2> QED
    BY <1>3 DEF ToSet
<1> QED
  BY <1>4, <1>5, <1>6 DEF SoundTasks

\* An entry at a zone that was earned.
LEMMA EntrySound ==
  ASSUME NEW bs, NEW l \in DOMAIN bs, NEW type, NEW ltf, NEW z,
         EarnedIn(ltf.ref, ltf.entry, ltf.sl, TodayBars(bs[l]))
  PROVE  SoundTasks(Entry(l, type, ltf, z), bs)
<1> DEFINE t == [at |-> "entry", leg |-> l, type |-> type, uid |-> Uid(z), kind |-> z.kind,
                 ref |-> ltf.ref, level |-> ltf.entry, sl |-> ltf.sl]
<1>1. Entry(l, type, ltf, z) = <<t>>
  BY DEF Entry
<1>2. t.leg = l /\ t.ref = ltf.ref /\ t.level = ltf.entry /\ t.sl = ltf.sl
  OBVIOUS
<1> HIDE DEF t
<1>3. SoundFor(t, bs)
  BY <1>2 DEF SoundFor
<1> QED
  BY <1>1, <1>3, SoundOne

\* What each scan asks for was earned: the short frame,
LEMMA RunLtfSound ==
  ASSUME NEW bs, NEW l \in DOMAIN bs, bs[l] \in Seq(Bar), InOrder(bs[l]),
         NEW zs, NEW price, NEW type
  PROVE  SoundTasks(RunLtfOn(l, bs[l], zs, price, type), bs)
<1> DEFINE r == RunLtfOn(l, bs[l], zs, price, type)
           ltf == Retest(price)[bs[l]]
<1>1. r = <<>> \/ \E z : r = Entry(l, type, ltf[1], z) /\ ltf # <<>>
  <2> DEFINE open == Selected(zs, LAMBDA z :
                Uid(z) \notin notified /\ (price = 0 \/ price \in z.low..z.high))
  <2>1. r = IF Len(Today(bs[l])) < 3 \/ open = <<>> \/ ltf = <<>> THEN <<>>
            ELSE Entry(l, type, ltf[1], open[1])
    BY DEF RunLtfOn
  <2> HIDE DEF open, ltf, r
  <2> QED
    BY <2>1
<1>2. CASE r = <<>>
  BY <1>2, SoundNone
<1>3. ASSUME NEW z, r = Entry(l, type, ltf[1], z), ltf # <<>>
      PROVE  SoundTasks(r, bs)
  <2>1. EarnedIn(ltf[1].ref, ltf[1].entry, ltf[1].sl, TodayBars(bs[l]))
    BY <1>3, RetestEarned
  <2> HIDE DEF r, ltf
  <2> QED
    BY <1>3, <2>1, EntrySound
<1> QED
  BY <1>1, <1>2, <1>3

\* the sellers of an option all out,
LEMMA AllClearedSound ==
  ASSUME NEW bs, NEW l \in DOMAIN bs, bs[l] \in Seq(Bar), InOrder(bs[l]),
         NEW zs, NEW type
  PROVE  SoundTasks(AllCleared(l, bs[l], zs, type), bs)
<1> DEFINE r == AllCleared(l, bs[l], zs, type)
           last == LastN(Today(bs[l]), Window)
           ltf == ScanHtf[last]
           out == LatestClosed(ltf)
<1>1. r = <<>> \/ (r = Entry(l, type, out[1], zs[1]) /\ out # <<>>)
  <2>1. r = IF \/ zs = <<>> \/ Len(Today(bs[l])) < 3 \/ out = <<>>
               \/ With(ltf, "TRAPPED") # <<>> \/ Uid(zs[1]) \in notified
            THEN <<>> ELSE Entry(l, type, out[1], zs[1])
    BY DEF AllCleared
  <2> HIDE DEF out, r
  <2> QED
    BY <2>1
<1>2. CASE r = <<>>
  BY <1>2, SoundNone
<1>3. CASE r = Entry(l, type, out[1], zs[1]) /\ out # <<>>
  <2>1. last \in Seq(Bar) /\ Rising(last) /\ ToSet(last) \subseteq TodayBars(bs[l])
    <3>1. Window \in Nat \ {0}
      BY ScanAssumption
    <3> QED
      BY <3>1, TodayPicked, LastRise
  <2> HIDE DEF last
  <2>2. ltf \in Seq(Zone)
    BY <2>1, ScanFinds DEF FoundIn
  <2> HIDE DEF ltf
  <2>3. out[1] \in ToSet(ltf) /\ out[1].status = "CLOSED"
    BY <1>3, <2>2, ChosenClosed
  <2> HIDE DEF out
  <2>4. EarnedIn(out[1].ref, out[1].entry, out[1].sl, ToSet(last))
    BY <2>1, <2>3, ClosedEarned DEF ltf
  <2>5. EarnedIn(out[1].ref, out[1].entry, out[1].sl, TodayBars(bs[l]))
    BY <2>1, <2>4, EarnedMore
  <2>6. \A best, z : EarnedIn(best.ref, best.entry, best.sl, TodayBars(bs[l]))
                     => SoundTasks(Entry(l, type, best, z), bs)
    BY EntrySound
  <2>7. SoundTasks(Entry(l, type, out[1], zs[1]), bs)
    BY <2>5, <2>6
  <2> HIDE DEF r
  <2> QED
    BY <1>3, <2>7 DEF r
<1> QED
  BY <1>1, <1>2, <1>3

\* the scan of a closed candle,
LEMMA ScanNormalSound ==
  ASSUME NEW bs, NEW l \in DOMAIN bs, bs[l] \in Seq(Bar), InOrder(bs[l]), NEW bk, NEW zs
  PROVE  SoundTasks(ScanNormal(l, bs, bk, zs), bs)
<1>1. CASE Futures
  <2>1. CASE l = "FUT"
    BY <1>1, <2>1, SoundNone DEF ScanNormal
  <2>2. CASE l # "FUT"
    <3>1. \E bias : ScanNormal(l, bs, bk, zs) = AllCleared(l, bs[l], bias, OptType(l))
      BY <1>1, <2>2, Zenon DEF ScanNormal
    <3> QED
      BY <3>1, AllClearedSound
  <2> QED
    BY <2>1, <2>2
<1>2. CASE ~Futures
  <2>1. \/ ScanNormal(l, bs, bk, zs) = <<>>
        \/ \E alive, price : ScanNormal(l, bs, bk, zs) = RunLtfOn(l, bs[l], alive, price, OptType(l))
    BY <1>2, Zenon DEF ScanNormal
  <2> QED
    BY <2>1, SoundNone, RunLtfSound
<1> QED
  BY <1>1, <1>2

\* and all that a closed candle asks for.
LEMMA AskedSound ==
  ASSUME NEW bs, NEW l \in DOMAIN bs, bs[l] \in Seq(Bar), InOrder(bs[l]), NEW m, NEW bk, NEW zs,
         NEW casc
  PROVE  SoundTasks(Asked(l, m, bs, bk, zs, casc), bs)
<1> DEFINE t == [at |-> "cascade", leg |-> l, minute |-> m]
           n == ScanNormal(l, bs, bk, zs)
<1>1. SoundTasks(<<t>>, bs)
  <2>1. t.leg = l /\ t.at # "entry"
    OBVIOUS
  <2> HIDE DEF t
  <2> QED
    BY <2>1, SoundOne DEF SoundFor
<1>2. SoundTasks(n, bs)
  BY ScanNormalSound
<1>3. SoundTasks(n \o <<t>>, bs)
  <2> HIDE DEF t, n
  <2> QED
    BY <1>1, <1>2, SoundBoth
<1>4. Asked(l, m, bs, bk, zs, casc) \in {<<>>, n \o <<t>>, <<t>>, n}
  BY DEF Asked
<1> HIDE DEF t, n
<1> QED
  BY <1>1, <1>2, <1>3, <1>4, SoundNone

----------------------------------------------------------------------------
(* What a tick of a leg does to its bars *)

USE DayAssumption, ScanAssumption

\* The part of TypeOK that ticks change, and that a leg without a tick yet has
\* the bars it was seeded with.
Ordered ==
  /\ setup \in Histories
  /\ {bars, bucket} \subseteq [Legs -> Seq(Bar)]
  /\ \A l \in Legs : /\ Len(bucket[l]) <= 1 /\ InOrder(bars[l] \o bucket[l])
                     /\ bucket[l] = <<>> => bars[l] = setup.bars[l]
  /\ jumps \in Nat

\* A leg's next tick is never before its bar.
LEMMA TickTimes ==
  ASSUME Ordered, NEW l \in Legs, NEW m \in NextMinutes(l)
  PROVE  m \in Int /\ (bucket[l] = <<>> => m = setup.start)
<1>1. {0, 1, MtfMin} \subseteq Int
  OBVIOUS
<1>2. CASE bucket[l] = <<>>
  BY <1>2, HistoryAssumption DEF NextMinutes, Ordered
<1>3. CASE bucket[l] # <<>>
  <2>1. bucket[l] \in Seq(Bar) /\ bucket[l][1] \in Bar
    BY <1>3 DEF Ordered
  <2>2. bucket[l][1].at \in Int
    BY <2>1 DEF Bar
  <2> QED
    BY <1>1, <1>3, <2>2 DEF NextMinutes, Steps
<1> QED
  BY <1>2, <1>3

\* A sequence of at most one bar is empty or has one.
LEMMA AtMostOne ==
  ASSUME NEW s \in Seq(Bar), Len(s) <= 1, s # <<>>
  PROVE  s[1] \in Bar /\ s = <<s[1]>> /\ ToSet(s) = {s[1]}
<1>1. Len(s) = 1
  <2>1. Len(s) \in Nat /\ Len(s) # 0 /\ Len(s) <= 1
    BY EmptySeq
  <2>2. \A n \in Nat : n # 0 /\ n <= 1 => n = 1
    OBVIOUS
  <2> QED
    BY <2>1, <2>2, Zenon
<1>2. s[1] \in Bar /\ s = <<s[1]>> /\ DOMAIN s = {1}
  BY <1>1
<1> QED
  BY <1>2 DEF ToSet

\* The bar being made is one bar, after those of the leg.
LEMMA OneBar ==
  ASSUME Ordered, NEW l \in Legs, bucket[l] # <<>>
  PROVE  LET b == bucket[l][1]
         IN  /\ b \in Bar /\ IsBar(b) /\ bucket[l] = <<b>> /\ ToSet(bucket[l]) = {b}
             /\ bars[l] \in Seq(Bar) /\ InOrder(bars[l])
             /\ \A i \in DOMAIN bars[l] : bars[l][i].at < b.at
<1> DEFINE b == bucket[l][1]
<1>1. b \in Bar /\ bucket[l] = <<b>> /\ ToSet(bucket[l]) = {b}
  BY AtMostOne DEF Ordered
<1>2. bars[l] \in Seq(Bar) /\ InOrder(bars[l] \o <<b>>)
  BY <1>1 DEF Ordered
<1> HIDE DEF b
<1>3. InOrder(bars[l]) /\ IsBar(b) /\ \A i \in DOMAIN bars[l] : bars[l][i].at < b.at
  BY <1>1, <1>2, OneMore
<1> QED
  BY <1>1, <1>2, <1>3 DEF b

\* One leg gets another bar to make, and perhaps the last one closed.
LEMMA LegStep ==
  ASSUME Ordered, NEW l \in Legs, NEW s \in Seq(Bar), NEW b \in Bar,
         InOrder(s), IsBar(b), \A i \in DOMAIN s : s[i].at < b.at,
         bars' = [bars EXCEPT ![l] = s], bucket' = [bucket EXCEPT ![l] = <<b>>],
         jumps' \in Nat, setup' = setup
  PROVE  Ordered'
<1>1. Legs' = Legs
  BY DEF Legs
<1>2. bars \in [Legs -> Seq(Bar)] /\ bucket \in [Legs -> Seq(Bar)]
  BY DEF Ordered
<1>3. <<b>> \in Seq(Bar) /\ Len(<<b>>) = 1
  OBVIOUS
<1>4. bars' \in [Legs -> Seq(Bar)] /\ bars'[l] = s
  BY <1>2
<1>5. bucket' \in [Legs -> Seq(Bar)] /\ bucket'[l] = <<b>>
  BY <1>2, <1>3
<1>6. ASSUME NEW k \in Legs
      PROVE  /\ Len(bucket'[k]) <= 1 /\ InOrder(bars'[k] \o bucket'[k])
             /\ bucket'[k] = <<>> => bars'[k] = setup.bars[k]
  <2>1. CASE k = l
    BY <1>3, <1>4, <1>5, <2>1, OneMore
  <2>2. CASE k # l
    <3>1. bars'[k] = bars[k] /\ bucket'[k] = bucket[k]
      BY <1>2, <2>2
    <3> QED
      BY <3>1 DEF Ordered
  <2> QED
    BY <2>1, <2>2
<1> QED
  BY <1>1, <1>4, <1>5, <1>6 DEF Ordered

\* A tick in the bar's minute, or the first tick of a leg.
LEMMA InBar ==
  ASSUME Ordered, NEW l \in Legs, NEW p \in Prices, NEW m \in NextMinutes(l),
         TickInBar(l, p, m), setup' = setup
  PROVE  Ordered'
<1>1. p \in Nat \ {0} /\ m \in Int /\ bars \in [Legs -> Seq(Bar)] /\ bucket \in [Legs -> Seq(Bar)]
  BY TickTimes DEF Ordered
<1>2. jumps' \in Nat
  BY DEF TickInBar, Ordered
<1>3. bars' = [bars EXCEPT ![l] = bars[l]] /\ bars[l] \in Seq(Bar)
  BY <1>1 DEF TickInBar
<1>4. CASE bucket[l] = <<>>
  <2> DEFINE b == NewBar(m, p)
  <2>1. b \in Bar /\ IsBar(b) /\ b.at = m
    BY <1>1, TickBegins
  <2>2. bucket' = [bucket EXCEPT ![l] = <<b>>]
    BY <1>1, <1>4 DEF TickInBar
  <2>3. m = setup.start /\ bars[l] = setup.bars[l] /\ setup \in Histories /\ l \in DOMAIN setup.bars
    BY <1>4, TickTimes DEF Ordered, Legs
  <2> HIDE DEF b
  <2>4. InOrder(bars[l]) /\ \A x \in ToSet(bars[l]) : x.at < b.at
    BY <2>1, <2>3, HistoryAssumption
  <2>5. \A i \in DOMAIN bars[l] : bars[l][i].at < b.at
    BY <2>4 DEF ToSet
  <2> QED
    BY <1>2, <1>3, <2>1, <2>2, <2>4, <2>5, LegStep
<1>5. CASE bucket[l] # <<>>
  <2> DEFINE a == bucket[l][1]
             b == Extends(a, p)
  <2>1. /\ a \in Bar /\ IsBar(a)
        /\ InOrder(bars[l]) /\ \A i \in DOMAIN bars[l] : bars[l][i].at < a.at
    BY <1>5, OneBar
  <2>2. bucket' = [bucket EXCEPT ![l] = <<b>>]
    BY <1>1, <1>5 DEF TickInBar
  <2> HIDE DEF a
  <2>3. b \in Bar /\ IsBar(b) /\ b.at = a.at
    BY <1>1, <2>1, TickExtends
  <2> HIDE DEF b
  <2>4. \A i \in DOMAIN bars[l] : bars[l][i].at < b.at
    BY <2>1, <2>3
  <2> QED
    BY <1>2, <1>3, <2>1, <2>2, <2>3, <2>4, LegStep
<1> QED
  BY <1>4, <1>5

\* A tick of a later minute: the bar is closed and kept, the next one begins.
LEMMA ClosesBar ==
  ASSUME Ordered, NEW l \in Legs, NEW p \in Prices, NEW m \in NextMinutes(l),
         TickClosesBar(l, p, m), setup' = setup
  PROVE  Ordered'
<1> DEFINE a == bucket[l][1]
           s == LastN(bars[l] \o <<a>>, Kept)
           b == NewBar(m, p)
<1>1. /\ a \in Bar /\ IsBar(a) /\ bucket[l] = <<a>> /\ m > a.at
      /\ bars[l] \in Seq(Bar) /\ InOrder(bars[l]) /\ \A i \in DOMAIN bars[l] : bars[l][i].at < a.at
  BY OneBar DEF TickClosesBar
<1>2. p \in Nat \ {0} /\ m \in Int /\ bars \in [Legs -> Seq(Bar)] /\ Kept \in Nat \ {0}
  BY TickTimes DEF Ordered
<1>3. jumps' \in Nat
  BY DEF TickClosesBar, Ordered
<1>4. bucket' = [bucket EXCEPT ![l] = <<b>>]
  BY DEF TickClosesBar
<1>5. bars' = [bars EXCEPT ![l] = s]
  BY <1>1, <1>2 DEF TickClosesBar
<1>6. b \in Bar /\ IsBar(b) /\ b.at = m
  BY <1>2, TickBegins
<1> HIDE DEF a, b
<1>7. InOrder(bars[l] \o <<a>>) /\ bars[l] \o <<a>> \in Seq(Bar)
  BY <1>1, OneMore
<1>8. /\ s \in Seq(Bar) /\ InOrder(s)
      /\ \A i \in DOMAIN s : \E j \in DOMAIN (bars[l] \o <<a>>) : s[i] = (bars[l] \o <<a>>)[j]
  BY <1>2, <1>7, KeepsOrder
<1> HIDE DEF s
<1>9. \A j \in DOMAIN (bars[l] \o <<a>>) : (bars[l] \o <<a>>)[j].at < m
  <2>1. a.at \in Int /\ \A j \in DOMAIN bars[l] : bars[l][j].at \in Int
    <3>1. \A j \in DOMAIN bars[l] : bars[l][j] \in Bar
      BY <1>1
    <3> QED
      BY <1>1, <3>1 DEF Bar
  <2>2. \A j \in DOMAIN bars[l] : bars[l][j].at < m
    BY <1>1, <1>2, <2>1
  <2> DEFINE c == bars[l] \o <<a>>
             n == Len(bars[l])
  <2>3. /\ n \in Nat /\ DOMAIN bars[l] = 1..n /\ DOMAIN c = 1..(n + 1)
        /\ c[n + 1] = a /\ \A i \in 1..n : c[i] = bars[l][i]
    BY <1>1
  <2> HIDE DEF c, n
  <2>4. \A j \in 1..(n + 1) : j \in 1..n \/ j = n + 1
    BY <2>3
  <2>5. \A j \in DOMAIN c : c[j].at < m
    BY <1>1, <2>2, <2>3, <2>4
  <2> QED
    BY <2>5 DEF c
<1>10. \A i \in DOMAIN s : s[i].at < b.at
  BY <1>6, <1>8, <1>9
<1> QED
  BY <1>3, <1>4, <1>5, <1>6, <1>8, <1>10, LegStep

\* Every tick keeps the bars in order.
LEMMA TickStep ==
  ASSUME Ordered, Tick
  PROVE  Ordered'
<1>1. PICK p \in Prices :
        \/ RefuseTick(p)
        \/ \E l \in Legs, m \in UNION {NextMinutes(k) : k \in Legs} :
             m \in NextMinutes(l) /\ InSession(m) /\ (TickInBar(l, p, m) \/ TickClosesBar(l, p, m))
  BY DEF Tick
<1>2. setup' = setup
  BY DEF Tick
<1>3. CASE RefuseTick(p)
  BY <1>2, <1>3 DEF RefuseTick, Ordered, Legs
<1>4. ASSUME NEW l \in Legs, NEW m \in NextMinutes(l), TickInBar(l, p, m)
      PROVE  Ordered'
  BY <1>2, <1>4, InBar
<1>5. ASSUME NEW l \in Legs, NEW m \in NextMinutes(l), TickClosesBar(l, p, m)
      PROVE  Ordered'
  BY <1>2, <1>5, ClosesBar
<1> QED
  BY <1>1, <1>3, <1>4, <1>5

----------------------------------------------------------------------------
(* What a step does to the zones of a frame *)

\* A step leaves the bars of a leg alone or closes the one being made.
LEMMA BarsStep ==
  ASSUME Ordered, [Next]_vars, NEW l \in Legs, bars'[l] # bars[l]
  PROVE  \E a \in Bar : /\ bucket[l] = <<a>> /\ InOrder(Append(bars[l], a))
                        /\ bars'[l] = LastN(Append(bars[l], a), Kept)
<1>1. Tick
  <2>1. CASE UNCHANGED vars
    BY <2>1 DEF vars
  <2>2. ~RunCascade /\ ~TakeSignal /\ ~DropSignal /\ ~EntryEnds /\ ~PositionEnds
    BY DEF RunCascade, TakeSignal, DropSignal, EntryEnds, PositionEnds, Rest
  <2> QED
    BY <2>1, <2>2 DEF Next
<1>2. PICK p \in Prices, k \in Legs, m \in UNION {NextMinutes(j) : j \in Legs} :
        TickClosesBar(k, p, m)
  <2>1. PICK p \in Prices :
          \/ RefuseTick(p)
          \/ \E k \in Legs, m \in UNION {NextMinutes(j) : j \in Legs} :
               m \in NextMinutes(k) /\ InSession(m) /\ (TickInBar(k, p, m) \/ TickClosesBar(k, p, m))
    BY <1>1 DEF Tick
  <2>2. ~RefuseTick(p) /\ \A k \in Legs, m \in UNION {NextMinutes(j) : j \in Legs} :
          ~TickInBar(k, p, m)
    BY DEF RefuseTick, TickInBar
  <2> QED
    BY <2>1, <2>2
<1>3. bars' = [bars EXCEPT ![k] = LastN(@ \o bucket[k], Kept)] /\ bucket[k] # <<>>
  BY <1>2 DEF TickClosesBar
<1>4. k = l /\ bars \in [Legs -> Seq(Bar)]
  BY <1>3 DEF Ordered
<1> DEFINE a == bucket[l][1]
<1>5. a \in Bar /\ bucket[l] = <<a>> /\ bars[l] \in Seq(Bar) /\ InOrder(bars[l] \o bucket[l])
  BY <1>3, <1>4, OneBar DEF Ordered
<1> HIDE DEF a
<1>6. bars[l] \o bucket[l] = Append(bars[l], a)
  BY <1>5
<1>7. bars'[l] = LastN(Append(bars[l], a), Kept)
  BY <1>3, <1>4, <1>6
<1> QED
  BY <1>5, <1>6, <1>7

\* If no bar was dropped, the closed bar is the one more.
LEMMA NoneDropped ==
  ASSUME NEW s \in Seq(Bar), NEW a \in Bar, NEW n \in Nat \ {0}, NEW t,
         t = LastN(Append(s, a), n), IsPrefix(s, t), t # s
  PROVE  t = Append(s, a)
<1> DEFINE u == Append(s, a)
           c == Len(s)
           m == Max({1, Len(u) - n + 1})
<1>1. c \in Nat /\ u \in Seq(Bar) /\ Len(u) = c + 1
  OBVIOUS
<1>2. m \in {1, Len(u) - n + 1} /\ m >= 1
  <2>1. Len(u) - n + 1 \in Int /\ 1 \in Int
    BY <1>1
  <2> HIDE DEF u
  <2> QED
    BY <2>1, Two
<1>3. m \in Nat /\ m <= c + 1
  BY <1>1, <1>2
<1>4. t = SubSeq(u, m, c + 1)
  BY <1>1 DEF LastN
<1> HIDE DEF u, m
<1>5. t \in Seq(Bar) /\ Len(t) = c + 1 - m + 1
  BY <1>1, <1>2, <1>3, <1>4
<1>6. c <= Len(t) /\ SubSeq(s, 1, c) = SubSeq(t, 1, c)
  BY DEF IsPrefix
<1>7. CASE m = 1
  <2>1. SubSeq(u, 1, c + 1) = u
    BY <1>1
  <2> QED
    BY <1>4, <1>7, <2>1 DEF u
<1>8. CASE m # 1
  <2>1. Len(t) = c
    BY <1>1, <1>2, <1>3, <1>5, <1>6, <1>8
  <2>2. SubSeq(s, 1, c) = s /\ SubSeq(t, 1, c) = t
    BY <1>1, <1>5, <2>1
  <2> QED
    BY <1>6, <2>2
<1> QED
  BY <1>7, <1>8

\* Every frame is of whole minutes.
LEMMA FramesPositive == Frames \subseteq Nat \ {0}
BY DEF Frames

\* The bars of a leg are in order.
LEMMA LegInOrder ==
  ASSUME Ordered, NEW l \in Legs
  PROVE  bars[l] \in Seq(Bar) /\ InOrder(bars[l])
<1>1. /\ bars[l] \in Seq(Bar) /\ bucket[l] \in Seq(Bar) /\ Len(bucket[l]) <= 1
      /\ InOrder(bars[l] \o bucket[l])
  BY DEF Ordered
<1>2. CASE bucket[l] = <<>>
  <2>1. bars[l] \o bucket[l] = bars[l]
    BY <1>1, <1>2, ConcatEmptySeq
  <2> QED
    BY <1>1, <2>1
<1>3. CASE bucket[l] # <<>>
  BY <1>3, OneBar
<1> QED
  BY <1>2, <1>3

\* A closed bar repaints no zone of any frame.
LEMMA RepaintStep ==
  ASSUME Ordered, [Next]_vars, NEW l \in Legs, NEW k \in Frames, bars[l] # <<>>,
         bars'[l] # bars[l], IsPrefix(bars[l], bars'[l])
  PROVE  Forward(ScanHtfSpot[Resample(k)[bars[l]]])[ScanHtfSpot[Resample(k)[bars'[l]]]]
<1>1. PICK a \in Bar : /\ InOrder(Append(bars[l], a))
                       /\ bars'[l] = LastN(Append(bars[l], a), Kept)
  BY BarsStep
<1>2. PICK s : s = bars[l]
  OBVIOUS
<1>3. PICK t : t = bars'[l]
  OBVIOUS
<1>4. s \in Seq(Bar) /\ InOrder(s) /\ s # <<>> /\ k \in Nat \ {0} /\ Kept \in Nat \ {0}
  BY <1>2, LegInOrder, FramesPositive
<1>5. t = LastN(Append(s, a), Kept) /\ IsPrefix(s, t) /\ t # s
  BY <1>1, <1>2, <1>3
<1>6. t = Append(s, a)
  BY <1>4, <1>5, NoneDropped
<1>7. InOrder(t) /\ t \in Seq(Bar)
  BY <1>1, <1>2, <1>4, <1>6
<1> DEFINE P == Resample(k)[s]
           Q == Resample(k)[t]
<1>8. Wider(P, Q)
  BY <1>4, <1>6, <1>7, ResampleWider
<1>9. P \in Seq(Bar) /\ Rising(P) /\ Q \in Seq(Bar) /\ Rising(Q)
  BY <1>4, <1>7, ResampleRises
<1> HIDE DEF P, Q
<1>10. Forward(ScanHtfSpot[P])[ScanHtfSpot[Q]]
  BY <1>8, <1>9, WiderForward
<1> QED
  BY <1>2, <1>3, <1>10 DEF P, Q

\* In every frame of every leg the scan finds what a trap means.
LEMMA ScanMeansOf ==
  ASSUME Ordered
  PROVE  ScanMeans
<1> SUFFICES ASSUME NEW l \in Legs, NEW k \in Frames
             PROVE  LET bs == Resample(k)[bars[l]]
                    IN  /\ Found(ScanHtfSpot[bs], "BEAR") = Meaning(bs)
                        /\ Found(ScanHtfSpot[bs], "BULL") = Meaning(Mirrored(bs))
  BY DEF ScanMeans
<1> DEFINE bs == Resample(k)[bars[l]]
<1>1. bs \in Seq(Bar) /\ Rising(bs)
  BY LegInOrder, FramesPositive, ResampleRises
<1> HIDE DEF bs
<1>2. /\ Found(ScanHtfSpot[bs], "BEAR") = Meaning(SeenBy("BEAR", bs))
      /\ Found(ScanHtfSpot[bs], "BULL") = Meaning(SeenBy("BULL", bs))
  BY <1>1, SpotMeans
<1>3. SeenBy("BEAR", bs) = bs /\ SeenBy("BULL", bs) = Mirrored(bs)
  BY DEF SeenBy
<1>4. /\ Found(ScanHtfSpot[bs], "BEAR") = Meaning(bs)
      /\ Found(ScanHtfSpot[bs], "BULL") = Meaning(Mirrored(bs))
  BY <1>2, <1>3
<1> QED
  BY <1>4 DEF bs

----------------------------------------------------------------------------
(* What was entered *)

\* Every entry is announced when it begins.
Entries ==
  /\ working \in 0..Len(entered)
  /\ entered \in Seq(ToSet(entered))
  /\ {entered[i].uid : i \in DOMAIN entered} = notified

\* The inductive invariant of the scan.
ScanInv == Ordered /\ Entries

\* A signal that is taken is announced.
LEMMA TakeStep ==
  ASSUME Entries, TakeSignal
  PROVE  Entries'
<1> DEFINE t == Head(tasks)
           n == Len(entered)
           S == ToSet(entered) \cup {t}
           e == Append(entered, t)
<1>1. entered \in Seq(S) /\ t \in S /\ n \in Nat /\ working \in 0..n /\ DOMAIN entered = 1..n
  <2>1. entered \in Seq(ToSet(entered)) /\ working \in 0..n
    BY DEF Entries
  <2>2. n \in Nat /\ DOMAIN entered = 1..n /\ \A i \in 1..n : entered[i] \in S
    BY <2>1
  <2> QED
    BY <2>1, <2>2
<1>2. entered' = e /\ notified' = notified \cup {t.uid} /\ working' = working + 1
  BY DEF TakeSignal
<1> HIDE DEF t, S
<1>3. /\ e \in Seq(S) /\ Len(e) = n + 1 /\ DOMAIN e = 1..(n + 1)
      /\ e[n + 1] = t /\ \A i \in 1..n : e[i] = entered[i]
  BY <1>1
<1> HIDE DEF e, n
<1>4. working' \in 0..Len(e)
  BY <1>1, <1>2, <1>3
<1>5. e \in Seq(ToSet(e))
  <2>1. \A i \in 1..(n + 1) : e[i] \in ToSet(e)
    BY <1>3 DEF ToSet
  <2> QED
    BY <1>1, <1>3, <2>1
<1>6. {e[i].uid : i \in DOMAIN e} = notified \cup {t.uid}
  <2>1. n + 1 \in 1..(n + 1) /\ (\A i \in 1..n : i \in 1..(n + 1))
        /\ \A i \in 1..(n + 1) : i \in 1..n \/ i = n + 1
    BY <1>1
  <2>2. notified = {entered[i].uid : i \in 1..n}
    BY <1>1 DEF Entries
  <2> QED
    BY <1>3, <2>1, <2>2
<1> QED
  BY <1>2, <1>4, <1>5, <1>6 DEF Entries

----------------------------------------------------------------------------
(* The bars and the entries of a session *)

\* A session begins with the bars it is seeded with and nothing entered.
LEMMA ScanInit == Init => ScanInv
<1> SUFFICES ASSUME Init PROVE ScanInv
  OBVIOUS
<1>1. /\ setup \in Histories /\ bars = setup.bars /\ bucket = [l \in Legs |-> <<>>]
      /\ jumps = 0 /\ entered = <<>> /\ notified = {} /\ working = 0
  BY Zenon DEF Init
<1>2. bars \in [Legs -> Seq(Bar)] /\ \A l \in Legs : InOrder(bars[l])
  BY <1>1, HistoryAssumption DEF Legs
<1>3. bucket \in [Legs -> Seq(Bar)]
  BY <1>1
<1>4. ASSUME NEW l \in Legs
      PROVE  Len(bucket[l]) <= 1 /\ InOrder(bars[l] \o bucket[l])
  <2>1. bucket[l] = <<>> /\ bars[l] \in Seq(Bar)
    BY <1>1, <1>2
  <2>2. bars[l] \o bucket[l] = bars[l]
    BY <2>1, ConcatEmptySeq
  <2> QED
    BY <1>2, <2>1, <2>2
<1>5. Ordered
  BY <1>1, <1>2, <1>3, <1>4 DEF Ordered
<1>6. Entries
  <2>1. Len(entered) = 0 /\ DOMAIN entered = {}
    BY <1>1
  <2>2. entered \in Seq(ToSet(entered))
    BY <1>1
  <2> QED
    BY <1>1, <2>1, <2>2 DEF Entries
<1> QED
  BY <1>5, <1>6 DEF ScanInv

\* Every step keeps the invariant.
LEMMA ScanStep == ScanInv /\ [Next]_vars => ScanInv'
<1> SUFFICES ASSUME ScanInv, [Next]_vars PROVE ScanInv'
  OBVIOUS
<1>0. Ordered /\ Entries
  BY DEF ScanInv
<1>1. CASE Tick
  <2>1. Ordered'
    BY <1>0, <1>1, TickStep
  <2>2. UNCHANGED <<notified, working, entered>>
    BY <1>1 DEF Tick, RefuseTick, TickInBar, TickClosesBar
  <2> QED
    BY <1>0, <2>1, <2>2 DEF ScanInv, Entries
<1>2. CASE RunCascade
  BY <1>0, <1>2 DEF RunCascade, ScanInv, Ordered, Legs, Entries
<1>3. CASE TakeSignal
  <2>1. UNCHANGED <<setup, bars, bucket, jumps>>
    BY <1>3 DEF TakeSignal
  <2>2. Ordered'
    BY <1>0, <2>1 DEF Ordered, Legs
  <2> QED
    BY <1>0, <1>3, <2>2, TakeStep DEF ScanInv
<1>4. CASE DropSignal
  BY <1>0, <1>4 DEF DropSignal, ScanInv, Ordered, Legs, Entries
<1>5. CASE EntryEnds
  <2>1. Ordered'
    BY <1>0, <1>5 DEF EntryEnds, Rest, Ordered, Legs
  <2>2. working' \in 0..Len(entered)
    <3>1. entered \in Seq(ToSet(entered)) /\ working \in 0..Len(entered)
      BY <1>0 DEF Entries
    <3>2. Len(entered) \in Nat
      BY <3>1
    <3> QED
      BY <1>5, <3>1, <3>2 DEF EntryEnds
  <2> QED
    BY <1>0, <1>5, <2>1, <2>2 DEF EntryEnds, Rest, ScanInv, Entries
<1>6. CASE PositionEnds
  BY <1>0, <1>6 DEF PositionEnds, Rest, ScanInv, Ordered, Legs, Entries
<1>7. CASE UNCHANGED vars
  BY <1>0, <1>7 DEF vars, ScanInv, Ordered, Legs, Entries
<1> QED
  BY <1>1, <1>2, <1>3, <1>4, <1>5, <1>6, <1>7 DEF Next

----------------------------------------------------------------------------
(* What was earned *)

\* Bars in order are a minute or more apart.
LEMMA MinutesApart ==
  ASSUME NEW s \in Seq(Bar), InOrder(s), NEW d \in DOMAIN s
  PROVE  \A e \in DOMAIN s : d <= e => s[e].at >= s[d].at + (e - d)
<1> DEFINE n == Len(s)
           T == {g \in Nat : d + g <= n => s[d+g].at >= s[d].at + g}
<1>1. n \in Nat /\ DOMAIN s = 1..n /\ d \in 1..n
  OBVIOUS
<1>2. \A i \in 1..n : s[i].at \in Int
  <2>1. \A i \in 1..n : s[i] \in Bar
    OBVIOUS
  <2> QED
    BY <2>1 DEF Bar
<1>3. 0 \in T
  <2>1. d + 0 = d /\ s[d].at \in Int
    BY <1>1, <1>2
  <2>2. s[d].at >= s[d].at + 0
    BY <2>1
  <2> QED
    BY <2>1, <2>2
<1>4. ASSUME NEW g \in Nat, g \in T PROVE g + 1 \in T
  <2> SUFFICES ASSUME d + (g + 1) <= n
               PROVE  s[d+(g+1)].at >= s[d].at + (g + 1)
    OBVIOUS
  <2> DEFINE i == d + g
  <2>1. d + (g + 1) = i + 1 /\ i \in 1..n /\ i + 1 \in 1..n /\ i < i + 1
    BY <1>1
  <2>2. s[i].at >= s[d].at + g
    BY <1>1, <1>4
  <2> HIDE DEF i
  <2>3. s[i].at < s[i+1].at
    BY <1>1, <2>1 DEF InOrder
  <2>4. s[i].at \in Int /\ s[i+1].at \in Int /\ s[d].at \in Int
    BY <1>1, <1>2, <2>1
  <2>5. s[i+1].at >= s[d].at + (g + 1)
    <3> DEFINE x == s[d].at
               y == s[i].at
               z == s[i+1].at
    <3>1. x \in Int /\ y \in Int /\ z \in Int /\ y >= x + g /\ y < z
      BY <2>2, <2>3, <2>4
    <3> HIDE DEF x, y, z
    <3>2. z >= x + (g + 1)
      BY <3>1
    <3> QED
      BY <3>2 DEF x, z
  <2> QED
    BY <2>1, <2>5
<1>5. Nat \subseteq T
  <2> HIDE DEF T
  <2> QED
    BY <1>3, <1>4, Induction
<1>6. ASSUME NEW e \in DOMAIN s, d <= e PROVE s[e].at >= s[d].at + (e - d)
  <2> DEFINE g == e - d
  <2>1. g \in Nat /\ d + g = e /\ e <= n
    BY <1>1, <1>6
  <2> HIDE DEF g
  <2>2. s[d+g].at >= s[d].at + g
    BY <1>5, <2>1
  <2> QED
    BY <2>1, <2>2 DEF g
<1> QED
  BY <1>6

\* The place of position d in the tail of a sequence from position m on.
LEMMA Shifted ==
  ASSUME NEW c \in Int, NEW d \in Int, NEW m \in Int, d <= c, m <= d
  PROVE  d - m + 1 \in 1..(c - m + 1) /\ m + (d - m + 1) - 1 = d
OBVIOUS

\* A leg that keeps a day of bars drops none of today's.
LEMMA TodayKept ==
  ASSUME NEW s \in Seq(Bar), NEW a \in Bar, InOrder(Append(s, a)), a.at < DayMinutes
  PROVE  TodayBars(s) \subseteq TodayBars(LastN(Append(s, a), Kept))
<1> SUFFICES ASSUME NEW b \in TodayBars(s)
             PROVE  b \in TodayBars(LastN(Append(s, a), Kept))
  OBVIOUS
<1> DEFINE u == Append(s, a)
           c == Len(s) + 1
           m == Max({1, Len(u) - Kept + 1})
           t == SubSeq(u, m, c)
<1>1. /\ c \in Nat /\ u \in Seq(Bar) /\ Len(u) = c /\ u[c] = a /\ DOMAIN u = 1..c
      /\ \A i \in DOMAIN s : i \in 1..c /\ i < c /\ u[i] = s[i]
  OBVIOUS
<1>2. Kept \in Nat \ {0} /\ Kept >= DayMinutes /\ DayMinutes \in Nat
  BY KeptAssumption
<1>3. LastN(u, Kept) = t
  BY <1>1 DEF LastN
<1>4. m \in {1, c - Kept + 1} /\ m >= 1
  <2>1. c - Kept + 1 \in Int /\ 1 \in Int
    BY <1>1, <1>2
  <2>2. m = Max({1, c - Kept + 1})
    BY <1>1
  <2> HIDE DEF m
  <2> QED
    BY <2>1, <2>2, Two
<1>5. PICK d \in DOMAIN s : b = s[d] /\ DayOf(b.at) = 0
  BY DEF TodayBars, ToSet
<1>6. d \in 1..c /\ d < c /\ u[d] = b /\ b \in Bar
  BY <1>1, <1>5
<1>7. b.at \in Int /\ a.at \in Int
  BY <1>6 DEF Bar
<1>8. b.at >= 0
  BY <1>5, <1>7, TodayBegins
<1>9. a.at >= b.at + (c - d)
  <2>1. c \in DOMAIN u /\ d \in DOMAIN u /\ d <= c
    BY <1>1, <1>6
  <2> HIDE DEF u, c
  <2>2. InOrder(u)
    BY DEF u
  <2>3. u[c].at >= u[d].at + (c - d)
    BY <1>1, <2>1, <2>2, MinutesApart
  <2> QED
    BY <1>1, <1>6, <2>3
<1> HIDE DEF u, c, m
<1>10. m <= d
  <2> SUFFICES ASSUME d < m PROVE FALSE
    BY <1>1, <1>4, <1>6, <1>2
  <2>1. m = c - Kept + 1
    BY <1>4, <1>6
  <2>2. c - d >= Kept
    BY <1>1, <1>2, <1>6, <2>1
  <2>3. c - d \in Int /\ Kept \in Int /\ DayMinutes \in Int
    BY <1>1, <1>2, <1>6
  <2>4. a.at >= c - d
    BY <1>7, <1>8, <1>9, <2>3
  <2>5. a.at >= Kept
    BY <1>7, <2>2, <2>3, <2>4
  <2> QED
    BY <1>2, <1>7, <2>3, <2>5
<1>11. b \in ToSet(t)
  <2> DEFINE i == d - m + 1
  <2>1. m \in 1..c /\ m \in Nat
    BY <1>1, <1>2, <1>4, <1>6, <1>10
  <2>2. t \in Seq(Bar) /\ Len(t) = c - m + 1 /\ \A j \in 1..(c - m + 1) : t[j] = u[m + j - 1]
    BY <1>1, <2>1
  <2> HIDE DEF t
  <2>3. i \in 1..(c - m + 1) /\ m + i - 1 = d
    <3>1. c \in Int /\ d \in Int /\ m \in Int /\ d <= c /\ m <= d
      BY <1>1, <1>6, <1>10, <2>1
    <3> QED
      BY <3>1, Shifted
  <2> HIDE DEF i
  <2>4. i \in DOMAIN t /\ t[i] = b
    BY <1>6, <2>2, <2>3
  <2> QED
    BY <2>4 DEF ToSet
<1> QED
  BY <1>3, <1>5, <1>11 DEF TodayBars, u

\* Tasks that are sound stay so while today's bars are kept.
LEMMA StillSound ==
  ASSUME NEW bs, NEW cs, DOMAIN cs = DOMAIN bs,
         \A l \in DOMAIN bs : TodayBars(bs[l]) \subseteq TodayBars(cs[l]),
         NEW t, SoundFor(t, bs)
  PROVE  SoundFor(t, cs)
BY EarnedMore DEF SoundFor


\* The bar being made belongs to the session.
OnDay == \A l \in Legs : bucket[l] # <<>> => bucket[l][1].at < DayMinutes

\* What is asked for and what was entered was earned.
Signals ==
  /\ SoundTasks(tasks, bars)
  /\ \A t \in ToSet(entered) : t.at = "entry" /\ SoundFor(t, bars)

EarnInv == ScanInv /\ OnDay /\ Signals

\* Nothing is asked for when a session begins.
LEMMA EarnInit == Init => EarnInv
<1> SUFFICES ASSUME Init PROVE EarnInv
  OBVIOUS
<1>1. bucket = [l \in Legs |-> <<>>] /\ tasks = <<>> /\ entered = <<>>
  BY Zenon DEF Init
<1>2. OnDay
  BY <1>1 DEF OnDay
<1>3. ToSet(entered) = {}
  BY <1>1 DEF ToSet
<1>4. Signals
  BY <1>1, <1>3, SoundNone DEF Signals
<1> QED
  BY <1>2, <1>4, ScanInit DEF EarnInv

\* A step loses none of today's bars.
LEMMA TodayStep ==
  ASSUME Ordered, OnDay, [Next]_vars
  PROVE  /\ bars \in [Legs -> Seq(Bar)] /\ bars' \in [Legs -> Seq(Bar)]
         /\ \A l \in Legs : TodayBars(bars[l]) \subseteq TodayBars(bars'[l])
<1>1. bars \in [Legs -> Seq(Bar)] /\ bars' \in [Legs -> Seq(Bar)]
  <2>1. setup' = setup
    BY DEF Next, vars, Tick, RunCascade, TakeSignal, DropSignal, EntryEnds, PositionEnds, Rest
  <2>2. CASE UNCHANGED bars
    BY <2>1, <2>2 DEF Ordered
  <2>3. CASE ~UNCHANGED bars
    <3>1. PICK p \in Prices, k \in Legs, m \in UNION {NextMinutes(j) : j \in Legs} :
            m \in NextMinutes(k) /\ TickClosesBar(k, p, m)
      BY <2>3 DEF Next, vars, Tick, RunCascade, TakeSignal, DropSignal, EntryEnds, PositionEnds,
                  Rest, RefuseTick, TickInBar
    <3>2. Ordered'
      BY <2>1, <3>1, ClosesBar
    <3> QED
      BY <2>1, <3>2 DEF Ordered, Legs
  <2> QED
    BY <2>2, <2>3
<1>2. ASSUME NEW l \in Legs PROVE TodayBars(bars[l]) \subseteq TodayBars(bars'[l])
  <2>1. CASE bars'[l] = bars[l]
    BY <2>1
  <2>2. CASE bars'[l] # bars[l]
    <3>1. PICK a \in Bar : /\ bucket[l] = <<a>> /\ InOrder(Append(bars[l], a))
                           /\ bars'[l] = LastN(Append(bars[l], a), Kept)
      BY <2>2, BarsStep
    <3>2. a.at < DayMinutes
      <4>1. bucket[l] # <<>> /\ bucket[l][1] = a
        BY <3>1
      <4> QED
        BY <4>1 DEF OnDay
    <3>3. bars[l] \in Seq(Bar)
      BY <1>1
    <3> QED
      BY <3>1, <3>2, <3>3, TodayKept
  <2> QED
    BY <2>1, <2>2
<1> QED
  BY <1>1, <1>2

\* A futures session has a leg for the future.
LEMMA FutureLeg ==
  ASSUME Ordered, Futures
  PROVE  "FUT" \in Legs
BY HistoryAssumption DEF Ordered, Futures, Legs

\* The first task and those after it.
LEMMA SoundTail ==
  ASSUME NEW bs, NEW r, r # <<>>, SoundTasks(r, bs)
  PROVE  SoundFor(Head(r), bs) /\ SoundTasks(Tail(r), bs)
<1> DEFINE X == ToSet(r)
           q == Tail(r)
<1>1. r \in Seq(X) /\ \A t \in X : SoundFor(t, bs)
  BY DEF SoundTasks
<1>2. 1 \in DOMAIN r /\ Head(r) = r[1]
  <2> HIDE DEF X
  <2> QED
    BY <1>1
<1>3. Head(r) \in X
  BY <1>2 DEF ToSet
<1> HIDE DEF X
<1>4. q \in Seq(X) /\ Len(q) \in Nat /\ DOMAIN q = 1..Len(q) /\ \A i \in 1..Len(q) : q[i] \in X
  <2>1. q \in Seq(X)
    BY <1>1
  <2> HIDE DEF q
  <2> QED
    BY <2>1
<1> HIDE DEF q
<1>5. ToSet(q) \subseteq X /\ \A i \in 1..Len(q) : q[i] \in ToSet(q)
  BY <1>4 DEF ToSet
<1>6. q \in Seq(ToSet(q))
  BY <1>4, <1>5
<1>7. SoundTasks(q, bs)
  BY <1>1, <1>5, <1>6 DEF SoundTasks
<1> QED
  BY <1>1, <1>3, <1>7 DEF q

\* Nothing earned is lost in a step.
LEMMA StillSignals ==
  ASSUME Ordered, OnDay, [Next]_vars, Signals
  PROVE  SoundTasks(tasks, bars') /\ \A t \in ToSet(entered) : t.at = "entry" /\ SoundFor(t, bars')
<1>1. PICK bs, cs : bs = bars /\ cs = bars'
  OBVIOUS
<1>2. DOMAIN bs = Legs /\ DOMAIN cs = Legs
      /\ \A l \in DOMAIN bs : TodayBars(bs[l]) \subseteq TodayBars(cs[l])
  BY <1>1, TodayStep
<1>3. \A t : SoundFor(t, bs) => SoundFor(t, cs)
  BY <1>2, StillSound
<1>4. SoundTasks(tasks, cs) /\ \A t \in ToSet(entered) : t.at = "entry" /\ SoundFor(t, cs)
  BY <1>1, <1>3 DEF Signals, SoundTasks
<1> QED
  BY <1>1, <1>4

\* The entry of a cascade was earned as well.
LEMMA CascadeSound ==
  ASSUME Ordered, NEW l \in Legs, NEW m
  PROVE  SoundTasks(CascadeEntry(l, m), bars)
<1>1. PICK bs : bs = bars
  OBVIOUS
<1>2. DOMAIN bs = Legs /\ \A k \in Legs : bs[k] \in Seq(Bar) /\ InOrder(bs[k])
  BY <1>1, LegInOrder DEF Ordered
<1>3. PICK leg \in Legs : leg = IF Futures THEN "FUT" ELSE l
  BY FutureLeg
<1>4. \/ CascadeEntry(l, m) = <<>>
      \/ \E zs, price, type : CascadeEntry(l, m) = RunLtfOn(leg, bs[leg], zs, price, type)
  BY <1>1, <1>3, Zenon DEF CascadeEntry
<1>5. CASE CascadeEntry(l, m) = <<>>
  BY <1>5, SoundNone
<1>6. ASSUME NEW zs, NEW price, NEW type,
             CascadeEntry(l, m) = RunLtfOn(leg, bs[leg], zs, price, type)
      PROVE  SoundTasks(CascadeEntry(l, m), bars)
  <2>1. SoundTasks(RunLtfOn(leg, bs[leg], zs, price, type), bs)
    BY <1>2, RunLtfSound
  <2> QED
    BY <1>1, <1>6, <2>1
<1> QED
  BY <1>4, <1>5, <1>6

\* A tick of a leg keeps the bar being made in the session.
LEMMA OnDayTick ==
  ASSUME Ordered, OnDay, Tick
  PROVE  OnDay'
<1>1. PICK p \in Prices :
        \/ RefuseTick(p)
        \/ \E l \in Legs, m \in UNION {NextMinutes(k) : k \in Legs} :
             m \in NextMinutes(l) /\ InSession(m) /\ (TickInBar(l, p, m) \/ TickClosesBar(l, p, m))
  BY DEF Tick
<1>2. Legs' = Legs /\ bucket \in [Legs -> Seq(Bar)]
  BY DEF Tick, Legs, Ordered
<1>3. CASE RefuseTick(p)
  BY <1>2, <1>3 DEF RefuseTick, OnDay
<1>4. ASSUME NEW l \in Legs, NEW m \in NextMinutes(l), InSession(m),
             TickInBar(l, p, m) \/ TickClosesBar(l, p, m)
      PROVE  OnDay'
  <2>1. PICK b \in Bar : bucket' = [bucket EXCEPT ![l] = <<b>>] /\ b.at < DayMinutes
    <3>0. p \in Nat \ {0} /\ m \in Int /\ m < DayMinutes
      BY <1>4, TickTimes DEF InSession
    <3>1. NewBar(m, p) \in Bar /\ NewBar(m, p).at < DayMinutes
      BY <3>0, TickBegins
    <3>2. CASE bucket[l] = <<>>
      <4>1. bucket' = [bucket EXCEPT ![l] = <<NewBar(m, p)>>]
        BY <1>2, <1>4, <3>2 DEF TickInBar, TickClosesBar
      <4> QED
        BY <3>1, <4>1
    <3>3. CASE bucket[l] # <<>> /\ TickInBar(l, p, m)
      <4> DEFINE a == bucket[l][1]
      <4>1. bucket' = [bucket EXCEPT ![l] = <<Extends(a, p)>>]
        BY <1>2, <3>3 DEF TickInBar
      <4>2. a \in Bar /\ IsBar(a) /\ a.at < DayMinutes
        BY <3>3, OneBar DEF OnDay
      <4> HIDE DEF a
      <4>3. Extends(a, p) \in Bar /\ Extends(a, p).at < DayMinutes
        BY <3>0, <4>2, TickExtends
      <4> QED
        BY <4>1, <4>3
    <3>4. CASE TickClosesBar(l, p, m)
      BY <3>1, <3>4 DEF TickClosesBar
    <3> QED
      BY <1>4, <3>2, <3>3, <3>4
  <2>2. \A k \in Legs : bucket'[k] = IF k = l THEN <<b>> ELSE bucket[k]
    BY <1>2, <2>1
  <2>3. <<b>>[1] = b
    OBVIOUS
  <2> QED
    BY <1>2, <2>1, <2>2, <2>3 DEF OnDay
<1> QED
  BY <1>1, <1>3, <1>4

\* What a tick asks for was earned.
LEMMA SignalsTick ==
  ASSUME Ordered, OnDay, Signals, Tick
  PROVE  Signals'
<1>1. [Next]_vars /\ entered' = entered
  BY DEF Next, Tick, RefuseTick, TickInBar, TickClosesBar
<1>2. SoundTasks(tasks, bars') /\ \A t \in ToSet(entered) : t.at = "entry" /\ SoundFor(t, bars')
  BY <1>1, StillSignals
<1>3. CASE tasks' = tasks
  BY <1>1, <1>2, <1>3 DEF Signals
<1>4. CASE tasks' # tasks
  <2>1. PICK p \in Prices, l \in Legs, m \in UNION {NextMinutes(j) : j \in Legs} :
          TickClosesBar(l, p, m)
    BY <1>4 DEF Tick, RefuseTick, TickInBar
  <2>2. ~holds /\ tasks' = tasks \o Asked(l, m, bars', bucket', zones', cascading')
    <3>1. tasks' = tasks \o IF holds THEN <<>> ELSE Asked(l, m, bars', bucket', zones', cascading')
      BY <2>1 DEF TickClosesBar
    <3>2. tasks \o <<>> = tasks
      <4>1. tasks \in Seq(ToSet(tasks))
        BY DEF Signals, SoundTasks
      <4> QED
        BY <4>1, ConcatEmptySeq
    <3> QED
      BY <1>4, <3>1, <3>2
  <2>3. PICK cs, bk, zs, casc : cs = bars' /\ bk = bucket' /\ zs = zones' /\ casc = cascading'
    OBVIOUS
  <2>4. cs[l] \in Seq(Bar) /\ InOrder(cs[l]) /\ l \in DOMAIN cs
    <3>1. bars'[l] \in Seq(Bar) /\ InOrder(bars'[l])
      <4>1. CASE bars'[l] = bars[l]
        BY <4>1, LegInOrder
      <4>2. CASE bars'[l] # bars[l]
        <5>1. PICK a \in Bar : /\ InOrder(Append(bars[l], a))
                               /\ bars'[l] = LastN(Append(bars[l], a), Kept)
          BY <1>1, <4>2, BarsStep
        <5>2. PICK s : s = Append(bars[l], a)
          OBVIOUS
        <5>3. bars[l] \in Seq(Bar)
          BY LegInOrder
        <5>4. s \in Seq(Bar) /\ InOrder(s) /\ Kept \in Nat \ {0}
          BY <5>1, <5>2, <5>3
        <5>5. LastN(s, Kept) \in Seq(Bar) /\ InOrder(LastN(s, Kept))
          BY <5>4, KeepsOrder
        <5> QED
          BY <5>1, <5>2, <5>5
      <4> QED
        BY <4>1, <4>2
    <3>2. bars' \in [Legs -> Seq(Bar)]
      BY <1>1, TodayStep
    <3> QED
      BY <2>3, <3>1, <3>2
  <2>5. SoundTasks(Asked(l, m, cs, bk, zs, casc), cs)
    BY <2>4, AskedSound
  <2>6. SoundTasks(tasks, cs)
    BY <1>2, <2>3
  <2>7. SoundTasks(tasks \o Asked(l, m, cs, bk, zs, casc), cs)
    BY <2>5, <2>6, SoundBoth
  <2>8. tasks' = tasks \o Asked(l, m, cs, bk, zs, casc)
    BY <2>2, <2>3
  <2> QED
    BY <1>1, <1>2, <2>3, <2>7, <2>8 DEF Signals
<1> QED
  BY <1>3, <1>4

\* Every step keeps what was asked for earned.
LEMMA EarnStep == EarnInv /\ [Next]_vars => EarnInv'
<1> SUFFICES ASSUME EarnInv, [Next]_vars PROVE EarnInv'
  OBVIOUS
<1>0. ScanInv /\ Ordered /\ OnDay /\ Signals
  BY DEF EarnInv, ScanInv
<1>1. ScanInv'
  BY <1>0, ScanStep
<1>2. SoundTasks(tasks, bars') /\ \A t \in ToSet(entered) : t.at = "entry" /\ SoundFor(t, bars')
  BY <1>0, StillSignals
<1>3. CASE Tick
  BY <1>0, <1>1, <1>3, OnDayTick, SignalsTick DEF EarnInv
<1>4. CASE RunCascade
  <2>1. UNCHANGED <<setup, bars, bucket, entered>>
    BY <1>4 DEF RunCascade
  <2>2. OnDay'
    BY <1>0, <2>1 DEF OnDay, Legs
  <2>3. PICK l, m : tasks' = Tail(tasks) \o CascadeEntry(l, m) /\ l = Head(tasks).leg
    BY <1>4 DEF RunCascade
  <2>4. SoundFor(Head(tasks), bars) /\ SoundTasks(Tail(tasks), bars)
    BY <1>0, <1>4, SoundTail DEF RunCascade, Signals
  <2>5. l \in Legs
    BY <1>0, <2>3, <2>4 DEF SoundFor, Ordered
  <2>6. SoundTasks(CascadeEntry(l, m), bars)
    BY <1>0, <2>5, CascadeSound
  <2>7. SoundTasks(tasks', bars)
    BY <2>3, <2>4, <2>6, SoundBoth
  <2>8. Signals'
    BY <1>2, <2>1, <2>7 DEF Signals
  <2> QED
    BY <1>1, <2>2, <2>8 DEF EarnInv
<1>5. CASE TakeSignal
  <2>1. UNCHANGED <<setup, bars, bucket>>
    BY <1>5 DEF TakeSignal
  <2>2. OnDay'
    BY <1>0, <2>1 DEF OnDay, Legs
  <2> DEFINE t == Head(tasks)
             e == Append(entered, t)
  <2>3. t.at = "entry" /\ tasks' = Tail(tasks) /\ entered' = e
    BY <1>5 DEF TakeSignal
  <2>4. SoundFor(t, bars) /\ SoundTasks(Tail(tasks), bars)
    BY <1>0, <1>5, SoundTail DEF TakeSignal, Signals
  <2> HIDE DEF t
  <2>5. entered \in Seq(ToSet(entered))
    BY <1>0 DEF ScanInv, Entries
  <2>6. \A i \in DOMAIN e : e[i] \in ToSet(entered) \cup {t}
    <3> DEFINE X == ToSet(entered) \cup {t}
    <3>1. entered \in Seq(X) /\ t \in X
      BY <2>5
    <3> HIDE DEF X
    <3> QED
      BY <3>1 DEF X
  <2> HIDE DEF e
  <2>7. \A x \in ToSet(e) : x \in ToSet(entered) \/ x = t
    BY <2>6 DEF ToSet
  <2>8. \A x \in ToSet(e) : x.at = "entry" /\ SoundFor(x, bars)
    BY <1>0, <2>3, <2>4, <2>7 DEF Signals
  <2>9. Signals'
    BY <2>1, <2>3, <2>4, <2>8 DEF Signals
  <2> QED
    BY <1>1, <2>2, <2>9 DEF EarnInv
<1>6. CASE DropSignal
  <2>1. UNCHANGED <<setup, bars, bucket, entered>> /\ tasks' = Tail(tasks)
    BY <1>6 DEF DropSignal
  <2>2. OnDay'
    BY <1>0, <2>1 DEF OnDay, Legs
  <2>3. SoundTasks(tasks', bars)
    BY <1>0, <1>6, <2>1, SoundTail DEF DropSignal, Signals
  <2>4. Signals'
    BY <1>2, <2>1, <2>3 DEF Signals
  <2> QED
    BY <1>1, <2>2, <2>4 DEF EarnInv
<1>7. CASE EntryEnds \/ PositionEnds \/ UNCHANGED vars
  <2>1. UNCHANGED <<setup, bars, bucket, entered, tasks>>
    BY <1>7 DEF EntryEnds, PositionEnds, Rest, vars
  <2> QED
    BY <1>0, <1>1, <2>1 DEF EarnInv, OnDay, Legs, Signals
<1> QED
  BY <1>3, <1>4, <1>5, <1>6, <1>7 DEF Next

----------------------------------------------------------------------------
(* Theorems *)

\* Closed bars and the bar being made stay well formed and in order of time under
\* every sequence of ticks (_update_bucket), and what was entered was announced.
THEOREM ScanTypeCorrect == Spec => []TypeOK
<1>1. ScanInv => TypeOK
  BY DEF ScanInv, Ordered, Entries, TypeOK
<1> QED
  BY <1>1, ScanInit, ScanStep, PTL DEF Spec

\* scan_htf and scan_htf_spot find, on the bars of every frame of every leg, the
\* traps and no others: a seller's stop broken by a later bar, and the price back
\* at his entry after that one; a buyer's on the mirrored bars.
THEOREM ScanMeansTheorem == Spec => []ScanMeans
<1>1. ScanInv => ScanMeans
  BY ScanMeansOf DEF ScanInv
<1> QED
  BY <1>1, ScanInit, ScanStep, PTL DEF Spec

\* While no old bar is dropped, a closed bar never takes a zone back: once trapped
\* it keeps its identity (_zone_uid) and its levels in every frame, so that the
\* set of notified zones goes on meaning the same zones.
THEOREM NoRepaintTheorem == Spec => NoRepaint
<1> DEFINE A == \A l \in Legs, k \in Frames :
       bars[l] # <<>> /\ bars'[l] # bars[l] /\ IsPrefix(bars[l], bars'[l]) =>
         Forward(ScanHtfSpot[Resample(k)[bars[l]]])[ScanHtfSpot[Resample(k)[bars'[l]]]]
<1>1. ScanInv /\ [Next]_vars => [A]_vars
  BY RepaintStep DEF ScanInv
<1> QED
  BY <1>1, ScanInit, ScanStep, PTL DEF Spec, NoRepaint

\* Whatever was asked for by an older candle or a cascade, an entry is taken only
\* at a low of today whose sellers were trapped and let out again, at three
\* minutes of today in this order, and the leg still has their bars.
THEOREM SignalEarnedTheorem == Spec => []SignalEarned
<1>1. EarnInv => SignalEarned
  <2> SUFFICES ASSUME EarnInv, NEW t \in ToSet(entered)
               PROVE  LET bs == Today(bars[t.leg])
                      IN  \E i, j, k \in DOMAIN bs :
                            /\ i < j /\ j < k
                            /\ bs[i].at = t.ref /\ bs[i].low = t.level /\ bs[j].high > t.sl
                            /\ bs[k].low <= t.level
    BY DEF SignalEarned
  <2>1. Ordered /\ t.at = "entry" /\ SoundFor(t, bars)
    BY DEF EarnInv, ScanInv, Signals
  <2>2. t.leg \in Legs /\ EarnedIn(t.ref, t.level, t.sl, TodayBars(bars[t.leg]))
    BY <2>1 DEF SoundFor, Ordered
  <2> DEFINE bs == Today(bars[t.leg])
  <2>3. bs \in Seq(Bar) /\ InOrder(bs) /\ ToSet(bs) = TodayBars(bars[t.leg])
    BY <2>1, <2>2, LegInOrder, TodayPicked
  <2> HIDE DEF bs
  <2>4. PICK i \in DOMAIN bs, j \in DOMAIN bs, k \in DOMAIN bs :
          /\ bs[i].at < bs[j].at /\ bs[j].at < bs[k].at
          /\ bs[i].at = t.ref /\ bs[i].low = t.level /\ bs[j].high > t.sl
          /\ bs[k].low <= t.level
    <3>1. EarnedIn(t.ref, t.level, t.sl, ToSet(bs))
      BY <2>2, <2>3
    <3> QED
      BY <3>1 DEF EarnedIn, ToSet
  <2>5. ASSUME NEW x \in DOMAIN bs, NEW y \in DOMAIN bs, bs[x].at < bs[y].at
        PROVE  x < y
    <3>1. bs[x] \in Bar /\ bs[y] \in Bar /\ x \in Int /\ y \in Int
      BY <2>3
    <3>2. bs[x].at \in Int /\ bs[y].at \in Int
      BY <3>1 DEF Bar
    <3>3. ~(y < x)
      BY <2>3, <2>5, <3>2 DEF InOrder
    <3> QED
      BY <2>5, <3>1, <3>2, <3>3
  <2> QED
    BY <2>4, <2>5 DEF bs
<1> QED
  BY <1>1, EarnInit, EarnStep, PTL DEF Spec
=============================================================================
