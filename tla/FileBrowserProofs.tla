-------------------------- MODULE FileBrowserProofs --------------------------
(***************************************************************************)
(* The file browser shows what the extension holds: for any number of       *)
(* hosts, directories, handlers, inputs and failures.                      *)
(***************************************************************************)
EXTENDS FileBrowser, TLAPS, FiniteSetTheorems

-----------------------------------------------------------------------------
(* Sequences in order.                                                     *)

\* What is below each element of S, in a strict total order.
Total(S, below) ==
  /\ below \in [S -> SUBSET S]
  /\ \A x, y \in S : x # y => x \in below[y] \/ y \in below[x]
  /\ \A x \in S : x \notin below[x]
  /\ \A x, y \in S : x \in below[y] => below[x] \subseteq below[y]

\* What is below one element is less than what is below a higher one.
LEMMA Higher ==
  ASSUME NEW S, IsFiniteSet(S), NEW below, Total(S, below),
         NEW x \in S, NEW y \in S, x \in below[y]
  PROVE  /\ Cardinality(below[x]) \in Nat /\ Cardinality(below[y]) \in Nat
         /\ Cardinality(below[x]) < Cardinality(below[y])
<1>1. below[x] \subseteq below[y] /\ below[x] # below[y] /\ below[y] \subseteq S
  BY DEF Total
<1>2. IsFiniteSet(below[y])
  BY <1>1, FS_Subset
<1>3. /\ IsFiniteSet(below[x]) /\ Cardinality(below[x]) <= Cardinality(below[y])
      /\ Cardinality(below[x]) # Cardinality(below[y])
  BY <1>1, <1>2, FS_Subset
<1> QED BY <1>2, <1>3, FS_CardinalityType

\* Every element has a number, and every number is one's.
LEMMA Numbered ==
  ASSUME NEW S, IsFiniteSet(S), NEW below, Total(S, below)
  PROVE  /\ Cardinality(S) \in Nat
         /\ \A k \in 1..Cardinality(S) :
              Nth(below, k) \in S /\ Cardinality(below[Nth(below, k)]) = k - 1
         /\ \A x \in S : \E k \in 1..Cardinality(S) : Nth(below, k) = x
<1> DEFINE N == 1..Cardinality(S)
           rank == [x \in S |-> Cardinality(below[x]) + 1]
<1>1. Cardinality(S) \in Nat
  BY FS_CardinalityType
<1>2. ASSUME NEW x \in S PROVE Cardinality(below[x]) \in Nat /\ rank[x] \in N
  <2>1. below[x] \in SUBSET S /\ below[x] # S
    BY DEF Total
  <2>2. IsFiniteSet(below[x]) /\ Cardinality(below[x]) <= Cardinality(S)
                              /\ Cardinality(below[x]) # Cardinality(S)
    BY <2>1, FS_Subset
  <2>3. Cardinality(below[x]) \in Nat
    BY <2>2, FS_CardinalityType
  <2> QED BY <1>1, <2>2, <2>3
<1>3. ASSUME NEW x \in S, NEW y \in S, x # y PROVE rank[x] # rank[y]
  <2>1. CASE x \in below[y]
    <3>1. Cardinality(below[x]) < Cardinality(below[y])
      BY <2>1, Higher
    <3> QED BY <3>1, <1>2
  <2>2. CASE y \in below[x]
    <3>1. Cardinality(below[y]) < Cardinality(below[x])
      BY <2>2, Higher
    <3> QED BY <3>1, <1>2
  <2> QED BY <1>3, <2>1, <2>2 DEF Total
<1>4. rank \in Injection(S, N)
  <2>1. rank \in [S -> N]
    BY <1>2
  <2> QED BY <2>1, <1>3 DEF Injection, IsInjective
<1>5. IsFiniteSet(N) /\ Cardinality(N) = Cardinality(S)
  BY <1>1, FS_Interval
<1>6. rank \in Surjection(S, N)
  BY <1>4, <1>5, FS_Injection
<1>7. \A k \in N : \E x \in S : rank[x] = k
  BY <1>6 DEF Surjection
<1>8. ASSUME NEW k \in N
      PROVE  Nth(below, k) \in S /\ Cardinality(below[Nth(below, k)]) = k - 1
  <2>1. DOMAIN below = S
    BY DEF Total
  <2>2. \E x \in S : Cardinality(below[x]) = k - 1
    BY <1>1, <1>2, <1>7
  <2> QED BY <2>1, <2>2 DEF Nth
<1>9. ASSUME NEW x \in S PROVE Nth(below, rank[x]) = x
  <2>1. rank[x] \in N
    BY <1>2
  <2>2. Nth(below, rank[x]) \in S /\ Cardinality(below[Nth(below, rank[x])]) = rank[x] - 1
    BY <2>1, <1>8
  <2>3. rank[Nth(below, rank[x])] = rank[x]
    BY <2>2, <1>2
  <2> QED BY <2>2, <2>3, <1>3
<1> QED BY <1>1, <1>2, <1>8, <1>9

\* A higher number is a higher element's.
LEMMA InOrder ==
  ASSUME NEW S, IsFiniteSet(S), NEW below, Total(S, below),
         NEW i \in 1..Cardinality(S), NEW j \in 1..Cardinality(S), i < j
  PROVE  Nth(below, i) \in below[Nth(below, j)]
<1>1. /\ Nth(below, i) \in S /\ Cardinality(below[Nth(below, i)]) = i - 1
      /\ Nth(below, j) \in S /\ Cardinality(below[Nth(below, j)]) = j - 1
      /\ Cardinality(S) \in Nat
  BY Numbered
<1>2. Nth(below, i) # Nth(below, j)
  BY <1>1
<1>3. ~(Nth(below, j) \in below[Nth(below, i)])
  <2>1. SUFFICES ASSUME Nth(below, j) \in below[Nth(below, i)] PROVE FALSE
    OBVIOUS
  <2>2. Cardinality(below[Nth(below, j)]) < Cardinality(below[Nth(below, i)])
    BY <1>1, <2>1, Higher
  <2> QED BY <1>1, <2>2
<1> QED BY <1>1, <1>2, <1>3 DEF Total

\* The elements of a sequence, in another order of its indices: the same ones, lower ones first.
Arranged(s, below) == [k \in DOMAIN s |-> s[Nth(below, k)]]

LEMMA Arrangement ==
  ASSUME NEW s \in Seq(Paths), NEW below, Total(DOMAIN s, below)
  PROVE  LET r == Arranged(s, below)
         IN  /\ r \in Seq(Paths) /\ Len(r) = Len(s)
             /\ \A i, j \in DOMAIN r : i < j =>
                  \E a, b \in DOMAIN s : a \in below[b] /\ r[i] = s[a] /\ r[j] = s[b]
             /\ \A a \in DOMAIN s : \E k \in DOMAIN r : r[k] = s[a]
<1> DEFINE n == Len(s)
           r == Arranged(s, below)
<1>1. n \in Nat /\ DOMAIN s = 1..n /\ \A i \in 1..n : s[i] \in Paths
  OBVIOUS
<1>2. IsFiniteSet(DOMAIN s) /\ Cardinality(DOMAIN s) = n
  <2>1. IsFiniteSet(1..n) /\ Cardinality(1..n) = IF 1 > n THEN 0 ELSE n - 1 + 1
    BY <1>1, FS_Interval
  <2> QED BY <1>1, <2>1
<1>3. /\ \A k \in 1..n : Nth(below, k) \in DOMAIN s
      /\ \A x \in DOMAIN s : \E k \in 1..n : Nth(below, k) = x
  BY <1>2, Numbered
<1>4. r \in [1..n -> Paths] /\ \A k \in 1..n : r[k] = s[Nth(below, k)]
  BY <1>1, <1>3 DEF Arranged
<1> HIDE DEF r
<1>5. r \in Seq(Paths) /\ Len(r) = n
  BY <1>1, <1>4
<1>6. ASSUME NEW i \in DOMAIN r, NEW j \in DOMAIN r, i < j
      PROVE  \E a, b \in DOMAIN s : a \in below[b] /\ r[i] = s[a] /\ r[j] = s[b]
  <2>1. i \in 1..Cardinality(DOMAIN s) /\ j \in 1..Cardinality(DOMAIN s)
    BY <1>1, <1>2, <1>4, <1>6
  <2>2. Nth(below, i) \in below[Nth(below, j)]
    BY <1>2, <1>6, <2>1, InOrder
  <2> QED BY <1>1, <1>3, <1>4, <2>2
<1>7. ASSUME NEW a \in DOMAIN s PROVE \E k \in DOMAIN r : r[k] = s[a]
  BY <1>1, <1>3, <1>4
<1> QED BY <1>5, <1>6, <1>7 DEF r

-----------------------------------------------------------------------------
(* The orders of the rows.                                                 *)

Orderings == [key : {"name", "size"}, up : BOOLEAN]

\* What the chosen order compares, with its sign.
Key(by, e) == IF by.key = "name" THEN Coarse[e] * Sign(by) ELSE Size[e] * Sign(by)

\* The comparison is that of group, key and name.
LEMMA Comparison ==
  ASSUME NEW h \in Hosts, NEW by \in Orderings, NEW a \in Paths, NEW b \in Paths
  PROVE  /\ Group(h, a) \in {0, 1} /\ Key(by, a) \in Int /\ Coarse[a] \in Int
         /\ Compared(h, by, a, b) < 0 <=>
              \/ Group(h, a) < Group(h, b)
              \/ Group(h, a) = Group(h, b) /\ Key(by, a) < Key(by, b)
              \/ /\ Group(h, a) = Group(h, b) /\ Key(by, a) = Key(by, b)
                 /\ Coarse[a] < Coarse[b]
         /\ Compared(h, by, a, b) = 0 <=>
              Group(h, a) = Group(h, b) /\ Key(by, a) = Key(by, b) /\ Coarse[a] = Coarse[b]
<1>1. /\ Coarse[a] \in Int /\ Coarse[b] \in Int /\ Size[a] \in Int /\ Size[b] \in Int
      /\ by.key \in {"name", "size"} /\ by.up \in BOOLEAN
  BY PageAssumption DEF Orderings
<1>2. Group(h, a) \in {0, 1} /\ Group(h, b) \in {0, 1}
  BY DEF Group
<1> DEFINE x(e) == IF by.key = "name" THEN Coarse[e] ELSE Size[e]
           key == IF by.key = "name" THEN Coarse[a] - Coarse[b] ELSE Size[a] - Size[b]
<1>3. x(a) \in Int /\ x(b) \in Int /\ key = x(a) - x(b)
  BY <1>1
<1>4. Sign(by) \in {1, -1} /\ Key(by, a) = x(a) * Sign(by) /\ Key(by, b) = x(b) * Sign(by)
  BY DEF Key, Sign
<1>5. Compared(h, by, a, b) = IF Group(h, a) # Group(h, b) THEN Group(h, a) - Group(h, b)
                              ELSE IF key # 0 THEN key * Sign(by) ELSE Coarse[a] - Coarse[b]
  BY DEF Compared
<1> HIDE DEF x, key
<1>6. CASE Sign(by) = 1
  <2>1. Key(by, a) = x(a) /\ Key(by, b) = x(b) /\ key * Sign(by) = key
    BY <1>3, <1>4, <1>6
  <2> QED BY <1>1, <1>2, <1>3, <1>5, <2>1
<1>7. CASE Sign(by) = -1
  <2>1. Key(by, a) = -x(a) /\ Key(by, b) = -x(b) /\ key * Sign(by) = -key
    BY <1>3, <1>4, <1>7
  <2> QED BY <1>1, <1>2, <1>3, <1>5, <2>1
<1> QED BY <1>4, <1>6, <1>7

\* No two names in one directory are the same to localeCompare.
NamesDiffer == \A p, q \in Paths : p # q /\ Up[p] = Up[q] => Fine[p] # Fine[q]

\* The rows of a host as its session lists them: directories first, then by name.
Finer(h, a, b) == \/ Group(h, a) < Group(h, b)
                  \/ Group(h, a) = Group(h, b) /\ Fine[a] < Fine[b]
Tidy(r) == NamesDiffer =>
             \A i, j \in DOMAIN r.list : i < j => Finer(r.host, r.list[i], r.list[j])
RowSets == {NoRows} \cup {r \in [host : Hosts, dir : Paths, list : Seq(Paths)] : Tidy(r)}

\* One row comes before another in the order the user chose.
Ahead(h, by, a, b) ==
  \/ Group(h, a) < Group(h, b)
  \/ Group(h, a) = Group(h, b) /\ Key(by, a) < Key(by, b)
  \/ Group(h, a) = Group(h, b) /\ Key(by, a) = Key(by, b) /\ Coarse[a] < Coarse[b]
  \/ /\ Group(h, a) = Group(h, b) /\ Key(by, a) = Key(by, b) /\ Coarse[a] = Coarse[b]
     /\ Fine[a] < Fine[b]

\* The page draws the rows it has, in that order; the sort is stable, so that rows whose names
\* differ in case only stay in the order of the listing.
LEMMA Drawing ==
  ASSUME NEW rows \in RowSets, NEW by \in Orderings
  PROVE  LET s == SortEntries(rows, by)
         IN  /\ s \in Seq(Paths) /\ Len(s) = Len(rows.list)
             /\ NamesDiffer => \A i, j \in DOMAIN s : i < j => Ahead(rows.host, by, s[i], s[j])
<1> DEFINE l == rows.list
           h == rows.host
           first(j, i) == \/ Compared(h, by, l[j], l[i]) < 0
                          \/ Compared(h, by, l[j], l[i]) = 0 /\ j < i
           below == [i \in DOMAIN l |-> {j \in DOMAIN l : first(j, i)}]
           s == Arranged(l, below)
<1>1. SortEntries(rows, by) = s
  BY DEF SortEntries, Sorted, Arranged
<1>2. CASE rows = NoRows
  <2>1. l = <<>>
    BY <1>2 DEF NoRows
  <2>2. s = <<>>
    BY <2>1 DEF Arranged
  <2> HIDE DEF s, l, h
  <2>3. s \in Seq(Paths) /\ Len(s) = Len(l) /\ DOMAIN s = {}
    BY <2>1, <2>2
  <2> QED BY <1>1, <2>3 DEF l, h
<1>3. CASE rows # NoRows
  <2>1. h \in Hosts /\ l \in Seq(Paths) /\ Tidy(rows)
    BY <1>3 DEF RowSets
  <2>2. \A i \in DOMAIN l : l[i] \in Paths /\ i \in Nat
    BY <2>1
  <2>3. ASSUME NEW i \in DOMAIN l, NEW j \in DOMAIN l
        PROVE  /\ Group(h, l[i]) \in {0, 1} /\ Key(by, l[i]) \in Int /\ Coarse[l[i]] \in Int
               /\ first(i, j) <=>
                    \/ Group(h, l[i]) < Group(h, l[j])
                    \/ Group(h, l[i]) = Group(h, l[j]) /\ Key(by, l[i]) < Key(by, l[j])
                    \/ /\ Group(h, l[i]) = Group(h, l[j]) /\ Key(by, l[i]) = Key(by, l[j])
                       /\ \/ Coarse[l[i]] < Coarse[l[j]]
                          \/ Coarse[l[i]] = Coarse[l[j]] /\ i < j
    BY <2>1, <2>2, Comparison
  <2> HIDE DEF first
  <2>4. Total(DOMAIN l, below)
    <3>1. below \in [DOMAIN l -> SUBSET DOMAIN l]
      OBVIOUS
    <3>2. ASSUME NEW x \in DOMAIN l, NEW y \in DOMAIN l, x # y
          PROVE  first(x, y) \/ first(y, x)
      BY <2>2, <2>3, <3>2
    <3>3. ASSUME NEW x \in DOMAIN l PROVE ~first(x, x)
      BY <2>2, <2>3
    <3>4. ASSUME NEW x \in DOMAIN l, NEW y \in DOMAIN l, NEW z \in DOMAIN l,
                 first(x, y), first(y, z)
          PROVE  first(x, z)
      BY <2>2, <2>3, <3>4
    <3> QED BY <3>1, <3>2, <3>3, <3>4 DEF Total
  <2>5. /\ s \in Seq(Paths) /\ Len(s) = Len(l)
        /\ \A i, j \in DOMAIN s : i < j =>
             \E a, b \in DOMAIN l : a \in below[b] /\ s[i] = l[a] /\ s[j] = l[b]
    <3> HIDE DEF below, l
    <3> QED BY <2>1, <2>4, Arrangement
  <2>6. ASSUME NamesDiffer, NEW a \in DOMAIN l, NEW b \in DOMAIN l, a \in below[b]
        PROVE  Ahead(h, by, l[a], l[b])
    <3>1. first(a, b)
      BY <2>6
    <3>2. a < b => Finer(h, l[a], l[b])
      BY <2>1, <2>6 DEF Tidy
    <3> QED BY <2>2, <2>3, <3>1, <3>2 DEF Ahead, Finer
  <2> HIDE DEF s, below, l, h
  <2> QED BY <1>1, <2>5, <2>6 DEF l, h
<1> QED BY <1>2, <1>3

\* What a session answers: the rows of that host and that directory.
LEMMA Listing ==
  ASSUME NEW h \in Hosts, NEW p \in Paths, NEW r \in Listings(h, p)
  PROVE  r \in RowSets /\ r # NoRows /\ r.host = h /\ r.dir = p
<1> DEFINE S == Children(h, p)
           compare(a, b) == IF Group(h, a) # Group(h, b) THEN Group(h, a) - Group(h, b)
                            ELSE Fine[a] - Fine[b]
<1>1. PICK s \in Orders(S) : r = [host |-> h, dir |-> p, list |-> Sorted(s, compare)]
  BY DEF Listings
<1>2. IsFiniteSet(S) /\ S \subseteq Paths /\ \A q \in S : Up[q] = p
  <2>1. S \subseteq {q \in Paths : Up[q] = p}
    BY DEF Children
  <2> QED BY <2>1, FS_Subset, BrowserAssumption
<1> DEFINE n == Cardinality(S)
           first(j, i) == \/ compare(s[j], s[i]) < 0
                          \/ compare(s[j], s[i]) = 0 /\ j < i
           below == [i \in DOMAIN s |-> {j \in DOMAIN s : first(j, i)}]
           t == Arranged(s, below)
<1>3. n \in Nat
  BY <1>2, FS_CardinalityType
<1>4. s \in [1..n -> S] /\ \A q \in S : \E i \in 1..n : s[i] = q
  BY <1>1 DEF Orders, Range
<1>5. \A i, j \in 1..n : i # j => s[i] # s[j]
  <2>1. s \in Surjection(1..n, S)
    BY <1>4 DEF Surjection
  <2>2. IsFiniteSet(1..n) /\ Cardinality(1..n) = n
    BY <1>3, FS_Interval
  <2>3. s \in Injection(1..n, S)
    BY <2>1, <2>2, FS_SurjSameCardinalityImpliesInj
  <2> QED BY <2>3 DEF Injection, IsInjective
<1>6. s \in Seq(Paths) /\ DOMAIN s = 1..n
  BY <1>2, <1>3, <1>4
<1>7. \A i \in 1..n : s[i] \in Paths /\ Up[s[i]] = p
  BY <1>2, <1>4
<1>8. ASSUME NEW i \in 1..n, NEW j \in 1..n
      PROVE  /\ Group(h, s[i]) \in {0, 1} /\ Fine[s[i]] \in Int
             /\ first(i, j) <=>
                  \/ Group(h, s[i]) < Group(h, s[j])
                  \/ Group(h, s[i]) = Group(h, s[j]) /\ Fine[s[i]] < Fine[s[j]]
                  \/ /\ Group(h, s[i]) = Group(h, s[j]) /\ Fine[s[i]] = Fine[s[j]] /\ i < j
  <2>1. Fine[s[i]] \in Int /\ Fine[s[j]] \in Int
    BY <1>7, PageAssumption
  <2>2. Group(h, s[i]) \in {0, 1} /\ Group(h, s[j]) \in {0, 1}
    BY DEF Group
  <2> QED BY <2>1, <2>2
<1>9. Sorted(s, compare) = t
  BY DEF Sorted, Arranged
<1> HIDE DEF first
<1>10. Total(DOMAIN s, below)
  <2>1. below \in [DOMAIN s -> SUBSET DOMAIN s]
    OBVIOUS
  <2>2. ASSUME NEW x \in DOMAIN s, NEW y \in DOMAIN s, x # y
        PROVE  first(x, y) \/ first(y, x)
    BY <1>6, <1>8, <2>2
  <2>3. ASSUME NEW x \in DOMAIN s PROVE ~first(x, x)
    BY <1>6, <1>8
  <2>4. ASSUME NEW x \in DOMAIN s, NEW y \in DOMAIN s, NEW z \in DOMAIN s,
               first(x, y), first(y, z)
        PROVE  first(x, z)
    BY <1>6, <1>8, <2>4
  <2> QED BY <2>1, <2>2, <2>3, <2>4 DEF Total
<1>11. /\ t \in Seq(Paths)
       /\ \A i, j \in DOMAIN t : i < j =>
            \E a, b \in DOMAIN s : a \in below[b] /\ t[i] = s[a] /\ t[j] = s[b]
  <2>1. s \in Seq(Paths)
    BY <1>6
  <2> HIDE DEF below, n, S
  <2> QED BY <1>10, <2>1, Arrangement
<1>12. ASSUME NamesDiffer, NEW a \in 1..n, NEW b \in 1..n, a \in below[b]
       PROVE  Finer(h, s[a], s[b])
  <2>1. first(a, b)
    BY <1>6, <1>12
  <2>2. a < b => Fine[s[a]] # Fine[s[b]]
    BY <1>5, <1>7, <1>12 DEF NamesDiffer
  <2> QED BY <1>8, <2>1, <2>2 DEF Finer
<1>13. r = [host |-> h, dir |-> p, list |-> t]
  BY <1>1, <1>9
<1> HIDE DEF t, below
<1>14. Tidy(r)
  BY <1>6, <1>11, <1>12, <1>13 DEF Tidy
<1>15. r # NoRows
  BY <1>13, PageAssumption DEF NoRows
<1> QED BY <1>11, <1>13, <1>14, <1>15 DEF RowSets

-----------------------------------------------------------------------------
(* The history.                                                            *)

Distinct(s) == \A i, j \in DOMAIN s : i # j => s[i] # s[j]

\* The others are what is left, each once.
LEMMA Filtering ==
  ASSUME NEW s \in Seq(Paths), Distinct(s), NEW p \in Paths
  PROVE  LET w == Without(s, p)
         IN  /\ w \in Seq(Paths) /\ Distinct(w)
             /\ \A k \in DOMAIN w : w[k] # p /\ \E i \in DOMAIN s : w[k] = s[i]
<1> DEFINE kept == {i \in DOMAIN s : s[i] # p}
           below == [i \in kept |-> {j \in kept : j < i}]
           n == Cardinality(kept)
           w == Without(s, p)
<1>1. DOMAIN s = 1..Len(s) /\ Len(s) \in Nat /\ \A i \in DOMAIN s : s[i] \in Paths
  OBVIOUS
<1>2. IsFiniteSet(kept) /\ n \in Nat
  <2>1. IsFiniteSet(1..Len(s))
    BY <1>1, FS_Interval
  <2>2. kept \in SUBSET (1..Len(s))
    BY <1>1
  <2>3. IsFiniteSet(kept)
    BY <2>1, <2>2, FS_Subset
  <2> QED BY <2>3, FS_CardinalityType
<1>3. \A i \in kept : i \in Nat
  BY <1>1
<1>4. Total(kept, below)
  BY <1>3 DEF Total
<1>5. w = [k \in 1..n |-> s[Nth(below, k)]]
  BY DEF Without
<1> HIDE DEF kept, below, w
<1>6. \A k \in 1..n : Nth(below, k) \in kept /\ Cardinality(below[Nth(below, k)]) = k - 1
  BY <1>2, <1>4, Numbered
<1>7. \A k \in 1..n : Nth(below, k) \in DOMAIN s /\ s[Nth(below, k)] # p
  BY <1>6 DEF kept
<1> HIDE DEF n
<1>8. w \in Seq(Paths) /\ DOMAIN w = 1..n
  BY <1>1, <1>2, <1>5, <1>7
<1>9. ASSUME NEW i \in 1..n, NEW j \in 1..n, i # j PROVE w[i] # w[j]
  <2>1. Nth(below, i) # Nth(below, j)
    BY <1>2, <1>6, <1>9
  <2> QED BY <1>5, <1>7, <2>1 DEF Distinct
<1>10. \A k \in 1..n : w[k] # p /\ \E i \in DOMAIN s : w[k] = s[i]
  BY <1>5, <1>7
<1>11. Distinct(w)
  BY <1>8, <1>9 DEF Distinct
<1> QED BY <1>8, <1>10, <1>11 DEF w

\* A directory is recorded once, first, and the history keeps its length.
LEMMA Recording ==
  ASSUME NEW s \in Seq(Paths), Distinct(s), NEW p \in Paths
  PROVE  LET r == Recorded(s, p)
         IN  /\ r \in Seq(Paths) /\ Len(r) <= HistoryLimit /\ Distinct(r)
             /\ \A k \in DOMAIN r : r[k] = p \/ \E i \in DOMAIN s : r[k] = s[i]
<1> DEFINE w == Without(s, p)
           u == <<p>> \o w
           m == IF Len(u) < HistoryLimit THEN Len(u) ELSE HistoryLimit
           r == SubSeq(u, 1, m)
<1>1. /\ w \in Seq(Paths) /\ Distinct(w)
      /\ \A k \in DOMAIN w : w[k] # p /\ \E i \in DOMAIN s : w[k] = s[i]
  BY Filtering
<1>2. Recorded(s, p) = r
  BY DEF Recorded, Capped
<1> HIDE DEF w
<1>3. /\ u \in Seq(Paths) /\ Len(u) = Len(w) + 1 /\ Len(w) \in Nat
      /\ u[1] = p /\ \A k \in 2..Len(u) : k - 1 \in DOMAIN w /\ u[k] = w[k - 1]
  BY <1>1
<1> HIDE DEF u
<1>4. m \in Nat /\ m <= Len(u) /\ m <= HistoryLimit
  BY <1>3, StoresAssumption
<1> HIDE DEF m
<1>5. r \in Seq(Paths) /\ Len(r) = m /\ \A k \in 1..m : r[k] = u[k]
  BY <1>3, <1>4
<1> HIDE DEF r
<1>6. \A i, j \in 1..Len(u) : i # j => u[i] # u[j]
  BY <1>1, <1>3 DEF Distinct
<1>7. Distinct(r)
  BY <1>3, <1>4, <1>5, <1>6 DEF Distinct
<1>8. ASSUME NEW k \in 1..m PROVE r[k] = p \/ \E i \in DOMAIN s : r[k] = s[i]
  <2>1. CASE k = 1
    BY <1>3, <1>5, <2>1
  <2>2. CASE k # 1
    <3>1. k - 1 \in DOMAIN w /\ r[k] = w[k - 1]
      BY <1>3, <1>4, <1>5, <2>2
    <3> QED BY <1>1, <3>1
  <2> QED BY <2>1, <2>2
<1> QED BY <1>2, <1>4, <1>5, <1>7, <1>8

-----------------------------------------------------------------------------
(* The invariant.                                                          *)

Steps == {"idle", "require", "waiting", "list", "failed", "connect", "connected", "rejected",
          "granted", "record", "cleared"}
Busy == {"require", "waiting", "list", "failed", "granted", "record"}
Errors == {"none", "unconnected", "failed"}
MessageTypes == {"refresh", "navigate", "navigateParent", "openEntry", "addFavorite"}

Pages == [rows : RowSets, shown : Seq(Paths), by : Orderings, field : Texts, title : Texts,
          held : BOOLEAN, inField : BOOLEAN, inRow : Nat, focused : Nat, tabbable : Nat,
          recent : Seq(Paths), offline : BOOLEAN, error : Errors]
Views == [rows : RowSets, current : Paths \cup {Blank}, offline : BOOLEAN, error : Errors,
          lastAlias : Hosts \cup {NoHost}, lastRoot : Paths \cup {Blank}]
States == [rows : RowSets, path : Paths \cup {Blank}, offline : BOOLEAN, error : Errors,
           recent : Seq(Paths)]

\* The row with the keyboard, and the one that Tab leads to, are rows there are.
Focusable(pg) == /\ pg.focused \in 1..AtLeast1(Len(pg.shown))
                 /\ pg.tabbable \in 1..AtLeast1(Len(pg.shown))
                 /\ pg.inRow # 0 => pg.shown # <<>>

PageTyped == page \in Pages /\ Focusable(page) /\ open \in BOOLEAN
MessagesTyped == /\ toHost \in Seq([type : MessageTypes, path : Texts])
                 /\ toPage \in Seq(States)
StoresTyped == /\ view \in Views
               /\ cache \in [Hosts -> [Paths -> RowSets]]
               /\ recents \in [Hosts -> Seq(Paths)]
               /\ favorites \subseteq [host : Hosts, path : Paths, type : {"file", "directory"}]
SessionsTyped == /\ session \in Hosts \cup {NoHost} /\ connecting \in Hosts \cup {NoHost}
                 /\ lost \in Hosts \cup {NoHost}
TasksTyped == /\ pc \in [Tasks -> Steps]
              /\ want \in [Tasks -> Hosts \cup {NoHost}]
              /\ path \in [Tasks -> Paths \cup {Blank}]
              /\ \A t \in Tasks : pc[t] \notin {"idle", "cleared"} =>
                                want[t] \in Hosts /\ path[t] \in Paths
Typing == PageTyped /\ MessagesTyped /\ StoresTyped /\ SessionsTyped /\ TasksTyped

\* Rows are those of the path beside them: in the extension, on their way, and in the page.
Agreeing == /\ view.rows # NoRows => view.current = view.rows.dir
            /\ \A i \in DOMAIN toPage :
                 toPage[i].rows # NoRows => toPage[i].path = toPage[i].rows.dir
            /\ page.rows # NoRows => page.held \/ page.field = page.rows.dir

\* Until the page shows what the extension holds, a handler or a refresh is on its way to tell it.
Telling == \/ \E i \in DOMAIN toHost : toHost[i].type = "refresh"
           \/ \E t \in Tasks : pc[t] \in Busy
Matches(m, v) == /\ m.rows = v.rows /\ m.offline = v.offline /\ m.error = v.error
                 /\ v.current \in {Blank, m.path}
Told == IF toPage = <<>>
        THEN /\ page.rows = view.rows /\ page.offline = view.offline /\ page.error = view.error
             /\ page.held \/ view.current \in {Blank, page.field}
        ELSE Matches(toPage[Len(toPage)], view)
InStep == /\ open => Telling \/ Told
          /\ ~open => toPage = <<>> /\ toHost = <<>>

\* Once a path has been shown, or is about to be, there is always one to show.
Sighted == view.current # Blank \/ view.lastRoot # Blank
Seeing == /\ page.title # Blank /\ open => Sighted /\ \A i \in DOMAIN toPage : toPage[i].path # Blank
          /\ \A i \in DOMAIN toPage : toPage[i].path # Blank =>
               Sighted /\ \A j \in DOMAIN toPage : i < j => toPage[j].path # Blank

\* The order of the rows there are.
Drawn == NamesDiffer =>
           \A i, j \in DOMAIN page.shown : i < j =>
             Ahead(page.rows.host, page.by, page.shown[i], page.shown[j])

IInv == Typing /\ Agreeing /\ PlacesAreTrue /\ InStep /\ Seeing /\ Drawn

-----------------------------------------------------------------------------
(* What the listeners do to a page.                                        *)

\* A new page that is made of the same state as another: only what the user may change differs.
SameState(new, pg) ==
  /\ new.rows = pg.rows /\ new.offline = pg.offline /\ new.error = pg.error
  /\ new.title = pg.title
  /\ new.held \/ (new.held = pg.held /\ new.field = pg.field)
  /\ \/ new.shown = pg.shown /\ new.by = pg.by
     \/ new.shown = SortEntries(new.rows, new.by)

\* The rows are drawn, and none has the keyboard.
LEMMA Rendering ==
  ASSUME NEW pg \in Pages
  PROVE  /\ RenderRows(pg) \in Pages /\ Focusable(RenderRows(pg))
         /\ RenderRows(pg) = [pg EXCEPT !.shown = SortEntries(pg.rows, pg.by), !.inRow = 0,
                                        !.focused = RenderRows(pg).focused,
                                        !.tabbable = RenderRows(pg).tabbable]
<1> DEFINE s == SortEntries(pg.rows, pg.by)
           drawn == [pg EXCEPT !.shown = s]
           index == AtLeast1(Within(drawn, pg.focused))
<1>1. s \in Seq(Paths)
  BY Drawing DEF Pages
<1>2. drawn.shown = s /\ pg.focused \in Nat
  BY DEF Pages
<1> HIDE DEF s
<1>3. index \in Nat /\ index \in 1..AtLeast1(Len(s))
  BY <1>1, <1>2 DEF Within, AtLeast1
<1>4. RenderRows(pg) = [drawn EXCEPT !.inRow = 0, !.focused = index, !.tabbable = index]
  BY DEF RenderRows, s
<1> HIDE DEF index
<1>5. RenderRows(pg) = [pg EXCEPT !.shown = s, !.inRow = 0, !.focused = index, !.tabbable = index]
  BY <1>4 DEF Pages
<1>6. RenderRows(pg) \in Pages
  <2>1. index \in Nat /\ 0 \in Nat
    BY <1>3
  <2> QED BY <1>1, <1>5, <2>1, Zenon DEF Pages
<1>7. /\ RenderRows(pg).shown = s /\ RenderRows(pg).inRow = 0
      /\ RenderRows(pg).focused = index /\ RenderRows(pg).tabbable = index
  BY <1>5 DEF Pages
<1>8. Focusable(RenderRows(pg))
  BY <1>3, <1>7 DEF Focusable
<1> QED BY <1>5, <1>6, <1>7, <1>8 DEF s

\* The page shows a state as it is, but for a path that is the user's.
LEMMA Showing ==
  ASSUME NEW pg \in Pages, NEW m \in States
  PROVE  LET new == Render(pg, m)
         IN  /\ new \in Pages /\ Focusable(new)
             /\ new.rows = m.rows /\ new.by = pg.by /\ new.offline = m.offline
             /\ new.error = m.error /\ new.held = pg.inField
             /\ new.field = IF pg.inField THEN pg.field ELSE m.path
             /\ new.title = IF pg.inField THEN pg.title ELSE m.path
             /\ new.shown = SortEntries(m.rows, pg.by)
<1> DEFINE told == [pg EXCEPT !.rows = m.rows, !.recent = m.recent,
                              !.offline = m.offline, !.error = m.error,
                              !.field = IF pg.inField THEN @ ELSE m.path,
                              !.title = IF pg.inField THEN @ ELSE m.path,
                              !.held = pg.inField]
           new == RenderRows(told)
<1>1. Render(pg, m) = new
  BY DEF Render
<1>2. /\ m.rows \in RowSets /\ m.path \in Texts /\ m.offline \in BOOLEAN
      /\ m.error \in Errors /\ m.recent \in Seq(Paths)
      /\ pg.field \in Texts /\ pg.title \in Texts /\ pg.inField \in BOOLEAN
  BY DEF States, Texts, Pages
<1>3. /\ told \in Pages /\ told.rows = m.rows /\ told.by = pg.by /\ told.offline = m.offline
      /\ told.error = m.error /\ told.held = pg.inField
      /\ told.field = IF pg.inField THEN pg.field ELSE m.path
      /\ told.title = IF pg.inField THEN pg.title ELSE m.path
  BY <1>2 DEF Pages
<1> HIDE DEF told
<1>4. /\ new \in Pages /\ Focusable(new)
      /\ new = [told EXCEPT !.shown = SortEntries(told.rows, told.by), !.inRow = 0,
                            !.focused = new.focused, !.tabbable = new.tabbable]
  BY <1>3, Rendering
<1> HIDE DEF new
<1>5. /\ new.rows = told.rows /\ new.by = told.by /\ new.offline = told.offline
      /\ new.error = told.error /\ new.held = told.held
      /\ new.field = told.field /\ new.title = told.title
      /\ new.shown = SortEntries(told.rows, told.by)
  BY <1>3, <1>4 DEF Pages
<1> QED BY <1>1, <1>3, <1>4, <1>5

\* A new page is empty.
LEMMA Loading ==
  ASSUME NEW by \in Orderings
  PROVE  NewPage(by) \in Pages /\ Focusable(NewPage(by))
<1>1. NoRows \in RowSets /\ Blank \in Texts /\ <<>> \in Seq(Paths)
  BY DEF RowSets, Texts
<1> QED BY <1>1 DEF NewPage, Pages, Focusable, Errors, AtLeast1

\* A row that is there gets the keyboard.
LEMMA Focusing ==
  ASSUME NEW pg \in Pages, Focusable(pg), NEW i \in DOMAIN pg.shown
  PROVE  Focus(pg, i) \in Pages /\ Focusable(Focus(pg, i)) /\ SameState(Focus(pg, i), pg)
<1>1. /\ pg.shown \in Seq(Paths) /\ i \in 1..Len(pg.shown) /\ Len(pg.shown) \in Nat
  BY DEF Pages
<1>2. Focus(pg, i) \in Pages
  <2>1. i \in Nat
    BY <1>1
  <2> QED BY <2>1, Zenon DEF Focus, Pages
<1>3. SameState(Focus(pg, i), pg)
  BY DEF Focus, Pages, SameState
<1>4. /\ Focus(pg, i).shown = pg.shown /\ Focus(pg, i).focused = i
      /\ Focus(pg, i).tabbable = pg.tabbable
  BY DEF Focus, Pages
<1> QED BY <1>1, <1>2, <1>3, <1>4 DEF Focusable, AtLeast1

LEMMA FocusingRow ==
  ASSUME NEW pg \in Pages, Focusable(pg), NEW i \in Int
  PROVE  FocusRow(pg, i) \in Pages /\ Focusable(FocusRow(pg, i)) /\ SameState(FocusRow(pg, i), pg)
<1>1. CASE pg.shown = <<>>
  BY <1>1 DEF FocusRow, SameState
<1>2. CASE pg.shown # <<>>
  <2> DEFINE index == AtLeast1(Within(pg, i))
             new == [pg EXCEPT !.inField = FALSE, !.inRow = index, !.focused = index,
                               !.tabbable = index]
  <2>1. pg.shown \in Seq(Paths) /\ Len(pg.shown) \in Nat /\ Len(pg.shown) > 0
    BY <1>2 DEF Pages
  <2>2. index \in 1..Len(pg.shown)
    BY <2>1 DEF Within, AtLeast1
  <2>3. FocusRow(pg, i) = [Focus(pg, index) EXCEPT !.focused = index, !.tabbable = index]
    BY <1>2 DEF FocusRow
  <2> HIDE DEF index
  <2>4. FocusRow(pg, i) = new
    BY <2>3 DEF Focus, Pages
  <2>5. new \in Pages
    <3>1. index \in Nat
      BY <2>1, <2>2
    <3> QED BY <3>1, Zenon DEF Pages
  <2>6. SameState(new, pg)
    BY DEF SameState, Pages
  <2>7. new.shown = pg.shown /\ new.focused = index /\ new.tabbable = index
    BY DEF Pages
  <2>8. Focusable(new)
    BY <2>1, <2>2, <2>7 DEF Focusable, AtLeast1
  <2> QED BY <2>4, <2>5, <2>6, <2>8
<1> QED BY <1>1, <1>2

\* The keys above the rows.
LEMMA Sorting ==
  ASSUME NEW pg \in Pages, NEW key \in {"name", "size"}
  PROVE  /\ ClickSort(pg, key) \in Pages /\ Focusable(ClickSort(pg, key))
         /\ SameState(ClickSort(pg, key), pg)
<1> DEFINE by == [key |-> key, up |-> IF key = pg.by.key THEN ~pg.by.up ELSE TRUE]
           new == [pg EXCEPT !.by = by, !.inField = FALSE]
<1>1. by \in Orderings
  BY DEF Pages, Orderings
<1>2. ClickSort(pg, key) = RenderRows(new)
  BY DEF ClickSort
<1> HIDE DEF by
<1>3. new \in Pages /\ new.rows = pg.rows /\ new.by = by /\ new.offline = pg.offline
      /\ new.error = pg.error /\ new.title = pg.title /\ new.held = pg.held /\ new.field = pg.field
  BY <1>1 DEF Pages
<1> HIDE DEF new
<1>4. /\ RenderRows(new) \in Pages /\ Focusable(RenderRows(new))
      /\ RenderRows(new) = [new EXCEPT !.shown = SortEntries(new.rows, new.by), !.inRow = 0,
                                       !.focused = RenderRows(new).focused,
                                       !.tabbable = RenderRows(new).tabbable]
  BY <1>3, Rendering
<1> DEFINE x == RenderRows(new)
<1> HIDE DEF x
<1>5. /\ x.rows = new.rows /\ x.by = new.by /\ x.offline = new.offline /\ x.error = new.error
      /\ x.title = new.title /\ x.held = new.held /\ x.field = new.field
      /\ x.shown = SortEntries(new.rows, new.by)
  BY <1>3, <1>4 DEF Pages, x
<1> QED BY <1>2, <1>3, <1>4, <1>5 DEF SameState, x

\* The path field.
LEMMA Typewriting ==
  ASSUME NEW pg \in Pages, Focusable(pg), NEW text \in Texts
  PROVE  /\ \A new \in {EnterField(pg), Type(pg, text), Blur(pg), Blur(Type(pg, text)),
                       [pg EXCEPT !.inField = FALSE, !.inRow = 0]} :
              new \in Pages /\ Focusable(new) /\ SameState(new, pg)
<1>1. EnterField(pg) \in Pages /\ Focusable(EnterField(pg)) /\ SameState(EnterField(pg), pg)
  BY DEF EnterField, Pages, Focusable, SameState
<1>2. Type(pg, text) \in Pages /\ Focusable(Type(pg, text)) /\ SameState(Type(pg, text), pg)
  BY DEF Type, Pages, Focusable, SameState
<1>3. Blur(pg) \in Pages /\ Focusable(Blur(pg)) /\ SameState(Blur(pg), pg)
  BY DEF Blur, Pages, Focusable, SameState
<1>4. /\ Blur(Type(pg, text)) \in Pages /\ Focusable(Blur(Type(pg, text)))
      /\ SameState(Blur(Type(pg, text)), pg)
  BY DEF Type, Blur, Pages, Focusable, SameState
<1> DEFINE left == [pg EXCEPT !.inField = FALSE, !.inRow = 0]
<1>5. left \in Pages /\ Focusable(left) /\ SameState(left, pg)
  BY DEF Pages, Focusable, SameState
<1> QED BY <1>1, <1>2, <1>3, <1>4, <1>5

-----------------------------------------------------------------------------
(* What the handlers do.                                                   *)

\* The part of the invariant that a handler of the extension may disturb.
Current == view \in Views /\ toPage \in Seq(States) /\ TasksTyped /\ Agreeing /\ Seeing /\ InStep

\* A post tells the page what the extension holds, if there is one.
LEMMA Posting ==
  ASSUME IInv, NEW v \in Views, v.rows # NoRows => v.current = v.rows.dir,
         Sighted => v.current # Blank \/ v.lastRoot # Blank,
         Post(v, recents), UNCHANGED <<page, open>>
  PROVE  /\ view' \in Views /\ toPage' \in Seq(States) /\ Agreeing' /\ Seeing'
         /\ open => Told'
         /\ ~open => toPage' = <<>>
<1> DEFINE root == SessionRoot
           w == [v EXCEPT !.lastRoot = Either(root, @)]
           m == State(w, recents)
<1>1. root \in Paths \cup {Blank}
  BY BrowserAssumption DEF SessionRoot, IInv, Typing, SessionsTyped
<1>2. /\ v.rows \in RowSets /\ v.current \in Paths \cup {Blank} /\ v.offline \in BOOLEAN
      /\ v.error \in Errors /\ v.lastAlias \in Hosts \cup {NoHost}
      /\ v.lastRoot \in Paths \cup {Blank}
  BY DEF Views
<1>3. /\ w \in Views /\ w.rows = v.rows /\ w.current = v.current /\ w.offline = v.offline
      /\ w.error = v.error /\ w.lastAlias = v.lastAlias /\ w.lastRoot = Either(root, v.lastRoot)
  BY <1>1, <1>2 DEF Views, Either
<1> HIDE DEF w, root
<1>4. /\ m.rows = v.rows /\ m.path = DisplayPath(w) /\ m.offline = v.offline /\ m.error = v.error
      /\ m = [rows |-> v.rows, path |-> DisplayPath(w), offline |-> v.offline, error |-> v.error,
              recent |-> m.recent]
  BY <1>3 DEF State
<1>5. m.recent \in Seq(Paths)
  <2>1. Alias(w) \in Hosts \cup {NoHost}
    BY <1>2, <1>3 DEF Alias, IInv, Typing, SessionsTyped
  <2>2. recents \in [Hosts -> Seq(Paths)]
    BY DEF IInv, Typing, StoresTyped
  <2> QED BY <2>1, <2>2 DEF State
<1>6. /\ m.path \in Paths \cup {Blank}
      /\ v.current # Blank => m.path = v.current
      /\ m.path # Blank <=> v.current # Blank \/ w.lastRoot # Blank
  BY <1>1, <1>2, <1>3, <1>4 DEF DisplayPath, Either, root
<1> HIDE DEF m
<1>7. m \in States
  BY <1>2, <1>4, <1>5, <1>6 DEF States
<1>8. v.rows # NoRows => m.path = v.rows.dir
  <2>1. v.rows # NoRows => v.rows.dir \in Paths
    BY <1>2 DEF RowSets
  <2> QED BY <1>6, <2>1, PageAssumption
<1>9. Sighted => v.current # Blank \/ w.lastRoot # Blank
  BY <1>1, <1>3 DEF Either
<1>10. /\ toPage \in Seq(States) /\ view \in Views
  BY DEF IInv, Typing, MessagesTyped, StoresTyped
<1>11. CASE open
  <2>1. view' = w /\ toPage' = Append(toPage, m)
    BY <1>11 DEF Post, w, m, root
  <2>2. /\ toPage' \in Seq(States) /\ Len(toPage') = Len(toPage) + 1 /\ Len(toPage) \in Nat
        /\ toPage'[Len(toPage')] = m /\ DOMAIN toPage = 1..Len(toPage)
        /\ DOMAIN toPage' = 1..Len(toPage')
        /\ \A i \in DOMAIN toPage : toPage'[i] = toPage[i]
    BY <1>7, <1>10, <2>1
  <2>3. \A i \in DOMAIN toPage' : i \in DOMAIN toPage \/ i = Len(toPage')
    BY <2>2
  <2>4. Agreeing'
    BY <1>3, <1>4, <1>8, <2>1, <2>2, <2>3 DEF Agreeing, IInv
  <2>5. Seeing'
    <3>1. Sighted => Sighted' /\ m.path # Blank
      BY <1>3, <1>6, <1>9, <2>1 DEF Sighted
    <3>2. m.path # Blank => Sighted'
      BY <1>3, <1>6, <2>1 DEF Sighted
    <3>3. ASSUME page.title # Blank, open
          PROVE  Sighted' /\ \A i \in DOMAIN toPage' : toPage'[i].path # Blank
      BY <2>2, <2>3, <3>1, <3>3 DEF Seeing, IInv
    <3>4. ASSUME NEW i \in DOMAIN toPage', toPage'[i].path # Blank
          PROVE  Sighted' /\ \A j \in DOMAIN toPage' : i < j => toPage'[j].path # Blank
      <4>1. CASE i \in DOMAIN toPage
        <5>1. Sighted /\ \A j \in DOMAIN toPage : i < j => toPage[j].path # Blank
          BY <2>2, <3>4, <4>1 DEF Seeing, IInv
        <5> QED BY <2>2, <2>3, <3>1, <5>1
      <4>2. CASE i = Len(toPage')
        BY <2>2, <3>2, <3>4, <4>2
      <4> QED BY <2>3, <4>1, <4>2
    <3> HIDE DEF Sighted
    <3> QED BY <3>3, <3>4 DEF Seeing
  <2>6. Told'
    <3>1. toPage' # <<>>
      BY <2>2
    <3>2. Matches(m, w)
      BY <1>3, <1>4, <1>6 DEF Matches
    <3> QED BY <2>1, <2>2, <3>1, <3>2 DEF Told
  <2> QED BY <1>3, <1>11, <2>1, <2>2, <2>4, <2>5, <2>6
<1>12. CASE ~open
  <2>1. view' = v /\ toPage' = toPage /\ toPage = <<>>
    BY <1>12 DEF Post, InStep, IInv
  <2>2. Agreeing'
    BY <2>1 DEF Agreeing, IInv
  <2>3. Seeing'
    BY <1>12, <2>1 DEF Seeing
  <2> QED BY <1>10, <1>12, <2>1, <2>2, <2>3
<1> QED BY <1>11, <1>12

\* One handler moves on, with a host and a path if its step needs them.
LEMMA Moving ==
  ASSUME TasksTyped, NEW t \in Tasks, NEW step \in Steps,
         NEW h \in Hosts \cup {NoHost}, NEW p \in Paths \cup {Blank},
         step \notin {"idle", "cleared"} => h \in Hosts /\ p \in Paths,
         pc' = [pc EXCEPT ![t] = step], want' = [want EXCEPT ![t] = h],
         path' = [path EXCEPT ![t] = p]
  PROVE  TasksTyped' /\ pc'[t] = step /\ \A u \in Tasks \ {t} : pc'[u] = pc[u]
BY DEF TasksTyped

LEMMA Going ==
  ASSUME TasksTyped, NEW t \in Tasks, NEW step \in Steps, Goto(t, step),
         step \notin {"idle", "cleared"} => want[t] \in Hosts /\ path[t] \in Paths
  PROVE  TasksTyped' /\ pc'[t] = step /\ \A u \in Tasks \ {t} : pc'[u] = pc[u]
BY DEF TasksTyped, Goto

LEMMA Returning ==
  ASSUME TasksTyped, NEW t \in Tasks, Done(t)
  PROVE  TasksTyped' /\ pc'[t] = "idle" /\ \A u \in Tasks \ {t} : pc'[u] = pc[u]
BY Moving, "idle" \in Steps DEF Done, Steps

\* A post is the last that a handler does, or its last before it awaits the history.
LEMMA Answering ==
  ASSUME IInv, NEW t \in Tasks, NEW v \in Views, v.rows # NoRows => v.current = v.rows.dir,
         Sighted => v.current # Blank \/ v.lastRoot # Blank,
         Post(v, recents), Done(t), UNCHANGED <<page, open>>, ~open => toHost' = <<>>
  PROVE  Current'
<1>1. /\ view' \in Views /\ toPage' \in Seq(States) /\ Agreeing' /\ Seeing'
      /\ open => Told'
      /\ ~open => toPage' = <<>>
  BY Posting
<1>2. TasksTyped'
  BY Returning DEF IInv, Typing
<1>3. InStep'
  BY <1>1 DEF InStep
<1> QED BY <1>1, <1>2, <1>3 DEF Current

\* navigate: it fails and says so, or a handler has begun to look.
LEMMA Steering ==
  ASSUME IInv, NEW t \in Tasks, NEW p \in Paths, Navigate(t, p),
         UNCHANGED <<page, open>>, ~open => toHost' = <<>>
  PROVE  Current'
<1> DEFINE a == Alias(view)
<1>1. /\ view \in Views /\ a \in Hosts \cup {NoHost} /\ toPage \in Seq(States) /\ TasksTyped
  BY DEF IInv, Typing, StoresTyped, SessionsTyped, MessagesTyped, Alias, Views
<1>2. CASE a = NoHost
  <2> DEFINE v == [view EXCEPT !.error = "unconnected"]
  <2>1. Post(v, recents) /\ Done(t)
    BY <1>2 DEF Navigate
  <2>2. v \in Views /\ v.rows = view.rows /\ v.current = view.current /\ v.lastRoot = view.lastRoot
    BY <1>1 DEF Views, Errors
  <2> HIDE DEF v
  <2>3. v.rows # NoRows => v.current = v.rows.dir
    BY <2>2 DEF IInv, Agreeing
  <2>4. Sighted => v.current # Blank \/ v.lastRoot # Blank
    BY <2>2 DEF Sighted
  <2> QED BY <2>1, <2>2, <2>3, <2>4, Answering
<1>3. CASE a # NoHost
  <2>1. /\ view' = [view EXCEPT !.lastAlias = a, !.error = "none"]
        /\ pc' = [pc EXCEPT ![t] = "require"]
        /\ want' = [want EXCEPT ![t] = a] /\ path' = [path EXCEPT ![t] = p]
        /\ toPage' = toPage
    BY <1>3 DEF Navigate
  <2> HIDE DEF a
  <2>2. /\ view' \in Views /\ view'.rows = view.rows /\ view'.current = view.current
        /\ view'.lastRoot = view.lastRoot
    BY <1>1, <2>1 DEF Views, Errors
  <2>3. TasksTyped' /\ pc'[t] = "require"
    BY <1>1, <1>3, <2>1, Moving DEF Steps
  <2>4. Agreeing' /\ Seeing'
    BY <2>1, <2>2 DEF IInv, Agreeing, Seeing, Sighted
  <2>5. InStep'
    BY <2>1, <2>3 DEF IInv, InStep, Telling, Busy
  <2> QED BY <1>1, <2>1, <2>2, <2>3, <2>4, <2>5 DEF Current
<1> QED BY <1>2, <1>3

\* refresh: "always posts, even when there is nowhere to go".
LEMMA Refreshing ==
  ASSUME IInv, NEW t \in Tasks, Refresh(t), UNCHANGED <<page, open>>, ~open => toHost' = <<>>
  PROVE  Current'
<1> DEFINE p == Either(view.current, Either(SessionRoot, view.lastRoot))
<1>1. /\ view \in Views /\ p \in Paths \cup {Blank}
  BY BrowserAssumption
  DEF IInv, Typing, StoresTyped, SessionsTyped, Either, SessionRoot, Views
<1>2. CASE p = Blank
  <2>1. Post(view, recents) /\ Done(t)
    BY <1>2 DEF Refresh
  <2>2. view.rows # NoRows => view.current = view.rows.dir
    BY DEF IInv, Agreeing
  <2> QED BY <1>1, <2>1, <2>2, Answering DEF Sighted
<1>3. CASE p # Blank
  <2>1. Navigate(t, p)
    BY <1>3 DEF Refresh
  <2> QED BY <1>1, <1>3, <2>1, Steering
<1> QED BY <1>2, <1>3

Messages == Seq([type : MessageTypes, path : Texts])
Favorites == [host : Hosts, path : Paths, type : {"file", "directory"}]

\* All the rest that a handler may change besides.
LEMMA Concluding ==
  ASSUME IInv, Current', UNCHANGED <<page, open, cache, recents, sessions>>,
         toHost' \in Messages, favorites' \subseteq Favorites
  PROVE  IInv'
<1>1. PageTyped' /\ SessionsTyped' /\ Drawn'
  BY DEF IInv, Typing, PageTyped, SessionsTyped, sessions, Drawn
<1>2. MessagesTyped' /\ StoresTyped'
  BY DEF IInv, Typing, Current, MessagesTyped, StoresTyped, Messages, Favorites
<1>3. PlacesAreTrue'
  BY DEF IInv, PlacesAreTrue, CacheIsOfItsPlace, HistoryIsRecent
<1> QED BY <1>1, <1>2, <1>3 DEF IInv, Typing, Current

\* A message is taken, which asks for nothing that the page is waiting for.
LEMMA Ignoring ==
  ASSUME IInv, NEW t \in Tasks, pc[t] = "idle", toHost # <<>>, Head(toHost).type # "refresh",
         toHost' = Tail(toHost), UNCHANGED <<page, open, view, toPage>>,
         Done(t) \/ UNCHANGED tasks
  PROVE  Current'
<1>1. toHost \in Messages /\ view \in Views /\ toPage \in Seq(States) /\ TasksTyped
  BY DEF IInv, Typing, MessagesTyped, StoresTyped, Messages
<1>2. TasksTyped' /\ \A u \in Tasks : pc[u] \in Busy => pc'[u] \in Busy
  <2>1. CASE Done(t)
    BY <1>1, <2>1, Returning DEF Busy
  <2>2. CASE UNCHANGED tasks
    BY <1>1, <2>2 DEF tasks, TasksTyped
  <2> QED BY <2>1, <2>2
<1>3. ASSUME NEW i \in DOMAIN toHost, toHost[i].type = "refresh"
      PROVE  \E j \in DOMAIN toHost' : toHost'[j].type = "refresh"
  <2>1. i # 1 /\ i \in Nat /\ i - 1 \in DOMAIN Tail(toHost) /\ Tail(toHost)[i - 1] = toHost[i]
    BY <1>1, <1>3 DEF Messages
  <2> QED BY <1>3, <2>1
<1>4. Agreeing' /\ Seeing'
  BY DEF IInv, Agreeing, Seeing, Sighted
<1>5. Telling => Telling'
  BY <1>2, <1>3 DEF Telling
<1>6. Told => Told'
  BY DEF Told, Matches
<1>7. InStep'
  BY <1>5, <1>6 DEF IInv, InStep
<1> QED BY <1>1, <1>2, <1>4, <1>7 DEF Current

\* onDidReceiveMessage
LEMMA ReceiveStep == ASSUME IInv, NEW t \in Tasks, Receive(t) PROVE IInv'
<1> DEFINE m == Head(toHost)
<1>1. /\ toHost # <<>> /\ pc[t] = "idle" /\ toHost' = Tail(toHost) /\ Handle(t, m)
      /\ UNCHANGED <<page, open, cache, sessions>>
  BY DEF Receive
<1>2. toHost \in Messages /\ view \in Views /\ favorites \subseteq Favorites
  BY DEF IInv, Typing, MessagesTyped, StoresTyped, Messages, Favorites
<1>3. m \in [type : MessageTypes, path : Texts] /\ toHost' \in Messages
  <2>1. ASSUME NEW S, NEW q \in Seq(S), q # <<>> PROVE Head(q) \in S /\ Tail(q) \in Seq(S)
    BY <2>1
  <2> QED BY <1>1, <1>2, <2>1, Zenon DEF Messages
<1>4. ~open => toHost' = <<>>
  BY <1>1 DEF IInv, InStep
<1> HIDE DEF m
<1>5. ASSUME NEW e, e \in Range(view.rows.list)
      PROVE  e \in Paths /\ view.rows.host \in Hosts
  <2>1. view.rows \in RowSets /\ view.rows # NoRows
    BY <1>2, <1>5 DEF Views, Range, NoRows
  <2>2. view.rows.list \in Seq(Paths) /\ view.rows.host \in Hosts
    BY <2>1 DEF RowSets
  <2> QED BY <1>5, <2>2 DEF Range
<1>6. CASE m.type = "refresh" /\ Refresh(t) /\ UNCHANGED stored
  BY <1>1, <1>2, <1>3, <1>4, <1>6, Refreshing, Concluding DEF stored
<1>7. CASE m.type = "navigate" /\ m.path \in Paths /\ Navigate(t, m.path) /\ UNCHANGED stored
  BY <1>1, <1>2, <1>3, <1>4, <1>7, Steering, Concluding DEF stored
<1>8. CASE /\ m.type = "navigateParent" /\ view.current # Blank /\ Navigate(t, Up[view.current])
           /\ UNCHANGED stored
  <2>1. Up[view.current] \in Paths
    BY <1>2, <1>8, BrowserAssumption DEF Views
  <2> QED BY <1>1, <1>2, <1>3, <1>4, <1>8, <2>1, Steering, Concluding DEF stored
<1>9. CASE m.type = "openEntry" /\ OpenEntry(t, m.path) /\ UNCHANGED stored
  <2>1. CASE Navigate(t, m.path) /\ m.path \in Range(view.rows.list)
    BY <1>1, <1>2, <1>3, <1>4, <1>5, <1>9, <2>1, Steering, Concluding DEF stored
  <2>2. CASE Done(t) /\ UNCHANGED <<view, toPage>>
    <3>1. Head(toHost).type # "refresh"
      BY <1>9 DEF m
    <3>2. Current'
      BY <1>1, <2>2, <3>1, Ignoring
    <3> QED BY <1>1, <1>2, <1>3, <1>9, <3>2, Concluding DEF stored
  <2> QED BY <1>9, <2>1, <2>2 DEF OpenEntry
<1>10. CASE /\ m.type = "addFavorite" /\ AddFavorite(m.path)
            /\ UNCHANGED <<view, toPage, tasks, recents>>
  <2>1. Head(toHost).type # "refresh"
    BY <1>10 DEF m
  <2>2. Current'
    BY <1>1, <1>10, <2>1, Ignoring
  <2>3. favorites' \subseteq Favorites
    <3> DEFINE h == view.rows.host
    <3>1. CASE /\ m.path \in Range(view.rows.list) /\ Kind[h][m.path] \in {"file", "directory"}
               /\ session # NoHost
      <4>1. favorites' = favorites \cup {[host |-> session, path |-> m.path, type |-> Kind[h][m.path]]}
        BY <1>10, <3>1 DEF AddFavorite
      <4>2. session \in Hosts /\ m.path \in Paths
        BY <1>5, <3>1 DEF IInv, Typing, SessionsTyped
      <4> QED BY <1>2, <3>1, <4>1, <4>2 DEF Favorites
    <3>2. CASE favorites' = favorites
      BY <1>2, <3>2
    <3> QED BY <1>10, <3>1, <3>2 DEF AddFavorite
  <2> QED BY <1>1, <1>2, <1>3, <1>10, <2>2, <2>3, Concluding
<1>11. CASE /\ \/ m.type = "navigate" /\ m.path \notin Paths
               \/ m.type = "navigateParent" /\ view.current = Blank
            /\ UNCHANGED <<view, toPage, tasks, stored>>
  <2>1. Head(toHost).type # "refresh"
    BY <1>11 DEF m
  <2>2. Current'
    BY <1>1, <1>11, <2>1, Ignoring
  <2> QED BY <1>1, <1>2, <1>3, <1>11, <2>2, Concluding DEF stored
<1> QED BY <1>1, <1>6, <1>7, <1>8, <1>9, <1>10, <1>11 DEF Handle

\* A command's connect has succeeded, and it navigates.
LEMMA ConnectedStep == ASSUME IInv, NEW t \in Tasks, Connected(t) PROVE IInv'
<1>1. path[t] \in Paths
  BY DEF Connected, IInv, Typing, TasksTyped
<1>2. /\ Navigate(t, path[t]) /\ UNCHANGED <<page, open, toHost, cache, recents, favorites, sessions>>
  BY DEF Connected, stored
<1>3. /\ ~open => toHost' = <<>>
      /\ toHost' \in Messages /\ favorites' \subseteq Favorites
  BY <1>2
  DEF IInv, InStep, Typing, MessagesTyped, StoresTyped, Messages, Favorites
<1>4. Current'
  BY <1>1, <1>2, <1>3, Steering
<1> QED BY <1>2, <1>3, <1>4, Concluding

\* clearHistory and refreshFiles refresh.
LEMMA RefreshStep ==
  ASSUME IInv, NEW t \in Tasks, Refresh(t), UNCHANGED <<page, open, toHost, cache, stored, sessions>>
  PROVE  IInv'
<1>1. UNCHANGED <<page, open, toHost, cache, recents, favorites, sessions>>
  BY DEF stored
<1>2. /\ ~open => toHost' = <<>>
      /\ toHost' \in Messages /\ favorites' \subseteq Favorites
  BY <1>1
  DEF IInv, InStep, Typing, MessagesTyped, StoresTyped, Messages, Favorites
<1>3. Current'
  BY <1>1, <1>2, Refreshing
<1> QED BY <1>1, <1>2, <1>3, Concluding

\* A navigation ends, with the rows it found, with those of the cache or with an error.
LEMMA EndStep ==
  ASSUME IInv, NEW t \in Tasks, pc[t] \in {"failed", "list", "record"},
         \/ Post(view, recents) /\ Done(t)
            /\ UNCHANGED <<page, open, toHost, cache, stored, sessions>>
         \/ Fails(t)
  PROVE  IInv'
<1> DEFINE cached == cache[want[t]][path[t]]
           v1 == [view EXCEPT !.error = "failed"]
           v2 == [view EXCEPT !.rows = cached, !.current = path[t], !.offline = TRUE, !.error = "none"]
<1>1. /\ Done(t) /\ UNCHANGED <<page, open, toHost, cache, recents, favorites, sessions>>
      /\ \/ Post(view, recents)
         \/ cached = NoRows /\ Post(v1, recents)
         \/ cached # NoRows /\ Post(v2, recents)
  BY DEF stored, Fails, Caught
<1>2. /\ want[t] \in Hosts /\ path[t] \in Paths /\ view \in Views
      /\ cached \in RowSets
      /\ cached # NoRows => cached.dir = path[t]
  BY DEF IInv, Typing, TasksTyped, StoresTyped, PlacesAreTrue, CacheIsOfItsPlace
<1> HIDE DEF cached
<1>3. /\ ~open => toHost' = <<>>
      /\ toHost' \in Messages /\ favorites' \subseteq Favorites
  BY <1>1
  DEF IInv, InStep, Typing, MessagesTyped, StoresTyped, Messages, Favorites
<1>4. PICK v : Post(v, recents) /\ (v \in {view, v1} \/ (v = v2 /\ cached # NoRows))
  BY <1>1
<1>5. v1 \in Views /\ v1.rows = view.rows /\ v1.current = view.current /\ v1.lastRoot = view.lastRoot
  BY <1>2 DEF Views, Errors
<1>6. v2 \in Views /\ v2.rows = cached /\ v2.current = path[t]
  BY <1>2 DEF Views, Errors
<1> HIDE DEF v1, v2
<1>7. view.rows # NoRows => view.current = view.rows.dir
  BY DEF IInv, Agreeing
<1>8. v \in Views /\ (v.rows # NoRows => v.current = v.rows.dir)
  BY <1>2, <1>4, <1>5, <1>6, <1>7
<1>9. Sighted => v.current # Blank \/ v.lastRoot # Blank
  BY <1>2, <1>4, <1>5, <1>6, PageAssumption DEF Sighted
<1>10. Current'
  BY <1>1, <1>3, <1>4, <1>8, <1>9, Answering
<1> QED BY <1>1, <1>3, <1>10, Concluding

\* The listing arrives; the page is told when the history is written.
LEMMA ListedStep == ASSUME IInv, NEW t \in Tasks, Listed(t) PROVE IInv'
<1> DEFINE h == want[t]
           p == path[t]
<1>1. h \in Hosts /\ p \in Paths /\ TasksTyped
  BY DEF Listed, IInv, Typing, TasksTyped
<1>2. Answers(t) = h /\ session = h
  BY <1>1, PageAssumption DEF Listed, Hopeless, Answers
<1>3. PICK rows \in Listings(h, p) :
        /\ cache' = [cache EXCEPT ![h][p] = rows]
        /\ view' = [view EXCEPT !.rows = rows, !.current = p, !.offline = FALSE]
  BY <1>2 DEF Listed
<1>4. /\ recents' = [recents EXCEPT ![h] = Recorded(@, p)] /\ Goto(t, "record")
      /\ UNCHANGED <<page, open, toHost, toPage, favorites, session, connecting, lost>>
  BY DEF Listed, sessions
<1> HIDE DEF h, p
<1>5. rows \in RowSets /\ rows # NoRows /\ rows.host = h /\ rows.dir = p
  BY <1>1, <1>3, Listing
<1>6. /\ view \in Views /\ cache \in [Hosts -> [Paths -> RowSets]]
      /\ recents \in [Hosts -> Seq(Paths)]
  BY DEF IInv, Typing, StoresTyped
<1>7. TasksTyped' /\ pc'[t] = "record"
  BY <1>1, <1>4, Going DEF Steps, h, p
<1>8. /\ view' \in Views /\ view'.rows = rows /\ view'.current = p /\ view'.lastRoot = view.lastRoot
  BY <1>1, <1>3, <1>5, <1>6 DEF Views
<1>9. /\ cache' \in [Hosts -> [Paths -> RowSets]]
      /\ cache'[h][p] = rows
      /\ \A g \in Hosts, q \in Paths : cache'[g][q] = cache[g][q] \/ (g = h /\ q = p)
  BY <1>1, <1>3, <1>5, <1>6
<1>10. CacheIsOfItsPlace'
  <2>1. SUFFICES ASSUME NEW g \in Hosts, NEW q \in Paths, cache'[g][q] # NoRows
                 PROVE  cache'[g][q].host = g /\ cache'[g][q].dir = q
    BY DEF CacheIsOfItsPlace
  <2> QED BY <1>5, <1>9, <2>1 DEF IInv, PlacesAreTrue, CacheIsOfItsPlace
<1>11. Distinct(recents[h]) /\ recents[h] \in Seq(Paths)
  BY <1>1, <1>6 DEF IInv, PlacesAreTrue, HistoryIsRecent, Distinct
<1> DEFINE r == Recorded(recents[h], p)
<1>12. /\ r \in Seq(Paths) /\ Len(r) <= HistoryLimit /\ Distinct(r)
       /\ \A k \in DOMAIN r : r[k] = p \/ \E i \in DOMAIN recents[h] : r[k] = recents[h][i]
  BY <1>1, <1>11, Recording
<1>13. /\ recents' \in [Hosts -> Seq(Paths)] /\ recents'[h] = r
       /\ \A g \in Hosts \ {h} : recents'[g] = recents[g]
  BY <1>1, <1>4, <1>6, <1>12
<1> HIDE DEF r
<1>14. HistoryIsRecent'
  <2>1. SUFFICES ASSUME NEW g \in Hosts
                 PROVE  /\ Len(recents'[g]) <= HistoryLimit
                        /\ Distinct(recents'[g])
                        /\ \A i \in DOMAIN recents'[g] : cache'[g][recents'[g][i]] # NoRows
    BY DEF HistoryIsRecent, Distinct
  <2>2. /\ Len(recents[g]) <= HistoryLimit
        /\ Distinct(recents[g])
        /\ \A i \in DOMAIN recents[g] : recents[g][i] \in Paths /\ cache[g][recents[g][i]] # NoRows
    BY <1>6 DEF IInv, PlacesAreTrue, HistoryIsRecent, Distinct
  <2>3. \A q \in Paths : cache[g][q] # NoRows => cache'[g][q] # NoRows
    BY <1>5, <1>9
  <2>4. CASE g # h
    BY <1>13, <2>2, <2>3, <2>4
  <2>5. CASE g = h
    BY <1>1, <1>5, <1>9, <1>12, <1>13, <2>2, <2>3, <2>5
  <2> QED BY <2>4, <2>5
<1>15. Agreeing' /\ Seeing'
  <2>1. Sighted'
    BY <1>1, <1>8, PageAssumption DEF Sighted
  <2> QED BY <1>4, <1>5, <1>8, <2>1 DEF IInv, Agreeing, Seeing
<1>16. InStep'
  <2>1. Telling'
    BY <1>7 DEF Telling, Busy
  <2> QED BY <1>4, <2>1 DEF IInv, InStep
<1>17. PageTyped' /\ MessagesTyped' /\ StoresTyped' /\ SessionsTyped' /\ Drawn'
  BY <1>4, <1>8, <1>9, <1>13
  DEF IInv, Typing, PageTyped, MessagesTyped, StoresTyped, SessionsTyped, Drawn
<1> QED BY <1>7, <1>10, <1>14, <1>15, <1>16, <1>17 DEF IInv, Typing, PlacesAreTrue

-----------------------------------------------------------------------------
(* What happens in the page.                                               *)

\* The page receives a state: it shows that, but for a path that is the user's.
LEMMA DrawStep == ASSUME IInv, Draw PROVE IInv'
<1> DEFINE m == Head(toPage)
<1>1. /\ toPage # <<>> /\ page' = Render(page, m) /\ toPage' = Tail(toPage)
      /\ UNCHANGED <<open, toHost, view, cache, recents, favorites, session, connecting, lost,
                     pc, want, path>>
  BY DEF Draw, stored, sessions, tasks
<1>2. toPage \in Seq(States) /\ page \in Pages /\ open \in BOOLEAN
  BY DEF IInv, Typing, MessagesTyped, PageTyped
<1>3. /\ m = toPage[1] /\ 1 \in DOMAIN toPage /\ m \in States
      /\ toPage' \in Seq(States) /\ Len(toPage') = Len(toPage) - 1 /\ Len(toPage) \in Nat \ {0}
      /\ DOMAIN toPage = 1..Len(toPage) /\ DOMAIN toPage' = 1..(Len(toPage) - 1)
      /\ \A i \in DOMAIN toPage' : i + 1 \in DOMAIN toPage /\ toPage'[i] = toPage[i + 1]
  BY <1>1, <1>2
<1> HIDE DEF m
<1>4. m.rows \in RowSets /\ page.by \in Orderings /\ page.inField \in BOOLEAN
  BY <1>2, <1>3 DEF States, Pages
<1>5. /\ page' \in Pages /\ Focusable(page')
      /\ page'.rows = m.rows /\ page'.by = page.by /\ page'.offline = m.offline
      /\ page'.error = m.error /\ page'.held = page.inField
      /\ page'.field = IF page.inField THEN page.field ELSE m.path
      /\ page'.title = IF page.inField THEN page.title ELSE m.path
      /\ page'.shown = SortEntries(m.rows, page.by)
  BY <1>1, <1>2, <1>3, Showing
<1>6. open
  BY <1>1 DEF IInv, InStep
<1>7. Agreeing'
  <2>1. m.rows # NoRows => m.path = m.rows.dir
    BY <1>3 DEF IInv, Agreeing
  <2>2. \A i \in DOMAIN toPage' :
          toPage'[i].rows # NoRows => toPage'[i].path = toPage'[i].rows.dir
    BY <1>3 DEF IInv, Agreeing
  <2>3. page'.rows # NoRows => page'.held \/ page'.field = page'.rows.dir
    BY <1>5, <2>1
  <2> QED BY <1>1, <2>2, <2>3 DEF IInv, Agreeing
<1>8. InStep'
  <2>1. Telling <=> Telling'
    BY <1>1 DEF Telling
  <2>2. Told => Told'
    <3>1. SUFFICES ASSUME Matches(toPage[Len(toPage)], view) PROVE Told'
      BY <1>1 DEF Told
    <3>2. CASE Len(toPage) = 1
      <4>1. toPage' = <<>>
        BY <1>3, <3>2
      <4>2. Matches(m, view)
        BY <1>3, <3>1, <3>2
      <4> QED BY <1>1, <1>4, <1>5, <4>1, <4>2 DEF Told, Matches
    <3>3. CASE Len(toPage) # 1
      <4>1. toPage' # <<>> /\ toPage'[Len(toPage')] = toPage[Len(toPage)]
        BY <1>3, <3>3
      <4> QED BY <1>1, <3>1, <4>1 DEF Told, Matches
    <3> QED BY <3>2, <3>3
  <2> QED BY <1>1, <1>6, <2>1, <2>2 DEF IInv, InStep
<1>9. Seeing'
  <2>1. Sighted' <=> Sighted
    BY <1>1 DEF Sighted
  <2>2. ASSUME NEW i \in DOMAIN toPage', toPage'[i].path # Blank
        PROVE  Sighted /\ \A j \in DOMAIN toPage' : i < j => toPage'[j].path # Blank
    BY <1>3, <2>2 DEF IInv, Seeing
  <2>3. ASSUME page'.title # Blank
        PROVE  Sighted /\ \A i \in DOMAIN toPage' : toPage'[i].path # Blank
    <3>1. CASE page.inField
      BY <1>3, <1>5, <1>6, <2>3, <3>1 DEF IInv, Seeing
    <3>2. CASE ~page.inField
      <4>1. m.path # Blank
        BY <1>5, <2>3, <3>2
      <4>2. Sighted /\ \A j \in DOMAIN toPage : 1 < j => toPage[j].path # Blank
        BY <1>3, <4>1 DEF IInv, Seeing
      <4> QED BY <1>3, <4>2
    <3> QED BY <3>1, <3>2
  <2> HIDE DEF Sighted
  <2> QED BY <2>1, <2>2, <2>3 DEF Seeing
<1>10. Drawn'
  BY <1>4, <1>5, Drawing DEF Drawn
<1>11. Typing'
  BY <1>1, <1>2, <1>3, <1>5
  DEF IInv, Typing, PageTyped, MessagesTyped, StoresTyped, SessionsTyped, TasksTyped
<1>12. PlacesAreTrue'
  BY <1>1 DEF IInv, PlacesAreTrue, CacheIsOfItsPlace, HistoryIsRecent
<1> QED BY <1>7, <1>8, <1>9, <1>10, <1>11, <1>12 DEF IInv

\* What the user does in the page leaves what it was told alone, or makes the field the user's.
Edits == \E new \in Pages, posts \in Messages :
           Focusable(new) /\ SameState(new, page) /\ Does(new, posts)

LEMMA EditStep == ASSUME IInv, Edits PROVE IInv'
<1> PICK new \in Pages, posts \in Messages :
           Focusable(new) /\ SameState(new, page) /\ Does(new, posts)
  BY DEF Edits
<1>1. /\ open /\ page' = new /\ toHost' = toHost \o posts
      /\ UNCHANGED <<open, toPage, view, cache, recents, favorites, session, connecting, lost,
                     pc, want, path>>
  BY DEF Does, stored, sessions, tasks
<1>2. /\ toHost \in Messages /\ page \in Pages
  BY DEF IInv, Typing, MessagesTyped, PageTyped, Messages
<1>3. /\ toHost' \in Messages /\ \A i \in DOMAIN toHost : i \in DOMAIN toHost' /\ toHost'[i] = toHost[i]
  BY <1>1, <1>2 DEF Messages
<1>4. Typing'
  BY <1>1, <1>3
  DEF IInv, Typing, PageTyped, MessagesTyped, StoresTyped, SessionsTyped, TasksTyped, Messages
<1>5. Agreeing' /\ Seeing'
  BY <1>1 DEF IInv, Agreeing, Seeing, Sighted, SameState
<1>6. InStep'
  <2>1. Telling => Telling'
    BY <1>1, <1>3 DEF Telling
  <2>2. Told => Told'
    BY <1>1 DEF Told, Matches, SameState
  <2> QED BY <1>1, <2>1, <2>2 DEF IInv, InStep
<1>7. Drawn'
  <2>1. page.rows \in RowSets /\ new.by \in Orderings /\ new.rows = page.rows
    BY <1>2 DEF Pages, SameState
  <2>2. CASE new.shown = page.shown /\ new.by = page.by
    BY <1>1, <2>1, <2>2 DEF IInv, Drawn
  <2>3. CASE new.shown = SortEntries(new.rows, new.by)
    BY <1>1, <2>1, <2>3, Drawing DEF Drawn
  <2> QED BY <2>2, <2>3 DEF SameState
<1>8. PlacesAreTrue'
  BY <1>1 DEF IInv, PlacesAreTrue, CacheIsOfItsPlace, HistoryIsRecent
<1> QED BY <1>4, <1>5, <1>6, <1>7, <1>8 DEF IInv

\* Messages as the page posts them.
LEMMA Posts ==
  ASSUME NEW type \in MessageTypes, NEW p \in Texts
  PROVE  <<>> \in Messages /\ Message(type, p) \in Messages
BY DEF Message, Messages

LEMMA FieldEdits == ASSUME IInv, InField PROVE Edits
<1>1. /\ page \in Pages /\ Focusable(page) /\ SameState(page, page) /\ page.field \in Texts
      /\ \A p \in Range(page.recent) : p \in Texts
  BY DEF IInv, Typing, PageTyped, Pages, SameState, Range, Texts
<1>2. Typed \subseteq Texts /\ Blank \in Texts
  BY BrowserAssumption DEF Texts
<1>3. <<>> \in Messages /\ RefreshMessage \in Messages
      /\ \A p \in Texts : Message("navigate", p) \in Messages
  BY <1>2, Posts DEF RefreshMessage, MessageTypes
<1>4. ASSUME NEW new \in {EnterField(page), Blur(page)}
             \cup {Type(page, x) : x \in Texts} \cup {Blur(Type(page, x)) : x \in Texts}
      PROVE  new \in Pages /\ Focusable(new) /\ SameState(new, page)
  BY <1>1, <1>2, Typewriting
<1>5. \E new \in {EnterField(page), Blur(page)}
             \cup {Type(page, x) : x \in Texts} \cup {Blur(Type(page, x)) : x \in Texts},
         posts \in Messages : Does(new, posts)
  BY <1>1, <1>2, <1>3, Zenon DEF InField
<1> QED BY <1>4, <1>5 DEF Edits

LEMMA RowsEdits == ASSUME IInv, InRows PROVE Edits
<1>1. /\ page \in Pages /\ Focusable(page) /\ SameState(page, page)
      /\ page.shown \in Seq(Paths) /\ Len(page.shown) \in Nat
      /\ page.focused \in Nat /\ page.tabbable \in Nat
  BY DEF IInv, Typing, PageTyped, Pages, SameState
<1>2. <<>> \in Messages /\ Message("navigateParent", Blank) \in Messages
      /\ \A p \in Paths : /\ Message("openEntry", p) \in Messages
                          /\ Message("addFavorite", p) \in Messages
  BY Posts DEF MessageTypes, Texts
<1>3. CASE \E i \in DOMAIN page.shown :
             LET e == page.shown[i] IN
             \/ Does(FocusRow(page, i), <<>>)
             \/ Does(FocusRow(page, i), Message("openEntry", e))
             \/ Does(Focus(page, i), IF Kind[page.rows.host][e] \in {"file", "directory"}
                                     THEN Message("addFavorite", e) ELSE <<>>)
  <2>1. PICK i \in DOMAIN page.shown :
          LET e == page.shown[i] IN
          \/ Does(FocusRow(page, i), <<>>)
          \/ Does(FocusRow(page, i), Message("openEntry", e))
          \/ Does(Focus(page, i), IF Kind[page.rows.host][e] \in {"file", "directory"}
                                  THEN Message("addFavorite", e) ELSE <<>>)
    BY <1>3
  <2>2. i \in Int /\ page.shown[i] \in Paths
    BY <1>1
  <2>3. /\ FocusRow(page, i) \in Pages /\ Focusable(FocusRow(page, i))
        /\ SameState(FocusRow(page, i), page)
        /\ Focus(page, i) \in Pages /\ Focusable(Focus(page, i)) /\ SameState(Focus(page, i), page)
    BY <1>1, <2>2, Focusing, FocusingRow
  <2>4. \E new \in {FocusRow(page, i), Focus(page, i)}, posts \in Messages : Does(new, posts)
    BY <1>2, <2>1, <2>2, Zenon
  <2> QED BY <2>3, <2>4 DEF Edits
<1>4. CASE page.inRow # 0 /\ \E i \in Moves(page) : Does(FocusRow(page, i), <<>>)
  <2>1. PICK i \in Moves(page) : Does(FocusRow(page, i), <<>>)
    BY <1>4
  <2>2. i \in Int
    BY <1>1 DEF Moves
  <2> QED BY <1>1, <1>2, <2>1, <2>2, FocusingRow DEF Edits
<1>5. CASE page.inRow # 0 /\ Does(page, Message("openEntry", page.shown[page.focused]))
  <2>1. page.shown # <<>> /\ page.focused \in 1..AtLeast1(Len(page.shown))
    BY <1>1, <1>5 DEF Focusable
  <2>2. page.shown[page.focused] \in Paths
    BY <1>1, <2>1 DEF AtLeast1
  <2> QED BY <1>1, <1>2, <1>5, <2>2 DEF Edits
<1>6. CASE page.inRow # 0 /\ Does(page, Message("navigateParent", Blank))
  BY <1>1, <1>2, <1>6 DEF Edits
<1>7. CASE page.shown # <<>> /\ Does(Focus(page, page.tabbable), <<>>)
  <2>1. page.tabbable \in 1..AtLeast1(Len(page.shown))
    BY <1>1 DEF Focusable
  <2>2. page.tabbable \in DOMAIN page.shown
    BY <1>1, <1>7, <2>1 DEF AtLeast1
  <2> QED BY <1>1, <1>2, <1>7, <2>2, Focusing DEF Edits
<1> QED BY <1>3, <1>4, <1>5, <1>6, <1>7 DEF InRows

LEMMA ButtonsEdit == ASSUME IInv, Buttons PROVE Edits
<1>1. page \in Pages /\ Focusable(page) /\ Blank \in Texts
  BY DEF IInv, Typing, PageTyped, Texts
<1>2. <<>> \in Messages /\ Message("navigateParent", Blank) \in Messages
  BY <1>1, Posts DEF MessageTypes
<1> DEFINE left == [page EXCEPT !.inField = FALSE, !.inRow = 0]
<1>3. left \in Pages /\ Focusable(left) /\ SameState(left, page)
  BY <1>1, Typewriting
<1>4. \A key \in {"name", "size"} :
        /\ ClickSort(page, key) \in Pages /\ Focusable(ClickSort(page, key))
        /\ SameState(ClickSort(page, key), page)
  BY <1>1, Sorting
<1>5. \/ Does(left, Message("navigateParent", Blank))
      \/ \E key \in {"name", "size"} : Does(ClickSort(page, key), <<>>)
  BY DEF Buttons
<1> HIDE DEF left
<1> QED BY <1>2, <1>3, <1>4, <1>5 DEF Edits

\* The page is loaded and asks for a refresh, or is closed.
LEMMA ResolveStep == ASSUME IInv, Resolve PROVE IInv'
<1>1. /\ ~open /\ open' = TRUE /\ page' = NewPage(page.by) /\ toHost' = RefreshMessage
      /\ UNCHANGED <<toPage, view, cache, recents, favorites, session, connecting, lost,
                     pc, want, path>>
  BY DEF Resolve, stored, sessions, tasks
<1>2. page' \in Pages /\ Focusable(page')
  BY <1>1, Loading DEF IInv, Typing, PageTyped, Pages
<1>3. /\ page'.rows = NoRows /\ page'.title = Blank /\ page'.shown = <<>>
      /\ toPage' = <<>>
  BY <1>1 DEF NewPage, IInv, InStep
<1>4. toHost' \in Messages /\ 1 \in DOMAIN toHost' /\ toHost'[1].type = "refresh"
  <2>1. RefreshMessage \in Messages
    BY Posts DEF RefreshMessage, MessageTypes, Texts
  <2>2. 1 \in DOMAIN RefreshMessage /\ RefreshMessage[1].type = "refresh"
    BY DEF RefreshMessage, Message
  <2> QED BY <1>1, <2>1, <2>2
<1>5. Typing'
  BY <1>1, <1>2, <1>4
  DEF IInv, Typing, PageTyped, MessagesTyped, StoresTyped, SessionsTyped, TasksTyped, Messages
<1>6. Agreeing' /\ Seeing' /\ InStep' /\ Drawn'
  BY <1>1, <1>3, <1>4 DEF IInv, Agreeing, Seeing, InStep, Telling, Drawn
<1>7. PlacesAreTrue'
  BY <1>1 DEF IInv, PlacesAreTrue, CacheIsOfItsPlace, HistoryIsRecent
<1> QED BY <1>5, <1>6, <1>7 DEF IInv

LEMMA CloseStep == ASSUME IInv, Close PROVE IInv'
<1>1. /\ open' = FALSE /\ toHost' = <<>> /\ toPage' = <<>>
      /\ UNCHANGED <<page, view, cache, recents, favorites, session, connecting, lost,
                     pc, want, path>>
  BY DEF Close, stored, sessions, tasks
<1>2. Typing'
  <2>1. toHost' \in Messages /\ toPage' \in Seq(States)
    BY <1>1 DEF Messages
  <2> QED BY <1>1, <2>1
  DEF Messages, IInv, Typing, PageTyped, MessagesTyped, StoresTyped, SessionsTyped, TasksTyped
<1>3. Agreeing' /\ Seeing' /\ InStep' /\ Drawn'
  BY <1>1 DEF IInv, Agreeing, Seeing, InStep, Drawn
<1>4. PlacesAreTrue'
  BY <1>1 DEF IInv, PlacesAreTrue, CacheIsOfItsPlace, HistoryIsRecent
<1> QED BY <1>2, <1>3, <1>4 DEF IInv

-----------------------------------------------------------------------------
(* What happens to the session.                                            *)

\* Whatever happens elsewhere: no handler that has something to tell forgets it.
LEMMA Elsewhere ==
  ASSUME IInv, UNCHANGED <<page, open, toHost, toPage, view, cache, favorites>>,
         recents' \in [Hosts -> Seq(Paths)], \A h \in Hosts : recents'[h] \in {<<>>, recents[h]},
         SessionsTyped', TasksTyped', \A t \in Tasks : pc[t] \in Busy => pc'[t] \in Busy
  PROVE  IInv'
<1>1. Typing'
  BY DEF IInv, Typing, PageTyped, MessagesTyped, StoresTyped
<1>2. Agreeing' /\ Seeing' /\ Drawn'
  BY DEF IInv, Agreeing, Seeing, Sighted, Drawn
<1>3. InStep'
  <2>1. Telling => Telling'
    BY DEF Telling
  <2>2. Told => Told'
    BY DEF Told, Matches
  <2> QED BY <2>1, <2>2 DEF IInv, InStep
<1>4. CacheIsOfItsPlace'
  BY DEF IInv, PlacesAreTrue, CacheIsOfItsPlace
<1>5. HistoryIsRecent'
  <2>1. SUFFICES ASSUME NEW h \in Hosts
                 PROVE  /\ Len(recents'[h]) <= HistoryLimit
                        /\ \A i, j \in DOMAIN recents'[h] : i # j => recents'[h][i] # recents'[h][j]
                        /\ \A i \in DOMAIN recents'[h] : cache'[h][recents'[h][i]] # NoRows
    BY DEF HistoryIsRecent
  <2>2. CASE recents'[h] = recents[h]
    BY <2>2 DEF IInv, PlacesAreTrue, HistoryIsRecent
  <2>3. CASE recents'[h] = <<>>
    BY <2>3, StoresAssumption
  <2> QED BY <2>2, <2>3
<1> QED BY <1>1, <1>2, <1>3, <1>4, <1>5 DEF IInv, PlacesAreTrue

LEMMA Remembered ==
  ASSUME IInv, UNCHANGED stored
  PROVE  /\ UNCHANGED favorites /\ recents' \in [Hosts -> Seq(Paths)]
         /\ \A h \in Hosts : recents'[h] \in {<<>>, recents[h]}
BY DEF stored, IInv, Typing, StoresTyped

\* The hosts that a handler or a session may be for.
LEMMA Engaged == IInv => SessionsTyped /\ TasksTyped
BY DEF IInv, Typing

LEMMA RequireStep == ASSUME IInv, NEW t \in Tasks, Require(t) PROVE IInv'
<1>1. SessionsTyped /\ TasksTyped /\ pc[t] = "require"
  BY Engaged DEF Require
<1>2. /\ want[t] \in Hosts /\ path[t] \in Paths
  BY <1>1 DEF TasksTyped
<1>3. PICK step \in {"list", "waiting", "failed"} : Goto(t, step)
  BY DEF Require
<1>4. TasksTyped' /\ \A u \in Tasks : pc[u] \in Busy => pc'[u] \in Busy
  BY <1>1, <1>2, <1>3, Going DEF Busy, Steps
<1>5. SessionsTyped'
  BY <1>1 DEF Require, SessionsTyped
<1> QED BY <1>4, <1>5, Remembered, Elsewhere DEF Require

LEMMA EstablishStep ==
  ASSUME IInv, NEW h \in Hosts, Establish(h), UNCHANGED lost PROVE IInv'
<1>1. SessionsTyped' /\ TasksTyped' /\ \A u \in Tasks : pc[u] \in Busy => pc'[u] \in Busy
  BY Engaged DEF Establish, SessionsTyped, TasksTyped, tasks
<1> QED BY <1>1, Remembered, Elsewhere DEF Establish

\* A handler that waits for the session hears how it went.
LEMMA SettleStep ==
  ASSUME IInv, NEW granted \in {"granted", "failed"}, NEW refused \in {"connected", "rejected"},
         Settle(granted, refused), session' \in Hosts \cup {NoHost}, lost' \in Hosts \cup {NoHost}
  PROVE  IInv'
<1>1. TasksTyped /\ UNCHANGED <<want, path>>
  BY Engaged DEF Settle
<1>2. ASSUME NEW t \in Tasks
      PROVE  /\ pc'[t] \in Steps
             /\ pc[t] \in Busy => pc'[t] \in Busy
             /\ pc'[t] \in {"idle", "cleared"} => pc'[t] = pc[t]
  BY <1>1 DEF Settle, TasksTyped, Busy, Steps
<1>3. TasksTyped'
  BY <1>1, <1>2 DEF TasksTyped, Settle
<1>4. SessionsTyped'
  BY DEF Settle, SessionsTyped
<1> QED BY <1>2, <1>3, <1>4, Remembered, Elsewhere DEF Settle

LEMMA CallStep ==
  ASSUME IInv, NEW t \in Tasks, pc[t] = "idle", NEW step \in {"connect", "connected"},
         NEW h \in Hosts, NEW p \in Paths, Call(t, step, h, p)
  PROVE  IInv'
<1>1. TasksTyped /\ SessionsTyped
  BY Engaged
<1>2. TasksTyped' /\ \A u \in Tasks : pc[u] \in Busy => pc'[u] \in Busy
  BY <1>1, Moving DEF Call, Busy, Steps
<1>3. SessionsTyped'
  BY <1>1 DEF Call, SessionsTyped
<1> QED BY <1>2, <1>3, Remembered, Elsewhere DEF Call

LEMMA ClearHistoryStep == ASSUME IInv, NEW t \in Tasks, ClearHistory(t) PROVE IInv'
<1>1. TasksTyped /\ SessionsTyped /\ recents \in [Hosts -> Seq(Paths)]
  BY DEF IInv, Typing, StoresTyped
<1>2. /\ pc[t] = "idle" /\ pc' = [pc EXCEPT ![t] = "cleared"]
      /\ UNCHANGED <<page, open, toHost, toPage, view, cache, favorites,
                     session, connecting, lost, want, path>>
      /\ recents' = [h \in Hosts |-> IF session \in {h, NoHost} THEN <<>> ELSE recents[h]]
  BY DEF ClearHistory, sessions
<1>3. TasksTyped' /\ \A u \in Tasks : pc[u] \in Busy => pc'[u] \in Busy
  BY <1>1, <1>2 DEF TasksTyped, Busy, Steps
<1>4. SessionsTyped'
  BY <1>1, <1>2 DEF SessionsTyped
<1>5. recents' \in [Hosts -> Seq(Paths)] /\ \A h \in Hosts : recents'[h] \in {<<>>, recents[h]}
  BY <1>1, <1>2
<1> QED BY <1>2, <1>3, <1>4, <1>5, Elsewhere

-----------------------------------------------------------------------------
LEMMA InitIInv == Init => IInv
<1> SUFFICES ASSUME Init PROVE IInv
  OBVIOUS
<1>1. page = NewPage([key |-> "name", up |-> TRUE]) /\ [key |-> "name", up |-> TRUE] \in Orderings
  BY DEF Init, Orderings
<1>2. page \in Pages /\ Focusable(page)
  BY <1>1, Loading
<1>3. page.rows = NoRows /\ page.title = Blank /\ page.shown = <<>>
  BY <1>1 DEF NewPage
<1>4. /\ NoRows \in RowSets /\ <<>> \in Messages /\ <<>> \in Seq(States) /\ <<>> \in Seq(Paths)
  BY DEF RowSets, Messages
<1>5. /\ view \in Views /\ view.rows = NoRows
  BY <1>4 DEF Init, Views, Errors
<1>6. PageTyped /\ MessagesTyped /\ SessionsTyped
  BY <1>2, <1>4 DEF Init, PageTyped, MessagesTyped, SessionsTyped, Messages
<1>7. StoresTyped /\ TasksTyped
  BY <1>4, <1>5 DEF Init, StoresTyped, TasksTyped, Steps
<1>8. Agreeing /\ InStep /\ Seeing /\ Drawn
  BY <1>3, <1>5 DEF Init, Agreeing, InStep, Seeing, Drawn
<1>9. PlacesAreTrue
  BY StoresAssumption DEF Init, PlacesAreTrue, CacheIsOfItsPlace, HistoryIsRecent
<1> QED BY <1>6, <1>7, <1>8, <1>9 DEF IInv, Typing

LEMMA StutterStep == ASSUME IInv, UNCHANGED vars PROVE IInv'
<1>1. SessionsTyped' /\ TasksTyped' /\ \A t \in Tasks : pc[t] \in Busy => pc'[t] \in Busy
  BY Engaged DEF vars, sessions, tasks, SessionsTyped, TasksTyped
<1> QED BY <1>1, Remembered, Elsewhere DEF vars

LEMMA StepIInv == IInv /\ [Next]_vars => IInv'
<1> SUFFICES ASSUME IInv, [Next]_vars PROVE IInv'
  OBVIOUS
<1>1. ASSUME NEW t \in Tasks, Advance(t) PROVE IInv'
  <2>1. CASE Receive(t)
    BY <2>1, ReceiveStep
  <2>2. CASE Require(t)
    BY <2>2, RequireStep
  <2>3. CASE Attempt(t)
    <3>1. want[t] \in Hosts
      BY <2>3, Engaged DEF Attempt, TasksTyped
    <3> QED BY <2>3, <3>1, EstablishStep DEF Attempt
  <2>4. CASE Grant(t)
    <3>1. pc[t] = "granted" /\ TasksTyped /\ SessionsTyped
      BY <2>4, Engaged DEF Grant
    <3>2. TasksTyped' /\ \A u \in Tasks : pc[u] \in Busy => pc'[u] \in Busy
      BY <2>4, <3>1, Going DEF Grant, Busy, Steps, TasksTyped
    <3>3. SessionsTyped'
      BY <2>4, <3>1 DEF Grant, sessions, SessionsTyped
    <3> QED BY <2>4, <3>2, <3>3, Remembered, Elsewhere DEF Grant, stored
  <2>5. CASE Connected(t)
    BY <2>5, ConnectedStep
  <2>6. CASE Rejected(t)
    <3>1. pc[t] = "rejected" /\ TasksTyped /\ SessionsTyped
      BY <2>6, Engaged DEF Rejected
    <3>2. TasksTyped' /\ \A u \in Tasks : pc[u] \in Busy => pc'[u] \in Busy
      BY <2>6, <3>1, Returning DEF Rejected, Busy
    <3>3. SessionsTyped'
      BY <2>6, <3>1 DEF Rejected, sessions, SessionsTyped
    <3> QED BY <2>6, <3>2, <3>3, Remembered, Elsewhere DEF Rejected, stored
  <2>7. CASE Listed(t)
    BY <2>7, ListedStep
  <2>8. CASE Failed(t)
    BY <2>8, EndStep DEF Failed
  <2>9. CASE RecordedIt(t)
    BY <2>9, EndStep DEF RecordedIt
  <2>10. CASE Cleared(t)
    BY <2>10, RefreshStep DEF Cleared
  <2> QED BY <1>1, <2>1, <2>2, <2>3, <2>4, <2>5, <2>6, <2>7, <2>8, <2>9, <2>10 DEF Advance
<1>2. ASSUME NEW t \in Tasks, RefreshFiles(t) PROVE IInv'
  BY <1>2, RefreshStep DEF RefreshFiles
<1>3. ASSUME NEW t \in Tasks, ClearHistory(t) PROVE IInv'
  BY <1>3, ClearHistoryStep
<1>4. ASSUME NEW t \in Tasks, NEW h \in Hosts, ConnectTo(t, h) PROVE IInv'
  <2>1. Root[h] \in Paths
    BY BrowserAssumption
  <2> QED BY <1>4, <2>1, CallStep DEF ConnectTo
<1>5. ASSUME NEW t \in Tasks, NEW f \in favorites, OpenFavorite(t, f) PROVE IInv'
  <2>1. f.host \in Hosts /\ f.path \in Paths
    BY DEF IInv, Typing, StoresTyped
  <2>2. PICK step \in {"connect", "connected"} : Call(t, step, f.host, f.path)
    BY <1>5 DEF OpenFavorite
  <2> QED BY <1>5, <2>1, <2>2, CallStep DEF OpenFavorite
<1>6. CASE Connects
  <2>1. connecting \in Hosts \cup {NoHost}
    BY Engaged DEF SessionsTyped
  <2> QED BY <1>6, <2>1, SettleStep DEF Connects
<1>7. CASE Refused
  <2>1. session \in Hosts \cup {NoHost} /\ lost \in Hosts \cup {NoHost}
    BY Engaged DEF SessionsTyped
  <2> QED BY <1>7, <2>1, SettleStep DEF Refused
<1>8. CASE Reconnect
  <2>1. lost \in Hosts
    BY <1>8, Engaged DEF Reconnect, SessionsTyped
  <2> QED BY <1>8, <2>1, EstablishStep DEF Reconnect
<1>9. CASE Drop \/ Disconnect
  <2>1. SessionsTyped' /\ TasksTyped' /\ \A t \in Tasks : pc[t] \in Busy => pc'[t] \in Busy
    BY <1>9, Engaged DEF Drop, Disconnect, SessionsTyped, tasks, TasksTyped
  <2> QED BY <1>9, <2>1, Remembered, Elsewhere DEF Drop, Disconnect, stored
<1>10. CASE Draw
  BY <1>10, DrawStep
<1>11. CASE InField
  BY <1>11, FieldEdits, EditStep
<1>12. CASE InRows
  BY <1>12, RowsEdits, EditStep
<1>13. CASE Buttons
  BY <1>13, ButtonsEdit, EditStep
<1>14. CASE Resolve
  BY <1>14, ResolveStep
<1>15. CASE Close
  BY <1>15, CloseStep
<1>16. CASE UNCHANGED vars
  BY <1>16, StutterStep
<1> QED BY <1>1, <1>2, <1>3, <1>4, <1>5, <1>6, <1>7, <1>8, <1>9, <1>10, <1>11, <1>12, <1>13,
           <1>14, <1>15, <1>16 DEF Next

\* The invariant holds from the start and after every step.
THEOREM Invariance == Spec => []IInv
BY InitIInv, StepIInv, PTL DEF Spec

-----------------------------------------------------------------------------
\* Every variable keeps its type: pages, messages, stores, sessions and handlers are of the
\* shapes that the code gives them, the row with the keyboard is a row there is, and a handler
\* that is on its way knows its host and its directory.
THEOREM TypesHold == Spec => []Typing
<1>1. IInv => Typing
  BY DEF IInv
<1> QED BY <1>1, Invariance, PTL

\* Rows that are kept for a path are the rows of that path on that host, and the history holds
\* no directory twice, none that was never listed and no more than its limit.
THEOREM PlacesAreTrueHolds == Spec => []PlacesAreTrue
<1>1. IInv => PlacesAreTrue
  BY DEF IInv
<1> QED BY <1>1, Invariance, PTL

\* When nothing is on its way, the page shows what the extension holds.
THEOREM PanelInStepHolds == Spec => []PanelInStep
<1>1. IInv => PanelInStep
  <2> SUFFICES ASSUME IInv, Settled
               PROVE  /\ page.rows = view.rows
                      /\ page.offline = view.offline /\ page.error = view.error
                      /\ page.held \/ view.current \in {Blank, page.field}
    BY DEF PanelInStep
  <2>1. ~Telling
    BY DEF Settled, Telling, Busy
  <2> QED BY <2>1 DEF IInv, InStep, Told, Settled
<1> QED BY <1>1, Invariance, PTL

\* The path field shows the directory of the rows beneath it, unless it is the user's.
THEOREM BarAgreesWithRowsHolds == Spec => []BarAgreesWithRows
<1>1. IInv => BarAgreesWithRows
  BY DEF IInv, Agreeing, BarAgreesWithRows
<1> QED BY <1>1, Invariance, PTL

\* What is shown depends on the entries and the chosen order only, if no two names in a
\* directory are the same to localeCompare.
THEOREM RowsInOrderHolds == ASSUME NamesDiffer PROVE Spec => []RowsInOrder
<1>1. ASSUME NEW a, NEW b, a = <<a[1], a[2], a[3], a[4]>>, b = <<b[1], b[2], b[3], b[4]>>,
             \/ a[1] < b[1]
             \/ a[1] = b[1] /\ a[2] < b[2]
             \/ a[1] = b[1] /\ a[2] = b[2] /\ a[3] < b[3]
             \/ a[1] = b[1] /\ a[2] = b[2] /\ a[3] = b[3] /\ a[4] < b[4]
      PROVE  Before(a, b)
  <2>1. 1..(1 - 1) = {} /\ 1..(2 - 1) = {1} /\ 1..(3 - 1) = {1, 2} /\ 1..(4 - 1) = {1, 2, 3}
    OBVIOUS
  <2>2. CASE a[1] < b[1]
    BY <2>1, <2>2 DEF Before
  <2>3. CASE a[1] = b[1] /\ a[2] < b[2]
    BY <2>1, <2>3 DEF Before
  <2>4. CASE a[1] = b[1] /\ a[2] = b[2] /\ a[3] < b[3]
    BY <2>1, <2>4 DEF Before
  <2>5. CASE a[1] = b[1] /\ a[2] = b[2] /\ a[3] = b[3] /\ a[4] < b[4]
    BY <2>1, <2>5 DEF Before
  <2> QED BY <1>1, <2>2, <2>3, <2>4, <2>5
<1>2. ASSUME NEW e
      PROVE  Rank(e) = <<Group(page.rows.host, e), Key(page.by, e), Coarse[e], Fine[e]>>
  BY DEF Rank, Key
<1>3. IInv => RowsInOrder
  <2> SUFFICES ASSUME IInv, NEW i \in DOMAIN page.shown, NEW j \in DOMAIN page.shown, i < j
               PROVE  Before(Rank(page.shown[i]), Rank(page.shown[j]))
    BY DEF RowsInOrder
  <2>1. Ahead(page.rows.host, page.by, page.shown[i], page.shown[j])
    BY NamesDiffer DEF IInv, Drawn
  <2> QED BY <1>1, <1>2, <2>1 DEF Ahead
<1> QED BY <1>3, Invariance, PTL

\* A page that has shown a path does not go blank.
THEOREM NeverBlankHolds == Spec => NeverBlank
<1> DEFINE A == page.title # Blank /\ open /\ open' => page'.title # Blank
<1>1. IInv /\ [Next]_vars => [A]_vars
  <2> SUFFICES ASSUME IInv, Next, page.title # Blank, open, open' PROVE page'.title # Blank
    OBVIOUS
  <2>1. CASE UNCHANGED page
    BY <2>1
  <2>2. CASE Draw
    <3> DEFINE m == Head(toPage)
    <3>1. page' = Render(page, m) /\ toPage # <<>> /\ toPage \in Seq(States) /\ page \in Pages
      BY <2>2 DEF Draw, IInv, Typing, MessagesTyped, PageTyped
    <3>2. m \in States /\ m.path # Blank
      BY <3>1 DEF IInv, Seeing
    <3> HIDE DEF m
    <3> QED BY <3>1, <3>2, Showing
  <2>3. CASE Edits
    BY <2>3 DEF Edits, Does, SameState
  <2>4. ~Resolve
    BY DEF Resolve
  <2>5. UNCHANGED page \/ Draw \/ Edits
    BY <2>4, FieldEdits, RowsEdits, ButtonsEdit
    DEF Next, Advance, Receive, Require, Attempt, Establish, Grant, Connected, Rejected, Listed,
        Failed, Fails, RecordedIt, Cleared, RefreshFiles, ClearHistory, ConnectTo, OpenFavorite,
        Call, Connects, Refused, Settle, Reconnect, Drop, Disconnect, Close
  <2> QED BY <2>1, <2>2, <2>3, <2>5
<1>2. Spec => [][A]_vars
  BY <1>1, Invariance, PTL DEF Spec
<1> QED BY <1>2 DEF NeverBlank
=============================================================================
