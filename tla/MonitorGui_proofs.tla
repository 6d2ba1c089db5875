------------------------- MODULE MonitorGui_proofs --------------------------
(***************************************************************************)
(* The pending table of the GUI agrees with what is active at the server,  *)
(* for every number of vehicles, photographs and threads of the pool.      *)
(***************************************************************************)
EXTENDS MonitorGui, FiniteSetTheorems, SequenceTheorems,
        WellFoundedInduction, TLAPS

LEMMA MinExists ==
  ASSUME NEW S, S \subseteq Nat, S # {}
  PROVE  \E c \in S : \A d \in S : c <= d
<1> DEFINE T == {0 .. c : c \in S}
<1>1. T \subseteq FiniteSubsetsOf(Nat) /\ T # {}
  <2>1. \A c \in S : c \in Nat /\ IsFiniteSet(0 .. c) /\ (0 .. c) \subseteq Nat
    BY FS_Interval
  <2> QED BY <2>1 DEF FiniteSubsetsOf
<1>2. PICK x \in T : \A y \in T : <<y, x>> \notin StrictSubsetOrdering(Nat)
  BY <1>1, FS_StrictSubsetOrderingWellFounded, WFMin
<1>3. PICK c \in S : x = 0 .. c
  OBVIOUS
<1>4. \A d \in S : c <= d
  <2> SUFFICES ASSUME NEW d \in S, d < c PROVE FALSE
    OBVIOUS
  <2>1. 0 .. d \subseteq Nat /\ 0 .. c \subseteq Nat /\ 0 .. d \subseteq 0 .. c /\ 0 .. d # 0 .. c
    OBVIOUS
  <2>2. <<0 .. d, 0 .. c>> \in StrictSubsetOrdering(Nat)
    BY <2>1 DEF StrictSubsetOrdering
  <2> QED BY <1>2, <1>3, <2>2
<1> QED BY <1>4

LEMMA OddNext ==
  ASSUME NEW n \in Nat
  PROVE  (n + 1) % 2 = 1 <=> ~(n % 2 = 1)
OBVIOUS

\* Where slot k of a sequence without element i comes from.
Skip(i, k) == IF k < i THEN k ELSE k + 1

LEMMA RemovedIs ==
  ASSUME NEW S, NEW s \in Seq(S), NEW i \in 1 .. Len(s)
  PROVE  /\ RemoveAt(s, i) \in Seq(S)
         /\ Len(RemoveAt(s, i)) = Len(s) - 1
         /\ \A k \in 1 .. Len(s) - 1 : /\ Skip(i, k) \in 1 .. Len(s)
                                       /\ RemoveAt(s, i)[k] = s[Skip(i, k)]
<1> DEFINE a == SubSeq(s, 1, i - 1)
           b == SubSeq(s, i + 1, Len(s))
<1>1. Len(s) \in Nat /\ i \in Nat /\ i >= 1 /\ i <= Len(s)
  OBVIOUS
<1>2. a \in Seq(S) /\ Len(a) = i - 1 /\ \A k \in 1 .. i - 1 : a[k] = s[k]
  BY <1>1, SubSeqProperties
<1>3. b \in Seq(S) /\ Len(b) = Len(s) - i /\ \A k \in 1 .. Len(s) - i : b[k] = s[i + k]
  BY <1>1, SubSeqProperties
<1>4. RemoveAt(s, i) = a \o b
  BY DEF RemoveAt
<1> HIDE DEF a, b
<1>5. a \o b \in Seq(S) /\ Len(a \o b) = Len(s) - 1
  <2>1. a \o b \in Seq(S) /\ Len(a \o b) = Len(a) + Len(b)
    BY <1>2, <1>3, ConcatProperties
  <2>2. (i - 1) + (Len(s) - i) = Len(s) - 1
    BY <1>1
  <2> QED BY <1>2, <1>3, <2>1, <2>2
<1>6. \A k \in 1 .. Len(s) - 1 : (a \o b)[k] = IF k <= i - 1 THEN a[k] ELSE b[k - (i - 1)]
  BY <1>1, <1>2, <1>3, ConcatProperties
<1>7. ASSUME NEW k \in 1 .. Len(s) - 1
      PROVE  Skip(i, k) \in 1 .. Len(s) /\ (a \o b)[k] = s[Skip(i, k)]
  <2>1. k \in Nat /\ k >= 1 /\ k <= Len(s) - 1
    BY <1>1
  <2>2. CASE k < i
    BY <1>1, <1>2, <1>6, <2>1, <2>2 DEF Skip
  <2>3. CASE ~(k < i)
    <3>1. k - (i - 1) \in 1 .. Len(s) - i /\ i + (k - (i - 1)) = k + 1
      BY <1>1, <2>1, <2>3
    <3>2. (a \o b)[k] = b[k - (i - 1)] /\ Skip(i, k) = k + 1
      <4>1. ~(k <= i - 1)
        BY <1>1, <2>1, <2>3
      <4>2. (a \o b)[k] = b[k - (i - 1)]
        BY <1>6, <4>1
      <4>3. Skip(i, k) = k + 1
        BY <2>3 DEF Skip
      <4> QED BY <4>2, <4>3
    <3> QED BY <1>1, <1>3, <2>1, <3>1, <3>2
  <2> QED BY <2>2, <2>3
<1> QED BY <1>4, <1>5, <1>7

LEMMA WithoutIs ==
  ASSUME NEW S, NEW rows \in Seq(S), NEW v
  PROVE  /\ ~In(v, rows) => Without(rows, v) = rows
         /\ In(v, rows) => \E i \in 1 .. Len(rows) :
              Vehicle(rows[i]) = v /\ Without(rows, v) = RemoveAt(rows, i)
<1> DEFINE I == {i \in 1 .. Len(rows) : Vehicle(rows[i]) = v}
<1>1. DOMAIN rows = 1 .. Len(rows) /\ Len(rows) \in Nat
  OBVIOUS
<1>2. In(v, rows) <=> I # {}
  BY <1>1 DEF In
<1>3. Without(rows, v) = IF \E i \in 1 .. Len(rows) : Vehicle(rows[i]) = v
                         THEN RemoveAt(rows, IF I # {} THEN Min(I) ELSE 0) ELSE rows
  BY Zenon DEF Without, RemoveFirstMatch, SelectInSeq
<1>4. ASSUME I # {} PROVE Min(I) \in I
  <2>1. I \subseteq Nat
    BY <1>1
  <2> HIDE DEF I
  <2>2. \E n \in I : \A m \in I : n <= m
    BY <1>4, <2>1, MinExists
  <2> QED BY <2>2 DEF Min
<1> QED BY <1>1, <1>2, <1>3, <1>4

-----------------------------------------------------------------------------
(* The rows of a table                                                     *)

Cars == UNION {budget.vehicles : budget \in Budgets}
Rows == [vehicle : Cars, end : Int]

Distinct(rows) ==
  \A i, j \in DOMAIN rows : Vehicle(rows[i]) = Vehicle(rows[j]) => i = j

LEMMA WithoutType ==
  ASSUME NEW S, NEW rows \in Seq(S), NEW v
  PROVE  Without(rows, v) \in Seq(S)
BY WithoutIs, RemovedIs

\* A row that leaves a table without doubles.
LEMMA WithoutForgets ==
  ASSUME NEW S, NEW rows \in Seq(S), Distinct(rows), NEW v
  PROVE  /\ Distinct(Without(rows, v))
         /\ \A w : In(w, Without(rows, v)) <=> In(w, rows) /\ w # v
<1>1. DOMAIN rows = 1 .. Len(rows) /\ Len(rows) \in Nat
  OBVIOUS
<1>2. CASE ~In(v, rows)
  BY <1>2, WithoutIs
<1>3. CASE In(v, rows)
  <2>1. PICK i \in 1 .. Len(rows) : Vehicle(rows[i]) = v /\ Without(rows, v) = RemoveAt(rows, i)
    BY <1>3, WithoutIs
  <2> DEFINE r == RemoveAt(rows, i)
  <2>2. /\ r \in Seq(S) /\ Len(r) = Len(rows) - 1
        /\ \A k \in 1 .. Len(rows) - 1 : Skip(i, k) \in 1 .. Len(rows) /\ r[k] = rows[Skip(i, k)]
    BY RemovedIs
  <2> HIDE DEF r
  <2>3. DOMAIN r = 1 .. Len(rows) - 1
    BY <2>2
  <2>4. \A k \in 1 .. Len(rows) : k # i => \E m \in 1 .. Len(rows) - 1 : Skip(i, m) = k
    <3> TAKE k \in 1 .. Len(rows)
    <3> HAVE k # i
    <3> DEFINE m == IF k < i THEN k ELSE k - 1
    <3>1. m \in 1 .. Len(rows) - 1 /\ Skip(i, m) = k
      BY <1>1 DEF Skip
    <3> QED BY <3>1
  <2>5. \A k, m \in 1 .. Len(rows) - 1 : Skip(i, k) # i /\ (Skip(i, k) = Skip(i, m) => k = m)
    BY <1>1 DEF Skip
  <2>6. Distinct(r)
    BY <1>1, <2>2, <2>3, <2>5 DEF Distinct
  <2>7. ASSUME NEW w PROVE In(w, r) <=> In(w, rows) /\ w # v
    <3>1. ASSUME In(w, r) PROVE In(w, rows) /\ w # v
      <4>1. PICK k \in 1 .. Len(rows) - 1 : Vehicle(r[k]) = w
        BY <2>3, <3>1 DEF In
      <4> QED BY <1>1, <2>1, <2>2, <2>5, <4>1 DEF In, Distinct
    <3>2. ASSUME In(w, rows), w # v PROVE In(w, r)
      <4>1. PICK k \in 1 .. Len(rows) : Vehicle(rows[k]) = w
        BY <1>1, <3>2 DEF In
      <4>2. PICK m \in 1 .. Len(rows) - 1 : Skip(i, m) = k
        BY <2>1, <2>4, <3>2, <4>1
      <4> QED BY <2>2, <2>3, <4>1, <4>2 DEF In
    <3> QED BY <3>1, <3>2
  <2> QED BY <2>1, <2>6, <2>7 DEF r
<1> QED BY <1>2, <1>3

LEMMA AppendAdds ==
  ASSUME NEW S, NEW rows \in Seq(S), NEW row \in S
  PROVE  /\ Append(rows, row) \in Seq(S)
         /\ \A w : In(w, Append(rows, row)) <=> In(w, rows) \/ w = Vehicle(row)
         /\ Distinct(rows) /\ ~In(Vehicle(row), rows) => Distinct(Append(rows, row))
<1> DEFINE r == Append(rows, row)
           n == Len(rows)
<1>1. r \in Seq(S) /\ Len(r) = n + 1 /\ r[n + 1] = row /\ \A i \in 1 .. n : r[i] = rows[i]
  BY AppendProperties
<1>2. DOMAIN rows = 1 .. n /\ n \in Nat
  OBVIOUS
<1> HIDE DEF r, n
<1>3. DOMAIN r = 1 .. n + 1
  BY <1>1
<1>4. \A i \in 1 .. n + 1 : i \in 1 .. n \/ i = n + 1
  BY <1>2
<1>5. 1 .. n \subseteq 1 .. n + 1 /\ n + 1 \in 1 .. n + 1
  BY <1>2
<1>6. \A w : In(w, r) <=> In(w, rows) \/ w = Vehicle(row)
  BY <1>1, <1>2, <1>3, <1>4, <1>5 DEF In
<1>7. ASSUME Distinct(rows), ~In(Vehicle(row), rows) PROVE Distinct(r)
  BY <1>1, <1>2, <1>3, <1>4, <1>7 DEF In, Distinct
<1> QED BY <1>1, <1>6, <1>7 DEF r

-----------------------------------------------------------------------------
(* The packets that are not handled yet                                    *)

Packet == [command : {"captured", "active", "recent", "search"}, row : Rows]

\* The photographs of a vehicle, and whether they turn it round.
CapturesOf(ps, v) == {i \in DOMAIN ps : ps[i].command = "captured" /\ Vehicle(ps[i].row) = v}
Odd(ps, v) == Cardinality(CapturesOf(ps, v)) % 2 = 1

\* A vehicle comes with a listing.
Listed(ps, v) == \E i \in DOMAIN ps : ps[i].command = "active" /\ Vehicle(ps[i].row) = v
ListedOnce(ps) ==
  \A i, j \in DOMAIN ps :
    ps[i].command = "active" /\ ps[j].command = "active" =>
      (Vehicle(ps[i].row) = Vehicle(ps[j].row) => i = j)

Has(ps, command) == \E i \in DOMAIN ps : ps[i].command = command
OneKind(ps) == ~(Has(ps, "active") /\ Has(ps, "captured"))

LEMMA CapturesAreFinite ==
  ASSUME NEW ps \in Seq(Packet), NEW v
  PROVE  IsFiniteSet(CapturesOf(ps, v)) /\ Cardinality(CapturesOf(ps, v)) \in Nat
<1>1. IsFiniteSet(1 .. Len(ps)) /\ CapturesOf(ps, v) \subseteq 1 .. Len(ps)
  BY FS_Interval DEF CapturesOf
<1> QED BY <1>1, FS_Subset, FS_CardinalityType

LEMMA SkippedAre ==
  ASSUME NEW n \in Nat, NEW i \in 1 .. n, NEW S, S \subseteq 1 .. n
  PROVE  Cardinality({k \in 1 .. n - 1 : Skip(i, k) \in S}) = Cardinality(S \ {i})
<1> DEFINE T == {k \in 1 .. n - 1 : Skip(i, k) \in S}
           f == [k \in T |-> Skip(i, k)]
<1>1. IsFiniteSet(T)
  <2>1. IsFiniteSet(1 .. n - 1)
    BY FS_Interval
  <2> QED BY <2>1, FS_Subset
<1>2. \A k, m \in 1 .. n - 1 : Skip(i, k) # i /\ (Skip(i, k) = Skip(i, m) => k = m)
  BY DEF Skip
<1>3. ASSUME NEW k \in S \ {i} PROVE \E m \in T : Skip(i, m) = k
  <2> DEFINE m == IF k < i THEN k ELSE k - 1
  <2>1. m \in 1 .. n - 1 /\ Skip(i, m) = k
    BY DEF Skip
  <2> QED BY <2>1
<1>4. f \in Bijection(T, S \ {i})
  <2>1. f \in [T -> S \ {i}]
    BY <1>2
  <2>2. \A k, m \in T : f[k] = f[m] => k = m
    BY <1>2
  <2>3. \A k \in S \ {i} : \E m \in T : f[m] = k
    BY <1>3
  <2> HIDE DEF f, T
  <2> QED BY <2>1, <2>2, <2>3 DEF Bijection, Injection, Surjection, IsInjective
<1>5. ExistsBijection(T, S \ {i})
  BY <1>4 DEF ExistsBijection
<1> HIDE DEF T, f
<1>6. Cardinality(S \ {i}) = Cardinality(T)
  BY <1>1, <1>5, FS_Bijection
<1> QED BY <1>6 DEF T

\* A packet that is handled, wherever it was.
LEMMA HandledIs ==
  ASSUME NEW ps \in Seq(Packet), NEW i \in 1 .. Len(ps)
  PROVE  LET qs == RemoveAt(ps, i)
             v == Vehicle(ps[i].row)
         IN  /\ qs \in Seq(Packet)
             /\ \A w : Odd(qs, w) <=> IF ps[i].command = "captured" /\ w = v
                                     THEN ~Odd(ps, w) ELSE Odd(ps, w)
             /\ \A command : Has(qs, command) => Has(ps, command)
             /\ ListedOnce(ps) =>
                  /\ ListedOnce(qs)
                  /\ \A w : Listed(qs, w) <=> /\ Listed(ps, w)
                                             /\ ~(ps[i].command = "active" /\ w = v)
<1> DEFINE qs == RemoveAt(ps, i)
           v == Vehicle(ps[i].row)
           n == Len(ps)
<1>1. /\ qs \in Seq(Packet) /\ Len(qs) = n - 1
      /\ \A k \in 1 .. n - 1 : Skip(i, k) \in 1 .. n /\ qs[k] = ps[Skip(i, k)]
  BY RemovedIs
<1>2. n \in Nat /\ i \in 1 .. n /\ DOMAIN ps = 1 .. n
  OBVIOUS
<1> HIDE DEF qs, n
<1>3. DOMAIN qs = 1 .. n - 1
  BY <1>1
<1>4. \A k, m \in 1 .. n - 1 : Skip(i, k) # i /\ (Skip(i, k) = Skip(i, m) => k = m)
  BY <1>2 DEF Skip
<1>5. \A k \in 1 .. n : k # i => \E m \in 1 .. n - 1 : Skip(i, m) = k
  <2> TAKE k \in 1 .. n
  <2> HAVE k # i
  <2> DEFINE m == IF k < i THEN k ELSE k - 1
  <2>1. m \in 1 .. n - 1 /\ Skip(i, m) = k
    BY <1>2 DEF Skip
  <2> QED BY <2>1
<1>6. ASSUME NEW w
      PROVE  Odd(qs, w) <=> IF ps[i].command = "captured" /\ w = v THEN ~Odd(ps, w) ELSE Odd(ps, w)
  <2> DEFINE S == CapturesOf(ps, w)
  <2>1. S \subseteq 1 .. n /\ IsFiniteSet(S) /\ Cardinality(S) \in Nat
    BY <1>2, CapturesAreFinite DEF CapturesOf
  <2>2. CapturesOf(qs, w) = {k \in 1 .. n - 1 : Skip(i, k) \in S}
    BY <1>1, <1>2, <1>3 DEF CapturesOf
  <2>3. i \in S <=> ps[i].command = "captured" /\ w = v
    BY <1>2 DEF CapturesOf
  <2> HIDE DEF S, v
  <2>4. Cardinality(CapturesOf(qs, w)) = Cardinality(S \ {i})
    BY <1>2, <2>1, <2>2, SkippedAre
  <2>5. Cardinality(S \ {i}) = IF i \in S THEN Cardinality(S) - 1 ELSE Cardinality(S)
    BY <2>1, FS_RemoveElement
  <2>6. CASE i \in S
    <3>1. Cardinality(S) - 1 \in Nat
      BY <2>1, <2>4, <2>5, <2>6, <1>1, CapturesAreFinite
    <3>2. ((Cardinality(S) - 1) + 1) % 2 = 1 <=> ~((Cardinality(S) - 1) % 2 = 1)
      BY <3>1, OddNext
    <3>3. (Cardinality(S) - 1) + 1 = Cardinality(S)
      BY <2>1
    <3> QED BY <2>3, <2>4, <2>5, <2>6, <3>2, <3>3 DEF Odd, S
  <2>7. CASE i \notin S
    BY <2>3, <2>4, <2>5, <2>7 DEF Odd, S
  <2> QED BY <2>6, <2>7
<1>7. \A command : Has(qs, command) => Has(ps, command)
  BY <1>1, <1>2, <1>3 DEF Has
<1>8. ASSUME ListedOnce(ps) PROVE ListedOnce(qs)
  BY <1>1, <1>2, <1>3, <1>4, <1>8 DEF ListedOnce
<1>9. ASSUME ListedOnce(ps), NEW w
      PROVE  Listed(qs, w) <=> Listed(ps, w) /\ ~(ps[i].command = "active" /\ w = v)
  <2>1. ASSUME Listed(qs, w) PROVE Listed(ps, w) /\ ~(ps[i].command = "active" /\ w = v)
    <3>1. PICK k \in 1 .. n - 1 : qs[k].command = "active" /\ Vehicle(qs[k].row) = w
      BY <1>3, <2>1 DEF Listed
    <3>2. Skip(i, k) \in 1 .. n /\ Skip(i, k) # i /\ qs[k] = ps[Skip(i, k)]
      BY <1>1, <1>4
    <3> QED BY <1>2, <1>9, <3>1, <3>2 DEF Listed, ListedOnce
  <2>2. ASSUME Listed(ps, w), ~(ps[i].command = "active" /\ w = v) PROVE Listed(qs, w)
    <3>1. PICK k \in 1 .. n : ps[k].command = "active" /\ Vehicle(ps[k].row) = w
      BY <1>2, <2>2 DEF Listed
    <3>2. PICK m \in 1 .. n - 1 : Skip(i, m) = k
      BY <1>5, <2>2, <3>1
    <3> QED BY <1>1, <1>3, <3>1, <3>2 DEF Listed
  <2> QED BY <2>1, <2>2
<1> QED BY <1>1, <1>6, <1>7, <1>8, <1>9 DEF qs

\* Packets that are sent come after the others.
After(ps, i) == Len(ps) + i
SentAre(ps, qs, rs) ==
  /\ rs \in Seq(Packet)
  /\ \A i \in DOMAIN ps : i \in DOMAIN rs /\ rs[i] = ps[i]
  /\ \A i \in DOMAIN qs : /\ After(ps, i) \in DOMAIN rs /\ After(ps, i) \notin DOMAIN ps
                          /\ rs[After(ps, i)] = qs[i]
  /\ \A k \in DOMAIN rs : k \in DOMAIN ps \/ \E i \in DOMAIN qs : k = After(ps, i)

LEMMA Sending ==
  ASSUME NEW ps \in Seq(Packet), NEW qs \in Seq(Packet)
  PROVE  SentAre(ps, qs, ps \o qs)
<1> DEFINE rs == ps \o qs
           n == Len(ps)
           m == Len(qs)
<1>1. /\ rs \in Seq(Packet) /\ Len(rs) = n + m
      /\ \A i \in 1 .. n + m : rs[i] = IF i <= n THEN ps[i] ELSE qs[i - n]
  BY ConcatProperties
<1>2. n \in Nat /\ m \in Nat
  OBVIOUS
<1> HIDE DEF rs, n, m
<1>3. DOMAIN rs = 1 .. n + m
  BY <1>1
<1>4. \A i \in 1 .. n : i \in 1 .. n + m /\ rs[i] = ps[i]
  BY <1>1, <1>2
<1>5. \A i \in 1 .. m : n + i \in 1 .. n + m /\ n + i \notin 1 .. n /\ rs[n + i] = qs[i]
  <2> TAKE i \in 1 .. m
  <2>1. n + i \in 1 .. n + m /\ n + i \notin 1 .. n /\ ~(n + i <= n) /\ (n + i) - n = i
    BY <1>2
  <2> QED BY <1>1, <2>1
<1>6. \A k \in 1 .. n + m : k \in 1 .. n \/ \E i \in 1 .. m : k = n + i
  <2> TAKE k \in 1 .. n + m
  <2>1. CASE k > n
    <3>1. k - n \in 1 .. m /\ k = n + (k - n)
      BY <1>2, <2>1
    <3> QED BY <3>1
  <2>2. CASE ~(k > n)
    BY <1>2, <2>2
  <2> QED BY <2>1, <2>2
<1>7. DOMAIN ps = 1 .. n /\ DOMAIN qs = 1 .. m
  BY DEF n, m
<1> QED BY <1>1, <1>3, <1>4, <1>5, <1>6, <1>7 DEF SentAre, After, rs, n

LEMMA SentHas ==
  ASSUME NEW ps \in Seq(Packet), NEW qs \in Seq(Packet)
  PROVE  LET rs == ps \o qs
         IN  /\ rs \in Seq(Packet)
             /\ \A command : Has(rs, command) <=> Has(ps, command) \/ Has(qs, command)
             /\ \A w : Listed(rs, w) <=> Listed(ps, w) \/ Listed(qs, w)
             /\ /\ ListedOnce(ps) /\ ListedOnce(qs)
                /\ \A w : ~(Listed(ps, w) /\ Listed(qs, w))
                => ListedOnce(rs)
<1> DEFINE rs == ps \o qs
<1>1. SentAre(ps, qs, rs)
  BY Sending
<1> HIDE DEF rs
<1>3. \A command : Has(rs, command) <=> Has(ps, command) \/ Has(qs, command)
  BY <1>1 DEF SentAre, Has
<1>4. \A w : Listed(rs, w) <=> Listed(ps, w) \/ Listed(qs, w)
  BY <1>1 DEF SentAre, Listed
<1>5. ASSUME ListedOnce(ps), ListedOnce(qs), \A w : ~(Listed(ps, w) /\ Listed(qs, w))
      PROVE  ListedOnce(rs)
  <2> SUFFICES ASSUME NEW i \in DOMAIN rs, NEW j \in DOMAIN rs,
                      rs[i].command = "active", rs[j].command = "active",
                      Vehicle(rs[i].row) = Vehicle(rs[j].row)
               PROVE  i = j
    BY DEF ListedOnce
  <2>1. CASE i \in DOMAIN ps /\ j \in DOMAIN ps
    BY <1>1, <1>5, <2>1 DEF SentAre, ListedOnce
  <2>2. CASE i \in DOMAIN ps /\ j \notin DOMAIN ps
    <3>1. Listed(ps, Vehicle(rs[i].row))
      BY <1>1, <2>2 DEF SentAre, Listed
    <3>2. Listed(qs, Vehicle(rs[j].row))
      BY <1>1, <2>2 DEF SentAre, Listed
    <3> QED BY <1>5, <3>1, <3>2
  <2>3. CASE j \in DOMAIN ps /\ i \notin DOMAIN ps
    <3>1. Listed(ps, Vehicle(rs[j].row))
      BY <1>1, <2>3 DEF SentAre, Listed
    <3>2. Listed(qs, Vehicle(rs[i].row))
      BY <1>1, <2>3 DEF SentAre, Listed
    <3> QED BY <1>5, <3>1, <3>2
  <2>4. CASE i \notin DOMAIN ps /\ j \notin DOMAIN ps
    BY <1>1, <1>5, <2>4 DEF SentAre, ListedOnce
  <2> QED BY <2>1, <2>2, <2>3, <2>4
<1> QED BY <1>1, <1>3, <1>4, <1>5 DEF SentAre, rs

LEMMA SentCaptures ==
  ASSUME NEW ps \in Seq(Packet), NEW qs \in Seq(Packet), NEW w
  PROVE  /\ ~Has(qs, "captured") => (Odd(ps \o qs, w) <=> Odd(ps, w))
         /\ Len(qs) = 1 /\ qs[1].command = "captured" =>
              (Odd(ps \o qs, w) <=> IF w = Vehicle(qs[1].row) THEN ~Odd(ps, w) ELSE Odd(ps, w))
<1> DEFINE rs == ps \o qs
           n == Len(ps)
<1>1. SentAre(ps, qs, rs)
  BY Sending
<1>2. DOMAIN ps = 1 .. n /\ DOMAIN qs = 1 .. Len(qs) /\ n \in Nat
  OBVIOUS
<1> HIDE DEF rs
<1>3. ASSUME ~Has(qs, "captured") PROVE CapturesOf(rs, w) = CapturesOf(ps, w)
  BY <1>1, <1>3 DEF SentAre, Has, CapturesOf
<1>4. ASSUME Len(qs) = 1, qs[1].command = "captured"
      PROVE  Odd(rs, w) <=> IF w = Vehicle(qs[1].row) THEN ~Odd(ps, w) ELSE Odd(ps, w)
  <2> DEFINE S == CapturesOf(ps, w)
  <2>1. IsFiniteSet(S) /\ Cardinality(S) \in Nat /\ n + 1 \notin S
    <3>1. IsFiniteSet(S) /\ Cardinality(S) \in Nat
      BY CapturesAreFinite
    <3>2. S \subseteq 1 .. n /\ n + 1 \notin 1 .. n
      BY <1>2 DEF CapturesOf
    <3> QED BY <3>1, <3>2
  <2>2. /\ \A k \in DOMAIN rs : k \in 1 .. n \/ k = n + 1
        /\ n + 1 \in DOMAIN rs /\ rs[n + 1] = qs[1]
    BY <1>1, <1>2, <1>4 DEF SentAre, After
  <2>3. CASE w = Vehicle(qs[1].row)
    <3>1. CapturesOf(rs, w) = S \cup {n + 1}
      BY <1>1, <1>2, <1>4, <2>2, <2>3 DEF SentAre, CapturesOf
    <3> HIDE DEF S
    <3>2. Cardinality(S \cup {n + 1}) = Cardinality(S) + 1
      BY <2>1, FS_AddElement
    <3>3. (Cardinality(S) + 1) % 2 = 1 <=> ~(Cardinality(S) % 2 = 1)
      BY <2>1, OddNext
    <3> QED BY <2>3, <3>1, <3>2, <3>3 DEF Odd, S
  <2>4. CASE w # Vehicle(qs[1].row)
    <3>1. CapturesOf(rs, w) = S
      BY <1>1, <1>2, <1>4, <2>2, <2>4 DEF SentAre, CapturesOf
    <3> QED BY <2>4, <3>1 DEF Odd
  <2> QED BY <2>3, <2>4
<1> QED BY <1>3, <1>4 DEF Odd, rs

LEMMA PacketsAre ==
  ASSUME NEW rows \in Seq(Rows), NEW command \in {"captured", "active", "recent", "search"}
  PROVE  LET ps == Packets(command, rows)
         IN  /\ ps \in Seq(Packet) /\ Len(ps) = Len(rows)
             /\ \A i \in 1 .. Len(rows) : ps[i] = [command |-> command, row |-> rows[i]]
             /\ \A c : Has(ps, c) => c = command
             /\ \A w : Listed(ps, w) <=> command = "active" /\ In(w, rows)
             /\ Distinct(rows) => ListedOnce(ps)
<1> DEFINE ps == Packets(command, rows)
           n == Len(rows)
<1>1. n \in Nat /\ DOMAIN rows = 1 .. n /\ \A i \in 1 .. n : rows[i] \in Rows
  OBVIOUS
<1>2. \A i \in 1 .. n : [command |-> command, row |-> rows[i]] \in Packet
  BY <1>1 DEF Packet
<1> HIDE DEF n
<1>3. ps = [i \in 1 .. n |-> [command |-> command, row |-> rows[i]]]
  BY <1>1 DEF Packets
<1>4. ps \in [1 .. n -> Packet]
  BY <1>2, <1>3
<1> HIDE DEF ps
<1>5. ps \in Seq(Packet) /\ Len(ps) = n /\ DOMAIN ps = 1 .. n
  BY <1>1, <1>4
<1>6. \A i \in 1 .. n : ps[i] = [command |-> command, row |-> rows[i]]
  BY <1>3
<1>7. \A c : Has(ps, c) => c = command
  BY <1>5, <1>6 DEF Has
<1>8. \A w : Listed(ps, w) <=> command = "active" /\ In(w, rows)
  BY <1>1, <1>5, <1>6 DEF Listed, In
<1>9. Distinct(rows) => ListedOnce(ps)
  BY <1>1, <1>5, <1>6 DEF Distinct, ListedOnce
<1> QED BY <1>5, <1>6, <1>7, <1>8, <1>9 DEF ps, n

Tables == [pending : Seq(Rows), recent : Seq(Rows), search : Seq(Rows)]

LEMMA AddRecentType ==
  ASSUME NEW rows \in Seq(Rows), NEW row \in Rows
  PROVE  AddRecent(rows, row) \in Seq(Rows)
<1>1. \A v : Without(rows, v) \in Seq(Rows)
  BY WithoutType
<1> QED BY <1>1 DEF AddRecent

\* What a packet does to the tables, of which the pending one counts.
LEMMA ShownIs ==
  ASSUME NEW t \in Tables, NEW packet \in Packet
  PROVE  /\ Shown(t, packet) \in Tables
         /\ packet.command = "captured" =>
              Shown(t, packet).pending = IF In(Vehicle(packet.row), t.pending)
                                         THEN Without(t.pending, Vehicle(packet.row))
                                         ELSE Append(t.pending, packet.row)
         /\ packet.command = "active" => Shown(t, packet).pending = Append(t.pending, packet.row)
         /\ packet.command \in {"recent", "search"} => Shown(t, packet).pending = t.pending
<1>1. packet.row \in Rows /\ packet.command \in {"captured", "active", "recent", "search"}
  BY DEF Packet
<1>2. /\ t.pending \in Seq(Rows) /\ t.recent \in Seq(Rows) /\ t.search \in Seq(Rows)
      /\ t = [pending |-> t.pending, recent |-> t.recent, search |-> t.search]
  BY DEF Tables
<1>3. Append(t.pending, packet.row) \in Seq(Rows) /\ <<packet.row>> \o t.search \in Seq(Rows)
  BY <1>1, <1>2
<1>4. /\ Without(t.pending, Vehicle(packet.row)) \in Seq(Rows)
      /\ AddRecent(t.recent, packet.row) \in Seq(Rows)
  BY <1>1, <1>2, WithoutType, AddRecentType
<1>5. CASE packet.command = "captured" /\ In(Vehicle(packet.row), t.pending)
  <2>1. Shown(t, packet) = [t EXCEPT !.pending = Without(@, Vehicle(packet.row)),
                                     !.recent = AddRecent(@, packet.row)]
    BY <1>5 DEF Shown, RemovePending
  <2> QED BY <1>2, <1>4, <1>5, <2>1 DEF Tables
<1>6. CASE packet.command = "captured" /\ ~In(Vehicle(packet.row), t.pending)
  <2>1. Shown(t, packet) = [t EXCEPT !.pending = Append(@, packet.row)]
    BY <1>6 DEF Shown, AddPending
  <2> QED BY <1>2, <1>3, <1>6, <2>1 DEF Tables
<1>7. CASE packet.command = "active"
  <2>1. Shown(t, packet) = [t EXCEPT !.pending = Append(@, packet.row)]
    BY <1>7 DEF Shown, AddPending
  <2> QED BY <1>2, <1>3, <1>7, <2>1 DEF Tables
<1>8. CASE packet.command = "search"
  <2>1. Shown(t, packet) = [t EXCEPT !.search = <<packet.row>> \o @]
    BY <1>8 DEF Shown
  <2> QED BY <1>2, <1>3, <1>8, <2>1 DEF Tables
<1>9. CASE packet.command = "recent"
  <2>1. Shown(t, packet) = [t EXCEPT !.recent = AddRecent(@, packet.row)]
    BY <1>9 DEF Shown
  <2> QED BY <1>2, <1>4, <1>9, <2>1 DEF Tables
<1> QED BY <1>1, <1>5, <1>6, <1>7, <1>8, <1>9

-----------------------------------------------------------------------------
(* Whether the table agrees with the server                                *)

\* What is active is what the table shows and a listing brings, turned round
\* by the photographs that are still to be handled.
Balanced(active, pending, ps) ==
  /\ Distinct(pending) /\ ListedOnce(ps) /\ OneKind(ps)
  /\ \A v : Listed(ps, v) => ~In(v, pending)
  /\ \A v : In(v, active) <=> ~(In(v, pending) \/ Listed(ps, v) <=> Odd(ps, v))

LEMMA NoneListed ==
  ASSUME NEW ps, ~Has(ps, "active")
  PROVE  ListedOnce(ps) /\ \A v : ~Listed(ps, v)
BY DEF Has, Listed, ListedOnce

\* A photograph turns round what is active and is under way.
LEMMA PhotographKeeps ==
  ASSUME NEW active \in Seq(Rows), Distinct(active), NEW pending, NEW ps \in Seq(Packet),
         Balanced(active, pending, ps), ~Has(ps, "active"), NEW row \in Rows,
         NEW left, left = IF In(Vehicle(row), active) THEN Without(active, Vehicle(row))
                                                      ELSE Append(active, row)
  PROVE  Balanced(left, pending, ps \o Packets("captured", <<row>>))
<1> DEFINE v == Vehicle(row)
           qs == Packets("captured", <<row>>)
           rs == ps \o qs
<1>1. <<row>> \in Seq(Rows) /\ Len(<<row>>) = 1 /\ <<row>>[1] = row
  OBVIOUS
<1>2. /\ qs \in Seq(Packet) /\ Len(qs) = 1 /\ \A c : Has(qs, c) => c = "captured"
      /\ qs[1].command = "captured" /\ Vehicle(qs[1].row) = v
  <2> DEFINE rows == <<row>>
  <2>1. rows \in Seq(Rows) /\ Len(rows) = 1 /\ rows[1] = row
    BY <1>1
  <2> HIDE DEF rows
  <2>2. LET ps2 == Packets("captured", rows)
        IN  /\ ps2 \in Seq(Packet) /\ Len(ps2) = 1 /\ \A c : Has(ps2, c) => c = "captured"
            /\ ps2[1] = [command |-> "captured", row |-> row]
    BY <2>1, PacketsAre
  <2> QED BY <2>2 DEF rows
<1> HIDE DEF qs
<1>3. \A c : Has(rs, c) <=> Has(ps, c) \/ Has(qs, c)
  BY <1>2, SentHas
<1>4. \A w : Odd(rs, w) <=> IF w = v THEN ~Odd(ps, w) ELSE Odd(ps, w)
  BY <1>2, SentCaptures
<1>5. \A w : In(w, left) <=> IF w = v THEN ~In(w, active) ELSE In(w, active)
  <2>1. CASE In(v, active)
    BY <2>1, WithoutForgets
  <2>2. CASE ~In(v, active)
    BY <2>2, AppendAdds
  <2> QED BY <2>1, <2>2
<1> HIDE DEF rs, v
<1>6. ~Has(rs, "active")
  BY <1>2, <1>3
<1>7. ListedOnce(rs) /\ OneKind(rs) /\ \A w : ~Listed(rs, w) /\ ~Listed(ps, w)
  BY <1>6, NoneListed DEF OneKind
<1>8. \A w : In(w, left) <=> ~(In(w, pending) <=> Odd(rs, w))
  BY <1>4, <1>5, <1>7 DEF Balanced
<1>9. Balanced(left, pending, rs)
  BY <1>7, <1>8 DEF Balanced
<1> QED BY <1>9 DEF rs, qs

\* A listing is added to an empty table, with no photograph under way.
LEMMA ListingBalances ==
  ASSUME NEW active \in Seq(Rows), Distinct(active), NEW ps \in Seq(Packet),
         ~Has(ps, "active"), ~Has(ps, "captured")
  PROVE  Balanced(active, <<>>, ps \o Packets("active", active))
<1> DEFINE qs == Packets("active", active)
           rs == ps \o qs
<1>1. /\ qs \in Seq(Packet) /\ \A c : Has(qs, c) => c = "active"
      /\ \A w : Listed(qs, w) <=> In(w, active)
      /\ ListedOnce(qs)
  BY PacketsAre
<1> HIDE DEF qs
<1>2. \A c : Has(rs, c) <=> Has(ps, c) \/ Has(qs, c)
  BY <1>1, SentHas
<1>3. ListedOnce(ps) /\ \A w : ~Listed(ps, w)
  BY NoneListed
<1>4. ListedOnce(rs) /\ \A w : Listed(rs, w) <=> In(w, active)
  BY <1>1, <1>3, SentHas
<1> HIDE DEF rs
<1>5. ~Has(rs, "captured")
  BY <1>1, <1>2
<1>6. \A w : ~Odd(rs, w)
  <2> TAKE w
  <2>1. CapturesOf(rs, w) = {}
    BY <1>5 DEF Has, CapturesOf
  <2> QED BY <2>1, FS_EmptySet DEF Odd
<1>7. Distinct(<<>>) /\ \A w : ~In(w, <<>>)
  BY DEF Distinct, In
<1>8. Balanced(active, <<>>, rs)
  BY <1>4, <1>5, <1>6, <1>7 DEF Balanced, OneKind
<1> QED BY <1>8 DEF rs, qs

\* Other answers do not count.
LEMMA AnswerKeeps ==
  ASSUME NEW active, NEW pending, NEW ps \in Seq(Packet), Balanced(active, pending, ps),
         NEW rows \in Seq(Rows), NEW command \in {"recent", "search"}
  PROVE  Balanced(active, pending, ps \o Packets(command, rows))
<1> DEFINE qs == Packets(command, rows)
           rs == ps \o qs
<1>1. qs \in Seq(Packet) /\ \A c : Has(qs, c) => c = command
  BY PacketsAre
<1> HIDE DEF qs
<1>2. ~Has(qs, "active") /\ ~Has(qs, "captured")
  BY <1>1
<1>3. ListedOnce(qs) /\ \A w : ~Listed(qs, w)
  BY <1>2, NoneListed
<1>4. /\ \A c : Has(rs, c) <=> Has(ps, c) \/ Has(qs, c)
      /\ \A w : Listed(rs, w) <=> Listed(ps, w)
  BY <1>1, <1>3, SentHas
<1>5. ListedOnce(rs)
  BY <1>1, <1>3, SentHas DEF Balanced
<1>6. \A w : Odd(rs, w) <=> Odd(ps, w)
  BY <1>1, <1>2, SentCaptures
<1> HIDE DEF rs
<1>7. OneKind(rs)
  BY <1>2, <1>4 DEF Balanced, OneKind
<1>8. Balanced(active, pending, rs)
  BY <1>4, <1>5, <1>6, <1>7 DEF Balanced
<1> QED BY <1>8 DEF rs, qs

\* What is handled, whatever the pool chose, turns round what the table shows,
\* or moves a listed vehicle into it.
LEMMA HandlingKeeps ==
  ASSUME NEW active, NEW t \in Tables, NEW ps \in Seq(Packet), NEW i \in 1 .. Len(ps),
         Balanced(active, t.pending, ps)
  PROVE  Balanced(active, Shown(t, ps[i]).pending, RemoveAt(ps, i))
<1> DEFINE qs == RemoveAt(ps, i)
           v == Vehicle(ps[i].row)
           shown == Shown(t, ps[i]).pending
<1>1. ps[i] \in Packet /\ i \in DOMAIN ps
  OBVIOUS
<1>2. /\ ps[i].row \in Rows /\ ps[i].command \in {"captured", "active", "recent", "search"}
      /\ t.pending \in Seq(Rows)
  BY <1>1 DEF Packet, Tables
<1>3. /\ \A w : Odd(qs, w) <=> IF ps[i].command = "captured" /\ w = v
                              THEN ~Odd(ps, w) ELSE Odd(ps, w)
      /\ \A c : Has(qs, c) => Has(ps, c)
      /\ ListedOnce(qs)
      /\ \A w : Listed(qs, w) <=> Listed(ps, w) /\ ~(ps[i].command = "active" /\ w = v)
  BY HandledIs DEF Balanced
<1>4. OneKind(qs)
  BY <1>3 DEF Balanced, OneKind
<1>5. Distinct(t.pending) /\ \A w : Listed(ps, w) => ~In(w, t.pending)
  BY DEF Balanced
<1>6. \A w : In(w, active) <=> ~(In(w, t.pending) \/ Listed(ps, w) <=> Odd(ps, w))
  BY DEF Balanced
<1> HIDE DEF qs, v, shown
<1>7. CASE ps[i].command = "captured"
  <2>1. \A w : ~Listed(ps, w)
    <3>1. ~Has(ps, "active")
      BY <1>1, <1>7 DEF Balanced, OneKind, Has
    <3> QED BY <3>1, NoneListed
  <2>2. Distinct(shown) /\ \A w : In(w, shown) <=> IF w = v THEN ~In(w, t.pending) ELSE In(w, t.pending)
    <3>1. CASE In(v, t.pending)
      <4>1. shown = Without(t.pending, v)
        BY <1>1, <1>7, <3>1, ShownIs DEF shown, v
      <4> QED BY <1>2, <1>5, <3>1, <4>1, WithoutForgets
    <3>2. CASE ~In(v, t.pending)
      <4>1. shown = Append(t.pending, ps[i].row)
        BY <1>1, <1>7, <3>2, ShownIs DEF shown, v
      <4> QED BY <1>2, <1>5, <3>2, <4>1, AppendAdds DEF v
    <3> QED BY <3>1, <3>2
  <2>3. \A w : In(w, active) <=> ~(In(w, shown) \/ Listed(qs, w) <=> Odd(qs, w))
    BY <1>3, <1>6, <1>7, <2>1, <2>2
  <2>4. Balanced(active, shown, qs)
    BY <1>3, <1>4, <2>1, <2>2, <2>3 DEF Balanced
  <2> QED BY <2>4 DEF shown, qs
<1>8. CASE ps[i].command = "active"
  <2>1. Listed(ps, v) /\ ~In(v, t.pending)
    <3>1. Listed(ps, v)
      BY <1>1, <1>8 DEF Listed, v
    <3> QED BY <1>5, <3>1
  <2>2. Distinct(shown) /\ \A w : In(w, shown) <=> In(w, t.pending) \/ w = v
    <3>1. shown = Append(t.pending, ps[i].row)
      BY <1>1, <1>8, ShownIs DEF shown
    <3> QED BY <1>2, <1>5, <2>1, <3>1, AppendAdds DEF v
  <2>3. \A w : In(w, active) <=> ~(In(w, shown) \/ Listed(qs, w) <=> Odd(qs, w))
    BY <1>3, <1>6, <1>8, <2>1, <2>2
  <2>4. \A w : Listed(qs, w) => ~In(w, shown)
    BY <1>3, <1>5, <1>8, <2>2
  <2>5. Balanced(active, shown, qs)
    BY <1>3, <1>4, <2>2, <2>3, <2>4 DEF Balanced
  <2> QED BY <2>5 DEF shown, qs
<1>9. CASE ps[i].command \in {"recent", "search"}
  <2>1. shown = t.pending
    BY <1>1, <1>9, ShownIs DEF shown
  <2>2. \A w : (Odd(qs, w) <=> Odd(ps, w)) /\ (Listed(qs, w) <=> Listed(ps, w))
    BY <1>3, <1>9
  <2>3. Balanced(active, shown, qs)
    BY <1>3, <1>4, <1>5, <1>6, <2>1, <2>2 DEF Balanced
  <2> QED BY <2>3 DEF shown, qs
<1> QED BY <1>2, <1>7, <1>8, <1>9

-----------------------------------------------------------------------------
(* Requests                                                                *)

Requests == Cars \cup {"active", "recent"}

NoListing(rs) == \A i \in DOMAIN rs : rs[i] # "active"
OneListing(rs) ==
  \E i \in DOMAIN rs : rs[i] = "active" /\ \A j \in DOMAIN rs : rs[j] = "active" => j = i

LEMMA RequestTaken ==
  ASSUME NEW rs \in Seq(Requests), rs # <<>>
  PROVE  /\ NoListing(rs) => Head(rs) # "active" /\ NoListing(Tail(rs))
         /\ OneListing(rs) => IF Head(rs) = "active" THEN NoListing(Tail(rs)) ELSE OneListing(Tail(rs))
<1> DEFINE n == Len(rs)
           ts == Tail(rs)
<1>1. n \in Nat /\ n >= 1 /\ DOMAIN rs = 1 .. n /\ Head(rs) = rs[1]
  OBVIOUS
<1>2. Len(ts) = n - 1 /\ DOMAIN ts = 1 .. n - 1 /\ \A i \in 1 .. n - 1 : ts[i] = rs[i + 1]
  OBVIOUS
<1> HIDE DEF n, ts
<1>3. \A i \in 1 .. n - 1 : i + 1 \in 1 .. n /\ i + 1 # 1
  BY <1>1
<1>4. NoListing(rs) => Head(rs) # "active" /\ NoListing(ts)
  BY <1>1, <1>2, <1>3 DEF NoListing
<1>5. ASSUME OneListing(rs)
      PROVE  IF Head(rs) = "active" THEN NoListing(ts) ELSE OneListing(ts)
  <2>1. PICK i \in 1 .. n : rs[i] = "active" /\ \A j \in 1 .. n : rs[j] = "active" => j = i
    BY <1>1, <1>5 DEF OneListing
  <2>2. CASE i = 1
    BY <1>1, <1>2, <1>3, <2>1, <2>2 DEF NoListing
  <2>3. CASE i # 1
    <3>1. i - 1 \in 1 .. n - 1 /\ \A j \in 1 .. n - 1 : j + 1 = i <=> j = i - 1
      BY <1>1, <2>3
    <3>2. ts[i - 1] = "active"
      BY <1>2, <2>1, <3>1
    <3>3. \A j \in 1 .. n - 1 : ts[j] = "active" => j = i - 1
      BY <1>2, <1>3, <2>1, <3>1
    <3>4. OneListing(ts)
      BY <1>2, <3>1, <3>2, <3>3 DEF OneListing
    <3>5. Head(rs) # "active"
      BY <1>1, <2>1, <2>3
    <3> QED BY <3>4, <3>5
  <2> QED BY <2>2, <2>3
<1> QED BY <1>4, <1>5 DEF ts

LEMMA RequestQueued ==
  ASSUME NEW rs \in Seq(Requests), NEW request \in Requests \ {"active"}
  PROVE  /\ NoListing(rs) => NoListing(rs \o <<request>>)
         /\ OneListing(rs) => OneListing(rs \o <<request>>)
<1> DEFINE n == Len(rs)
           ts == rs \o <<request>>
<1>1. n \in Nat /\ DOMAIN rs = 1 .. n
  OBVIOUS
<1>2. Len(ts) = n + 1 /\ DOMAIN ts = 1 .. n + 1 /\ ts[n + 1] = request /\ \A i \in 1 .. n : ts[i] = rs[i]
  OBVIOUS
<1> HIDE DEF n, ts
<1>3. \A i \in 1 .. n + 1 : i \in 1 .. n \/ i = n + 1
  BY <1>1
<1>4. \A i \in 1 .. n : i \in 1 .. n + 1 /\ i # n + 1
  BY <1>1
<1>5. NoListing(rs) => NoListing(ts)
  BY <1>1, <1>2, <1>3 DEF NoListing
<1>6. ASSUME OneListing(rs) PROVE OneListing(ts)
  <2>1. PICK i \in 1 .. n : rs[i] = "active" /\ \A j \in 1 .. n : rs[j] = "active" => j = i
    BY <1>1, <1>6 DEF OneListing
  <2>2. ts[i] = "active" /\ \A j \in 1 .. n + 1 : ts[j] = "active" => j = i
    BY <1>2, <1>3, <1>4, <2>1
  <2> QED BY <1>2, <1>4, <2>2 DEF OneListing
<1> QED BY <1>5, <1>6 DEF ts

-----------------------------------------------------------------------------
(* Types                                                                   *)

Log == [left : [vehicles : SUBSET Cars, captures : Int, clicks : Int, settings : Int],
        muddled : BOOLEAN]

GuiTypes ==
  /\ now \in Nat
  /\ server \in [active : Seq(Rows), recent : Seq(Rows)]
  /\ link \in [client : {"null", "open", "closed"},
              server : {"none", "backlog", "reading", "listed"}]
  /\ requests \in Seq(Requests) /\ packets \in Seq(Packet) /\ table \in Tables
  /\ guiLog \in Log

LEMMA MuddledIs ==
  ASSUME guiLog \in Log, NEW m \in BOOLEAN
  PROVE  /\ Muddled(m) \in Log /\ Muddled(m).left = guiLog.left
         /\ Muddled(m).muddled = (guiLog.muddled \/ m)
BY DEF Muddled, Log

LEMMA LessIs ==
  ASSUME NEW log \in Log
  PROVE  /\ [log EXCEPT !.left.captures = @ - 1] \in Log
         /\ [log EXCEPT !.left.captures = @ - 1].muddled = log.muddled
         /\ [log EXCEPT !.left.clicks = @ - 1] \in Log
         /\ [log EXCEPT !.left.clicks = @ - 1].muddled = log.muddled
         /\ [log EXCEPT !.left.settings = @ - 1] \in Log
         /\ [log EXCEPT !.left.settings = @ - 1].muddled = log.muddled
<1>1. /\ log = [left |-> log.left, muddled |-> log.muddled] /\ log.muddled \in BOOLEAN
      /\ log.left \in [vehicles : SUBSET Cars, captures : Int, clicks : Int, settings : Int]
  BY DEF Log
<1>2. /\ [log.left EXCEPT !.captures = @ - 1] \in
           [vehicles : SUBSET Cars, captures : Int, clicks : Int, settings : Int]
      /\ [log.left EXCEPT !.clicks = @ - 1] \in
           [vehicles : SUBSET Cars, captures : Int, clicks : Int, settings : Int]
      /\ [log.left EXCEPT !.settings = @ - 1] \in
           [vehicles : SUBSET Cars, captures : Int, clicks : Int, settings : Int]
  BY <1>1
<1> QED BY <1>1, <1>2 DEF Log

LEMMA RowIs ==
  ASSUME now \in Nat, NEW v \in Cars
  PROVE  Row(v) \in Rows /\ Vehicle(Row(v)) = v
BY GuiAssumption DEF Row, Rows, Vehicle

\* Whatever order the database chooses.
LEMMA ViolationsType ==
  ASSUME server.recent \in Seq(Rows), NEW v
  PROVE  Violations(v) \in Seq(Rows)
<1> DEFINE rows == server.recent
           I == {i \in DOMAIN rows : Vehicle(rows[i]) = v}
           n == Cardinality(I)
           found == SetToSeq(I)
<1>1. IsFiniteSet(I)
  <2>1. DOMAIN rows = 1 .. Len(rows) /\ Len(rows) \in Nat
    OBVIOUS
  <2>2. IsFiniteSet(1 .. Len(rows))
    BY <2>1, FS_Interval
  <2> QED BY <2>1, <2>2, FS_Subset
<1> HIDE DEF I
<1>2. n \in Nat /\ ExistsBijection(1 .. n, I)
  BY <1>1, FS_NatBijection, FS_CountingElements
<1>3. \E f \in [1 .. n -> I] : IsInjective(f)
  BY <1>2 DEF ExistsBijection, Bijection, Injection, IsInjective
<1>4. found \in [1 .. n -> I]
  BY <1>3 DEF SetToSeq
<1> HIDE DEF n, found
<1>5. Violations(v) = [k \in 1 .. n |-> rows[found[k]]]
  BY <1>4 DEF Violations, I, found
<1>6. \A k \in 1 .. n : rows[found[k]] \in Rows
  BY <1>4 DEF I
<1>7. Violations(v) \in [1 .. n -> Rows]
  BY <1>5, <1>6
<1> QED BY <1>2, <1>7

LEMMA RequestedIs ==
  ASSUME requests \in Seq(Requests), NEW rs \in Seq(Requests)
  PROVE  Requested(rs) \in Seq(Requests)
BY DEF Requested

LEMMA AnswerType ==
  ASSUME GuiTypes, NEW request \in Requests
  PROVE  Answer(request) \in Seq(Packet)
<1>1. server.active \in Seq(Rows) /\ server.recent \in Seq(Rows)
  BY DEF GuiTypes
<1>2. Violations(request) \in Seq(Rows)
  BY <1>1, ViolationsType
<1>3. /\ Packets("active", server.active) \in Seq(Packet)
      /\ Packets("recent", server.recent) \in Seq(Packet)
      /\ Packets("search", Violations(request)) \in Seq(Packet)
  BY <1>1, <1>2, PacketsAre
<1> QED BY <1>3 DEF Answer

LEMMA TypesStart == GuiInit => GuiTypes
<1> SUFFICES ASSUME GuiInit PROVE GuiTypes
  OBVIOUS
<1>1. PICK budget \in Budgets : guiLog = [left |-> budget, muddled |-> FALSE]
  BY DEF GuiInit
<1>2. budget \in [vehicles : SUBSET budget.vehicles, captures : Nat, clicks : Nat, settings : Nat]
  BY GuiAssumption
<1>3. budget.vehicles \in SUBSET Cars
  BY DEF Cars
<1>4. budget \in [vehicles : SUBSET Cars, captures : Int, clicks : Int, settings : Int]
  BY <1>2, <1>3
<1>5. guiLog \in Log
  BY <1>1, <1>4 DEF Log
<1> QED BY <1>5 DEF GuiInit, GuiTypes, Tables

LEMMA TypesStep == GuiTypes /\ [GuiNext]_guiVars => GuiTypes'
<1> SUFFICES ASSUME GuiTypes, [GuiNext]_guiVars PROVE GuiTypes'
  OBVIOUS
<1> USE DEF GuiTypes
<1>1. /\ now \in Nat /\ guiLog \in Log /\ requests \in Seq(Requests) /\ packets \in Seq(Packet)
      /\ server.active \in Seq(Rows) /\ server.recent \in Seq(Rows)
      /\ table.pending \in Seq(Rows) /\ table.recent \in Seq(Rows) /\ table.search \in Seq(Rows)
  BY DEF Tables
<1>2. /\ server = [active |-> server.active, recent |-> server.recent]
      /\ table = [pending |-> table.pending, recent |-> table.recent, search |-> table.search]
      /\ link = [client |-> link.client, server |-> link.server]
      /\ guiLog.left.vehicles \in SUBSET Cars
  BY DEF Tables, Log
<1>3. /\ <<>> \in Seq(Rows) /\ <<>> \in Seq(Requests) /\ <<"active", "recent">> \in Seq(Requests)
      /\ <<"active">> \in Seq(Requests) /\ <<"recent">> \in Seq(Requests)
      /\ \A v \in Cars : <<v>> \in Seq(Requests)
  BY DEF Requests
<1>4. ASSUME NEW v \in Cars, processReceivedData(v) PROVE GuiTypes'
  <2>1. Row(v) \in Rows
    BY RowIs
  <2>2. Without(server.active, v) \in Seq(Rows) /\ Append(server.active, Row(v)) \in Seq(Rows)
    BY <1>1, <2>1, WithoutType
  <2>3. server' \in [active : Seq(Rows), recent : Seq(Rows)]
    BY <1>1, <1>2, <1>4, <2>2 DEF processReceivedData
  <2>4. PICK told \in {FALSE, Attached} :
          /\ packets' = IF told THEN packets \o Packets("captured", <<Row(v)>>) ELSE packets
          /\ guiLog' = [Muddled(Listing \/ (edt # "start" /\ ~told)) EXCEPT !.left.captures = @ - 1]
    BY <1>4 DEF processReceivedData
  <2>5. packets' \in Seq(Packet)
    <3>1. <<Row(v)>> \in Seq(Rows)
      BY <2>1
    <3>2. Packets("captured", <<Row(v)>>) \in Seq(Packet)
      BY <3>1, PacketsAre
    <3>3. packets \o Packets("captured", <<Row(v)>>) \in Seq(Packet)
      BY <1>1, <3>2
    <3> QED BY <1>1, <2>4, <3>3
  <2>6. guiLog' \in Log
    <3> DEFINE m == Listing \/ (edt # "start" /\ ~told)
    <3>1. guiLog' = [Muddled(m) EXCEPT !.left.captures = @ - 1]
      BY <2>4
    <3>2. m \in BOOLEAN
      OBVIOUS
    <3> HIDE DEF m
    <3> QED BY <1>1, <3>1, <3>2, MuddledIs, LessIs
  <2> QED BY <1>4, <2>3, <2>5, <2>6 DEF processReceivedData
<1>5. CASE GraceEnds
  <2>1. PICK i \in DOMAIN server.active :
          server' = [active |-> Without(server.active, Vehicle(server.active[i])),
                     recent |-> Append(server.recent, server.active[i])]
    BY <1>5 DEF GraceEnds
  <2>2. server.active[i] \in Rows
    BY <1>1, <2>1
  <2>3. /\ Without(server.active, Vehicle(server.active[i])) \in Seq(Rows)
        /\ Append(server.recent, server.active[i]) \in Seq(Rows)
    BY <1>1, <2>2, WithoutType
  <2>4. server' \in [active : Seq(Rows), recent : Seq(Rows)]
    BY <2>1, <2>3
  <2>5. guiLog' \in Log
    BY <1>1, <1>5, MuddledIs DEF GraceEnds
  <2> QED BY <1>5, <2>4, <2>5 DEF GraceEnds
<1>6. CASE Accept
  BY <1>2, <1>6 DEF Accept
<1>7. CASE AnswerRequest
  <2>1. Head(requests) \in Requests /\ Tail(requests) \in Seq(Requests)
    BY <1>1, <1>7, HeadTailProperties DEF AnswerRequest
  <2>2. Answer(Head(requests)) \in Seq(Packet)
    BY <2>1, AnswerType
  <2>3. packets' \in Seq(Packet)
    BY <1>1, <1>7, <2>2 DEF AnswerRequest
  <2>4. guiLog' \in Log
    <3> DEFINE m == /\ Head(requests) = "active"
                    /\ table.pending # <<>> \/ Flying("captured") \/ Flying("active")
    <3>1. guiLog' = Muddled(m)
      BY <1>7 DEF AnswerRequest
    <3>2. m \in BOOLEAN
      OBVIOUS
    <3> HIDE DEF m
    <3> QED BY <1>1, <3>1, <3>2, MuddledIs
  <2> QED BY <1>7, <2>1, <2>3, <2>4 DEF AnswerRequest
<1>8. ASSUME NEW i \in Busy, onMessage(i) PROVE GuiTypes'
  <2>1. i \in 1 .. Len(packets)
    <3>1. CASE Len(packets) < Threads
      BY <1>1, <3>1 DEF Busy
    <3>2. CASE ~(Len(packets) < Threads)
      BY <1>1, <3>2, GuiAssumption DEF Busy
    <3> QED BY <3>1, <3>2
  <2>2. packets' \in Seq(Packet)
    BY <1>1, <1>8, <2>1, RemovedIs DEF onMessage
  <2>3. CASE table' = table
    BY <1>1, <1>8, <2>2, <2>3, MuddledIs DEF onMessage
  <2>4. CASE table' = Shown(table, packets[i]) /\ guiLog' = guiLog
    <3>1. packets[i] \in Packet
      BY <1>1, <2>1
    <3>2. table' \in Tables
      BY <2>4, <3>1, ShownIs
    <3> QED BY <1>8, <2>2, <2>4, <3>2 DEF onMessage
  <2> QED BY <1>8, <2>3, <2>4 DEF onMessage
<1>9. CASE TimerFires
  <2>1. Head(table.pending) \in Rows /\ Tail(table.pending) \in Seq(Rows)
    BY <1>1, <1>9, HeadTailProperties DEF TimerFires
  <2>2. AddRecent(table.recent, Head(table.pending)) \in Seq(Rows)
    BY <1>1, <2>1, AddRecentType
  <2>3. table' \in Tables
    BY <1>1, <1>2, <1>9, <2>1, <2>2 DEF TimerFires, Tables
  <2>4. guiLog' \in Log
    BY <1>1, <1>9, MuddledIs DEF TimerFires
  <2> QED BY <1>9, <2>3, <2>4 DEF TimerFires
<1>10. CASE OpenWindow
  <2>1. PICK made \in BOOLEAN : Connects(made) /\ guiLog' = Muddled(~made)
    BY <1>10 DEF OpenWindow
  <2>2. guiLog' \in Log
    BY <1>1, <2>1, MuddledIs
  <2> QED BY <1>10, <2>1, <2>2 DEF OpenWindow, Connects
<1>11. CASE RegisterAndRequest
  BY <1>1, <1>3, <1>11, RequestedIs DEF RegisterAndRequest
<1>12. CASE RefreshPending
  <2>1. table' \in Tables
    BY <1>1, <1>2, <1>3, <1>12 DEF RefreshPending, Tables
  <2>2. requests' \in Seq(Requests)
    BY <1>1, <1>3, <1>12, RequestedIs DEF RefreshPending
  <2>3. guiLog' \in Log
    <3>1. Clicked \in Log
      BY <1>1, LessIs DEF Clicked
    <3> HIDE DEF Clicked
    <3>2. guiLog' = [Clicked EXCEPT !.muddled = ~(Quiet /\ Attached)]
      BY <1>12 DEF RefreshPending
    <3> QED BY <3>1, <3>2 DEF Log
  <2> QED BY <1>12, <2>1, <2>2, <2>3 DEF RefreshPending
<1>13. CASE RefreshRecent
  <2>1. table' \in Tables
    BY <1>1, <1>2, <1>3, <1>13 DEF RefreshRecent, Tables
  <2>2. requests' \in Seq(Requests) /\ guiLog' \in Log
    BY <1>1, <1>3, <1>13, RequestedIs, LessIs DEF RefreshRecent, Clicked
  <2> QED BY <1>13, <2>1, <2>2 DEF RefreshRecent
<1>14. ASSUME NEW v \in Cars, Search(v) PROVE GuiTypes'
  <2>1. table' \in Tables
    BY <1>1, <1>2, <1>3, <1>14 DEF Search, Tables
  <2>2. requests' \in Seq(Requests) /\ guiLog' \in Log
    BY <1>1, <1>3, <1>14, RequestedIs, LessIs DEF Search, Clicked
  <2> QED BY <1>14, <2>1, <2>2 DEF Search
<1>15. CASE SettingsOk
  <2>1. guiLog' \in Log
    BY <1>1, <1>15, MuddledIs, LessIs DEF SettingsOk
  <2> QED BY <1>15, <2>1 DEF SettingsOk
<1>16. CASE Disconnected
  <2>1. PICK read \in 0 .. Len(packets) : packets' = SubSeq(packets, 1, read)
    BY <1>16 DEF Disconnected
  <2>2. packets' \in Seq(Packet)
    BY <1>1, <2>1
  <2> QED BY <1>3, <1>16, <2>2 DEF Disconnected
<1>17. CASE Reconnect
  <2>1. requests' \in Seq(Requests)
    BY <1>3, <1>17 DEF Reconnect
  <2> QED BY <1>17, <2>1 DEF Reconnect, Connects
<1>18. CASE Tick
  BY <1>18 DEF Tick
<1>19. CASE UNCHANGED guiVars
  BY <1>19 DEF guiVars
<1> QED BY <1>2, <1>4, <1>5, <1>6, <1>7, <1>8, <1>9, <1>10, <1>11, <1>12, <1>13, <1>14, <1>15,
           <1>16, <1>17, <1>18, <1>19
        DEF GuiNext, EventThread, Buttons, PoolThread, Network

-----------------------------------------------------------------------------
(* The table, the server and what is between them                          *)

\* Unless something went wrong (`muddled'), the list of what is active is still
\* to be answered, or the table and the packets make up for it.
Agreed ==
  /\ edt \in {"start", "opening", "idle"}
  /\ edt # "idle" => requests = <<>>
  /\ edt = "opening" => link.client = "open"
  /\ edt = "idle" =>
       \/ OneListing(requests)
       \/ NoListing(requests) /\ Balanced(server.active, table.pending, packets)

CommuteInv ==
  /\ GuiTypes
  /\ Distinct(server.active)
  /\ ~guiLog.muddled => Agreed

LEMMA CommuteStart == GuiInit => CommuteInv
<1> SUFFICES ASSUME GuiInit PROVE CommuteInv
  OBVIOUS
<1>1. Distinct(server.active)
  BY DEF GuiInit, Distinct
<1> QED BY <1>1, TypesStart DEF GuiInit, CommuteInv, Agreed

LEMMA PhotographAgrees ==
  ASSUME CommuteInv, NEW v \in Cars, processReceivedData(v), GuiTypes'
  PROVE  CommuteInv'
<1>1. now \in Nat /\ guiLog \in Log /\ server.active \in Seq(Rows) /\ packets \in Seq(Packet)
  BY DEF CommuteInv, GuiTypes
<1>2. Distinct(server.active)
  BY DEF CommuteInv
<1>3. Row(v) \in Rows /\ Vehicle(Row(v)) = v
  BY <1>1, RowIs
<1>0. PICK told \in {FALSE, Attached} :
        /\ packets' = IF told THEN packets \o Packets("captured", <<Row(v)>>) ELSE packets
        /\ guiLog' = [Muddled(Listing \/ (edt # "start" /\ ~told)) EXCEPT !.left.captures = @ - 1]
  BY DEF processReceivedData
<1> DEFINE left == IF In(v, server.active) THEN Without(server.active, v)
                                           ELSE Append(server.active, Row(v))
           m == Listing \/ (edt # "start" /\ ~told)
<1>4. server'.active = left
  <2>1. server \in [active : Seq(Rows), recent : Seq(Rows)]
    BY DEF CommuteInv, GuiTypes
  <2> QED BY <2>1 DEF processReceivedData
<1>5. Distinct(left)
  <2>1. CASE In(v, server.active)
    BY <1>1, <1>2, <2>1, WithoutForgets
  <2>2. CASE ~In(v, server.active)
    BY <1>1, <1>2, <1>3, <2>2, AppendAdds
  <2> QED BY <2>1, <2>2
<1>6. guiLog'.muddled <=> guiLog.muddled \/ m
  <2>1. guiLog' = [Muddled(m) EXCEPT !.left.captures = @ - 1]
    BY <1>0
  <2>2. m \in BOOLEAN
    OBVIOUS
  <2> HIDE DEF m
  <2> QED BY <1>1, <2>1, <2>2, MuddledIs, LessIs
<1>7. ASSUME ~guiLog'.muddled PROVE Agreed'
  <2>1. Agreed /\ ~Listing /\ (edt = "start" \/ told)
    BY <1>6, <1>7 DEF CommuteInv
  <2>2. requests' = requests /\ edt' = edt /\ link' = link /\ table' = table
    BY DEF processReceivedData
  <2>3. CASE edt # "idle"
    BY <2>1, <2>2, <2>3 DEF Agreed
  <2>4. CASE edt = "idle"
    <3>1. ~OneListing(requests) /\ ~Has(packets, "active") /\ told
      BY <2>1, <2>4 DEF Listing, Flying, OneListing, Has
    <3>2. NoListing(requests) /\ Balanced(server.active, table.pending, packets)
      BY <2>1, <2>4, <3>1 DEF Agreed
    <3>3. packets' = packets \o Packets("captured", <<Row(v)>>)
      BY <1>0, <3>1
    <3>4. Balanced(left, table.pending, packets \o Packets("captured", <<Row(v)>>))
      BY <1>1, <1>2, <1>3, <3>1, <3>2, PhotographKeeps
    <3> HIDE DEF left
    <3> QED BY <1>4, <2>2, <2>4, <3>2, <3>3, <3>4 DEF Agreed
  <2> QED BY <2>3, <2>4
<1> HIDE DEF left, m
<1> QED BY <1>4, <1>5, <1>7 DEF CommuteInv

LEMMA AnswerAgrees ==
  ASSUME CommuteInv, AnswerRequest, GuiTypes'
  PROVE  CommuteInv'
<1>1. /\ guiLog \in Log /\ server.active \in Seq(Rows) /\ server.recent \in Seq(Rows)
      /\ packets \in Seq(Packet) /\ requests \in Seq(Requests) /\ requests # <<>>
  BY DEF CommuteInv, GuiTypes, AnswerRequest
<1>2. Distinct(server.active)
  BY DEF CommuteInv
<1> DEFINE m == /\ Head(requests) = "active"
                /\ table.pending # <<>> \/ Flying("captured") \/ Flying("active")
<1>3. guiLog'.muddled <=> guiLog.muddled \/ m
  <2>1. guiLog' = Muddled(m)
    BY DEF AnswerRequest
  <2>2. m \in BOOLEAN
    OBVIOUS
  <2> HIDE DEF m
  <2> QED BY <1>1, <2>1, <2>2, MuddledIs
<1>4. /\ requests' = Tail(requests) /\ packets' = packets \o Answer(Head(requests))
      /\ edt' = edt /\ link' = link /\ table' = table /\ server' = server
  BY DEF AnswerRequest
<1>5. ASSUME ~guiLog'.muddled PROVE Agreed'
  <2>1. Agreed /\ ~m
    BY <1>3, <1>5 DEF CommuteInv
  <2>2. edt = "idle"
    BY <1>1, <2>1 DEF Agreed
  <2>3. CASE NoListing(requests) /\ Balanced(server.active, table.pending, packets)
    <3>1. Head(requests) # "active" /\ NoListing(Tail(requests))
      BY <1>1, <2>3, RequestTaken
    <3>2. Violations(Head(requests)) \in Seq(Rows)
      BY <1>1, ViolationsType
    <3>3. Balanced(server.active, table.pending, packets \o Answer(Head(requests)))
      <4>1. CASE Head(requests) = "recent"
        BY <1>1, <2>3, <4>1, AnswerKeeps DEF Answer
      <4>2. CASE Head(requests) # "recent"
        BY <1>1, <2>3, <3>1, <3>2, <4>2, AnswerKeeps DEF Answer
      <4> QED BY <4>1, <4>2
    <3> QED BY <1>4, <2>2, <3>1, <3>3 DEF Agreed
  <2>4. CASE OneListing(requests) /\ Head(requests) # "active"
    <3>1. OneListing(Tail(requests))
      BY <1>1, <2>4, RequestTaken
    <3> QED BY <1>4, <2>2, <3>1 DEF Agreed
  <2>5. CASE OneListing(requests) /\ Head(requests) = "active"
    <3>1. NoListing(Tail(requests))
      BY <1>1, <2>5, RequestTaken
    <3>2. table.pending = <<>> /\ ~Has(packets, "captured") /\ ~Has(packets, "active")
      BY <2>1, <2>5 DEF Flying, Has
    <3>3. Balanced(server.active, <<>>, packets \o Packets("active", server.active))
      BY <1>1, <1>2, <3>2, ListingBalances
    <3>4. Answer(Head(requests)) = Packets("active", server.active)
      BY <2>5 DEF Answer
    <3> QED BY <1>4, <2>2, <3>1, <3>2, <3>3, <3>4 DEF Agreed
  <2> QED BY <2>1, <2>2, <2>3, <2>4, <2>5 DEF Agreed
<1> HIDE DEF m
<1> QED BY <1>2, <1>4, <1>5 DEF CommuteInv

LEMMA HandlingAgrees ==
  ASSUME CommuteInv, NEW i \in Busy, onMessage(i), GuiTypes'
  PROVE  CommuteInv'
<1>1. guiLog \in Log /\ packets \in Seq(Packet) /\ table \in Tables
  BY DEF CommuteInv, GuiTypes
<1>2. i \in 1 .. Len(packets)
  <2>1. CASE Len(packets) < Threads
    BY <1>1, <2>1 DEF Busy
  <2>2. CASE ~(Len(packets) < Threads)
    BY <1>1, <2>2, GuiAssumption DEF Busy
  <2> QED BY <2>1, <2>2
<1>3. /\ packets' = RemoveAt(packets, i) /\ server' = server /\ link' = link
      /\ requests' = requests /\ edt' = edt
  BY DEF onMessage
<1>4. CASE guiLog' = Muddled(TRUE)
  <2>1. guiLog'.muddled
    BY <1>1, <1>4, MuddledIs
  <2> QED BY <1>3, <2>1 DEF CommuteInv
<1>5. CASE edt = "idle" /\ table' = Shown(table, packets[i]) /\ guiLog' = guiLog
  <2>1. ASSUME ~guiLog.muddled PROVE Agreed'
    <3>1. Agreed
      BY <2>1 DEF CommuteInv
    <3>2. CASE OneListing(requests)
      BY <1>3, <1>5, <3>2 DEF Agreed
    <3>3. CASE NoListing(requests) /\ Balanced(server.active, table.pending, packets)
      <4>1. Balanced(server.active, Shown(table, packets[i]).pending, RemoveAt(packets, i))
        BY <1>1, <1>2, <3>3, HandlingKeeps
      <4> QED BY <1>3, <1>5, <3>3, <4>1 DEF Agreed
    <3> QED BY <1>5, <3>1, <3>2, <3>3 DEF Agreed
  <2> QED BY <1>3, <1>5, <2>1 DEF CommuteInv
<1> QED BY <1>4, <1>5 DEF onMessage

\* The event thread and the buttons.
LEMMA RequestAgrees ==
  ASSUME CommuteInv, GuiTypes', NEW request \in Requests \ {"active"},
         edt = "idle", edt' = "idle", requests' = Requested(<<request>>),
         guiLog' = Clicked, server' = server, packets' = packets, link' = link,
         table'.pending = table.pending
  PROVE  CommuteInv'
<1>1. guiLog \in Log /\ requests \in Seq(Requests)
  BY DEF CommuteInv, GuiTypes
<1>2. guiLog'.muddled = guiLog.muddled
  BY <1>1, LessIs DEF Clicked
<1>3. /\ NoListing(requests) => NoListing(requests')
      /\ OneListing(requests) => OneListing(requests')
  BY <1>1, RequestQueued DEF Requested
<1>4. ~guiLog.muddled => Agreed'
  BY <1>3 DEF CommuteInv, Agreed
<1> QED BY <1>2, <1>4 DEF CommuteInv

LEMMA RefreshAgrees ==
  ASSUME CommuteInv, RefreshPending, GuiTypes' PROVE CommuteInv'
<1>1. guiLog \in Log
  BY DEF CommuteInv, GuiTypes
<1>2. ~guiLog'.muddled => Quiet /\ Attached
  <2>1. Clicked \in Log
    BY <1>1, LessIs DEF Clicked
  <2>2. guiLog' = [Clicked EXCEPT !.muddled = ~(Quiet /\ Attached)]
    BY DEF RefreshPending
  <2> HIDE DEF Clicked
  <2>3. guiLog'.muddled = ~(Quiet /\ Attached)
    BY <2>1, <2>2 DEF Log
  <2> QED BY <2>3
<1>3. ASSUME Quiet, Attached PROVE Agreed'
  <2>1. requests' = <<"active">>
    BY <1>3 DEF RefreshPending, Requested, Quiet, Attached
  <2>2. OneListing(requests')
    BY <2>1 DEF OneListing
  <2> QED BY <2>2 DEF RefreshPending, Click, Agreed
<1>4. server' = server
  BY DEF RefreshPending
<1> QED BY <1>2, <1>3, <1>4 DEF CommuteInv

LEMMA RegisterAgrees ==
  ASSUME CommuteInv, RegisterAndRequest, GuiTypes' PROVE CommuteInv'
<1>1. ASSUME ~guiLog'.muddled PROVE Agreed'
  <2>1. Agreed /\ edt = "opening" /\ edt' = "idle" /\ requests' = Requested(<<"active", "recent">>)
    BY <1>1 DEF CommuteInv, RegisterAndRequest
  <2>2. requests' = <<"active", "recent">>
    BY <2>1 DEF Agreed, Requested
  <2>3. OneListing(requests')
    BY <2>2 DEF OneListing
  <2> QED BY <2>1, <2>3 DEF Agreed
<1>2. server' = server
  BY DEF RegisterAndRequest
<1> QED BY <1>1, <1>2 DEF CommuteInv

LEMMA GraceMuddles ==
  ASSUME CommuteInv, GraceEnds, GuiTypes' PROVE CommuteInv'
<1>1. guiLog \in Log /\ server.active \in Seq(Rows) /\ Distinct(server.active)
  BY DEF CommuteInv, GuiTypes
<1>2. PICK i \in DOMAIN server.active :
        server' = [active |-> Without(server.active, Vehicle(server.active[i])),
                   recent |-> Append(server.recent, server.active[i])]
  BY DEF GraceEnds
<1>3. Distinct(server'.active)
  BY <1>1, <1>2, WithoutForgets
<1>4. guiLog'.muddled
  BY <1>1, MuddledIs DEF GraceEnds
<1> QED BY <1>3, <1>4 DEF CommuteInv

LEMMA CommuteStep == CommuteInv /\ [GuiNext]_guiVars => CommuteInv'
<1> SUFFICES ASSUME CommuteInv, [GuiNext]_guiVars PROVE CommuteInv'
  OBVIOUS
<1>1. GuiTypes /\ guiLog \in Log /\ guiLog.left.vehicles \subseteq Cars
  BY DEF CommuteInv, GuiTypes, Log
<1>2. GuiTypes'
  BY <1>1, TypesStep
<1>3. ASSUME server' = server, guiLog'.muddled PROVE CommuteInv'
  BY <1>2, <1>3 DEF CommuteInv
<1>4. ASSUME server' = server, guiLog' = guiLog, edt \in {"disconnecting", "closed"}
      PROVE  CommuteInv'
  BY <1>2, <1>4 DEF CommuteInv, Agreed
<1>5. ASSUME NEW v \in Cars, processReceivedData(v) PROVE CommuteInv'
  BY <1>2, <1>5, PhotographAgrees
<1>6. CASE GraceEnds
  BY <1>2, <1>6, GraceMuddles
<1>7. CASE Accept
  <2>1. link'.client = link.client
    <3>1. link = [client |-> link.client, server |-> link.server]
      BY <1>1 DEF GuiTypes
    <3> QED BY <1>7, <3>1 DEF Accept
  <2> QED BY <1>2, <1>7, <2>1 DEF Accept, CommuteInv, Agreed
<1>8. CASE AnswerRequest
  BY <1>2, <1>8, AnswerAgrees
<1>9. ASSUME NEW i \in Busy, onMessage(i) PROVE CommuteInv'
  BY <1>2, <1>9, HandlingAgrees
<1>10. CASE TimerFires
  <2>1. server' = server /\ guiLog'.muddled
    BY <1>1, <1>10, MuddledIs DEF TimerFires
  <2> QED BY <1>3, <2>1
<1>11. CASE OpenWindow
  <2>1. PICK made \in BOOLEAN : Connects(made) /\ guiLog' = Muddled(~made)
    BY <1>11 DEF OpenWindow
  <2>2. guiLog'.muddled = (guiLog.muddled \/ ~made)
    BY <1>1, <2>1, MuddledIs
  <2>3. ASSUME ~guiLog'.muddled PROVE Agreed'
    <3>1. made /\ Agreed
      BY <2>2, <2>3 DEF CommuteInv
    <3>2. requests = <<>> /\ requests' = requests /\ edt' = "opening"
      BY <1>11, <3>1 DEF OpenWindow, Agreed
    <3>3. link'.client = "open"
      BY <2>1, <3>1 DEF Connects
    <3> QED BY <3>2, <3>3 DEF Agreed
  <2> QED BY <1>2, <1>11, <2>3 DEF OpenWindow, CommuteInv
<1>12. CASE RegisterAndRequest
  BY <1>2, <1>12, RegisterAgrees
<1>13. CASE RefreshPending
  BY <1>2, <1>13, RefreshAgrees
<1>14. CASE RefreshRecent
  <2>1. table'.pending = table.pending
    BY <1>1, <1>14 DEF RefreshRecent, GuiTypes, Tables
  <2>2. "recent" \in Requests \ {"active"}
    BY DEF Requests
  <2> QED BY <1>2, <1>14, <2>1, <2>2, RequestAgrees DEF RefreshRecent, Click
<1>15. ASSUME NEW v \in Cars, Search(v) PROVE CommuteInv'
  <2>1. table'.pending = table.pending
    BY <1>1, <1>15 DEF Search, GuiTypes, Tables
  <2>2. v \in Requests \ {"active"}
    BY GuiAssumption DEF Cars, Requests
  <2> QED BY <1>2, <1>15, <2>1, <2>2, RequestAgrees DEF Search, Click
<1>16. CASE SettingsOk
  <2>1. guiLog'.muddled /\ server' = server
    BY <1>1, <1>16, MuddledIs, LessIs DEF SettingsOk
  <2> QED BY <1>3, <2>1
<1>17. CASE Disconnected
  BY <1>4, <1>17 DEF Disconnected
<1>18. CASE Reconnect
  BY <1>4, <1>18 DEF Reconnect
<1>19. CASE Tick \/ UNCHANGED guiVars
  BY <1>2, <1>19 DEF Tick, guiVars, CommuteInv, Agreed
<1> QED BY <1>1, <1>5, <1>6, <1>7, <1>8, <1>9, <1>10, <1>11, <1>12, <1>13, <1>14, <1>15,
           <1>16, <1>17, <1>18, <1>19
        DEF GuiNext, EventThread, Buttons, PoolThread, Network

\* A table without doubles is as long as it has vehicles.
LEMMA DistinctLength ==
  ASSUME NEW S, NEW T, NEW rows \in Seq(S), NEW others \in Seq(T), Distinct(rows),
         \A v : In(v, rows) => In(v, others)
  PROVE  Len(rows) <= Len(others)
<1> DEFINE n == Len(rows)
           m == Len(others)
           f == [i \in 1 .. n |-> CHOOSE j \in 1 .. m : Vehicle(others[j]) = Vehicle(rows[i])]
<1>1. n \in Nat /\ m \in Nat /\ DOMAIN rows = 1 .. n /\ DOMAIN others = 1 .. m
  OBVIOUS
<1> HIDE DEF n, m
<1>2. ASSUME NEW i \in 1 .. n PROVE f[i] \in 1 .. m /\ Vehicle(others[f[i]]) = Vehicle(rows[i])
  <2>1. In(Vehicle(rows[i]), others)
    BY <1>1 DEF In
  <2>2. \E j \in 1 .. m : Vehicle(others[j]) = Vehicle(rows[i])
    BY <1>1, <2>1 DEF In
  <2> QED BY <2>2
<1>3. f \in Injection(1 .. n, 1 .. m)
  <2>1. f \in [1 .. n -> 1 .. m]
    BY <1>2
  <2>2. \A i, j \in 1 .. n : f[i] = f[j] => i = j
    <3> TAKE i, j \in 1 .. n
    <3> HAVE f[i] = f[j]
    <3>1. Vehicle(rows[i]) = Vehicle(rows[j])
      BY <1>2
    <3> QED BY <1>1, <3>1 DEF Distinct
  <2> HIDE DEF f
  <2> QED BY <2>1, <2>2 DEF Injection, IsInjective
<1> HIDE DEF f
<1>4. /\ IsFiniteSet(1 .. n) /\ Cardinality(1 .. n) = n
      /\ IsFiniteSet(1 .. m) /\ Cardinality(1 .. m) = m
  BY <1>1, FS_Interval
<1>5. Cardinality(1 .. n) <= Cardinality(1 .. m)
  BY <1>3, <1>4, FS_Injection
<1> QED BY <1>4, <1>5 DEF n, m

LEMMA CommuteHolds == CommuteInv => TogglesCommute
<1> SUFFICES ASSUME CommuteInv, Quiet, ~guiLog.muddled, edt = "idle"
             PROVE  /\ {Vehicle(table.pending[i]) : i \in DOMAIN table.pending} =
                       {Vehicle(server.active[i]) : i \in DOMAIN server.active}
                    /\ Len(table.pending) = Len(server.active)
  BY DEF TogglesCommute
<1>1. requests = <<>> /\ packets = <<>>
  BY DEF Quiet
<1>2. ~OneListing(requests)
  BY <1>1 DEF OneListing
<1>3. Balanced(server.active, table.pending, packets)
  BY <1>2 DEF CommuteInv, Agreed
<1>4. \A v : ~Listed(packets, v) /\ ~Odd(packets, v)
  <2> TAKE v
  <2>1. CapturesOf(packets, v) = {} /\ ~Listed(packets, v)
    BY <1>1 DEF CapturesOf, Listed
  <2> QED BY <2>1, FS_EmptySet DEF Odd
<1>5. \A v : In(v, server.active) <=> In(v, table.pending)
  BY <1>3, <1>4 DEF Balanced
<1>6. Distinct(table.pending) /\ Distinct(server.active)
  BY <1>3 DEF Balanced, CommuteInv
<1>7. table.pending \in Seq(Rows) /\ server.active \in Seq(Rows)
  BY DEF CommuteInv, GuiTypes, Tables
<1>8. Len(table.pending) = Len(server.active)
  <2>1. Len(table.pending) <= Len(server.active) /\ Len(server.active) <= Len(table.pending)
    BY <1>5, <1>6, <1>7, DistinctLength
  <2>2. Len(table.pending) \in Nat /\ Len(server.active) \in Nat
    BY <1>7
  <2> QED BY <2>1, <2>2
<1> QED BY <1>5, <1>8 DEF In

\* Once nothing is under way, the table of pending vehicles shows what is
\* active (MainForm.onPacketReceived), in whatever order the pool handled the
\* photographs, for any number of vehicles, photographs, clicks and threads.
THEOREM TableIsRight == GuiSpec => []TogglesCommute
<1>1. GuiSpec => []CommuteInv
  BY CommuteStart, CommuteStep, PTL DEF GuiSpec
<1> QED BY <1>1, CommuteHolds, PTL
=============================================================================
