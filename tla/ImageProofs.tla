----------------------------- MODULE ImageProofs -----------------------------
(***************************************************************************)
(* Theorems about the builder of images (module Image), for any command    *)
(* lines and any files.                                                    *)
(***************************************************************************)
EXTENDS Image, SequenceTheorems, WellFoundedInduction, TLAPS

LEMMA SmallestExists ==
  ASSUME NEW T \in SUBSET Nat, T # {}
  PROVE  \E x \in T : \A y \in T : x <= y
PROOF
  <1>1. PICK x \in T : \A y \in T : ~(<<y, x>> \in OpToRel(<, Nat))
    BY NatLessThanWellFounded, WFMin
  <1>2. \A y \in T : ~(y < x)
    BY <1>1 DEF OpToRel
  <1> QED BY <1>2

LEMMA LargestExists ==
  ASSUME NEW n \in Nat, NEW T \in SUBSET (1..n), T # {}
  PROVE  \E x \in T : \A y \in T : x >= y
PROOF
  <1> DEFINE U == {m \in 0..n : n - m \in T}
  <1>1. \A y \in T : n - y \in 0..n /\ n - (n - y) = y
    OBVIOUS
  <1>2. U \in SUBSET Nat /\ U # {}
    <2>1. \A y \in T : n - y \in U
      BY <1>1
    <2>2. U # {}
      BY <2>1
    <2>3. U \in SUBSET Nat
      OBVIOUS
    <2> QED BY <2>2, <2>3
  <1>3. PICK m \in U : \A k \in U : m <= k
    BY <1>2, SmallestExists
  <1>4. ASSUME NEW y \in T PROVE n - m >= y
    <2>1. n - y \in U
      BY <1>1
    <2>2. m <= n - y
      BY <1>3, <2>1
    <2>3. m \in 0..n /\ y \in 1..n
      OBVIOUS
    <2> QED BY <2>2, <2>3
  <1> QED BY <1>4
-----------------------------------------------------------------------------
(* FlattenSeq is defined by recursion.  g is what the recursion gives for  *)
(* the first n of s; it exists, and two of them agree where the sequences  *)
(* do: both by a smallest counterexample.                                  *)
Flattens(g, s, n) ==
  g = [i \in 1..n |-> IF i = 1 THEN s[i] ELSE g[i - 1] \o s[i]]

LEMMA FlatExists ==
  ASSUME NEW S, NEW s \in Seq(Seq(S)), NEW n \in 1..Len(s)
  PROVE  \E g \in [1..n -> Seq(S)] : Flattens(g, s, n)
PROOF
  <1> DEFINE Good(k) == \E g \in [1..k -> Seq(S)] : Flattens(g, s, k)
             T == {k \in 1..Len(s) : ~Good(k)}
  <1> HIDE DEF Good
  <1>1. Len(s) \in Nat /\ \A i \in 1..Len(s) : s[i] \in Seq(S)
    BY ElementOfSeq
  <1>2. SUFFICES ASSUME T # {} PROVE FALSE
    BY DEF Good
  <1>3. PICK k \in T : \A j \in T : k <= j
    <2>1. T \in SUBSET Nat
      BY <1>1
    <2> QED BY <1>2, <2>1, SmallestExists
  <1>4. CASE k = 1
    <2> DEFINE g == [i \in 1..1 |-> s[i]]
    <2>1. g \in [1..k -> Seq(S)]
      BY <1>1, <1>4
    <2>2. Flattens(g, s, k)
      BY <1>4 DEF Flattens
    <2> QED BY <1>3, <2>1, <2>2 DEF Good
  <1>5. CASE k # 1
    <2>1. k \in Nat /\ k - 1 \in 1..Len(s) /\ k - 1 \notin T /\ k \in 1..Len(s)
      BY <1>1, <1>3, <1>5
    <2>2. Good(k - 1)
      BY <2>1
    <2>3. PICK g \in [1..(k - 1) -> Seq(S)] : Flattens(g, s, k - 1)
      BY <2>2 DEF Good
    <2> DEFINE h == [i \in 1..k |-> IF i = k THEN g[k - 1] \o s[k] ELSE g[i]]
    <2>4. g[k - 1] \in Seq(S) /\ s[k] \in Seq(S)
      BY <1>1, <2>1, <2>3
    <2>5. g[k - 1] \o s[k] \in Seq(S)
      BY <2>4, ConcatProperties
    <2>6. h \in [1..k -> Seq(S)]
      BY <2>1, <2>3, <2>5
    <2>7. ASSUME NEW i \in 1..k
          PROVE  h[i] = IF i = 1 THEN s[i] ELSE h[i - 1] \o s[i]
      <3>1. CASE i = k
        <4>1. k - 1 \in 1..k /\ k - 1 # k /\ h[k - 1] = g[k - 1]
          BY <1>5, <2>1
        <4>2. k \in 1..k
          BY <1>1, <2>1
        <4>3. h[k] = g[k - 1] \o s[k]
          BY <4>2
        <4> QED BY <1>5, <3>1, <4>1, <4>3
      <3>2. CASE i # k
        <4>1. i \in 1..(k - 1) /\ h[i] = g[i]
          BY <2>1, <2>7, <3>2
        <4>2. g[i] = IF i = 1 THEN s[i] ELSE g[i - 1] \o s[i]
          BY <4>1, <2>3 DEF Flattens
        <4>3. i # 1 => i - 1 \in 1..k /\ i - 1 # k /\ h[i - 1] = g[i - 1]
          BY <2>1, <4>1
        <4> QED BY <4>1, <4>2, <4>3
      <3> QED BY <3>1, <3>2
    <2>8. Flattens(h, s, k)
      BY <2>7 DEF Flattens
    <2> QED BY <1>3, <2>6, <2>8 DEF Good
  <1> QED BY <1>4, <1>5

LEMMA FlatsAgree ==
  ASSUME NEW S, NEW s \in Seq(Seq(S)), NEW t \in Seq(Seq(S)),
         NEW m \in Nat, NEW n \in Nat, m <= n,
         NEW g, Flattens(g, s, m), NEW h, Flattens(h, t, n),
         NEW i \in 1..m, \A k \in 1..m : s[k] = t[k]
  PROVE  g[i] = h[i]
PROOF
  <1> DEFINE T == {k \in 1..m : g[k] # h[k]}
  <1>1. SUFFICES ASSUME T # {} PROVE FALSE
    OBVIOUS
  <1>2. PICK k \in T : \A j \in T : k <= j
    <2>1. T \in SUBSET Nat
      OBVIOUS
    <2> QED BY <1>1, <2>1, SmallestExists
  <1>3. /\ g[k] = IF k = 1 THEN s[k] ELSE g[k - 1] \o s[k]
        /\ h[k] = IF k = 1 THEN t[k] ELSE h[k - 1] \o t[k]
    <2>1. k \in 1..m /\ k \in 1..n
      OBVIOUS
    <2> QED BY <2>1 DEF Flattens
  <1>4. k # 1 => g[k - 1] = h[k - 1]
    BY <1>2
  <1> QED BY <1>3, <1>4

LEMMA FlattenIs ==
  ASSUME NEW S, NEW s \in Seq(Seq(S)), Len(s) # 0
  PROVE  \E g \in [1..Len(s) -> Seq(S)] :
           Flattens(g, s, Len(s)) /\ FlattenSeq(s) = g[Len(s)]
PROOF
  <1>1. PICK n : n = Len(s)
    OBVIOUS
  <1>2. n \in Nat /\ n \in 1..n /\ n \in 1..Len(s)
    BY <1>1, LenProperties
  <1>3. PICK g \in [1..n -> Seq(S)] : Flattens(g, s, n)
    BY <1>2, FlatExists
  <1> DEFINE f == CHOOSE h : h = [i \in 1..n |-> IF i = 1 THEN s[i] ELSE h[i - 1] \o s[i]]
  <1>4. Flattens(f, s, n)
    BY <1>3, Zenon DEF Flattens
  <1>5. FlattenSeq(s) = f[n]
    BY <1>1 DEF FlattenSeq
  <1> HIDE DEF f
  <1>6. g[n] = f[n]
    BY <1>2, <1>3, <1>4, FlatsAgree
  <1> QED BY <1>1, <1>3, <1>5, <1>6, Zenon

LEMMA FlattenTyped ==
  ASSUME NEW S, NEW s \in Seq(Seq(S))
  PROVE  FlattenSeq(s) \in Seq(S) /\ (Len(s) = 0 => FlattenSeq(s) = <<>>)
PROOF
  <1>1. CASE Len(s) = 0
    <2>1. FlattenSeq(s) = s /\ s = <<>>
      BY <1>1, EmptySeq DEF FlattenSeq
    <2> QED BY <2>1
  <1>2. CASE Len(s) # 0
    <2>1. Len(s) \in 1..Len(s)
      BY <1>2, LenProperties
    <2>2. PICK g \in [1..Len(s) -> Seq(S)] : FlattenSeq(s) = g[Len(s)]
      BY <1>2, FlattenIs
    <2> QED BY <1>2, <2>1, <2>2
  <1> QED BY <1>1, <1>2

(* One sequence more.                                                      *)
LEMMA FlattenGrows ==
  ASSUME NEW S, NEW s \in Seq(Seq(S)), NEW t \in Seq(Seq(S)),
         Len(t) = Len(s) + 1, \A i \in 1..Len(s) : t[i] = s[i]
  PROVE  FlattenSeq(t) = FlattenSeq(s) \o t[Len(t)]
PROOF
  <1>1. PICK n, m : n = Len(s) /\ m = Len(t)
    OBVIOUS
  <1>2. n \in Nat /\ m \in Nat /\ m = n + 1 /\ m \in 1..m /\ m # 0 /\ t[m] \in Seq(S)
    BY <1>1, LenProperties, ElementOfSeq
  <1>3. PICK h : Flattens(h, t, m) /\ FlattenSeq(t) = h[m]
    BY <1>1, <1>2, FlattenIs
  <1>4. h[m] = IF m = 1 THEN t[m] ELSE h[m - 1] \o t[m]
    <2>1. \A i \in 1..m : h[i] = IF i = 1 THEN t[i] ELSE h[i - 1] \o t[i]
      BY <1>3 DEF Flattens
    <2> QED BY <1>2, <2>1
  <1>5. CASE n = 0
    <2>1. FlattenSeq(s) = <<>>
      BY <1>1, <1>5, FlattenTyped
    <2>2. <<>> \o t[m] = t[m]
      BY <1>2, ConcatEmptySeq
    <2> QED BY <1>1, <1>2, <1>3, <1>4, <1>5, <2>1, <2>2
  <1>6. CASE n # 0
    <2>1. PICK g : Flattens(g, s, n) /\ FlattenSeq(s) = g[n]
      BY <1>1, <1>6, FlattenIs
    <2>2. n <= m /\ \A i \in 1..n : s[i] = t[i]
      BY <1>1, <1>2
    <2>3. g[n] = h[n]
      <3>1. Flattens(g, s, n) /\ Flattens(h, t, m) /\ n \in Nat /\ m \in Nat
        BY <1>2, <1>3, <2>1
      <3>2. \A i \in 1..n : g[i] = h[i]
        BY <2>2, <3>1, FlatsAgree
      <3> QED BY <1>2, <1>6, <3>2
    <2>4. m # 1 /\ m - 1 = n
      BY <1>2, <1>6
    <2> QED BY <1>1, <1>3, <1>4, <2>1, <2>3, <2>4
  <1> QED BY <1>5, <1>6
-----------------------------------------------------------------------------
(* What has been chosen of a sequence grows with it.                       *)
LEMMA IsSeqOf ==
  ASSUME NEW S, NEW n \in Nat, NEW f \in [1..n -> S]
  PROVE  f \in Seq(S) /\ Len(f) = n
PROOF
  <1>1. f \in Seq(S)
    BY SeqDef
  <1>2. DOMAIN f = 1..n /\ DOMAIN f = 1..Len(f) /\ Len(f) \in Nat
    BY <1>1, LenProperties
  <1> QED BY <1>1, <1>2

(* The three sequences of pieces that are flattened.                       *)
Nonempties(list) == [i \in DOMAIN list |-> IF list[i] # "" THEN <<list[i]>> ELSE <<>>]
Names(parts) ==
  [i \in DOMAIN parts |-> IF parts[i].what = "header" THEN <<parts[i].of>> ELSE <<>>]
Readables(turns) ==
  [i \in DOMAIN turns |-> IF Readable(turns[i]) THEN <<turns[i]>> ELSE <<>>]

LEMMA PiecesTyped ==
  ASSUME NEW S, NEW n \in Nat, NEW list, DOMAIN list = 1..n
  PROVE  /\ (\A i \in 1..n : list[i] \in S) =>
              /\ Nonempties(list) \in Seq(Seq(S)) /\ Len(Nonempties(list)) = n
              /\ Readables(list) \in Seq(Seq(S)) /\ Len(Readables(list)) = n
         /\ (\A i \in 1..n : list[i].what = "header" => list[i].of \in S) =>
              Names(list) \in Seq(Seq(S)) /\ Len(Names(list)) = n
PROOF
  <1>1. \A x \in S : <<x>> \in Seq(S)
    OBVIOUS
  <1>2. <<>> \in Seq(S)
    BY EmptySeq
  <1>3. ASSUME \A i \in 1..n : list[i] \in S
        PROVE  /\ Nonempties(list) \in Seq(Seq(S)) /\ Len(Nonempties(list)) = n
               /\ Readables(list) \in Seq(Seq(S)) /\ Len(Readables(list)) = n
    <2>1. Nonempties(list) \in [1..n -> Seq(S)]
      BY <1>1, <1>2, <1>3 DEF Nonempties
    <2>2. Readables(list) \in [1..n -> Seq(S)]
      BY <1>1, <1>2, <1>3 DEF Readables
    <2> QED BY <2>1, <2>2, IsSeqOf
  <1>4. ASSUME \A i \in 1..n : list[i].what = "header" => list[i].of \in S
        PROVE  Names(list) \in Seq(Seq(S)) /\ Len(Names(list)) = n
    <2>1. Names(list) \in [1..n -> Seq(S)]
      BY <1>1, <1>2, <1>4 DEF Names
    <2> QED BY <2>1, IsSeqOf
  <1> QED BY <1>3, <1>4

(* The first n places of a list.                                           *)
Upto(list, n) == [i \in 1..n |-> list[i]]

LEMMA NonemptyGrows ==
  ASSUME NEW S, NEW list \in Seq(S), NEW n \in Nat, n < Len(list)
  PROVE  /\ NonemptyOf(Upto(list, n + 1)) =
              NonemptyOf(Upto(list, n)) \o
                (IF list[n + 1] # "" THEN <<list[n + 1]>> ELSE <<>>)
         /\ NonemptyOf(Upto(list, n)) \in Seq(S)
PROOF
  <1>1. PICK s, t : s = Upto(list, n) /\ t = Upto(list, n + 1)
    OBVIOUS
  <1>2. Len(list) \in Nat /\ \A i \in 1..Len(list) : list[i] \in S
    BY LenProperties, ElementOfSeq
  <1>3. /\ DOMAIN s = 1..n /\ \A i \in 1..n : s[i] = list[i] /\ s[i] \in S
        /\ DOMAIN t = 1..(n + 1) /\ n + 1 \in Nat /\ n + 1 \in 1..(n + 1)
        /\ \A i \in 1..(n + 1) : t[i] = list[i] /\ t[i] \in S
    BY <1>1, <1>2 DEF Upto
  <1>4. /\ Nonempties(s) \in Seq(Seq(S)) /\ Len(Nonempties(s)) = n
        /\ Nonempties(t) \in Seq(Seq(S)) /\ Len(Nonempties(t)) = n + 1
    BY <1>3, PiecesTyped
  <1>5. \A i \in 1..n : Nonempties(t)[i] = Nonempties(s)[i]
    <2>1. \A i \in 1..n : /\ i \in DOMAIN s /\ i \in DOMAIN t /\ s[i] = t[i]
      BY <1>3
    <2> QED BY <2>1 DEF Nonempties
  <1>6. Nonempties(t)[n + 1] = IF list[n + 1] # "" THEN <<list[n + 1]>> ELSE <<>>
    BY <1>3 DEF Nonempties
  <1>7. FlattenSeq(Nonempties(t)) = FlattenSeq(Nonempties(s)) \o Nonempties(t)[n + 1]
    BY <1>4, <1>5, FlattenGrows
  <1>8. FlattenSeq(Nonempties(s)) \in Seq(S)
    BY <1>4, FlattenTyped
  <1>9. /\ NonemptyOf(s) = FlattenSeq(Nonempties(s))
        /\ NonemptyOf(t) = FlattenSeq(Nonempties(t))
    BY DEF NonemptyOf, Nonempties
  <1> QED BY <1>1, <1>6, <1>7, <1>8, <1>9

(* Places that are empty add nothing.                                      *)
Blank(list, i, k) == \A p \in i..k : list[p] = ""

LEMMA BlankIs ==
  ASSUME NEW list, NEW k \in Nat
  PROVE  Blank(list, k, k) <=> list[k] = ""
PROOF
  <1>1. \A p \in k..k : p = k
    OBVIOUS
  <1>2. k \in k..k
    OBVIOUS
  <1> QED BY <1>1, <1>2, Zenon DEF Blank

LEMMA EmptyAddsNothing ==
  ASSUME NEW S, NEW list \in Seq(S), NEW m \in Nat, NEW n \in Nat, m <= n, n <= Len(list),
         Blank(list, m + 1, n)
  PROVE  NonemptyOf(Upto(list, n)) = NonemptyOf(Upto(list, m))
PROOF
  <1> DEFINE Same(k) == NonemptyOf(Upto(list, k)) = NonemptyOf(Upto(list, m))
             T == {k \in m..n : ~Same(k)}
  <1>1. Same(m)
    OBVIOUS
  <1> HIDE DEF Same
  <1>2. SUFFICES ASSUME T # {} PROVE FALSE
    BY DEF Same
  <1>3. PICK k \in T : \A j \in T : k <= j
    <2>1. T \in SUBSET Nat
      OBVIOUS
    <2> QED BY <1>2, <2>1, SmallestExists
  <1>4. k \in m..n /\ ~Same(k) /\ k # m
    BY <1>1, <1>3
  <1>5. PICK j \in m..n : k = j + 1
    BY <1>4
  <1>6. Same(j)
    BY <1>3, <1>5
  <1>7. Len(list) \in Nat
    BY LenProperties
  <1>8. j \in Nat /\ j < Len(list) /\ j + 1 \in (m + 1)..n
    BY <1>4, <1>5, <1>7
  <1>9. /\ NonemptyOf(Upto(list, j + 1)) = NonemptyOf(Upto(list, j)) \o <<>>
        /\ NonemptyOf(Upto(list, j)) \in Seq(S)
    <2>1. list[j + 1] = ""
      BY <1>8 DEF Blank
    <2> QED BY <1>8, <2>1, NonemptyGrows
  <1>10. NonemptyOf(Upto(list, k)) = NonemptyOf(Upto(list, j))
    BY <1>5, <1>9, ConcatEmptySeq
  <1> QED BY <1>4, <1>6, <1>10 DEF Same

LEMMA NonemptyOfAll ==
  ASSUME NEW S, NEW list \in Seq(S)
  PROVE  Upto(list, Len(list)) = list /\ NonemptyOf(Upto(list, 0)) = <<>>
PROOF
  <1>1. Len(list) \in Nat /\ list = [i \in 1..Len(list) |-> list[i]]
    BY LenProperties
  <1>2. Upto(list, Len(list)) = list
    BY <1>1 DEF Upto
  <1>3. DOMAIN Upto(list, 0) = 1..0
    BY DEF Upto
  <1>4. Nonempties(Upto(list, 0)) \in Seq(Seq(S)) /\ Len(Nonempties(Upto(list, 0))) = 0
    BY <1>3, PiecesTyped
  <1>5. NonemptyOf(Upto(list, 0)) = <<>>
    BY <1>4, FlattenTyped DEF NonemptyOf, Nonempties
  <1> QED BY <1>2, <1>5

(* A turn more, and a part more.                                           *)
LEMMA ReadableGrows ==
  ASSUME NEW S, NEW turns \in Seq(S), NEW x \in S
  PROVE  ReadableOf(Append(turns, x)) =
           ReadableOf(turns) \o (IF Readable(x) THEN <<x>> ELSE <<>>)
PROOF
  <1>1. PICK n : n = Len(turns)
    OBVIOUS
  <1>2. PICK t : t = Append(turns, x)
    OBVIOUS
  <1>3. /\ n \in Nat /\ n + 1 \in Nat /\ DOMAIN turns = 1..n
        /\ \A i \in 1..n : turns[i] \in S
    BY <1>1, LenProperties, ElementOfSeq
  <1>4. /\ t \in Seq(S) /\ Len(t) = n + 1 /\ DOMAIN t = 1..(n + 1)
        /\ \A i \in 1..n : t[i] = turns[i]
        /\ t[n + 1] = x /\ n + 1 \in 1..(n + 1)
    BY <1>1, <1>2, <1>3, AppendProperties
  <1>5. \A i \in 1..(n + 1) : t[i] \in S
    BY <1>4, ElementOfSeq
  <1>6. /\ Readables(turns) \in Seq(Seq(S)) /\ Len(Readables(turns)) = n
        /\ Readables(t) \in Seq(Seq(S)) /\ Len(Readables(t)) = n + 1
    BY <1>3, <1>4, <1>5, PiecesTyped
  <1>7. \A i \in 1..n : Readables(t)[i] = Readables(turns)[i]
    BY <1>3, <1>4 DEF Readables
  <1>8. Readables(t)[n + 1] = IF Readable(x) THEN <<x>> ELSE <<>>
    BY <1>4 DEF Readables
  <1>9. FlattenSeq(Readables(t)) = FlattenSeq(Readables(turns)) \o Readables(t)[n + 1]
    BY <1>6, <1>7, FlattenGrows
  <1> QED BY <1>2, <1>8, <1>9 DEF ReadableOf, Readables

LEMMA NamesGrow ==
  ASSUME NEW S, NEW P, NEW parts \in Seq(P), NEW x \in P,
         \A p \in P : p.what = "header" => p.of \in S
  PROVE  /\ NamesOf(Append(parts, x)) =
              NamesOf(parts) \o (IF x.what = "header" THEN <<x.of>> ELSE <<>>)
         /\ NamesOf(parts) \in Seq(S)
PROOF
  <1>1. PICK n : n = Len(parts)
    OBVIOUS
  <1>2. PICK t : t = Append(parts, x)
    OBVIOUS
  <1>3. /\ n \in Nat /\ n + 1 \in Nat /\ DOMAIN parts = 1..n
        /\ \A i \in 1..n : parts[i] \in P
    BY <1>1, LenProperties, ElementOfSeq
  <1>4. /\ t \in Seq(P) /\ Len(t) = n + 1 /\ DOMAIN t = 1..(n + 1)
        /\ \A i \in 1..n : t[i] = parts[i]
        /\ t[n + 1] = x /\ n + 1 \in 1..(n + 1)
    BY <1>1, <1>2, <1>3, AppendProperties
  <1>5. \A i \in 1..(n + 1) : t[i] \in P
    BY <1>4, ElementOfSeq
  <1>6. /\ \A i \in 1..n : parts[i].what = "header" => parts[i].of \in S
        /\ \A i \in 1..(n + 1) : t[i].what = "header" => t[i].of \in S
    BY <1>3, <1>5
  <1>7. /\ Names(parts) \in Seq(Seq(S)) /\ Len(Names(parts)) = n
        /\ Names(t) \in Seq(Seq(S)) /\ Len(Names(t)) = n + 1
    BY <1>3, <1>4, <1>6, PiecesTyped
  <1>8. \A i \in 1..n : Names(t)[i] = Names(parts)[i]
    BY <1>3, <1>4 DEF Names
  <1>9. Names(t)[n + 1] = IF x.what = "header" THEN <<x.of>> ELSE <<>>
    BY <1>4 DEF Names
  <1>10. FlattenSeq(Names(t)) = FlattenSeq(Names(parts)) \o Names(t)[n + 1]
    BY <1>7, <1>8, FlattenGrows
  <1>11. FlattenSeq(Names(parts)) \in Seq(S)
    BY <1>7, FlattenTyped
  <1>12. NamesOf(parts) = FlattenSeq(Names(parts)) /\ NamesOf(t) = FlattenSeq(Names(t))
    BY DEF NamesOf, Names
  <1> QED BY <1>2, <1>9, <1>10, <1>11, <1>12
-----------------------------------------------------------------------------
(* What is written, part by part.                                          *)
Tokens == DOMAIN Length \ {""}
Ofs == Tokens \cup {filename(t) : t \in Tokens} \cup {"TRAILER!!!"}
Fields == {<<>>} \cup {<<format_cpio_field(n), format_cpio_field(f)>> : n, f \in Nat}
PartSet == {p \in [what : {"header", "name", "pad", "data", "trailer"},
                   of : Ofs, at : Nat, size : Nat, fields : Fields] :
              p.what = "header" => p.of \in Tokens}

(* An entry is where it belongs, and its header says less than its name.   *)
Placed(i) == Aligned(i) /\ Misread(i)

(* The archive ends where its last part does, at a multiple of four.       *)
Written ==
  /\ cpio \in Seq(PartSet) /\ OnlyLayoutIsRight
  /\ stage # "ended" => position % 4 = 0

(* strtok has passed so many places, and those that were not empty have    *)
(* had their turn.                                                         *)
TurnsSoFar ==
  /\ added \in Seq(Tokens)
  /\ passed \in 0..Len(modules_to_add)
  /\ stage # "ended" \/ status = 1 => added = NonemptyOf(Upto(modules_to_add, passed))
  /\ stage = "ended" /\ status = 0 => added = NonemptyOf(modules_to_add)
  /\ stage = "ended" /\ status = 1 => cpio = <<>>
  /\ stage = "started" => cpio = <<>>

ImageIInv ==
  /\ files \in Files /\ argv \in CommandLines
  /\ stage \in {"started", "adding", "ended"} /\ status \in {0, 1}
  /\ stage # "ended" => status = 0
  /\ Written /\ NoHalfEntries /\ TurnsSoFar

LEMMA PaddingIs ==
  ASSUME NEW n \in Nat
  PROVE  /\ Padding(n) \in 0..3 /\ (n + Padding(n)) % 4 = 0
         /\ Up(n) = n + Padding(n)
PROOF
  <1>1. Padding(n) \in 0..3 /\ (n + Padding(n)) % 4 = 0
    BY DEF Padding
  <1>2. \A m \in n..(n + 3) : m % 4 = 0 => m = n + Padding(n)
    BY DEF Padding
  <1>3. n + Padding(n) \in n..(n + 3)
    <2>1. PICK k \in 0..3 : k = Padding(n)
      BY <1>1
    <2>2. n + k \in n..(n + 3)
      OBVIOUS
    <2> QED BY <2>1, <2>2
  <1> QED BY <1>1, <1>2, <1>3 DEF Up

(* Seven of the eight octal digits of a small number, as hexadecimal.      *)
LEMMA CutShort ==
  ASSUME NEW n \in 1..511
  PROVE  Hexadecimal(format_cpio_field(n)) < n
PROOF
  <1> DEFINE Digits(d) == n < 8^d /\ \A e \in 8..(d - 1) : n >= 8^e
             digits == CHOOSE d \in 8..22 : n < 8^d /\ \A e \in 8..(d - 1) : n >= 8^e
  <1>1. digits = CHOOSE d \in 8..22 : Digits(d)
    OBVIOUS
  <1>2. format_cpio_field(n) = [k \in 1..7 |-> (n \div 8^(digits - k)) % 8]
    BY Zenon DEF format_cpio_field
  <1> HIDE DEF digits
  <1>3. Digits(8) /\ \A d \in 8..22 : Digits(d) => d = 8
    <2>1. n < 8^8
      OBVIOUS
    <2>2. \A e : e \notin 8..(8 - 1)
      OBVIOUS
    <2>3. Digits(8)
      BY <2>1, <2>2, Zenon
    <2>4. ASSUME NEW d \in 8..22, Digits(d), d # 8 PROVE FALSE
      <3>1. 8 \in 8..(d - 1)
        BY <2>4
      <3>2. n >= 8^8
        BY <2>4, <3>1, Zenon
      <3> QED BY <2>1, <3>2
    <2> QED BY <2>3, <2>4, Zenon
  <1> HIDE DEF Digits
  <1>4. digits = 8
    <2>1. 8 \in 8..22
      OBVIOUS
    <2>2. \E d \in 8..22 : Digits(d)
      BY <1>3, <2>1
    <2>3. digits \in 8..22 /\ Digits(digits)
      BY <1>1, <2>2, Zenon
    <2> QED BY <1>3, <2>3, Zenon
  <1>5. PICK f : f = format_cpio_field(n)
    OBVIOUS
  <1>6. /\ f[1] = (n \div 2097152) % 8 /\ f[2] = (n \div 262144) % 8
        /\ f[3] = (n \div 32768) % 8 /\ f[4] = (n \div 4096) % 8 /\ f[5] = (n \div 512) % 8
        /\ f[6] = (n \div 64) % 8 /\ f[7] = (n \div 8) % 8
    <2>1. \A k \in 1..7 : f[k] = (n \div 8^(8 - k)) % 8
      BY <1>4, <1>2, <1>5
    <2>2. /\ 8^(8 - 1) = 2097152 /\ 8^(8 - 2) = 262144 /\ 8^(8 - 3) = 32768
          /\ 8^(8 - 4) = 4096 /\ 8^(8 - 5) = 512 /\ 8^(8 - 6) = 64 /\ 8^(8 - 7) = 8
      OBVIOUS
    <2> QED BY <2>1, <2>2
  <1>7. f[1] = 0 /\ f[2] = 0 /\ f[3] = 0 /\ f[4] = 0 /\ f[5] = 0
    <2>1. n \in Nat /\ n < 512
      OBVIOUS
    <2>2. /\ n \div 2097152 = 0 /\ n \div 262144 = 0 /\ n \div 32768 = 0
          /\ n \div 4096 = 0 /\ n \div 512 = 0
      BY <2>1
    <2> QED BY <1>6, <2>2
  <1>8. 16 * f[6] + f[7] < n
    <2>1. PICK m \in Nat : m = n \div 8 /\ 8 * m <= n
      OBVIOUS
    <2>2. PICK j \in Nat : j = n \div 64 /\ j = m \div 8 /\ j < 8
      <3>1. n \div 64 = m \div 8 /\ n \div 64 \in Nat /\ n \div 64 < 8
        BY <2>1
      <3> QED BY <3>1
    <2>3. f[6] = j /\ f[7] = m % 8
      BY <1>6, <2>1, <2>2
    <2>4. PICK r \in 0..7 : r = m % 8 /\ m = 8 * j + r
      <3>1. m % 8 \in 0..7 /\ m % 8 = m - 8 * (m \div 8)
        OBVIOUS
      <3> QED BY <2>2, <3>1
    <2>5. n \in Nat /\ n > 0 /\ 8 * (8 * j + r) <= n
      BY <2>1, <2>4
    <2>6. 16 * j + r < n
      BY <2>2, <2>5
    <2> QED BY <2>2, <2>3, <2>4, <2>6
  <1>9. PICK x \in Nat, y \in Nat : x = f[6] /\ y = f[7] /\ 16 * x + y < n
    <2>1. n \div 64 \in Nat /\ n \div 8 \in Nat
      OBVIOUS
    <2>2. f[6] \in Nat /\ f[7] \in Nat
      BY <1>6, <2>1
    <2> QED BY <1>8, <2>2
  <1>10. Hexadecimal(f) = 16 * x + y
    BY <1>7, <1>9 DEF Hexadecimal
  <1> QED BY <1>5, <1>9, <1>10

LEMMA FilesAreTyped ==
  ASSUME files \in Files, NEW t \in Tokens
  PROVE  /\ dest_size(t) \in Nat /\ dest_size(t) \in 1..511 /\ filename(t) \in Ofs
         /\ files[filename(t)].size \in Nat /\ t \in Ofs
PROOF
  <1>1. t \in DOMAIN Length /\ t # ""
    BY DEF Tokens
  <1>2. Length[t] \in Nat /\ Length[t] + 3 \in 1..511
    <2>1. \A u \in DOMAIN Length : Length[u] \in 0..239
      BY FilesAssumption
    <2>2. Length[t] \in 0..239
      BY <1>1, <2>1
    <2> QED BY <2>2
  <1>3. filename(t) \in DOMAIN files
    BY <1>1, FilesAssumption
  <1>4. files[filename(t)].size \in Nat
    BY <1>3, FilesAssumption
  <1> QED BY <1>2, <1>4 DEF dest_size, Ofs

LEMMA PositionIs ==
  ASSUME cpio \in Seq(PartSet)
  PROVE  /\ position \in Nat
         /\ Len(cpio) = 0 => position = 0
         /\ Len(cpio) # 0 => position = cpio[Len(cpio)].at + cpio[Len(cpio)].size
PROOF
  <1>1. CASE cpio = <<>>
    BY <1>1 DEF position
  <1>2. CASE cpio # <<>>
    <2>1. Len(cpio) \in 1..Len(cpio)
      BY <1>2, EmptySeq, LenProperties
    <2>2. cpio[Len(cpio)] \in PartSet
      BY <2>1, ElementOfSeq
    <2> QED BY <1>2, <2>1, <2>2 DEF position, Last, PartSet
  <1> QED BY <1>1, <1>2

(* Parts written after those there are.                                    *)
LEMMA PartsWritten ==
  ASSUME cpio \in Seq(PartSet), NEW e \in Seq(PartSet), cpio' = cpio \o e
  PROVE  /\ cpio' \in Seq(PartSet) /\ Len(cpio') = Len(cpio) + Len(e)
         /\ Len(cpio) \in Nat /\ Len(e) \in Nat
         /\ DOMAIN cpio = 1..Len(cpio) /\ DOMAIN cpio' = 1..(Len(cpio) + Len(e))
         /\ \A i \in 1..Len(cpio) : cpio'[i] = cpio[i]
         /\ \A i \in 1..Len(e) : cpio'[Len(cpio) + i] = e[i]
PROOF
  <1>1. Len(cpio) \in Nat /\ Len(e) \in Nat /\ DOMAIN cpio = 1..Len(cpio)
    BY LenProperties
  <1>2. /\ cpio' \in Seq(PartSet) /\ Len(cpio') = Len(cpio) + Len(e)
        /\ \A i \in 1..(Len(cpio) + Len(e)) :
             cpio'[i] = IF i <= Len(cpio) THEN cpio[i] ELSE e[i - Len(cpio)]
    BY ConcatProperties
  <1>3. DOMAIN cpio' = 1..(Len(cpio) + Len(e))
    BY <1>2, LenProperties
  <1>4. ASSUME NEW i \in 1..Len(e) PROVE cpio'[Len(cpio) + i] = e[i]
    <2>1. PICK k : k = Len(cpio) + i
      OBVIOUS
    <2>2. k \in 1..(Len(cpio) + Len(e)) /\ ~(k <= Len(cpio)) /\ k - Len(cpio) = i
      BY <1>1, <2>1
    <2> QED BY <1>2, <2>1, <2>2
  <1>5. \A i \in 1..Len(cpio) : cpio'[i] = cpio[i]
    BY <1>1, <1>2
  <1> QED BY <1>1, <1>2, <1>3, <1>4, <1>5

LEMMA PartsAreTyped ==
  ASSUME NEW what \in {"name", "pad", "data"}, NEW of \in Ofs, NEW at \in Nat, NEW size \in Nat
  PROVE  Part(what, of, at, size) \in PartSet
PROOF
  <1>1. <<>> \in Fields
    BY DEF Fields
  <1> QED BY <1>1 DEF Part, PartSet

LEMMA HeadersAreTyped ==
  ASSUME position \in Nat, NEW n \in Nat, NEW f \in Nat
  PROVE  /\ \A token \in Tokens : Header("header", token, n, f) \in PartSet
         /\ Header("trailer", "TRAILER!!!", n, f) \in PartSet
PROOF
  <1>1. <<format_cpio_field(n), format_cpio_field(f)>> \in Fields
    BY DEF Fields
  <1>2. HEADER \in Nat /\ Tokens \subseteq Ofs /\ "TRAILER!!!" \in Ofs
    BY DEF HEADER, Ofs
  <1> QED BY <1>1, <1>2 DEF Header, PartSet

(* Where the parts of an entry are.                                        *)
LEMMA EntryParts ==
  ASSUME files \in Files, cpio \in Seq(PartSet), NEW token \in Tokens,
         NEW path, path = filename(token), NEW e, e = Entry(path, token)
  PROVE  /\ e \in Seq(PartSet) /\ Len(e) = 5
         /\ e[1] = Header("header", token, dest_size(token), files[path].size)
         /\ e[2] = Part("name", token, position + HEADER, dest_size(token))
         /\ e[3].what = "pad" /\ e[5].what = "pad"
         /\ e[3].at = e[2].at + e[2].size
         /\ e[3].size = NamePadding(dest_size(token))
         /\ e[4].what = "data" /\ e[4].at = e[3].at + e[3].size
         /\ e[4].size = files[path].size
         /\ e[5].at = e[4].at + e[4].size
         /\ e[5].size = Padding(files[path].size)
PROOF
  <1>1. /\ position \in Nat /\ dest_size(token) \in Nat /\ files[path].size \in Nat
        /\ token \in Ofs /\ path \in Ofs
    BY PositionIs, FilesAreTyped
  <1>2. NamePadding(dest_size(token)) \in Nat /\ Padding(files[path].size) \in Nat
    <2>1. HEADER + dest_size(token) \in Nat
      BY <1>1 DEF HEADER
    <2>2. Padding(HEADER + dest_size(token)) \in 0..3 /\ Padding(files[path].size) \in 0..3
      BY <1>1, <2>1, PaddingIs
    <2> QED BY <2>2 DEF NamePadding
  <1> DEFINE name == position + HEADER
             pad  == name + dest_size(token)
             data == pad + NamePadding(dest_size(token))
             end  == data + files[path].size
  <1>3. /\ name \in Nat /\ pad \in Nat /\ data \in Nat /\ end \in Nat
        /\ data - pad = NamePadding(dest_size(token)) /\ HEADER \in Nat
    <2>1. HEADER \in Nat
      BY DEF HEADER
    <2>2. name \in Nat
      BY <1>1, <2>1
    <2> HIDE DEF name
    <2>3. pad \in Nat
      BY <1>1, <2>2
    <2> HIDE DEF pad
    <2>4. data \in Nat /\ data - pad = NamePadding(dest_size(token))
      BY <1>2, <2>3
    <2> HIDE DEF data
    <2>5. end \in Nat
      BY <1>1, <2>4
    <2> QED BY <2>1, <2>2, <2>3, <2>4, <2>5
  <1>4. e = <<Header("header", token, dest_size(token), files[path].size),
              Part("name", token, name, dest_size(token)),
              Part("pad", token, pad, data - pad), Part("data", path, data, files[path].size),
              Part("pad", token, end, Padding(files[path].size))>>
    BY DEF Entry
  <1> HIDE DEF name, pad, data, end
  <1>5. /\ Header("header", token, dest_size(token), files[path].size) \in PartSet
        /\ Part("name", token, name, dest_size(token)) \in PartSet
        /\ Part("pad", token, pad, data - pad) \in PartSet
        /\ Part("data", path, data, files[path].size) \in PartSet
        /\ Part("pad", token, end, Padding(files[path].size)) \in PartSet
    BY <1>1, <1>2, <1>3, PartsAreTyped, HeadersAreTyped
  <1>6. e \in Seq(PartSet) /\ Len(e) = 5
    BY <1>4, <1>5
  <1> QED BY <1>3, <1>4, <1>6 DEF Part, name, pad, data, end
-----------------------------------------------------------------------------
(* Sequences written one element at a time.                                *)
LEMMA UptoTyped ==
  ASSUME NEW S, NEW e \in Seq(S), NEW k \in 0..Len(e)
  PROVE  /\ Upto(e, k) \in Seq(S) /\ Len(Upto(e, k)) = k
         /\ \A i \in 1..k : Upto(e, k)[i] = e[i]
PROOF
  <1>1. Len(e) \in Nat /\ \A i \in 1..Len(e) : e[i] \in S
    BY LenProperties, ElementOfSeq
  <1>2. Upto(e, k) \in [1..k -> S] /\ k \in Nat
    BY <1>1 DEF Upto
  <1>3. Upto(e, k) \in Seq(S) /\ Len(Upto(e, k)) = k
    BY <1>2, IsSeqOf
  <1> QED BY <1>3 DEF Upto

LEMMA UptoEnds ==
  ASSUME NEW S, NEW s \in Seq(S), NEW e \in Seq(S)
  PROVE  s \o Upto(e, Len(e)) = s \o e /\ s \o Upto(e, 0) = s
PROOF
  <1>1. Upto(e, Len(e)) = e
    BY NonemptyOfAll
  <1>2. Upto(e, 0) \in Seq(S) /\ Len(Upto(e, 0)) = 0
    <2>1. 0 \in 0..Len(e)
      BY LenProperties
    <2> QED BY <2>1, UptoTyped
  <1>3. Upto(e, 0) = <<>>
    BY <1>2, EmptySeq
  <1> QED BY <1>1, <1>3, ConcatEmptySeq

LEMMA UptoGrows ==
  ASSUME NEW S, NEW s \in Seq(S), NEW e \in Seq(S), NEW k \in Nat, k < Len(e)
  PROVE  /\ s \o Upto(e, k) \in Seq(S) /\ e[k + 1] \in S
         /\ s \o Upto(e, k + 1) = Append(s \o Upto(e, k), e[k + 1])
PROOF
  <1>1. Len(e) \in Nat /\ \A i \in 1..Len(e) : e[i] \in S
    BY LenProperties, ElementOfSeq
  <1>2. PICK j : j = k + 1
    OBVIOUS
  <1>3. j \in 1..Len(e) /\ j \in 0..Len(e) /\ k \in 0..Len(e) /\ j \in Nat /\ j = k + 1
    BY <1>1, <1>2
  <1>4. PICK u, v : u = Upto(e, k) /\ v = Upto(e, j)
    OBVIOUS
  <1>5. /\ u \in Seq(S) /\ Len(u) = k /\ \A i \in 1..k : u[i] = e[i]
        /\ v \in Seq(S) /\ Len(v) = j /\ \A i \in 1..j : v[i] = e[i]
        /\ e[j] \in S
    BY <1>1, <1>3, <1>4, UptoTyped
  <1>6. v = Append(u, e[j])
    <2>1. PICK w : w = Append(u, e[j])
      OBVIOUS
    <2>2. /\ w \in Seq(S) /\ Len(w) = j /\ \A i \in 1..k : w[i] = u[i]
          /\ w[j] = e[j]
      BY <1>3, <1>5, <2>1, AppendProperties
    <2>3. ASSUME NEW i \in 1..j PROVE v[i] = w[i]
      <3>1. i = j \/ i \in 1..k
        BY <1>3
      <3>2. v[i] = e[i]
        BY <1>5
      <3>3. CASE i = j
        BY <2>2, <3>2, <3>3
      <3>4. CASE i \in 1..k
        BY <1>5, <2>2, <3>2, <3>4
      <3> QED BY <3>1, <3>3, <3>4
    <2>4. v \in Seq(S) /\ w \in Seq(S) /\ Len(v) = Len(w) /\ \A i \in 1..Len(v) : v[i] = w[i]
      BY <1>5, <2>2, <2>3
    <2>5. v = w
      BY <2>4, SeqEqual
    <2> QED BY <2>1, <2>5
  <1>7. v = u \o <<e[j]>> /\ <<e[j]>> \in Seq(S)
    <2>1. PICK x \in S : x = e[j]
      BY <1>5
    <2>2. v = u \o <<x>>
      BY <1>5, <1>6, <2>1, AppendIsConcat
    <2> QED BY <2>1, <2>2
  <1>8. s \o v = (s \o u) \o <<e[j]>>
    BY <1>5, <1>7, ConcatAssociative
  <1>9. s \o u \in Seq(S)
    BY <1>5, ConcatProperties
  <1>10. s \o v = Append(s \o u, e[j])
    BY <1>5, <1>8, <1>9, AppendIsConcat
  <1> QED BY <1>3, <1>4, <1>5, <1>9, <1>10

(* What has a header first, if at all, adds one name at most.              *)
HeaderFirst(e) == \A i \in 2..Len(e) : e[i].what # "header"

LEMMA NamesOfMore ==
  ASSUME NEW s \in Seq(PartSet), NEW e \in Seq(PartSet), Len(e) # 0, HeaderFirst(e)
  PROVE  /\ NamesOf(s \o e) =
              NamesOf(s) \o (IF e[1].what = "header" THEN <<e[1].of>> ELSE <<>>)
         /\ NamesOf(s) \in Seq(Tokens)
PROOF
  <1>1. Len(e) \in Nat /\ \A p \in PartSet : p.what = "header" => p.of \in Tokens
    BY LenProperties DEF PartSet
  <1>2. \A t \in Seq(PartSet) : \A x \in PartSet :
          /\ NamesOf(Append(t, x)) =
               NamesOf(t) \o (IF x.what = "header" THEN <<x.of>> ELSE <<>>)
          /\ NamesOf(t) \in Seq(Tokens)
    BY <1>1, NamesGrow
  <1>2a. \A k \in Nat : k < Len(e) =>
          /\ s \o Upto(e, k) \in Seq(PartSet)
          /\ e[k + 1] \in PartSet
          /\ s \o Upto(e, k + 1) = Append(s \o Upto(e, k), e[k + 1])
    BY UptoGrows
  <1> DEFINE Upon(k) == NamesOf(s \o Upto(e, k))
             All == NamesOf(s) \o (IF e[1].what = "header" THEN <<e[1].of>> ELSE <<>>)
             T == {k \in 1..Len(e) : Upon(k) # All}
  <1>3. \A k \in Nat : k < Len(e) =>
          /\ Upon(k + 1) =
               Upon(k) \o (IF e[k + 1].what = "header" THEN <<e[k + 1].of>> ELSE <<>>)
          /\ Upon(k) \in Seq(Tokens)
    <2> TAKE k \in Nat
    <2> HAVE k < Len(e)
    <2>1. PICK x, t, u : x = e[k + 1] /\ t = s \o Upto(e, k) /\ u = s \o Upto(e, k + 1)
      OBVIOUS
    <2>2. t \in Seq(PartSet) /\ x \in PartSet /\ u = Append(t, x)
      BY <1>2a, <2>1
    <2>3. /\ NamesOf(u) = NamesOf(t) \o (IF x.what = "header" THEN <<x.of>> ELSE <<>>)
          /\ NamesOf(t) \in Seq(Tokens)
      BY <1>2, <2>2
    <2> QED BY <2>1, <2>3
  <1>4. Upon(0) = NamesOf(s) /\ Upon(Len(e)) = NamesOf(s \o e)
    BY UptoEnds
  <1> HIDE DEF Upon, All
  <1>5. Upon(1) = All
    <2>1. 0 \in Nat /\ 0 < Len(e) /\ 0 + 1 = 1
      BY <1>1
    <2> QED BY <1>3, <1>4, <2>1 DEF All
  <1>6. SUFFICES Upon(Len(e)) = All
    BY <1>2, <1>4 DEF All
  <1> SUFFICES ASSUME Upon(Len(e)) # All PROVE FALSE
    OBVIOUS
  <1>7. PICK k \in T : \A j \in T : k <= j
    <2>1. Len(e) \in T /\ T \in SUBSET Nat
      BY <1>1
    <2>2. T # {}
      BY <2>1
    <2> QED BY <2>1, <2>2, SmallestExists
  <1>8. k \in 1..Len(e) /\ Upon(k) # All /\ k # 1
    BY <1>5, <1>7
  <1>9. PICK j \in 1..Len(e) : k = j + 1
    BY <1>1, <1>8
  <1>10. Upon(j) = All
    BY <1>7, <1>9
  <1>11. Upon(j + 1) = Upon(j) \o <<>> /\ Upon(j) \in Seq(Tokens)
    <2>1. j \in Nat /\ j < Len(e) /\ j + 1 \in 2..Len(e)
      BY <1>1, <1>8, <1>9
    <2>2. e[j + 1].what # "header"
      BY <2>1 DEF HeaderFirst
    <2> QED BY <1>3, <2>1, <2>2
  <1>12. Upon(k) = Upon(j)
    BY <1>9, <1>11, ConcatEmptySeq
  <1> QED BY <1>8, <1>10, <1>12
-----------------------------------------------------------------------------
(* The last option of a kind, and its list of modules.                     *)
LEMMA LastOfIs ==
  ASSUME argv \in CommandLines, NEW kind
  PROVE  \/ LastOf(kind) = 0 /\ \A i \in DOMAIN argv : argv[i].is # kind
         \/ /\ LastOf(kind) \in DOMAIN argv /\ argv[LastOf(kind)].is = kind
            /\ \A i \in (LastOf(kind) + 1)..Len(argv) : argv[i].is # kind
PROOF
  <1>1. PICK S : argv \in Seq(S)
    BY LinesAssumption
  <1>2. Len(argv) \in Nat /\ DOMAIN argv = 1..Len(argv)
    BY <1>1, LenProperties
  <1> DEFINE I == {i \in 1..Len(argv) : argv[i].is = kind}
  <1>3. LastOf(kind) = IF I # {} THEN CHOOSE x \in I : \A y \in I : x >= y ELSE 0
    BY DEF LastOf, SelectLastInSeq, Max
  <1>4. CASE I = {}
    BY <1>2, <1>3, <1>4
  <1>5. CASE I # {}
    <2>1. \E x \in I : \A y \in I : x >= y
      <3>1. I \in SUBSET (1..Len(argv))
        OBVIOUS
      <3> QED BY <1>2, <1>5, <3>1, LargestExists
    <2>5. LastOf(kind) \in I /\ \A y \in I : LastOf(kind) >= y
      BY <1>3, <1>5, <2>1
    <2> HIDE DEF I
    <2>6. PICK l : l = LastOf(kind)
      OBVIOUS
    <2>7. l \in 1..Len(argv) /\ argv[l].is = kind /\ \A y \in I : l >= y
      BY <2>5, <2>6 DEF I
    <2>8. ASSUME NEW i \in (l + 1)..Len(argv) PROVE argv[i].is # kind
      <3>1. i \in 1..Len(argv) /\ ~(l >= i)
        BY <1>2, <2>7
      <3> QED BY <2>7, <3>1 DEF I
    <2> QED BY <1>2, <2>6, <2>7, <2>8
  <1> QED BY <1>4, <1>5

LEMMA ListIsTyped ==
  ASSUME argv \in CommandLines
  PROVE  modules_to_add \in Seq(DOMAIN Length)
PROOF
  <1>1. CASE LastOf("add") = 0
    BY <1>1, EmptySeq DEF modules_to_add
  <1>2. CASE LastOf("add") # 0
    <2>1. LastOf("add") \in DOMAIN argv /\ argv[LastOf("add")].is = "add"
      BY <1>2, LastOfIs
    <2> QED BY <1>2, <2>1, LinesAssumption DEF modules_to_add
  <1> QED BY <1>1, <1>2
-----------------------------------------------------------------------------
(* Parts written one after the other.                                      *)
LEMMA StaysEndToEnd ==
  ASSUME cpio \in Seq(PartSet), EndToEnd, NEW e \in Seq(PartSet), Len(e) # 0,
         e[1].at = position,
         \A i \in 2..Len(e) : e[i].at = e[i - 1].at + e[i - 1].size,
         cpio' = cpio \o e
  PROVE  EndToEnd' /\ position' = e[Len(e)].at + e[Len(e)].size
PROOF
  <1>1. PICK n, m : n = Len(cpio) /\ m = Len(e)
    OBVIOUS
  <1>2. /\ n \in Nat /\ m \in Nat /\ DOMAIN cpio = 1..n /\ DOMAIN cpio' = 1..(n + m)
        /\ Len(cpio') = n + m /\ cpio' \in Seq(PartSet)
        /\ \A i \in 1..n : cpio'[i] = cpio[i]
        /\ \A i \in 1..m : cpio'[n + i] = e[i]
    BY <1>1, PartsWritten
  <1>3. ASSUME NEW i \in 1..(n + m)
        PROVE  cpio'[i].at = IF i = 1 THEN 0 ELSE cpio'[i - 1].at + cpio'[i - 1].size
    <2>1. CASE i \in 1..n
      <3>1. cpio[i].at = IF i = 1 THEN 0 ELSE cpio[i - 1].at + cpio[i - 1].size
        BY <1>2, <2>1 DEF EndToEnd
      <3>2. i # 1 => i - 1 \in 1..n
        BY <1>2, <2>1
      <3> QED BY <1>2, <2>1, <3>1, <3>2
    <2>2. CASE i = n + 1
      <3>1. 1 \in 1..m
        BY <1>1, <1>2
      <3>2. cpio'[i].at = position
        BY <1>2, <2>2, <3>1
      <3>3. CASE n = 0
        BY <1>1, <2>2, <3>2, <3>3, PositionIs
      <3>4. CASE n # 0
        <4>1. i # 1 /\ i - 1 = n /\ n \in 1..n
          BY <1>2, <2>2, <3>4
        <4> QED BY <1>1, <1>2, <3>2, <3>4, <4>1, PositionIs
      <3> QED BY <3>3, <3>4
    <2>3. CASE i \notin 1..(n + 1)
      <3>1. PICK k \in 2..m : i = n + k
        <4>1. i - n \in 2..m /\ i = n + (i - n)
          BY <1>2, <2>3
        <4> QED BY <4>1
      <3>2. PICK l \in 1..m : l = k - 1
        <4>1. k - 1 \in 1..m
          BY <1>2
        <4> QED BY <4>1
      <3>3. i - 1 = n + l /\ k \in 1..m /\ i # 1
        BY <1>2, <3>1, <3>2
      <3>4. cpio'[i] = e[k] /\ cpio'[i - 1] = e[l]
        BY <1>2, <3>1, <3>3
      <3>5. k \in 2..Len(e) /\ e[k - 1] = e[l]
        BY <1>1, <3>2
      <3>6. e[k].at = e[k - 1].at + e[k - 1].size
        BY <3>5
      <3>7. e[k].at = e[l].at + e[l].size
        BY <3>5, <3>6
      <3> QED BY <3>3, <3>4, <3>7
    <2> QED BY <1>2, <2>1, <2>2, <2>3
  <1>4. EndToEnd'
    BY <1>2, <1>3 DEF EndToEnd
  <1>5. position' = e[m].at + e[m].size
    <2>1. m \in 1..m /\ n + m # 0
      BY <1>1, <1>2
    <2>2. cpio' # <<>>
      BY <1>2, <2>1
    <2>3. cpio'[Len(cpio')] = e[m]
      BY <1>2, <2>1
    <2> QED BY <2>2, <2>3 DEF position, Last
  <1> QED BY <1>1, <1>4, <1>5

LEMMA StaysPlaced ==
  ASSUME cpio \in Seq(PartSet), NEW e \in Seq(PartSet), cpio' = cpio \o e,
         NEW i \in DOMAIN cpio, Placed(i)
  PROVE  Placed(i)'
PROOF
  <1>1. PICK n : n = Len(cpio)
    OBVIOUS
  <1>2. /\ n \in Nat /\ DOMAIN cpio = 1..n /\ \A k \in DOMAIN cpio : k \in DOMAIN cpio'
        /\ \A k \in DOMAIN cpio : cpio'[k] = cpio[k]
    BY <1>1, PartsWritten
  <1>3. i \in 1..n /\ i + 4 \in 1..n
    BY <1>2 DEF Placed, Aligned, Misread
  <1>4. i + 1 \in 1..n /\ i + 3 \in 1..n
    BY <1>2, <1>3
  <1>5. /\ cpio'[i] = cpio[i] /\ cpio'[i + 1] = cpio[i + 1] /\ cpio'[i + 3] = cpio[i + 3]
        /\ cpio'[i + 4] = cpio[i + 4] /\ i + 4 \in DOMAIN cpio'
    BY <1>2, <1>3, <1>4
  <1> QED BY <1>5 DEF Placed, Aligned, Misread

LEMMA PaddingAligned ==
  ASSUME NEW p \in Nat, p % 4 = 0, NEW n \in Nat
  PROVE  Padding(p + n) = Padding(n) /\ (p + n) % 4 = n % 4
PROOF
  <1>1. (p + n) % 4 = n % 4
    OBVIOUS
  <1> QED BY <1>1 DEF Padding

LEMMA EntryPlaced ==
  ASSUME files \in Files, cpio \in Seq(PartSet), position % 4 = 0, NEW token \in Tokens,
         NEW e, e = Entry(filename(token), token), cpio' = cpio \o e,
         NEW k, k = Len(cpio) + 1
  PROVE  /\ Placed(k)'
         /\ (e[5].at + e[5].size) % 4 = 0
PROOF
  <1>1. PICK n, p, d, f : /\ n = Len(cpio) /\ p = position
                          /\ d = dest_size(token) /\ f = files[filename(token)].size
    OBVIOUS
  <1>2. /\ e \in Seq(PartSet) /\ Len(e) = 5
        /\ e[1] = Header("header", token, d, f)
        /\ e[2] = Part("name", token, p + HEADER, d)
        /\ e[3].at = e[2].at + e[2].size /\ e[3].size = NamePadding(d)
        /\ e[4].what = "data" /\ e[4].at = e[3].at + e[3].size /\ e[4].size = f
        /\ e[5].at = e[4].at + e[4].size /\ e[5].size = Padding(f)
    BY <1>1, EntryParts
  <1>3. /\ n \in Nat /\ DOMAIN cpio' = 1..(n + 5)
        /\ cpio'[n + 1] = e[1] /\ cpio'[n + 2] = e[2] /\ cpio'[n + 4] = e[4]
        /\ cpio'[n + 5] = e[5]
    <2>1. /\ n \in Nat /\ DOMAIN cpio' = 1..(n + 5)
          /\ \A i \in 1..5 : cpio'[n + i] = e[i]
      BY <1>1, <1>2, PartsWritten
    <2>2. 1 \in 1..5 /\ 2 \in 1..5 /\ 4 \in 1..5 /\ 5 \in 1..5
      OBVIOUS
    <2> QED BY <2>1, <2>2
  <1>4. p \in Nat /\ p % 4 = 0 /\ d \in Nat /\ f \in Nat
    BY <1>1, PositionIs, FilesAreTyped
  <1>5. PICK h : h = HEADER + d
    OBVIOUS
  <1>6. h \in Nat /\ p + h \in Nat /\ p + HEADER + d = p + h
    BY <1>4, <1>5 DEF HEADER
  <1>7. PICK a : a = p + h + Padding(h)
    OBVIOUS
  <1>8. Padding(p + h) = Padding(h) /\ Padding(h) \in 0..3 /\ Padding(f) \in 0..3
    BY <1>4, <1>6, PaddingAligned, PaddingIs
  <1>9. Up(p + h) = a /\ a % 4 = 0 /\ a \in Nat
    <2>1. /\ (p + h + Padding(p + h)) % 4 = 0
          /\ Up(p + h) = p + h + Padding(p + h)
      BY <1>6, PaddingIs
    <2>2. a \in Nat
      BY <1>6, <1>7, <1>8
    <2> QED BY <1>7, <1>8, <2>1, <2>2
  <1>10. e[4].at = a
    <2>1. e[2].at = p + HEADER /\ e[2].size = d /\ e[3].size = Padding(h)
      BY <1>2, <1>5 DEF Part, NamePadding
    <2> QED BY <1>2, <1>6, <1>7, <2>1
  <1>11. Up(a + f) = a + f + Padding(f) /\ (a + f + Padding(f)) % 4 = 0
    <2>1. a \in Nat /\ a % 4 = 0 /\ f \in Nat /\ a + f \in Nat
      BY <1>4, <1>9
    <2>2. Padding(a + f) = Padding(f)
      BY <2>1, PaddingAligned
    <2>3. /\ (a + f + Padding(a + f)) % 4 = 0
          /\ Up(a + f) = a + f + Padding(a + f)
      BY <2>1, PaddingIs
    <2> QED BY <2>2, <2>3
  <1>12. e[5].at + e[5].size = a + f + Padding(f)
    BY <1>2, <1>10
  <1>13. k = n + 1
    BY <1>1
  <1>14. k + 1 = n + 2 /\ k + 3 = n + 4 /\ k + 4 = n + 5 /\ k + 4 \in DOMAIN cpio'
    BY <1>3, <1>13
  <1>15. /\ cpio'[k] = e[1] /\ cpio'[k + 1] = e[2] /\ cpio'[k + 3] = e[4]
         /\ cpio'[k + 4] = e[5]
    BY <1>3, <1>13, <1>14
  <1>16. /\ e[1].at = p /\ e[1].of = token /\ e[2].size = d
         /\ e[2].what = "name" /\ e[2].of = token
    BY <1>1, <1>2 DEF Part, Header
  <1>17. Misread(k)'
    <2>1. e[1].fields[1] = format_cpio_field(d)
      BY <1>2 DEF Header
    <2>2. Hexadecimal(format_cpio_field(d)) < d
      <3>1. d \in 1..511
        BY <1>1, FilesAreTyped
      <3> QED BY <3>1, CutShort
    <2>3. k + 1 \in DOMAIN cpio'
      BY <1>3, <1>14
    <2> QED BY <1>15, <1>16, <2>1, <2>2, <2>3 DEF Misread
  <1>18. Aligned(k)'
    <2>1. Up(cpio'[k].at + HEADER + cpio'[k + 1].size) = a
      BY <1>6, <1>9, <1>15, <1>16
    <2>2. cpio'[k].at % 4 = 0
      BY <1>4, <1>15, <1>16
    <2>3. cpio'[k + 1].what = "name" /\ cpio'[k + 1].of = cpio'[k].of
      BY <1>15, <1>16
    <2>4. /\ cpio'[k + 3].what = "data" /\ cpio'[k + 3].at = a
          /\ cpio'[k + 3].size = f
      BY <1>2, <1>10, <1>15
    <2>5. cpio'[k + 4].at + cpio'[k + 4].size = Up(a + cpio'[k + 3].size)
      BY <1>11, <1>12, <1>15, <2>4
    <2> QED BY <1>14, <2>1, <2>2, <2>3, <2>4, <2>5 DEF Aligned
  <1> QED BY <1>11, <1>12, <1>17, <1>18 DEF Placed

LEMMA EntryWritten ==
  ASSUME files \in Files, Written, stage = "adding", stage' = stage, NEW token \in Tokens,
         \A i \in DOMAIN cpio : cpio[i].what # "trailer",
         cpio' = cpio \o Entry(filename(token), token)
  PROVE  /\ Written'
         /\ NamesOf(cpio') = Append(NamesOf(cpio), token)
         /\ \A i \in DOMAIN cpio' : cpio'[i].what # "trailer"
PROOF
  <1>1. PICK e : e = Entry(filename(token), token)
    OBVIOUS
  <1>2. PICK n : n = Len(cpio)
    OBVIOUS
  <1>3. cpio \in Seq(PartSet) /\ OnlyLayoutIsRight /\ position % 4 = 0
    BY DEF Written
  <1>4. /\ e \in Seq(PartSet) /\ Len(e) = 5
        /\ e[1].what = "header" /\ e[1].of = token /\ e[1].at = position
        /\ e[1].size = HEADER
        /\ e[2].what = "name" /\ e[2].at = position + HEADER
        /\ e[3].what = "pad" /\ e[5].what = "pad" /\ e[4].what = "data"
        /\ e[3].at = e[2].at + e[2].size /\ e[4].at = e[3].at + e[3].size
        /\ e[5].at = e[4].at + e[4].size
    <2>1. /\ e \in Seq(PartSet) /\ Len(e) = 5
          /\ e[1] = Header("header", token, dest_size(token), files[filename(token)].size)
          /\ e[2] = Part("name", token, position + HEADER, dest_size(token))
          /\ e[3].what = "pad" /\ e[5].what = "pad"
          /\ e[3].at = e[2].at + e[2].size
          /\ e[4].what = "data" /\ e[4].at = e[3].at + e[3].size
          /\ e[5].at = e[4].at + e[4].size
      BY <1>1, <1>3, EntryParts
    <2> QED BY <2>1 DEF Part, Header
  <1>5. /\ cpio' \in Seq(PartSet) /\ n \in Nat
        /\ DOMAIN cpio = 1..n /\ DOMAIN cpio' = 1..(n + 5)
        /\ \A i \in 1..n : cpio'[i] = cpio[i]
        /\ \A i \in 1..5 : cpio'[n + i] = e[i]
    BY <1>1, <1>2, <1>3, <1>4, PartsWritten
  <1>6. \A i \in DOMAIN cpio' :
          \/ i \in DOMAIN cpio
          \/ i = n + 1 /\ cpio'[i] = e[1]
          \/ cpio'[i].what \in {"name", "pad", "data"}
    <2> TAKE i \in DOMAIN cpio'
    <2>1. \/ i \in DOMAIN cpio \/ i = n + 1 \/ i = n + 2 \/ i = n + 3 \/ i = n + 4
          \/ i = n + 5
      <3>1. n \in Nat /\ i \in 1..(n + 5) /\ DOMAIN cpio = 1..n
        BY <1>5
      <3> QED BY <3>1
    <2>2. 1 \in 1..5 /\ 2 \in 1..5 /\ 3 \in 1..5 /\ 4 \in 1..5 /\ 5 \in 1..5
      OBVIOUS
    <2>3. /\ cpio'[n + 1] = e[1] /\ cpio'[n + 2] = e[2] /\ cpio'[n + 3] = e[3]
          /\ cpio'[n + 4] = e[4] /\ cpio'[n + 5] = e[5]
      BY <1>5, <2>2
    <2> QED BY <1>4, <2>1, <2>3
  <1>7. EndToEnd' /\ position' = e[5].at + e[5].size
    <2>1. ASSUME NEW i \in 2..5 PROVE e[i].at = e[i - 1].at + e[i - 1].size
      <3>1. i = 2 \/ i = 3 \/ i = 4 \/ i = 5
        OBVIOUS
      <3> QED BY <1>4, <3>1
    <2>2. cpio' = cpio \o e /\ Len(e) # 0 /\ EndToEnd
      BY <1>1, <1>3, <1>4 DEF OnlyLayoutIsRight
    <2> QED BY <1>3, <1>4, <2>1, <2>2, StaysEndToEnd
  <1>8. \A k : k = n + 1 => Placed(k)' /\ (e[5].at + e[5].size) % 4 = 0
    BY <1>1, <1>2, <1>3, EntryPlaced
  <1>9. ASSUME NEW i \in DOMAIN cpio', cpio'[i].what = "header" PROVE Placed(i)'
    <2>1. CASE i \in DOMAIN cpio
      <3>1. Placed(i)
        BY <1>3, <1>5, <1>9, <2>1 DEF OnlyLayoutIsRight, Placed
      <3> QED BY <1>1, <1>3, <1>4, <2>1, <3>1, StaysPlaced
    <2>2. CASE i \notin DOMAIN cpio
      <3>1. i = n + 1
        BY <1>6, <1>9, <2>2
      <3> QED BY <1>8, <3>1
    <2> QED BY <2>1, <2>2
  <1>10. ASSUME NEW i \in DOMAIN cpio' PROVE cpio'[i].what # "trailer"
    <2>1. CASE i \in DOMAIN cpio
      BY <1>5, <2>1
    <2>2. CASE i = n + 1 /\ cpio'[i] = e[1]
      BY <1>4, <2>2
    <2>3. CASE cpio'[i].what \in {"name", "pad", "data"}
      BY <2>3
    <2> QED BY <1>6, <2>1, <2>2, <2>3
  <1>11. position' % 4 = 0
    BY <1>7, <1>8
  <1>12. Written'
    BY <1>5, <1>7, <1>9, <1>10, <1>11 DEF Written, OnlyLayoutIsRight, Placed
  <1>13. NamesOf(cpio \o e) = Append(NamesOf(cpio), token)
    <2>1. HeaderFirst(e)
      <3> SUFFICES ASSUME NEW i \in 2..Len(e) PROVE e[i].what # "header"
        BY DEF HeaderFirst
      <3>1. i = 2 \/ i = 3 \/ i = 4 \/ i = 5
        BY <1>4
      <3> QED BY <1>4, <3>1
    <2>2. /\ NamesOf(cpio \o e) =
               NamesOf(cpio) \o (IF e[1].what = "header" THEN <<e[1].of>> ELSE <<>>)
          /\ NamesOf(cpio) \in Seq(Tokens)
      BY <1>3, <1>4, <2>1, NamesOfMore
    <2>3. NamesOf(cpio \o e) = NamesOf(cpio) \o <<token>>
      BY <1>4, <2>2
    <2> QED BY <2>2, <2>3, AppendIsConcat
  <1> QED BY <1>1, <1>10, <1>12, <1>13

LEMMA EndWritten ==
  ASSUME Written, stage = "adding", stage' = "ended",
         \A i \in DOMAIN cpio : cpio[i].what # "trailer",
         cpio' = cpio \o EndOfArchive
  PROVE  /\ Written'
         /\ NamesOf(cpio') = NamesOf(cpio)
         /\ {i \in DOMAIN cpio' : cpio'[i].what = "trailer"} = {Len(cpio') - 2}
PROOF
  <1>1. PICK e : e = EndOfArchive
    OBVIOUS
  <1>2. PICK n : n = Len(cpio)
    OBVIOUS
  <1>3. cpio \in Seq(PartSet) /\ OnlyLayoutIsRight /\ position % 4 = 0
    BY DEF Written
  <1>4. position \in Nat
    BY <1>3, PositionIs
  <1>5. /\ e \in Seq(PartSet) /\ Len(e) = 3
        /\ e[1].what = "trailer" /\ e[1].at = position /\ e[1].size = HEADER
        /\ e[1].fields[1] = format_cpio_field(11)
        /\ e[2].what = "name" /\ e[2].at = position + HEADER /\ e[2].size = 11
        /\ e[3].what = "pad" /\ e[3].at = position + HEADER + 11
    <2>1. PICK p, q : p = position /\ q = NamePadding(11)
      OBVIOUS
    <2>2. p \in Nat /\ q \in Nat
      BY <1>4, <2>1 DEF NamePadding, Padding, HEADER
    <2>3. e = <<Header("trailer", "TRAILER!!!", 11, 0),
                Part("name", "TRAILER!!!", p + HEADER, 11),
                Part("pad", "TRAILER!!!", p + HEADER + 11, q)>>
      BY <1>1, <2>1 DEF EndOfArchive
    <2>4. /\ Header("trailer", "TRAILER!!!", 11, 0) \in PartSet
          /\ Part("name", "TRAILER!!!", p + HEADER, 11) \in PartSet
          /\ Part("pad", "TRAILER!!!", p + HEADER + 11, q) \in PartSet
      <3>1. "TRAILER!!!" \in Ofs /\ p + HEADER \in Nat /\ p + HEADER + 11 \in Nat
        BY <2>2 DEF Ofs, HEADER
      <3> QED BY <1>4, <2>2, <3>1, PartsAreTyped, HeadersAreTyped
    <2>5. e \in Seq(PartSet) /\ Len(e) = 3
      BY <2>3, <2>4
    <2> QED BY <2>1, <2>3, <2>5 DEF Part, Header
  <1>6. /\ cpio' \in Seq(PartSet) /\ n \in Nat /\ Len(cpio') = n + 3
        /\ DOMAIN cpio = 1..n /\ DOMAIN cpio' = 1..(n + 3)
        /\ \A i \in 1..n : cpio'[i] = cpio[i]
        /\ \A i \in 1..3 : cpio'[n + i] = e[i]
    BY <1>1, <1>2, <1>3, <1>5, PartsWritten
  <1>7. /\ cpio'[n + 1] = e[1] /\ n + 1 \in DOMAIN cpio'
        /\ \A i \in DOMAIN cpio' :
             i \in DOMAIN cpio \/ i = n + 1 \/ cpio'[i].what \in {"name", "pad"}
    <2>1. 1 \in 1..3 /\ 2 \in 1..3 /\ 3 \in 1..3
      OBVIOUS
    <2>2. cpio'[n + 1] = e[1] /\ cpio'[n + 2] = e[2] /\ cpio'[n + 3] = e[3]
      BY <1>6, <2>1
    <2>3. ASSUME NEW i \in DOMAIN cpio'
          PROVE  i \in DOMAIN cpio \/ i = n + 1 \/ i = n + 2 \/ i = n + 3
      <3>1. n \in Nat /\ i \in 1..(n + 3) /\ DOMAIN cpio = 1..n
        BY <1>6
      <3> QED BY <3>1
    <2>4. n + 1 \in DOMAIN cpio'
      BY <1>6
    <2> QED BY <1>5, <2>2, <2>3, <2>4
  <1>8. EndToEnd'
    <2>1. ASSUME NEW i \in 2..3 PROVE e[i].at = e[i - 1].at + e[i - 1].size
      <3>1. i = 2 \/ i = 3
        OBVIOUS
      <3> QED BY <1>5, <3>1
    <2>2. cpio' = cpio \o e /\ Len(e) # 0 /\ EndToEnd
      BY <1>1, <1>3, <1>5 DEF OnlyLayoutIsRight
    <2> QED BY <1>3, <1>5, <2>1, <2>2, StaysEndToEnd
  <1>9. ASSUME NEW i \in DOMAIN cpio', cpio'[i].what = "header" PROVE Placed(i)'
    <2>1. i \in DOMAIN cpio
      BY <1>5, <1>7, <1>9
    <2>2. Placed(i)
      BY <1>3, <1>6, <1>9, <2>1 DEF OnlyLayoutIsRight, Placed
    <2> QED BY <1>1, <1>3, <1>5, <2>1, <2>2, StaysPlaced
  <1>10. ASSUME NEW i \in DOMAIN cpio' PROVE cpio'[i].what = "trailer" <=> i = n + 1
    <2>1. CASE i \in DOMAIN cpio
      BY <1>6, <2>1
    <2>2. CASE i \notin DOMAIN cpio
      BY <1>5, <1>6, <1>7, <2>2
    <2> QED BY <2>1, <2>2
  <1>11. cpio'[n + 1].at % 4 = 0 /\ \A i : i = n + 1 => Misread(i)'
    <2>1. ASSUME NEW i, i = n + 1 PROVE Misread(i)'
      <3>1. i + 1 = n + 2 /\ 2 \in 1..3 /\ n + 2 \in DOMAIN cpio'
        BY <1>6, <2>1
      <3>2. cpio'[i] = e[1] /\ cpio'[i + 1] = e[2]
        BY <1>6, <1>7, <2>1, <3>1
      <3>3. Hexadecimal(format_cpio_field(11)) < 11
        BY CutShort
      <3> QED BY <1>5, <3>1, <3>2, <3>3 DEF Misread
    <2> QED BY <1>3, <1>5, <1>7, <2>1
  <1>12. Written'
    BY <1>6, <1>8, <1>9, <1>10, <1>11 DEF Written, OnlyLayoutIsRight, Placed
  <1>13. NamesOf(cpio \o e) = NamesOf(cpio)
    <2>1. HeaderFirst(e)
      <3> SUFFICES ASSUME NEW i \in 2..Len(e) PROVE e[i].what # "header"
        BY DEF HeaderFirst
      <3>1. i = 2 \/ i = 3
        BY <1>5
      <3> QED BY <1>5, <3>1
    <2>2. /\ NamesOf(cpio \o e) =
               NamesOf(cpio) \o (IF e[1].what = "header" THEN <<e[1].of>> ELSE <<>>)
          /\ NamesOf(cpio) \in Seq(Tokens)
      <3>1. Len(e) # 0
        BY <1>5
      <3> QED BY <1>3, <1>5, <2>1, <3>1, NamesOfMore
    <2>3. NamesOf(cpio \o e) = NamesOf(cpio) \o <<>>
      BY <1>5, <2>2
    <2> QED BY <2>2, <2>3, ConcatEmptySeq
  <1>14. Len(cpio') - 2 = n + 1
    BY <1>6
  <1> QED BY <1>1, <1>7, <1>10, <1>12, <1>13, <1>14
-----------------------------------------------------------------------------
(* A turn taken, and none left.                                            *)
LEMMA TurnTaken ==
  ASSUME argv \in CommandLines, passed \in 0..Len(modules_to_add),
         NEW k \in DOMAIN modules_to_add, strtok(k)
  PROVE  /\ modules_to_add[k] \in Tokens /\ k \in 0..Len(modules_to_add)
         /\ NonemptyOf(Upto(modules_to_add, k)) =
              Append(NonemptyOf(Upto(modules_to_add, passed)), modules_to_add[k])
PROOF
  <1>1. PICK M, p : M = modules_to_add /\ p = passed
    OBVIOUS
  <1>2. M \in Seq(DOMAIN Length) /\ Len(M) \in Nat /\ DOMAIN M = 1..Len(M)
    BY <1>1, ListIsTyped, LenProperties
  <1>3. k \in (p + 1)..Len(M) /\ p \in 0..Len(M) /\ k \in 1..Len(M)
    BY <1>1, <1>2 DEF strtok
  <1>3a. M[k] # ""
    BY <1>1 DEF strtok
  <1>4. PICK j \in Nat : k = j + 1
    <2>1. k - 1 \in Nat /\ k = (k - 1) + 1
      BY <1>2, <1>3
    <2> QED BY <2>1
  <1>5. p <= j /\ j < Len(M) /\ j <= Len(M) /\ p \in Nat /\ k - 1 = j
    BY <1>2, <1>3, <1>4
  <1>6. Blank(M, p + 1, j)
    BY <1>1, <1>5 DEF strtok, EmptyFrom, Blank
  <1>7. NonemptyOf(Upto(M, j)) = NonemptyOf(Upto(M, p))
    BY <1>2, <1>5, <1>6, EmptyAddsNothing
  <1>8. /\ NonemptyOf(Upto(M, j + 1)) =
             NonemptyOf(Upto(M, j)) \o (IF M[j + 1] # "" THEN <<M[j + 1]>> ELSE <<>>)
        /\ NonemptyOf(Upto(M, j)) \in Seq(DOMAIN Length)
    BY <1>2, <1>5, NonemptyGrows
  <1>9. M[k] \in DOMAIN Length
    BY <1>2, <1>3, ElementOfSeq
  <1>10. NonemptyOf(Upto(M, k)) = NonemptyOf(Upto(M, p)) \o <<M[k]>>
    BY <1>4, <1>7, <1>8, <1>3a
  <1>11. NonemptyOf(Upto(M, k)) = Append(NonemptyOf(Upto(M, p)), M[k])
    BY <1>7, <1>8, <1>9, <1>10, AppendIsConcat
  <1>12. M[k] \in Tokens
    BY <1>9, <1>3a DEF Tokens
  <1> QED BY <1>1, <1>3, <1>11, <1>12

LEMMA TurnsTaken ==
  ASSUME argv \in CommandLines, passed \in 0..Len(modules_to_add),
         \A k \in DOMAIN modules_to_add : ~strtok(k)
  PROVE  NonemptyOf(Upto(modules_to_add, passed)) = NonemptyOf(modules_to_add)
PROOF
  <1>1. PICK M, p : M = modules_to_add /\ p = passed
    OBVIOUS
  <1>2. M \in Seq(DOMAIN Length) /\ Len(M) \in Nat /\ DOMAIN M = 1..Len(M) /\ p \in 0..Len(M)
    BY <1>1, ListIsTyped, LenProperties
  <1> DEFINE T == {k \in (p + 1)..Len(M) : ~Blank(M, k, k)}
  <1>3. CASE T = {}
    <2>1. Blank(M, p + 1, Len(M))
      <3>1. \A k \in (p + 1)..Len(M) : k \in Nat /\ Blank(M, k, k)
        BY <1>2, <1>3
      <3> QED BY <3>1, BlankIs, Zenon DEF Blank
    <2>2. NonemptyOf(Upto(M, Len(M))) = NonemptyOf(Upto(M, p))
      BY <1>2, <2>1, EmptyAddsNothing
    <2> QED BY <1>1, <1>2, <2>2, NonemptyOfAll
  <1>4. CASE T # {}
    <2>1. T \in SUBSET Nat
      BY <1>2
    <2>2. PICK k \in T : \A j \in T : k <= j
      BY <1>4, <2>1, SmallestExists
    <2>3. k \in (p + 1)..Len(M) /\ k \in DOMAIN M
      BY <1>2, <2>2
    <2>3a. M[k] # ""
      <3>1. ~Blank(M, k, k) /\ k \in Nat
        BY <2>1, <2>2
      <3> QED BY <3>1, BlankIs
    <2>4. Blank(M, p + 1, k - 1)
      <3>1. ASSUME NEW i \in (p + 1)..(k - 1) PROVE M[i] = ""
        <4>1. i \in (p + 1)..Len(M) /\ ~(k <= i)
          BY <1>2, <2>3
        <4>2. Blank(M, i, i) /\ i \in Nat
          BY <1>2, <2>2, <4>1
        <4> QED BY <4>2, BlankIs
      <3> QED BY <3>1 DEF Blank
    <2>5. strtok(k)
      BY <1>1, <2>3, <2>4, <2>3a DEF strtok, EmptyFrom, Blank
    <2> QED BY <1>1, <2>3, <2>5
  <1> QED BY <1>3, <1>4
-----------------------------------------------------------------------------
(* Initially.                                                              *)
LEMMA NothingChosen == NamesOf(<<>>) = <<>> /\ ReadableOf(<<>>) = <<>>
PROOF
  <1>1. DOMAIN <<>> = 1..0 /\ 0 \in Nat
    OBVIOUS
  <1>2. /\ Readables(<<>>) \in Seq(Seq({})) /\ Len(Readables(<<>>)) = 0
        /\ Names(<<>>) \in Seq(Seq({})) /\ Len(Names(<<>>)) = 0
    BY <1>1, PiecesTyped
  <1>3. FlattenSeq(Readables(<<>>)) = <<>> /\ FlattenSeq(Names(<<>>)) = <<>>
    BY <1>2, FlattenTyped
  <1> QED BY <1>3 DEF NamesOf, ReadableOf, Names, Readables

LEMMA ImageBegins == ImageInit => ImageIInv
PROOF
  <1> SUFFICES ASSUME ImageInit PROVE ImageIInv
    OBVIOUS
  <1>1. /\ files \in Files /\ argv \in CommandLines /\ stage = "started" /\ passed = 0
        /\ cpio = <<>> /\ status = 0 /\ added = <<>> /\ DOMAIN cpio = {}
    BY DEF ImageInit
  <1>2. cpio \in Seq(PartSet) /\ added \in Seq(Tokens)
    BY <1>1, EmptySeq
  <1>3. position % 4 = 0
    BY <1>1 DEF position
  <1>4. Written
    BY <1>1, <1>2, <1>3 DEF Written, OnlyLayoutIsRight, EndToEnd
  <1>5. NoHalfEntries
    BY <1>1, NothingChosen DEF NoHalfEntries
  <1>6. modules_to_add \in Seq(DOMAIN Length)
    BY <1>1, ListIsTyped
  <1>7. passed \in 0..Len(modules_to_add) /\ NonemptyOf(Upto(modules_to_add, 0)) = <<>>
    BY <1>1, <1>6, LenProperties, NonemptyOfAll
  <1>8. TurnsSoFar
    BY <1>1, <1>2, <1>7 DEF TurnsSoFar
  <1> QED BY <1>1, <1>4, <1>5, <1>8 DEF ImageIInv

(* What depends on the files or the command line alone.                    *)
LEMMA OthersStay ==
  ASSUME files' = files, argv' = argv
  PROVE  /\ modules_to_add' = modules_to_add
         /\ \A t : t = added' => ReadableOf(added)' = ReadableOf(t)
PROOF
  <1>1. modules_to_add' = modules_to_add
    BY DEF modules_to_add, LastOf, SelectLastInSeq
  <1>2. \A t : t = added' => ReadableOf(added)' = ReadableOf(t)
    BY DEF ReadableOf, Readable
  <1> QED BY <1>1, <1>2

LEMMA CpioStays ==
  ASSUME cpio' = cpio
  PROVE  /\ OnlyLayoutIsRight' = OnlyLayoutIsRight /\ position' = position
         /\ Written /\ (stage' # "ended" => stage # "ended") => Written'
PROOF
  <1>1. position' = position
    BY DEF position
  <1>2. EndToEnd' = EndToEnd /\ \A i : Aligned(i)' = Aligned(i) /\ Misread(i)' = Misread(i)
    BY DEF EndToEnd, Aligned, Misread
  <1>3. OnlyLayoutIsRight' = OnlyLayoutIsRight
    BY <1>2 DEF OnlyLayoutIsRight
  <1> QED BY <1>1, <1>3 DEF Written

LEMMA AddStep == ImageIInv /\ add_module => ImageIInv'
PROOF
  <1> SUFFICES ASSUME ImageIInv, add_module PROVE ImageIInv'
    OBVIOUS
  <1>1. PICK M, n : M = modules_to_add /\ n = passed
    OBVIOUS
  <1>2. PICK k \in DOMAIN M :
          /\ strtok(k) /\ passed' = k
          /\ cpio' = cpio \o add_file_to_cpio(filename(M[k]), M[k])
          /\ added' = Append(added, M[k])
    BY <1>1 DEF add_module
  <1>3. /\ stage = "adding" /\ stage' = stage /\ files' = files /\ argv' = argv
        /\ status' = status /\ status = 0
    BY DEF add_module, ImageIInv
  <1>4. /\ files \in Files /\ argv \in CommandLines /\ Written
        /\ added \in Seq(Tokens) /\ n \in 0..Len(M) /\ added = NonemptyOf(Upto(M, n))
        /\ cpio \in Seq(PartSet)
    BY <1>1, <1>3 DEF ImageIInv, TurnsSoFar, Written
  <1>5. /\ NamesOf(cpio) = ReadableOf(added)
        /\ \A i \in DOMAIN cpio : cpio[i].what # "trailer"
    BY <1>3 DEF ImageIInv, NoHalfEntries
  <1>6. PICK token : token = M[k]
    OBVIOUS
  <1>7. /\ token \in Tokens /\ k \in 0..Len(M)
        /\ NonemptyOf(Upto(M, k)) = Append(NonemptyOf(Upto(M, n)), token)
    BY <1>1, <1>2, <1>4, <1>6, TurnTaken
  <1>8. PICK turns : turns = Append(added, token)
    OBVIOUS
  <1>9. ReadableOf(turns) = ReadableOf(added) \o (IF Readable(token) THEN <<token>> ELSE <<>>)
    BY <1>4, <1>7, <1>8, ReadableGrows
  <1>10. NamesOf(cpio) \in Seq(Tokens)
    <2>1. \A p \in PartSet : p.what = "header" => p.of \in Tokens
      BY DEF PartSet
    <2>2. \A x \in PartSet : NamesOf(cpio) \in Seq(Tokens)
      BY <1>4, <2>1, NamesGrow
    <2>3. PartSet # {}
      <3>1. Part("name", token, 0, 0) \in PartSet
        BY <1>4, <1>7, FilesAreTyped, PartsAreTyped
      <3> QED BY <3>1
    <2> QED BY <2>2, <2>3
  <1>11. /\ Written' /\ NamesOf(cpio') = ReadableOf(turns)
         /\ \A i \in DOMAIN cpio' : cpio'[i].what # "trailer"
    <2>1. CASE Readable(token)
      <3>1. cpio' = cpio \o Entry(filename(token), token)
        BY <1>2, <1>6, <2>1 DEF Readable, add_file_to_cpio
      <3>2. /\ Written' /\ NamesOf(cpio') = Append(NamesOf(cpio), token)
            /\ \A i \in DOMAIN cpio' : cpio'[i].what # "trailer"
        BY <1>3, <1>4, <1>5, <1>7, <3>1, EntryWritten
      <3>3. ReadableOf(turns) = NamesOf(cpio) \o <<token>>
        BY <1>5, <1>9, <2>1
      <3>4. NamesOf(cpio) \o <<token>> = Append(NamesOf(cpio), token)
        BY <1>7, <1>10, AppendIsConcat
      <3> QED BY <3>2, <3>3, <3>4
    <2>2. CASE ~Readable(token)
      <3>1. cpio' = cpio \o <<>>
        BY <1>2, <1>6, <2>2 DEF Readable, add_file_to_cpio
      <3>2. cpio' = cpio
        BY <1>4, <3>1, ConcatEmptySeq
      <3>3. Written'
        BY <1>3, <1>4, <3>2, CpioStays
      <3>4. ReadableOf(turns) = NamesOf(cpio)
        <4>1. ReadableOf(turns) = NamesOf(cpio) \o <<>>
          BY <1>5, <1>9, <2>2
        <4> QED BY <1>10, <4>1, ConcatEmptySeq
      <3> QED BY <1>5, <3>2, <3>3, <3>4
    <2> QED BY <2>1, <2>2
  <1>12. modules_to_add' = M /\ ReadableOf(added)' = ReadableOf(turns)
    BY <1>1, <1>2, <1>3, <1>6, <1>8, OthersStay
  <1>13. NoHalfEntries'
    BY <1>3, <1>11, <1>12 DEF NoHalfEntries
  <1>14. TurnsSoFar'
    <2>1. added' \in Seq(Tokens)
      BY <1>2, <1>4, <1>6, <1>7, AppendProperties
    <2>2. added' = NonemptyOf(Upto(M, k))
      BY <1>2, <1>4, <1>6, <1>7
    <2> QED BY <1>2, <1>3, <1>7, <1>12, <2>1, <2>2 DEF TurnsSoFar
  <1> QED BY <1>3, <1>4, <1>11, <1>13, <1>14 DEF ImageIInv

LEMMA EndStep == ImageIInv /\ main_ends => ImageIInv'
PROOF
  <1> SUFFICES ASSUME ImageIInv, main_ends PROVE ImageIInv'
    OBVIOUS
  <1>1. PICK M, n : M = modules_to_add /\ n = passed
    OBVIOUS
  <1>2. /\ stage = "adding" /\ stage' = "ended" /\ files' = files /\ argv' = argv
        /\ status' = 0 /\ added' = added /\ passed' = passed
        /\ cpio' = cpio \o EndOfArchive /\ \A k \in DOMAIN modules_to_add : ~strtok(k)
    BY DEF main_ends, ImageIInv
  <1>3. /\ files \in Files /\ argv \in CommandLines /\ Written
        /\ added \in Seq(Tokens) /\ n \in 0..Len(M) /\ added = NonemptyOf(Upto(M, n))
    BY <1>1, <1>2 DEF ImageIInv, TurnsSoFar
  <1>4. /\ NamesOf(cpio) = ReadableOf(added)
        /\ \A i \in DOMAIN cpio : cpio[i].what # "trailer"
    BY <1>2 DEF ImageIInv, NoHalfEntries
  <1>5. /\ Written' /\ NamesOf(cpio') = NamesOf(cpio)
        /\ {i \in DOMAIN cpio' : cpio'[i].what = "trailer"} = {Len(cpio') - 2}
    BY <1>2, <1>3, <1>4, EndWritten
  <1>6. modules_to_add' = M /\ ReadableOf(added)' = ReadableOf(added)
    BY <1>1, <1>2, OthersStay
  <1>7. NoHalfEntries'
    BY <1>2, <1>4, <1>5, <1>6 DEF NoHalfEntries
  <1>8. added = NonemptyOf(M)
    BY <1>1, <1>2, <1>3, TurnsTaken
  <1>9. TurnsSoFar'
    BY <1>1, <1>2, <1>3, <1>6, <1>8 DEF TurnsSoFar
  <1> QED BY <1>2, <1>3, <1>5, <1>7, <1>9 DEF ImageIInv

(* The steps that write nothing.                                           *)
LEMMA OtherStep ==
  ImageIInv /\ (main_fails \/ main_begins \/ UNCHANGED imageVars) => ImageIInv'
PROOF
  <1> SUFFICES ASSUME ImageIInv, main_fails \/ main_begins \/ UNCHANGED imageVars
               PROVE  ImageIInv'
    OBVIOUS
  <1>1. /\ files' = files /\ argv' = argv /\ cpio' = cpio /\ added' = added
        /\ passed' = passed
    BY DEF main_fails, main_begins, imageVars
  <1>2. /\ files \in Files /\ argv \in CommandLines /\ Written
        /\ stage \in {"started", "adding", "ended"} /\ status \in {0, 1}
        /\ stage # "ended" => status = 0
    BY DEF ImageIInv
  <1>3. modules_to_add' = modules_to_add /\ ReadableOf(added)' = ReadableOf(added)
    BY <1>1, OthersStay
  <1>4. \/ stage = "started" /\ stage' = "ended" /\ status' = 1
        \/ stage = "started" /\ stage' = "adding" /\ status' = status
        \/ stage' = stage /\ status' = status
    BY DEF main_fails, main_begins, imageVars
  <1>5. Written'
    BY <1>1, <1>2, <1>4, CpioStays
  <1>6. NoHalfEntries'
    <2>1. NamesOf(cpio)' = ReadableOf(added)'
      BY <1>1, <1>3 DEF ImageIInv, NoHalfEntries
    <2>2. (stage' = "ended" /\ status' = 0) <=> (stage = "ended" /\ status = 0)
      BY <1>2, <1>4
    <2> QED BY <1>1, <2>1, <2>2 DEF ImageIInv, NoHalfEntries
  <1>7. TurnsSoFar'
    BY <1>1, <1>2, <1>3, <1>4 DEF ImageIInv, TurnsSoFar
  <1> QED BY <1>1, <1>2, <1>4, <1>5, <1>6, <1>7 DEF ImageIInv

LEMMA ImageInvariant == ImageSpec => []ImageIInv
PROOF
  <1>1. ImageIInv /\ [ImageNext]_imageVars => ImageIInv'
    BY AddStep, EndStep, OtherStep DEF ImageNext, exited
  <1> QED BY <1>1, ImageBegins, PTL DEF ImageSpec

(* Whatever the sizes of the files and of their names, and whichever files *)
(* cannot be read, every header and every file's bytes begin at a multiple *)
(* of four, as the format asks; and whatever they are, no header, not the  *)
(* trailer's either, says how long its name is, so that no archive of this *)
(* builder can be read by its headers.                                     *)
THEOREM HeadersMislead == ImageSpec => []OnlyLayoutIsRight
PROOF
  <1>1. ImageIInv => OnlyLayoutIsRight
    BY DEF ImageIInv, Written
  <1> QED BY <1>1, ImageInvariant, PTL

(* The archive has an entry for each module whose turn has been and whose  *)
(* file could be read, and nothing of the others; its trailer comes last,  *)
(* and only when main has ended with status 0.                             *)
THEOREM EntriesAreWhole == ImageSpec => []NoHalfEntries
PROOF
  <1>1. ImageIInv => NoHalfEntries
    BY DEF ImageIInv
  <1> QED BY <1>1, ImageInvariant, PTL

(* However long the list and wherever its empty places, main returns 0     *)
(* only when every module of the last --add had its turn, in order; and 1  *)
(* only when nothing was written.                                          *)
THEOREM EveryModuleHasItsTurn == ImageSpec => []ExitMeansTurns
PROOF
  <1>1. ASSUME ImageIInv, stage = "ended" PROVE ExitMeansTurns
    <2>1. CASE status = 1
      BY <1>1, <2>1 DEF ImageIInv, TurnsSoFar, ExitMeansTurns
    <2>2. CASE status # 1
      <3>1. added = NonemptyOf(modules_to_add) /\ argv \in CommandLines
        BY <1>1, <2>2 DEF ImageIInv, TurnsSoFar
      <3>2. PICK l : l = LastOf("add")
        OBVIOUS
      <3>3. CASE l = 0
        <4>1. modules_to_add = <<>>
          BY <3>2, <3>3 DEF modules_to_add
        <4>2. NonemptyOf(<<>>) = <<>>
          <5>1. <<>> \in Seq(DOMAIN Length) /\ Len(<<>>) = 0
            BY EmptySeq
          <5> QED BY <5>1, NonemptyOfAll
        <4>3. \A i \in DOMAIN argv : argv[i].is # "add"
          <5>1. 0 \notin DOMAIN argv
            <6>1. PICK S : argv \in Seq(S)
              BY <3>1, LinesAssumption
            <6> QED BY <6>1, LenProperties
          <5> QED BY <3>1, <3>2, <3>3, <5>1, LastOfIs
        <4> QED BY <2>2, <3>1, <4>1, <4>2, <4>3 DEF ExitMeansTurns
      <3>4. CASE l # 0
        <4>1. /\ l \in DOMAIN argv /\ argv[l].is = "add"
              /\ \A i \in (l + 1)..Len(argv) : argv[i].is # "add"
          BY <3>1, <3>2, <3>4, LastOfIs
        <4>2. modules_to_add = argv[l].value
          BY <3>2, <3>4 DEF modules_to_add
        <4> QED BY <2>2, <3>1, <4>1, <4>2 DEF ExitMeansTurns
      <3> QED BY <3>3, <3>4
    <2> QED BY <2>1, <2>2
  <1>2. ImageIInv => ExitMeansTurns
    BY <1>1 DEF ExitMeansTurns
  <1> QED BY <1>2, ImageInvariant, PTL
=============================================================================
