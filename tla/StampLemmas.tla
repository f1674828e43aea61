----------------------------- MODULE StampLemmas -----------------------------
(***************************************************************************)
(* Facts about Stamps: what the filter of a list of time stamps keeps, how *)
(* many stamps are not before a given time, and how an append or a filter  *)
(* changes that number.  The induction over the list is by the least       *)
(* number for which the fact would be false.                               *)
(***************************************************************************)
EXTENDS Stamps, FiniteSets, FiniteSetTheorems, WellFoundedInduction, TLAPS

LEMMA NatMin ==
  ASSUME NEW T \in SUBSET Nat, T # {}
  PROVE  \E n \in T : \A m \in T : n <= m
<1>1. PICK n \in T : \A m \in T : ~(<<m, n>> \in OpToRel(<, Nat))
  BY NatLessThanWellFounded, WFMin
<1>2. \A m \in T : ~(m < n)
  BY <1>1 DEF OpToRel
<1> QED
  BY <1>2

-----------------------------------------------------------------------------
(* The recursive function of Since: what is kept of the first n stamps.    *)
IsKept(F, stamps, cut, m) ==
  F = [n \in 0 .. m |->
         IF n = 0 THEN <<>>
         ELSE IF stamps[n] >= cut THEN Append(F[n - 1], stamps[n]) ELSE F[n - 1]]

LEMMA KeptExists ==
  ASSUME NEW stamps, NEW cut, NEW len \in Nat
  PROVE  \E F : IsKept(F, stamps, cut, len)
<1> DEFINE Bad == {m \in Nat : ~ \E F : IsKept(F, stamps, cut, m)}
<1>1. SUFFICES ASSUME Bad # {} PROVE FALSE
  OBVIOUS
<1>2. PICK m \in Bad : \A k \in Bad : m <= k
  BY <1>1, NatMin
<1>3. CASE m = 0
  <2> DEFINE F == [n \in {0} |-> <<>>]
  <2>1. IsKept(F, stamps, cut, 0)
    BY 0 .. 0 = {0} DEF IsKept
  <2> QED
    BY <1>2, <1>3, <2>1
<1>4. CASE m # 0
  <2>1. m - 1 \in Nat /\ m - 1 \notin Bad
    BY <1>2, <1>4
  <2>2. PICK F : IsKept(F, stamps, cut, m - 1)
    BY <2>1
  <2> DEFINE G == [n \in 0 .. m |->
                     IF n = m
                     THEN IF stamps[m] >= cut THEN Append(F[m - 1], stamps[m]) ELSE F[m - 1]
                     ELSE F[n]]
  <2>3. ASSUME NEW n \in 0 .. m
        PROVE  G[n] = IF n = 0 THEN <<>>
                      ELSE IF stamps[n] >= cut THEN Append(G[n - 1], stamps[n]) ELSE G[n - 1]
    <3>1. CASE n = m
      <4>1. m - 1 \in 0 .. m /\ m - 1 # m
        BY <1>4
      <4>2. G[m - 1] = F[m - 1]
        BY <4>1
      <4> QED
        BY <1>4, <3>1, <4>2
    <3>2. CASE n # m
      <4>1. n \in 0 .. m - 1 /\ G[n] = F[n]
        BY <3>2
      <4>2. F[n] = IF n = 0 THEN <<>>
                   ELSE IF stamps[n] >= cut THEN Append(F[n - 1], stamps[n]) ELSE F[n - 1]
        BY <2>2, <4>1 DEF IsKept
      <4>3. n # 0 => n - 1 \in 0 .. m /\ n - 1 # m
        BY <3>2
      <4>4. n # 0 => G[n - 1] = F[n - 1]
        BY <4>3
      <4> HIDE DEF G
      <4> QED
        BY <4>1, <4>2, <4>4
    <3> QED
      BY <3>1, <3>2
  <2>4. G = [n \in 0 .. m |-> G[n]]
    OBVIOUS
  <2>5. IsKept(G, stamps, cut, m)
    <3> HIDE DEF G
    <3> QED
      BY <2>3, <2>4 DEF IsKept
  <2> QED
    BY <1>2, <2>5
<1> QED
  BY <1>3, <1>4

LEMMA SinceKept ==
  ASSUME NEW stamps, NEW cut, Len(stamps) \in Nat
  PROVE  \E F : IsKept(F, stamps, cut, Len(stamps)) /\ Since(stamps, cut) = F[Len(stamps)]
<1> DEFINE K == CHOOSE F : IsKept(F, stamps, cut, Len(stamps))
<1>1. IsKept(K, stamps, cut, Len(stamps))
  BY KeptExists
<1>2. Since(stamps, cut) = K[Len(stamps)]
  BY DEF Since, IsKept
<1> QED
  BY <1>1, <1>2

-----------------------------------------------------------------------------
(* How many of the first m stamps are not before a time, and of all.       *)
Later(stamps, m, at) == {i \in 1 .. m : stamps[i] >= at}
CountUpTo(stamps, m, at) == Cardinality(Later(stamps, m, at))
CountSince(stamps, at) == CountUpTo(stamps, Len(stamps), at)

LEMMA LaterFinite ==
  ASSUME NEW stamps, NEW m \in Nat, NEW at
  PROVE  IsFiniteSet(Later(stamps, m, at)) /\ CountUpTo(stamps, m, at) \in Nat
<1>1. IsFiniteSet(1 .. m)
  BY FS_Interval, 1 \in Int
<1>2. Later(stamps, m, at) \subseteq 1 .. m
  BY DEF Later
<1>3. IsFiniteSet(Later(stamps, m, at))
  BY <1>1, <1>2, FS_Subset
<1> QED
  BY <1>3, FS_CardinalityType DEF CountUpTo

LEMMA CountNone ==
  ASSUME NEW stamps, NEW at
  PROVE  CountUpTo(stamps, 0, at) = 0
<1>1. Later(stamps, 0, at) = {}
  BY DEF Later
<1> QED
  BY <1>1, FS_EmptySet DEF CountUpTo

LEMMA CountOneMore ==
  ASSUME NEW stamps, NEW m \in Nat, NEW at
  PROVE  CountUpTo(stamps, m + 1, at)
           = IF stamps[m + 1] >= at THEN CountUpTo(stamps, m, at) + 1
                                    ELSE CountUpTo(stamps, m, at)
<1>1. IsFiniteSet(Later(stamps, m, at)) /\ m + 1 \notin Later(stamps, m, at)
  <2>1. IsFiniteSet(Later(stamps, m, at))
    BY LaterFinite
  <2> QED
    BY <2>1 DEF Later
<1>2. Later(stamps, m + 1, at) = IF stamps[m + 1] >= at
                                 THEN Later(stamps, m, at) \cup {m + 1}
                                 ELSE Later(stamps, m, at)
  BY DEF Later
<1>3. Cardinality(Later(stamps, m, at) \cup {m + 1}) = Cardinality(Later(stamps, m, at)) + 1
  BY <1>1, FS_AddElement
<1> QED
  BY <1>2, <1>3 DEF CountUpTo

LEMMA CountAppend ==
  ASSUME NEW Stamp, NEW stamps \in Seq(Stamp), NEW x \in Stamp, NEW at
  PROVE  CountSince(Append(stamps, x), at)
           = IF x >= at THEN CountSince(stamps, at) + 1 ELSE CountSince(stamps, at)
<1> DEFINE n == Len(stamps)
           longer == Append(stamps, x)
<1>1. /\ Len(longer) = n + 1 /\ longer[n + 1] = x /\ n \in Nat
      /\ \A i \in 1 .. n : longer[i] = stamps[i]
  OBVIOUS
<1> HIDE DEF longer, n
<1>2. Later(longer, n, at) = Later(stamps, n, at)
  BY <1>1 DEF Later
<1>3. CountUpTo(longer, n + 1, at) = IF x >= at THEN CountUpTo(stamps, n, at) + 1
                                                ELSE CountUpTo(stamps, n, at)
  BY <1>1, <1>2, CountOneMore DEF CountUpTo
<1>4. /\ CountSince(longer, at) = CountUpTo(longer, n + 1, at)
      /\ CountSince(stamps, at) = CountUpTo(stamps, n, at)
  BY <1>1 DEF CountSince, n
<1> QED
  BY <1>3, <1>4 DEF longer

LEMMA CountMonotonic ==
  ASSUME NEW stamps \in Seq(Int), NEW low \in Int, NEW high \in Int, low <= high
  PROVE  CountSince(stamps, high) <= CountSince(stamps, low)
<1>1. Len(stamps) \in Nat /\ \A i \in 1 .. Len(stamps) : stamps[i] \in Int
  OBVIOUS
<1>2. Later(stamps, Len(stamps), high) \subseteq Later(stamps, Len(stamps), low)
  BY <1>1 DEF Later
<1>3. IsFiniteSet(Later(stamps, Len(stamps), low))
  BY <1>1, LaterFinite
<1> QED
  BY <1>2, <1>3, FS_Subset DEF CountSince, CountUpTo

-----------------------------------------------------------------------------
(* The stamps that are kept of the first m.                                *)
GoodPrefix(Stamp, stamps, cut, F, m) ==
  /\ F[m] \in Seq(Stamp)
  /\ \A i \in 1 .. Len(F[m]) : F[m][i] >= cut
  /\ \A at \in Int : at >= cut => CountSince(F[m], at) = CountUpTo(stamps, m, at)

LEMMA PrefixStep ==
  ASSUME NEW Stamp \in SUBSET Int, NEW stamps \in Seq(Stamp), NEW cut \in Int,
         NEW F, IsKept(F, stamps, cut, Len(stamps)),
         NEW m \in Nat, m + 1 <= Len(stamps), GoodPrefix(Stamp, stamps, cut, F, m)
  PROVE  GoodPrefix(Stamp, stamps, cut, F, m + 1)
<1> DEFINE x == stamps[m + 1]
           kept == F[m]
<1>1. x \in Stamp /\ x \in Int
  <2>1. m + 1 \in 1 .. Len(stamps)
    BY m + 1 <= Len(stamps)
  <2>2. x \in Stamp
    BY <2>1
  <2> QED
    BY <2>2
<1>2. F[m + 1] = IF x >= cut THEN Append(kept, x) ELSE kept
  <2>1. m + 1 \in 0 .. Len(stamps) /\ m + 1 # 0 /\ (m + 1) - 1 = m
    BY m + 1 <= Len(stamps)
  <2> QED
    BY <2>1 DEF IsKept
<1>3. /\ kept \in Seq(Stamp)
      /\ \A i \in 1 .. Len(kept) : kept[i] >= cut
      /\ \A at \in Int : at >= cut => CountSince(kept, at) = CountUpTo(stamps, m, at)
  BY DEF GoodPrefix
<1>4. \A at \in Int : CountUpTo(stamps, m + 1, at)
         = IF x >= at THEN CountUpTo(stamps, m, at) + 1 ELSE CountUpTo(stamps, m, at)
  BY CountOneMore
<1> HIDE DEF x, kept
<1>5. CASE x >= cut
  <2>1. F[m + 1] \in Seq(Stamp)
    BY <1>1, <1>2, <1>3, <1>5
  <2>2. \A i \in 1 .. Len(F[m + 1]) : F[m + 1][i] >= cut
    BY <1>1, <1>2, <1>3, <1>5
  <2>3. \A at : CountSince(F[m + 1], at)
          = IF x >= at THEN CountSince(kept, at) + 1 ELSE CountSince(kept, at)
    BY <1>1, <1>2, <1>3, <1>5, CountAppend
  <2>4. \A at \in Int : at >= cut => CountSince(F[m + 1], at) = CountUpTo(stamps, m + 1, at)
    BY <1>3, <1>4, <2>3
  <2> QED
    BY <2>1, <2>2, <2>4 DEF GoodPrefix
<1>6. CASE ~(x >= cut)
  <2>1. F[m + 1] = kept
    BY <1>2, <1>6
  <2>2. \A at \in Int : at >= cut => ~(x >= at)
    BY <1>1, <1>6
  <2>3. \A at \in Int : at >= cut => CountUpTo(stamps, m + 1, at) = CountUpTo(stamps, m, at)
    BY <1>4, <2>2
  <2> QED
    BY <1>3, <2>1, <2>3 DEF GoodPrefix
<1> QED
  BY <1>5, <1>6

LEMMA AllPrefixes ==
  ASSUME NEW Stamp \in SUBSET Int, NEW stamps \in Seq(Stamp), NEW cut \in Int,
         NEW F, IsKept(F, stamps, cut, Len(stamps))
  PROVE  GoodPrefix(Stamp, stamps, cut, F, Len(stamps))
<1> DEFINE Bad == {m \in 0 .. Len(stamps) : ~GoodPrefix(Stamp, stamps, cut, F, m)}
<1>1. Len(stamps) \in Nat
  OBVIOUS
<1>2. SUFFICES ASSUME Bad # {} PROVE FALSE
  BY <1>1
<1>3. PICK m \in Bad : \A k \in Bad : m <= k
  <2>1. Bad \in SUBSET Nat
    OBVIOUS
  <2> HIDE DEF Bad
  <2> QED
    BY <1>2, <2>1, NatMin
<1>4. m \in 0 .. Len(stamps) /\ ~GoodPrefix(Stamp, stamps, cut, F, m)
  BY <1>3
<1>5. CASE m = 0
  <2>1. F[0] = <<>>
    BY <1>1 DEF IsKept
  <2>2. <<>> \in Seq(Stamp) /\ Len(<<>>) = 0
    OBVIOUS
  <2>3. \A at : CountSince(<<>>, at) = CountUpTo(stamps, 0, at)
    BY <2>2, CountNone DEF CountSince
  <2> QED
    BY <1>4, <1>5, <2>1, <2>2, <2>3 DEF GoodPrefix
<1>6. CASE m # 0
  <2>1. m - 1 \in Nat /\ m - 1 \in 0 .. Len(stamps) /\ (m - 1) + 1 = m /\ m <= Len(stamps)
    BY <1>1, <1>4, <1>6
  <2>2. ~(m <= m - 1)
    BY <1>4
  <2>3. GoodPrefix(Stamp, stamps, cut, F, m - 1)
    BY <1>3, <2>1, <2>2
  <2>4. GoodPrefix(Stamp, stamps, cut, F, (m - 1) + 1)
    BY <2>1, <2>3, PrefixStep
  <2> QED
    BY <1>4, <2>1, <2>4
<1> QED
  BY <1>5, <1>6

(* What filter keeps: the stamps that are not before the cut, as many as   *)
(* there are, and of every later time as many as before.                   *)
LEMMA SinceFacts ==
  ASSUME NEW Stamp \in SUBSET Int, NEW stamps \in Seq(Stamp), NEW cut \in Int
  PROVE  /\ Since(stamps, cut) \in Seq(Stamp)
         /\ Len(Since(stamps, cut)) = CountSince(stamps, cut)
         /\ \A at \in Int : at >= cut =>
              CountSince(Since(stamps, cut), at) = CountSince(stamps, at)
<1>1. Len(stamps) \in Nat
  OBVIOUS
<1>2. PICK F : IsKept(F, stamps, cut, Len(stamps)) /\ Since(stamps, cut) = F[Len(stamps)]
  BY <1>1, SinceKept
<1> DEFINE kept == Since(stamps, cut)
<1>3. /\ kept \in Seq(Stamp)
      /\ \A i \in 1 .. Len(kept) : kept[i] >= cut
      /\ \A at \in Int : at >= cut => CountSince(kept, at) = CountSince(stamps, at)
  <2>1. GoodPrefix(Stamp, stamps, cut, F, Len(stamps))
    BY <1>2, AllPrefixes
  <2> QED
    BY <1>2, <2>1 DEF GoodPrefix, CountSince
<1> HIDE DEF kept
<1>4. CountSince(kept, cut) = Len(kept)
  <2>1. Len(kept) \in Nat
    BY <1>3
  <2>2. Later(kept, Len(kept), cut) = 1 .. Len(kept)
    BY <1>3 DEF Later
  <2>3. Cardinality(1 .. Len(kept)) = Len(kept)
    <3>1. \A b \in Int : Cardinality(1 .. b) = IF 1 > b THEN 0 ELSE b - 1 + 1
      BY FS_Interval, 1 \in Int
    <3> QED
      BY <2>1, <3>1
  <2> QED
    BY <2>2, <2>3 DEF CountSince, CountUpTo
<1> QED
  BY <1>3, <1>4 DEF kept
=============================================================================
