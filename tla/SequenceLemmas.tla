--------------------------- MODULE SequenceLemmas ---------------------------
(***************************************************************************)
(* What the proofs about the chats need to know of sequences: induction on *)
(* the natural numbers, stated about sets since a lemma cannot have an     *)
(* operator as its parameter, and from it what FlattenSeq computes.        *)
(***************************************************************************)
EXTENDS Integers, Sequences, SequencesExt, SequenceTheorems,
        WellFoundedInduction, TLAPS

(* Every set of natural numbers that is not empty has a least one.         *)
LEMMA LeastNat ==
  \A T \in SUBSET Nat : T # {} => \E k \in T : \A j \in T : ~(j < k)
<1>1. \A T \in SUBSET Nat : T # {} =>
        \E k \in T : \A j \in T : ~(<<j, k>> \in OpToRel(<, Nat))
  BY NatLessThanWellFounded, WFMin
<1>2. \A k, j \in Nat : <<j, k>> \in OpToRel(<, Nat) <=> j < k
  BY DEF OpToRel
<1> QED BY <1>1, <1>2

(* Induction: a set that has 0, and with each number the next one, has all *)
(* of them.                                                                *)
LEMMA SetInduction ==
  ASSUME NEW T, 0 \in T, \A n \in Nat : n \in T => n + 1 \in T
  PROVE  \A n \in Nat : n \in T
<1> DEFINE U == {n \in Nat : n \notin T}
<1> SUFFICES ASSUME U # {} PROVE FALSE
  OBVIOUS
<1>1. PICK k \in U : \A j \in U : ~(j < k)
  BY LeastNat
<1>2. k - 1 \in Nat /\ k - 1 \notin U
  BY <1>1
<1>3. (k - 1) + 1 \in T
  BY <1>2
<1> QED BY <1>3
-----------------------------------------------------------------------------
(* f is the function that FlattenSeq defines, on the first n sequences.    *)
Flattens(f, s, n) ==
  f = [i \in 1..n |-> IF i = 1 THEN s[i] ELSE f[i - 1] \o s[i]]

(* There is one.                                                           *)
LEMMA FlattenExists ==
  ASSUME NEW s
  PROVE  \A n \in Nat : \E f : Flattens(f, s, n)
<1> DEFINE T == {n \in Nat : \E f : Flattens(f, s, n)}
<1>1. 0 \in T
  <2> DEFINE f == [i \in 1..0 |-> s[i]]
  <2>1. f = [i \in 1..0 |-> IF i = 1 THEN s[i] ELSE f[i - 1] \o s[i]]
    OBVIOUS
  <2> QED BY <2>1 DEF Flattens
<1>2. ASSUME NEW n \in Nat, n \in T
      PROVE  n + 1 \in T
  <2>1. PICK f : Flattens(f, s, n)
    BY <1>2
  <2> DEFINE last == IF n + 1 = 1 THEN s[n + 1] ELSE f[n] \o s[n + 1]
             g == [i \in 1..n + 1 |-> IF i = n + 1 THEN last ELSE f[i]]
  <2>2. ASSUME NEW i \in 1..n + 1
        PROVE  g[i] = IF i = 1 THEN s[i] ELSE g[i - 1] \o s[i]
    <3>1. CASE i = n + 1
      <4>1. i # 1 => g[i - 1] = f[n]
        BY <3>1
      <4> QED BY <3>1, <4>1
    <3>2. CASE i # n + 1
      <4>1. i \in 1..n /\ g[i] = f[i]
        BY <3>2
      <4>2. f[i] = IF i = 1 THEN s[i] ELSE f[i - 1] \o s[i]
        BY <2>1, <4>1 DEF Flattens
      <4>3. i # 1 => g[i - 1] = f[i - 1]
        BY <4>1
      <4> QED BY <4>1, <4>2, <4>3
    <3> QED BY <3>1, <3>2
  <2>3. g = [i \in 1..n + 1 |-> g[i]]
    OBVIOUS
  <2> HIDE DEF g
  <2>4. g = [i \in 1..n + 1 |-> IF i = 1 THEN s[i] ELSE g[i - 1] \o s[i]]
    BY <2>2, <2>3
  <2>5. \E h : Flattens(h, s, n + 1)
    BY <2>4 DEF Flattens
  <2> QED BY <2>5
<1>3. \A n \in Nat : n \in T => n + 1 \in T
  BY <1>2
<1> HIDE DEF T
<1>4. \A n \in Nat : n \in T
  BY <1>1, <1>3, SetInduction
<1> QED BY <1>4 DEF T

LEMMA FlattenStep ==
  ASSUME NEW s, NEW n \in Nat, NEW f, Flattens(f, s, n), NEW k \in Nat, k + 1 \in 1..n
  PROVE  f[k + 1] = IF k + 1 = 1 THEN s[k + 1] ELSE f[k] \o s[k + 1]
<1>1. \A i \in 1..n : f[i] = IF i = 1 THEN s[i] ELSE f[i - 1] \o s[i]
  BY DEF Flattens
<1>2. (k + 1) - 1 = k
  OBVIOUS
<1> QED BY <1>1, <1>2

(* Its values do not depend on what comes after them.                      *)
SameUpTo(s, t, n) == \A i \in 1..n : s[i] = t[i]

LEMMA FlattenAgrees ==
  ASSUME NEW s, NEW t, NEW n \in Nat, NEW m \in Nat, n <= m,
         SameUpTo(s, t, n),
         NEW f, Flattens(f, s, n), NEW g, Flattens(g, t, m)
  PROVE  SameUpTo(f, g, n)
<1> DEFINE T == {k \in Nat : k \in 1..n => f[k] = g[k]}
<1>1. 0 \in T
  OBVIOUS
<1>2. ASSUME NEW k \in Nat, k \in T
      PROVE  k + 1 \in T
  <2> SUFFICES ASSUME k + 1 \in 1..n
               PROVE  f[k + 1] = g[k + 1]
    OBVIOUS
  <2>1. f[k + 1] = IF k + 1 = 1 THEN s[k + 1] ELSE f[k] \o s[k + 1]
    BY FlattenStep
  <2>2. k + 1 \in 1..m /\ g[k + 1] = IF k + 1 = 1 THEN t[k + 1] ELSE g[k] \o t[k + 1]
    BY FlattenStep
  <2>3. k + 1 # 1 => f[k] = g[k]
    BY <1>2
  <2>4. s[k + 1] = t[k + 1]
    BY DEF SameUpTo
  <2> QED BY <2>1, <2>2, <2>3, <2>4
<1>3. \A k \in Nat : k \in T
  BY <1>1, <1>2, SetInduction
<1> QED BY <1>3 DEF SameUpTo

(* FlattenSeq is the last of its values.                                   *)
LEMMA FlattenIsLast ==
  ASSUME NEW S, NEW s \in Seq(S), NEW f, Flattens(f, s, Len(s))
  PROVE  FlattenSeq(s) = IF Len(s) = 0 THEN s ELSE f[Len(s)]
<1>1. Len(s) = 0 => FlattenSeq(s) = s
  BY DEF FlattenSeq
<1>2. CASE Len(s) # 0
  <2> DEFINE g == CHOOSE h : Flattens(h, s, Len(s))
  <2>1. FlattenSeq(s) = g[Len(s)]
    BY <1>2 DEF FlattenSeq, Flattens
  <2>2. Flattens(g, s, Len(s))
    OBVIOUS
  <2>3. Len(s) \in Nat /\ Len(s) \in 1..Len(s)
    BY <1>2, LenProperties
  <2> HIDE DEF g
  <2>4. SameUpTo(s, s, Len(s)) /\ Len(s) <= Len(s)
    BY <2>3 DEF SameUpTo
  <2>5. SameUpTo(f, g, Len(s))
    BY <2>2, <2>3, <2>4, FlattenAgrees
  <2>6. f[Len(s)] = g[Len(s)]
    BY <2>3, <2>5 DEF SameUpTo
  <2> QED BY <1>2, <2>1, <2>6
<1> QED BY <1>1, <1>2

(* One sequence more goes at the end.                                      *)
LEMMA FlattenAppend ==
  ASSUME NEW S, NEW s \in Seq(Seq(S)), NEW x \in Seq(S)
  PROVE  FlattenSeq(Append(s, x)) = FlattenSeq(s) \o x
<1> DEFINE n == Len(s)
           t == Append(s, x)
<1>1. n \in Nat /\ t \in Seq(Seq(S)) /\ Len(t) = n + 1 /\ t[n + 1] = x
      /\ \A i \in 1..n : t[i] = s[i]
  BY LenProperties, AppendProperties
<1> HIDE DEF n, t
<1>2. PICK f : Flattens(f, s, n)
  BY <1>1, FlattenExists
<1>0. n + 1 \in Nat /\ n + 1 \in 1..n + 1 /\ n <= n + 1
  BY <1>1
<1>3. PICK g : Flattens(g, t, n + 1)
  BY <1>0, FlattenExists
<1>4. FlattenSeq(s) = IF n = 0 THEN s ELSE f[n]
  BY <1>2, FlattenIsLast DEF n
<1>5. FlattenSeq(t) = g[n + 1]
  BY <1>1, <1>3, FlattenIsLast
<1>6. g[n + 1] = IF n + 1 = 1 THEN t[n + 1] ELSE g[n] \o t[n + 1]
  BY <1>0, <1>1, <1>3, FlattenStep
<1>7. n # 0 => g[n] = f[n]
  <2> SUFFICES ASSUME n # 0 PROVE g[n] = f[n]
    OBVIOUS
  <2>1. SameUpTo(s, t, n)
    BY <1>1 DEF SameUpTo
  <2>3. n \in Nat
    BY <1>1
  <2>4. SameUpTo(f, g, n)
    BY <1>0, <1>2, <1>3, <2>1, <2>3, FlattenAgrees
  <2>2. n \in 1..n
    BY <1>1
  <2> QED BY <2>2, <2>4 DEF SameUpTo
<1>8. n = 0 => s = <<>> /\ <<>> \o x = x
  BY EmptySeq, ConcatProperties DEF n
<1>9. n = 0 => FlattenSeq(t) = x /\ FlattenSeq(s) = <<>>
  <2>1. n = 0 => n + 1 = 1
    BY <1>1
  <2> QED BY <1>1, <1>4, <1>5, <1>6, <1>8, <2>1
<1>10. n # 0 => FlattenSeq(t) = f[n] \o x /\ FlattenSeq(s) = f[n]
  <2>1. n # 0 => n + 1 # 1
    BY <1>1
  <2> QED BY <1>1, <1>4, <1>5, <1>6, <1>7, <2>1
<1>11. FlattenSeq(t) = FlattenSeq(s) \o x
  BY <1>8, <1>9, <1>10
<1> QED BY <1>11 DEF t

LEMMA FlattenEmpty == FlattenSeq(<<>>) = <<>>
BY DEF FlattenSeq

(* A sequence of sequences is flattened to a sequence.                     *)
LEMMA FlattenType ==
  ASSUME NEW S
  PROVE  \A s \in Seq(Seq(S)) : FlattenSeq(s) \in Seq(S)
<1> DEFINE T == {n \in Nat : \A s \in Seq(Seq(S)) : Len(s) = n => FlattenSeq(s) \in Seq(S)}
<1>1. 0 \in T
  <2>1. \A s \in Seq(Seq(S)) : Len(s) = 0 => s = <<>>
    BY EmptySeq
  <2> QED BY <2>1, FlattenEmpty
<1>2. ASSUME NEW n \in Nat, n \in T
      PROVE  n + 1 \in T
  <2> SUFFICES ASSUME NEW s \in Seq(Seq(S)), Len(s) = n + 1
               PROVE  FlattenSeq(s) \in Seq(S)
    OBVIOUS
  <2>1. PICK u \in Seq(Seq(S)), x \in Seq(S) : s = Append(u, x) /\ Len(u) = n
    <3> DEFINE u == SubSeq(s, 1, n)
    <3>1. u \in Seq(Seq(S)) /\ Len(u) = n /\ \A i \in 1..n : u[i] = s[i]
      OBVIOUS
    <3>2. s[n + 1] \in Seq(S)
      OBVIOUS
    <3>3. s = Append(u, s[n + 1])
      BY <3>1, <3>2
    <3> QED BY <3>1, <3>2, <3>3
  <2>2. FlattenSeq(u) \in Seq(S)
    BY <1>2, <2>1
  <2>3. FlattenSeq(s) = FlattenSeq(u) \o x
    BY <2>1, FlattenAppend
  <2> QED BY <2>2, <2>3, ConcatProperties
<1>3. \A n \in Nat : n \in T
  BY <1>1, <1>2, SetInduction
<1> QED BY <1>3, LenProperties
-----------------------------------------------------------------------------
LEMMA ReverseIs ==
  ASSUME NEW S, NEW s \in Seq(S)
  PROVE  /\ Reverse(s) \in Seq(S)
         /\ Len(Reverse(s)) = Len(s)
         /\ \A i \in 1..Len(s) : Reverse(s)[i] = s[Len(s) - i + 1]
<1> DEFINE n == Len(s)
<1>1. n \in Nat /\ \A i \in 1..n : s[i] \in S
  OBVIOUS
<1>2. Reverse(s) = [i \in 1..n |-> s[n - i + 1]]
  BY DEF Reverse
<1>3. \A i \in 1..n : n - i + 1 \in 1..n
  BY <1>1
<1>4. Reverse(s) \in [1..n -> S]
  BY <1>1, <1>2, <1>3
<1> QED BY <1>1, <1>2, <1>4, SeqDef, LenProperties

LEMMA ReverseAppend ==
  ASSUME NEW S, NEW s \in Seq(S), NEW x \in S
  PROVE  Reverse(s \o <<x>>) = <<x>> \o Reverse(s)
<1> DEFINE n == Len(s)
           t == s \o <<x>>
<1>1. n \in Nat /\ t \in Seq(S) /\ Len(t) = n + 1 /\ t[n + 1] = x
      /\ \A i \in 1..n : t[i] = s[i]
  OBVIOUS
<1> HIDE DEF t
<1>2. Reverse(s) \in Seq(S) /\ Len(Reverse(s)) = n
      /\ \A i \in 1..n : Reverse(s)[i] = s[n - i + 1]
  BY ReverseIs
<1>3. Reverse(t) \in Seq(S) /\ Len(Reverse(t)) = n + 1
      /\ \A i \in 1..n + 1 : Reverse(t)[i] = t[(n + 1) - i + 1]
  <2>1. /\ Reverse(t) \in Seq(S) /\ Len(Reverse(t)) = Len(t)
        /\ \A i \in 1..Len(t) : Reverse(t)[i] = t[Len(t) - i + 1]
    BY <1>1, ReverseIs
  <2> QED BY <1>1, <2>1
<1> DEFINE u == <<x>> \o Reverse(s)
<1>4. u \in Seq(S) /\ Len(u) = n + 1 /\ u[1] = x
      /\ \A i \in 1..n : u[i + 1] = Reverse(s)[i]
  BY <1>1, <1>2
<1> HIDE DEF n, u
<1>5. \A i \in 1..n + 1 : Reverse(t)[i] = u[i]
  <2> TAKE i \in 1..n + 1
  <2>1. CASE i = 1
    BY <1>1, <1>3, <1>4, <2>1
  <2>2. CASE i # 1
    <3>1. i - 1 \in 1..n /\ (n + 1) - i + 1 = n - (i - 1) + 1 /\ n - (i - 1) + 1 \in 1..n
      BY <1>1, <2>2
    <3>2. u[(i - 1) + 1] = s[n - (i - 1) + 1]
      BY <1>2, <1>4, <3>1
    <3>3. (i - 1) + 1 = i
      BY <1>1
    <3>4. Reverse(t)[i] = t[(n + 1) - i + 1]
      BY <1>3
    <3>5. Reverse(t)[i] = s[n - (i - 1) + 1]
      BY <1>1, <3>1, <3>4
    <3> QED BY <3>2, <3>3, <3>5
  <2> QED BY <2>1, <2>2
<1>6. Reverse(t) = u
  BY <1>1, <1>3, <1>4, <1>5, SeqEqual
<1> QED BY <1>6 DEF t, u

LEMMA ReverseEmpty == Reverse(<<>>) = <<>>
BY DEF Reverse

(* What is in a sequence that grows at one end.                            *)
LEMMA RangeAppend ==
  ASSUME NEW S, NEW s \in Seq(S), NEW x \in S
  PROVE  Range(Append(s, x)) = Range(s) \cup {x}
<1>1. Len(s) \in Nat /\ DOMAIN s = 1..Len(s)
  BY LenProperties
<1> DEFINE t == Append(s, x)
<1>2. DOMAIN t = 1..Len(s) + 1 /\ t[Len(s) + 1] = x /\ \A i \in 1..Len(s) : t[i] = s[i]
  BY AppendProperties, LenProperties
<1> HIDE DEF t
<1>3. 1..Len(s) + 1 = 1..Len(s) \cup {Len(s) + 1}
  BY <1>1
<1>4. Range(t) = Range(s) \cup {x}
  BY <1>1, <1>2, <1>3 DEF Range
<1> QED BY <1>4 DEF t

LEMMA RangeCons ==
  ASSUME NEW S, NEW s \in Seq(S), NEW x \in S
  PROVE  Range(<<x>> \o s) = Range(s) \cup {x}
<1>1. Len(s) \in Nat /\ DOMAIN s = 1..Len(s)
  BY LenProperties
<1> DEFINE t == <<x>> \o s
<1>2. DOMAIN t = 1..Len(s) + 1 /\ t[1] = x /\ \A i \in 1..Len(s) : t[i + 1] = s[i]
  OBVIOUS
<1> HIDE DEF t
<1>3. \A y : y \in Range(t) <=> y = x \/ y \in Range(s)
  <2>1. ASSUME NEW i \in DOMAIN t PROVE t[i] = x \/ t[i] \in Range(s)
    <3>1. CASE i = 1
      BY <1>2, <3>1
    <3>2. CASE i # 1
      <4>1. i - 1 \in 1..Len(s) /\ (i - 1) + 1 = i
        BY <1>1, <1>2, <3>2
      <4> QED BY <1>1, <1>2, <4>1 DEF Range
    <3> QED BY <3>1, <3>2
  <2>2. ASSUME NEW i \in DOMAIN s PROVE s[i] \in Range(t)
    <3>1. i + 1 \in DOMAIN t
      BY <1>1, <1>2
    <3> QED BY <1>1, <1>2, <3>1 DEF Range
  <2>3. x \in Range(t)
    <3>1. 1 \in DOMAIN t
      BY <1>1, <1>2
    <3> QED BY <1>2, <3>1 DEF Range
  <2> QED BY <2>1, <2>2, <2>3 DEF Range
<1>4. Range(t) = Range(s) \cup {x}
  BY <1>3
<1> QED BY <1>4 DEF t

LEMMA RangeOne == ASSUME NEW x PROVE Range(<<x>>) = {x}
BY DEF Range
-----------------------------------------------------------------------------
LEMMA FrontLastAppend ==
  ASSUME NEW S, NEW s \in Seq(S), NEW x \in S
  PROVE  /\ Front(Append(s, x)) = s /\ Last(Append(s, x)) = x
         /\ Append(s, x) # <<>> /\ Append(s, x) \in Seq(S)
BY DEF Front, Last

LEMMA FrontLast ==
  ASSUME NEW S, NEW s \in Seq(S), s # <<>>
  PROVE  /\ Front(s) \in Seq(S) /\ Last(s) \in S
         /\ s = Append(Front(s), Last(s))
         /\ Last(s) = s[Len(s)] /\ Len(s) \in 1..Len(s)
BY DEF Front, Last

LEMMA PrefixConcat ==
  ASSUME NEW S, NEW s \in Seq(S), NEW t \in Seq(S), NEW u \in Seq(S), IsPrefix(s, t)
  PROVE  IsPrefix(s, t \o u)
BY DEF IsPrefix

LEMMA PrefixSelf ==
  ASSUME NEW S, NEW s \in Seq(S)
  PROVE  IsPrefix(s, s)
BY LenProperties DEF IsPrefix
=============================================================================
