---------------------------- MODULE FilterProofs ----------------------------
(***************************************************************************)
(* What Kept returns, for every sequence.  The induction over the positions *)
(* of the sequence is an induction over a set of numbers: the least number   *)
(* outside the set would have a predecessor inside.                          *)
(***************************************************************************)
EXTENDS Filters, SequencesExt, SequenceTheorems, WellFoundedInduction, TLAPS

\* A set with 0 that has, with a number, the next one has all of them.
LEMMA NatInduct ==
  ASSUME NEW S, 0 \in S, \A n \in Nat : n \in S => n + 1 \in S
  PROVE  Nat \subseteq S
<1> SUFFICES ASSUME Nat \ S # {} PROVE FALSE
  OBVIOUS
<1>1. PICK x \in Nat \ S : \A y \in Nat \ S : ~(<<y, x>> \in OpToRel(<, Nat))
  BY WFMin, NatLessThanWellFounded
<1>2. \A y \in Nat \ S : ~(y < x)
  BY <1>1 DEF OpToRel
<1>3. x # 0 /\ x - 1 \in Nat /\ (x - 1) + 1 = x
  OBVIOUS
<1>4. x - 1 \in S
  BY <1>2, <1>3
<1>. QED
  BY <1>3, <1>4

-----------------------------------------------------------------------------
(* The recursion has a solution, and any solution is made of sequences.      *)

\* What position i adds to a solution k, and when k is one up to position n.
Added(s, keep, k, i) == IF s[i] \in keep THEN Append(k[i - 1], s[i]) ELSE k[i - 1]
Solves(s, keep, k, n) == k[0] = <<>> /\ \A i \in 1..n : k[i] = Added(s, keep, k, i)

LEMMA Extends ==
  ASSUME NEW C, NEW s \in Seq(C), NEW keep, NEW n \in Nat, n + 1 <= Len(s),
         NEW k \in [0..n -> Seq(C)], Solves(s, keep, k, n)
  PROVE  \E j \in [0..n+1 -> Seq(C)] : Solves(s, keep, j, n + 1)
<1> DEFINE j == [i \in 0..n+1 |-> IF i = n + 1 THEN Added(s, keep, k, i) ELSE k[i]]
<1>1. n + 1 \in 1..Len(s) /\ (n + 1) - 1 = n
  OBVIOUS
<1>2. Added(s, keep, k, n + 1) \in Seq(C)
  BY <1>1, AppendProperties, ElementOfSeq DEF Added
<1>3. j \in [0..n+1 -> Seq(C)]
  BY <1>2
<1>4. j[0] = <<>>
  BY DEF Solves
<1>5. ASSUME NEW i \in 1..n+1 PROVE j[i] = Added(s, keep, j, i)
  <2>1. i - 1 \in 0..n /\ j[i - 1] = k[i - 1]
    OBVIOUS
  <2>2. j[i] = Added(s, keep, k, i)
    BY DEF Solves
  <2>. QED
    BY <2>1, <2>2 DEF Added
<1>. QED
  <2> HIDE DEF j
  <2>. QED
    BY <1>3, <1>4, <1>5 DEF Solves

LEMMA Solvable ==
  ASSUME NEW C, NEW s \in Seq(C), NEW keep
  PROVE  \E k \in [0..Len(s) -> Seq(C)] : Solves(s, keep, k, Len(s))
<1> DEFINE T == {n \in Nat : n <= Len(s) =>
                              \E k \in [0..n -> Seq(C)] : Solves(s, keep, k, n)}
<1>1. 0 \in T
  <2>1. [i \in 0..0 |-> <<>>] \in [0..0 -> Seq(C)] /\ Solves(s, keep, [i \in 0..0 |-> <<>>], 0)
    BY DEF Solves
  <2>. QED
    BY <2>1
<1>2. ASSUME NEW n \in Nat, n \in T PROVE n + 1 \in T
  <2>1. SUFFICES ASSUME n + 1 <= Len(s)
                 PROVE  \E k \in [0..n+1 -> Seq(C)] : Solves(s, keep, k, n + 1)
    OBVIOUS
  <2>2. n <= Len(s)
    BY <2>1
  <2>. QED
    BY <1>2, <2>1, <2>2, Extends
<1>3. Nat \subseteq T
  <2> HIDE DEF T
  <2>. QED
    BY <1>1, <1>2, NatInduct
<1>4. Len(s) \in T
  BY <1>3
<1>. QED
  BY <1>4

\* Kept is what a solution has at the end of the sequence.
LEMMA KeptSolves ==
  ASSUME NEW C, NEW s \in Seq(C), NEW keep
  PROVE  \E k \in [0..Len(s) -> Seq(C)] :
           Kept(s, keep) = k[Len(s)] /\ Solves(s, keep, k, Len(s))
<1> DEFINE kept == CHOOSE f : f = [i \in 0..Len(s) |->
                                     IF i = 0 THEN <<>> ELSE Added(s, keep, f, i)]
<1>1. PICK k \in [0..Len(s) -> Seq(C)] : Solves(s, keep, k, Len(s))
  BY Solvable
<1>2. k = [i \in 0..Len(s) |-> IF i = 0 THEN <<>> ELSE Added(s, keep, k, i)]
  <2>1. k = [i \in 0..Len(s) |-> k[i]]
    OBVIOUS
  <2>2. \A i \in 0..Len(s) : k[i] = IF i = 0 THEN <<>> ELSE Added(s, keep, k, i)
    BY <1>1 DEF Solves
  <2>. QED
    BY <2>1, <2>2
<1>3. kept = [i \in 0..Len(s) |-> IF i = 0 THEN <<>> ELSE Added(s, keep, kept, i)]
  BY <1>2
<1>4. Kept(s, keep) = kept[Len(s)]
  BY DEF Kept, Added
<1> HIDE DEF kept
<1>5. Solves(s, keep, kept, Len(s)) /\ DOMAIN kept = 0..Len(s) /\ kept = [i \in 0..Len(s) |-> kept[i]]
  <2>1. PICK g : g = kept /\ kept = [i \in 0..Len(s) |-> IF i = 0 THEN <<>> ELSE Added(s, keep, g, i)]
    BY <1>3
  <2>2. \A i \in 0..Len(s) : kept[i] = IF i = 0 THEN <<>> ELSE Added(s, keep, g, i)
    BY <2>1
  <2>. QED
    BY <2>1, <2>2 DEF Solves
<1>6. kept \in [0..Len(s) -> Seq(C)]
  <2> DEFINE T == {n \in Nat : n <= Len(s) => kept[n] \in Seq(C)}
  <2>1. 0 \in T
    BY ONLY <1>5, EmptySeq DEF Solves
  <2>2. ASSUME NEW n \in Nat, n \in T PROVE n + 1 \in T
    <3>1. SUFFICES ASSUME n + 1 <= Len(s) PROVE kept[n + 1] \in Seq(C)
      OBVIOUS
    <3>2. n + 1 \in 1..Len(s) /\ n <= Len(s) /\ (n + 1) - 1 = n
      BY <3>1
    <3>3. kept[n + 1] = Added(s, keep, kept, n + 1) /\ s[n + 1] \in C /\ kept[n] \in Seq(C)
      BY <1>5, <2>2, <3>2 DEF Solves
    <3>. QED
      BY <3>2, <3>3 DEF Added
  <2>3. Nat \subseteq T
    <3> HIDE DEF T
    <3>. QED
      BY <2>1, <2>2, NatInduct
  <2>4. \A n \in 0..Len(s) : kept[n] \in Seq(C)
    BY <2>3
  <2>. QED
    BY <1>5, <2>4
<1>. QED
  BY <1>4, <1>5, <1>6

-----------------------------------------------------------------------------
(* Elements of sequences.                                                  *)

LEMMA InToSet ==
  ASSUME NEW C, NEW s \in Seq(C)
  PROVE  /\ ToSet(s) \subseteq C
         /\ \A x : x \in ToSet(s) <=> \E i \in 1..Len(s) : s[i] = x
BY DEF ToSet

LEMMA AppendToSet ==
  ASSUME NEW C, NEW s \in Seq(C), NEW e \in C
  PROVE  /\ ToSet(Append(s, e)) = ToSet(s) \cup {e}
         /\ IsInjective(s) /\ e \notin ToSet(s) => IsInjective(Append(s, e))
<1> DEFINE u == Append(s, e)
<1>1. /\ u \in Seq(C) /\ Len(s) \in Nat /\ Len(u) = Len(s) + 1
      /\ \A i \in 1..Len(s) : u[i] = s[i]
      /\ u[Len(s) + 1] = e
  BY AppendProperties
<1> HIDE DEF u
<1>2. ToSet(u) = ToSet(s) \cup {e}
  <2>1. \A x : x \in ToSet(u) <=> \E i \in 1..Len(s)+1 : u[i] = x
    BY <1>1, InToSet
  <2>2. \A x : x \in ToSet(s) <=> \E i \in 1..Len(s) : s[i] = x
    BY InToSet
  <2>. QED
    BY <1>1, <2>1, <2>2
<1>3. ASSUME IsInjective(s), e \notin ToSet(s) PROVE IsInjective(u)
  <2>1. DOMAIN u = 1..Len(s)+1 /\ DOMAIN s = 1..Len(s)
    BY <1>1
  <2>2. \A i \in 1..Len(s) : s[i] # e
    BY <1>3, InToSet
  <2>. QED
    BY <1>1, <1>3, <2>1, <2>2 DEF IsInjective
<1>. QED
  BY <1>2, <1>3 DEF u

LEMMA ConcatToSet ==
  ASSUME NEW C, NEW s \in Seq(C), NEW t \in Seq(C)
  PROVE  /\ ToSet(s \o t) = ToSet(s) \cup ToSet(t)
         /\ IsInjective(s) /\ IsInjective(t) /\ ToSet(s) \cap ToSet(t) = {} => IsInjective(s \o t)
<1>1. /\ s \o t \in Seq(C) /\ Len(s \o t) = Len(s) + Len(t)
      /\ \A i \in 1..Len(s)+Len(t) : (s \o t)[i] = IF i <= Len(s) THEN s[i] ELSE t[i - Len(s)]
  BY ConcatProperties
<1>2. /\ \A x : x \in ToSet(s \o t) <=> \E i \in 1..Len(s)+Len(t) : (s \o t)[i] = x
      /\ \A x : x \in ToSet(s) <=> \E i \in 1..Len(s) : s[i] = x
      /\ \A x : x \in ToSet(t) <=> \E i \in 1..Len(t) : t[i] = x
  BY <1>1, InToSet
<1>3. \A x \in ToSet(t) : x \in ToSet(s \o t)
  <2> TAKE x \in ToSet(t)
  <2>1. PICK i \in 1..Len(t) : t[i] = x
    BY <1>2
  <2>2. Len(s) + i \in 1..Len(s)+Len(t) /\ (s \o t)[Len(s) + i] = t[i]
    BY <1>1
  <2>. QED
    BY <1>2, <2>1, <2>2
<1>4. \A x \in ToSet(s) : x \in ToSet(s \o t)
  BY <1>1, <1>2
<1>5. \A x \in ToSet(s \o t) : x \in ToSet(s) \cup ToSet(t)
  BY <1>1, <1>2
<1>6. ASSUME IsInjective(s), IsInjective(t), ToSet(s) \cap ToSet(t) = {} PROVE IsInjective(s \o t)
  <2>1. DOMAIN s = 1..Len(s) /\ DOMAIN t = 1..Len(t) /\ DOMAIN (s \o t) = 1..Len(s)+Len(t)
    BY <1>1
  <2>2. \A i \in 1..Len(s), j \in 1..Len(t) : s[i] # t[j]
    BY <1>2, <1>6
  <2>. SUFFICES ASSUME NEW i \in 1..Len(s)+Len(t), NEW j \in 1..Len(s)+Len(t),
                       (s \o t)[i] = (s \o t)[j]
                PROVE  i = j
    BY <2>1 DEF IsInjective
  <2>3. CASE i <= Len(s) /\ j <= Len(s)
    BY <1>1, <1>6, <2>1, <2>3 DEF IsInjective
  <2>4. CASE i <= Len(s) /\ ~(j <= Len(s))
    BY <1>1, <2>2, <2>4
  <2>5. CASE ~(i <= Len(s)) /\ j <= Len(s)
    BY <1>1, <2>2, <2>5
  <2>6. CASE ~(i <= Len(s)) /\ ~(j <= Len(s))
    <3>1. i - Len(s) \in 1..Len(t) /\ j - Len(s) \in 1..Len(t)
      BY <2>6
    <3>2. t[i - Len(s)] = t[j - Len(s)]
      BY <1>1, <2>6
    <3>. QED
      BY <1>6, <2>1, <3>1, <3>2 DEF IsInjective
  <2>. QED
    BY <2>3, <2>4, <2>5, <2>6
<1>. QED
  BY <1>3, <1>4, <1>5, <1>6

\* A sequence is a prefix of itself and of what it is continued to; the elements of
\* a prefix are elements of the whole.
LEMMA PrefixDef ==
  ASSUME NEW C, NEW s \in Seq(C), NEW t \in Seq(C)
  PROVE  IsPrefix(s, t) <=> Len(s) <= Len(t) /\ \A i \in 1..Len(s) : s[i] = t[i]
<1>1. Len(s) \in Nat /\ Len(t) \in Nat /\ SubSeq(s, 1, Len(s)) = s
  BY SubSeqFull
<1>2. CASE Len(s) <= Len(t)
  <2> DEFINE p == SubSeq(t, 1, Len(s))
  <2>1. \A i \in 1..Len(s) : t[i] \in C
    BY <1>1, <1>2
  <2>2. /\ p \in Seq(C) /\ Len(p) = IF 1 <= Len(s) THEN Len(s) - 1 + 1 ELSE 0
        /\ \A i \in 1..Len(s)-1+1 : p[i] = t[1 + i - 1]
    BY <1>1, <2>1, SubSeqProperties
  <2>3. p \in Seq(C) /\ Len(p) = Len(s) /\ \A i \in 1..Len(s) : p[i] = t[i]
    BY <1>1, <2>2
  <2>4. IsPrefix(s, t) <=> s = p
    BY <1>1, <1>2 DEF IsPrefix
  <2> HIDE DEF p
  <2>5. s = p <=> \A i \in 1..Len(s) : s[i] = p[i]
    BY <2>3, SeqEqual
  <2>. QED
    BY <1>2, <2>3, <2>4, <2>5
<1>3. CASE ~(Len(s) <= Len(t))
  BY <1>3 DEF IsPrefix
<1>. QED
  BY <1>2, <1>3

LEMMA PrefixFacts ==
  ASSUME NEW C, NEW s \in Seq(C), NEW t \in Seq(C)
  PROVE  /\ IsPrefix(s, s) /\ IsPrefix(s, s \o t)
         /\ \A e \in C : IsPrefix(s, Append(s, e))
         /\ IsPrefix(s, t) => ToSet(s) \subseteq ToSet(t)
<1>1. IsPrefix(s, s)
  BY PrefixDef
<1>2. ASSUME NEW u \in Seq(C), Len(s) <= Len(u), \A i \in 1..Len(s) : u[i] = s[i]
      PROVE  IsPrefix(s, u)
  BY <1>2, PrefixDef
<1>3. IsPrefix(s, s \o t)
  <2>1. s \o t \in Seq(C) /\ Len(s) <= Len(s \o t) /\ \A i \in 1..Len(s) : (s \o t)[i] = s[i]
    BY ConcatProperties
  <2>. QED
    BY <1>2, <2>1
<1>4. ASSUME NEW e \in C PROVE IsPrefix(s, Append(s, e))
  <2>1. /\ Append(s, e) \in Seq(C) /\ Len(s) <= Len(Append(s, e))
        /\ \A i \in 1..Len(s) : Append(s, e)[i] = s[i]
    BY AppendProperties
  <2>. QED
    BY <1>2, <2>1
<1>5. IsPrefix(s, t) => ToSet(s) \subseteq ToSet(t)
  BY PrefixDef DEF ToSet
<1>. QED
  BY <1>1, <1>3, <1>4, <1>5

-----------------------------------------------------------------------------
(* What Kept returns.                                                      *)

LEMMA KeptProperties ==
  ASSUME NEW C, NEW s \in Seq(C), NEW keep
  PROVE  /\ Kept(s, keep) \in Seq(C) /\ Len(Kept(s, keep)) <= Len(s)
         /\ ToSet(Kept(s, keep)) = ToSet(s) \cap keep
         /\ IsInjective(s) => IsInjective(Kept(s, keep))
<1>1. PICK k \in [0..Len(s) -> Seq(C)] :
        Kept(s, keep) = k[Len(s)] /\ Solves(s, keep, k, Len(s))
  BY KeptSolves
<1> DEFINE Below(n) == {s[i] : i \in 1..n}
           Good(n) == /\ Len(k[n]) <= n /\ ToSet(k[n]) = Below(n) \cap keep
                      /\ IsInjective(s) => IsInjective(k[n])
           T == {n \in Nat : n <= Len(s) => Good(n)}
<1>2. Good(0)
  <2>1. k[0] = <<>>
    BY <1>1 DEF Solves
  <2>. QED
    BY <2>1 DEF ToSet, IsInjective
<1>3. ASSUME NEW n \in Nat, n + 1 <= Len(s), Good(n) PROVE Good(n + 1)
  <2>1. n + 1 \in 1..Len(s) /\ (n + 1) - 1 = n /\ n \in 0..Len(s)
    BY <1>3
  <2>2. k[n + 1] = Added(s, keep, k, n + 1) /\ k[n] \in Seq(C) /\ s[n + 1] \in C
    BY <1>1, <2>1 DEF Solves
  <2>3. Below(n + 1) = Below(n) \cup {s[n + 1]}
    OBVIOUS
  <2>4. IsInjective(s) => s[n + 1] \notin Below(n)
    BY <2>1 DEF IsInjective
  <2>5. CASE s[n + 1] \in keep
    <3>1. k[n + 1] = Append(k[n], s[n + 1])
      BY <2>1, <2>2, <2>5 DEF Added
    <3> HIDE DEF Below
    <3>0. ASSUME NEW u \in Seq(C), NEW e \in C
          PROVE  /\ Len(Append(u, e)) = Len(u) + 1 /\ Len(u) \in Nat
                 /\ ToSet(Append(u, e)) = ToSet(u) \cup {e}
                 /\ IsInjective(u) /\ e \notin ToSet(u) => IsInjective(Append(u, e))
      BY AppendToSet
    <3>2. Len(k[n + 1]) <= n + 1
      BY <1>3, <2>2, <3>0, <3>1
    <3>3. ToSet(k[n + 1]) = ToSet(k[n]) \cup {s[n + 1]}
      BY <2>2, <3>0, <3>1
    <3>4. ASSUME IsInjective(s) PROVE IsInjective(k[n + 1])
      <4>1. s[n + 1] \notin ToSet(k[n]) /\ IsInjective(k[n])
        BY <1>3, <2>4, <3>4
      <4>. QED
        BY <2>2, <3>0, <3>1, <4>1
    <3>. QED
      BY <1>3, <2>3, <2>5, <3>2, <3>3, <3>4
  <2>6. CASE s[n + 1] \notin keep
    <3>1. k[n + 1] = k[n]
      BY <2>1, <2>2, <2>6 DEF Added
    <3> HIDE DEF Below
    <3>. QED
      BY <1>3, <2>2, <2>3, <2>6, <3>1
  <2>. QED
    BY <2>5, <2>6
<1>4. Len(s) \in Nat /\ Good(Len(s))
  <2>1. 0 \in T
    BY <1>2
  <2>2. \A n \in Nat : n \in T => n + 1 \in T
    <3> HIDE DEF Good
    <3>. QED
      BY <1>3
  <2>3. Nat \subseteq T
    <3> HIDE DEF T
    <3>. QED
      BY <2>1, <2>2, NatInduct
  <2> HIDE DEF Good
  <2>. QED
    BY <2>3
<1>5. Below(Len(s)) = ToSet(s)
  BY DEF ToSet
<1>6. k[Len(s)] \in Seq(C)
  BY <1>4
<1>. QED
  BY <1>1, <1>4, <1>5, <1>6

\* Nothing is kept of a sequence that has nothing to keep.
LEMMA KeptNothing ==
  ASSUME NEW C, NEW s \in Seq(C), NEW keep, ToSet(s) \cap keep = {}
  PROVE  Kept(s, keep) = <<>>
<1>1. Kept(s, keep) \in Seq(C) /\ ToSet(Kept(s, keep)) = {}
  BY KeptProperties
<1>2. ASSUME NEW u \in Seq(C), ToSet(u) = {} PROVE u = <<>>
  <2>1. \A i \in 1..Len(u) : u[i] \in ToSet(u)
    BY DEF ToSet
  <2>2. Len(u) \in Nat /\ ~(1 <= Len(u))
    BY <1>2, <2>1
  <2>. QED
    BY <2>2, EmptySeq
<1>. QED
  BY <1>1, <1>2
=============================================================================
