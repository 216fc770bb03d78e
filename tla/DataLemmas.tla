------------------------------ MODULE DataLemmas ------------------------------
(* What the recursive functions compute that the models are built from:    *)
(* the positions of a sequence that are picked, and a sum over a set.      *)
(* Induction is over the numbers of a set, of which the least that is not  *)
(* in it would be a counterexample.                                        *)
EXTENDS Subsequence, Integers, FiniteSetsExt, FiniteSetTheorems, WellFoundedInduction, TLAPS

(* The least number of a set.                                              *)
LEMMA Least ==
  ASSUME NEW S \in SUBSET Nat, S # {}
  PROVE  \E n \in S : \A m \in S : n <= m
<1> DEFINE R == {p \in Nat \X Nat : p[1] < p[2]}
<1>1. IsWellFoundedOn(R, Nat)
  BY NatLessThanWellFounded DEF OpToRel
<1>2. \A a, b \in Nat : a < b => <<a, b>> \in R
  OBVIOUS
<1> HIDE DEF R
<1>3. PICK n \in S : \A m \in S : ~ (<<m, n>> \in R)
  BY <1>1, WFMin
<1>4. \A m \in S : ~(m < n)
  BY <1>2, <1>3, Zenon
<1>5. n \in Nat /\ \A m \in S : m \in Nat
  OBVIOUS
<1> QED
  BY <1>4, <1>5

(* Induction over the numbers of a set.                                    *)
LEMMA SetInduction ==
  ASSUME NEW S, 0 \in S, \A n \in Nat : n \in S => n + 1 \in S
  PROVE  Nat \subseteq S
<1> DEFINE Bad == Nat \ S
<1> SUFFICES ASSUME Bad # {} PROVE FALSE
  OBVIOUS
<1>1. PICK n \in Bad : \A m \in Bad : n <= m
  BY Least
<1>2. n # 0 /\ n - 1 \in Nat /\ n - 1 \notin Bad
  BY <1>1
<1>3. n - 1 \in S /\ (n - 1) + 1 = n
  BY <1>2
<1> QED
  BY <1>1, <1>2, <1>3

-----------------------------------------------------------------------------
(* The function that Picked is defined by, on the first m elements.        *)
Picks(F, seq, I, m) ==
  F = [n \in 0 .. m |-> IF n = 0 THEN <<>>
                        ELSE IF n \in I THEN Append(F[n - 1], seq[n]) ELSE F[n - 1]]

LEMMA PicksExist ==
  ASSUME NEW seq, NEW I, NEW m \in Nat
  PROVE  \E F : Picks(F, seq, I, m)
<1> DEFINE Bad == {n \in Nat : ~ \E F : Picks(F, seq, I, n)}
<1> SUFFICES ASSUME Bad # {} PROVE FALSE
  OBVIOUS
<1>1. PICK n \in Bad : \A k \in Bad : n <= k
  BY Least
<1>2. CASE n = 0
  <2> DEFINE G == [i \in 0 .. 0 |-> <<>>]
  <2>1. G = [i \in 0 .. 0 |-> IF i = 0 THEN <<>>
                        ELSE IF i \in I THEN Append(G[i - 1], seq[i]) ELSE G[i - 1]]
    OBVIOUS
  <2>2. Picks(G, seq, I, 0)
    BY <2>1 DEF Picks
  <2> QED
    BY <1>2, <2>2
<1>3. CASE n # 0
  <2>1. n - 1 \in Nat /\ n - 1 \notin Bad
    BY <1>1, <1>3
  <2>2. PICK F : Picks(F, seq, I, n - 1)
    BY <2>1
  <2> DEFINE top == IF n \in I THEN Append(F[n - 1], seq[n]) ELSE F[n - 1]
             G == [i \in 0 .. n |-> IF i = n THEN top ELSE F[i]]
  <2> HIDE DEF top
  <2>3. \A i \in 0 .. n - 1 : G[i] = F[i]
    BY <1>1
  <2>4. \A i \in 0 .. n : G[i] = IF i = 0 THEN <<>>
                        ELSE IF i \in I THEN Append(G[i - 1], seq[i]) ELSE G[i - 1]
    <3> SUFFICES ASSUME NEW i \in 0 .. n
                 PROVE G[i] = IF i = 0 THEN <<>>
                        ELSE IF i \in I THEN Append(G[i - 1], seq[i]) ELSE G[i - 1]
      OBVIOUS
    <3>1. CASE i = n
      <4>1. G[n] = top /\ G[n - 1] = F[n - 1]
        BY <1>1, <1>3, <2>3
      <4> QED
        BY <3>1, <4>1, <1>3 DEF top
    <3>2. CASE i # n
      <4>1. i \in 0 .. n - 1 /\ G[i] = F[i] /\ (i # 0 => G[i - 1] = F[i - 1])
        BY <3>2, <2>3, <1>1
      <4>2. F[i] = IF i = 0 THEN <<>>
                   ELSE IF i \in I THEN Append(F[i - 1], seq[i]) ELSE F[i - 1]
        BY <4>1, <2>2 DEF Picks
      <4> QED
        BY <4>1, <4>2
    <3> QED
      BY <3>1, <3>2
  <2>5. Picks(G, seq, I, n)
    BY <2>4 DEF Picks
  <2> QED
    BY <1>1, <2>5
<1> QED
  BY <1>2, <1>3

LEMMA PickedIs ==
  ASSUME NEW seq, NEW I, Len(seq) \in Nat
  PROVE  \E F : Picks(F, seq, I, Len(seq)) /\ Picked(seq, I) = F[Len(seq)]
<1> DEFINE F == CHOOSE F : Picks(F, seq, I, Len(seq))
<1>1. Picks(F, seq, I, Len(seq))
  BY PicksExist
<1>2. Picked(seq, I) = F[Len(seq)]
  BY DEF Picked, Picks
<1> QED
  BY <1>1, <1>2

(* What is picked of the first n elements are those at the positions.      *)
FromFirst(s, seq, I, T, n) ==
  /\ s \in Seq(T) /\ Len(s) <= n
  /\ 1 .. n \subseteq I \/ Len(s) < n
  /\ \A j \in 1 .. Len(s) : \E i \in 1 .. n : i \in I /\ s[j] = seq[i]
  /\ \A i \in 1 .. n : i \in I => \E j \in 1 .. Len(s) : s[j] = seq[i]

LEMMA OneMore ==
  ASSUME NEW T, NEW seq \in Seq(T), NEW I, NEW n \in Nat, n < Len(seq),
         NEW s, FromFirst(s, seq, I, T, n)
  PROVE  FromFirst(IF n + 1 \in I THEN Append(s, seq[n + 1]) ELSE s, seq, I, T, n + 1)
<1>1. 1 .. n + 1 = (1 .. n) \cup {n + 1} /\ seq[n + 1] \in T
  OBVIOUS
<1>2. s \in Seq(T) /\ Len(s) \in Nat /\ Len(s) <= n
  BY DEF FromFirst
<1>3. CASE n + 1 \notin I
  BY <1>1, <1>2, <1>3 DEF FromFirst
<1>4. CASE n + 1 \in I
  <2> DEFINE new == Append(s, seq[n + 1])
  <2>1. /\ new \in Seq(T) /\ Len(new) = Len(s) + 1
        /\ \A j \in 1 .. Len(s) : new[j] = s[j]
        /\ new[Len(s) + 1] = seq[n + 1]
    BY <1>1, <1>2
  <2> HIDE DEF new
  <2>2. 1 .. Len(new) = (1 .. Len(s)) \cup {Len(s) + 1}
    BY <1>2, <2>1
  <2>3. \A j \in 1 .. Len(new) : \E i \in 1 .. n + 1 : i \in I /\ new[j] = seq[i]
    <3> SUFFICES ASSUME NEW j \in 1 .. Len(new)
                 PROVE  \E i \in 1 .. n + 1 : i \in I /\ new[j] = seq[i]
      OBVIOUS
    <3>1. CASE j = Len(s) + 1
      BY <1>1, <1>4, <2>1, <3>1
    <3>2. CASE j \in 1 .. Len(s)
      <4>1. PICK i \in 1 .. n : i \in I /\ s[j] = seq[i]
        BY <3>2 DEF FromFirst
      <4> QED
        BY <1>1, <2>1, <3>2, <4>1
    <3> QED
      BY <2>2, <3>1, <3>2
  <2>4. \A i \in 1 .. n + 1 : i \in I => \E j \in 1 .. Len(new) : new[j] = seq[i]
    <3> SUFFICES ASSUME NEW i \in 1 .. n + 1, i \in I
                 PROVE  \E j \in 1 .. Len(new) : new[j] = seq[i]
      OBVIOUS
    <3>1. CASE i = n + 1
      BY <2>1, <2>2, <3>1
    <3>2. CASE i \in 1 .. n
      BY <2>1, <2>2, <3>2 DEF FromFirst
    <3> QED
      BY <1>1, <3>1, <3>2
  <2>5. 1 .. n + 1 \subseteq I \/ Len(new) < n + 1
    BY <1>1, <1>2, <1>4, <2>1 DEF FromFirst
  <2>6. FromFirst(new, seq, I, T, n + 1)
    BY <1>2, <2>1, <2>3, <2>4, <2>5 DEF FromFirst
  <2> QED
    BY <1>4, <2>6 DEF new
<1> QED
  BY <1>3, <1>4

(* What is picked are the elements at the positions.                       *)
LEMMA PickedElements ==
  ASSUME NEW T, NEW seq \in Seq(T), NEW I
  PROVE  /\ Picked(seq, I) \in Seq(T) /\ Len(Picked(seq, I)) <= Len(seq)
         /\ DOMAIN seq \subseteq I \/ Len(Picked(seq, I)) < Len(seq)
         /\ \A j \in DOMAIN Picked(seq, I) :
              \E i \in DOMAIN seq : i \in I /\ Picked(seq, I)[j] = seq[i]
         /\ \A i \in DOMAIN seq :
              i \in I => \E j \in DOMAIN Picked(seq, I) : Picked(seq, I)[j] = seq[i]
<1>1. PICK F : Picks(F, seq, I, Len(seq)) /\ Picked(seq, I) = F[Len(seq)]
  BY PickedIs
<1> DEFINE S == {n \in Nat : n <= Len(seq) => FromFirst(F[n], seq, I, T, n)}
<1>2. 0 \in S
  BY <1>1 DEF Picks, FromFirst
<1>3. ASSUME NEW n \in Nat, n \in S, n + 1 <= Len(seq) PROVE FromFirst(F[n + 1], seq, I, T, n + 1)
  <2>1. FromFirst(F[n], seq, I, T, n) /\ n < Len(seq)
    BY <1>3
  <2>2. F[n + 1] = IF n + 1 \in I THEN Append(F[n], seq[n + 1]) ELSE F[n]
    <3>1. n + 1 \in 0 .. Len(seq) /\ n + 1 # 0 /\ (n + 1) - 1 = n
      BY <1>3
    <3> QED
      BY <1>1, <3>1 DEF Picks
  <2> QED
    BY <2>1, <2>2, OneMore
<1>4. \A n \in Nat : n \in S => n + 1 \in S
  BY <1>3
<1> HIDE DEF S
<1>5. Len(seq) \in Nat /\ Len(seq) \in S
  BY <1>2, <1>4, SetInduction
<1>6. PICK s : s = Picked(seq, I)
  OBVIOUS
<1>7. FromFirst(s, seq, I, T, Len(seq))
  BY <1>1, <1>5, <1>6 DEF S
<1>8. DOMAIN s = 1 .. Len(s) /\ DOMAIN seq = 1 .. Len(seq)
  BY <1>7 DEF FromFirst
<1> QED
  BY <1>6, <1>7, <1>8 DEF FromFirst

-----------------------------------------------------------------------------
(* The sum of the votes of a finite set, which the library defines by a    *)
(* function on its subsets.                                                *)
SumVotes(S) == MapThenSumSet(LAMBDA m : m.votes, S)
Some(s) == CHOOSE x \in s : TRUE
Sums(F, S) ==
  F = [s \in SUBSET S |-> IF s = {} THEN 0 ELSE Some(s).votes + F[s \ {Some(s)}]]

LEMMA SomeIn == ASSUME NEW s, s # {} PROVE Some(s) \in s
BY DEF Some

LEMMA Fewer ==
  ASSUME NEW s, IsFiniteSet(s), NEW x \in s
  PROVE  /\ IsFiniteSet(s \ {x}) /\ Cardinality(s) \in Nat \ {0}
         /\ Cardinality(s \ {x}) = Cardinality(s) - 1
BY FS_RemoveElement, FS_CardinalityType, FS_EmptySet

(* The function exists, first for the subsets of up to n elements.         *)
Small(S, n) == {s \in SUBSET S : Cardinality(s) <= n}
SumsTo(F, S, n) ==
  F = [s \in Small(S, n) |-> IF s = {} THEN 0 ELSE Some(s).votes + F[s \ {Some(s)}]]

LEMMA SumsExist == ASSUME NEW S, IsFiniteSet(S) PROVE \E F : Sums(F, S)
<1> DEFINE Good == {n \in Nat : \E F : SumsTo(F, S, n)}
<1>1. \A s \in SUBSET S : IsFiniteSet(s) /\ Cardinality(s) \in Nat /\ Cardinality(s) <= Cardinality(S)
  BY FS_Subset, FS_CardinalityType
<1>2. 0 \in Good
  <2>1. \A s \in Small(S, 0) : s = {}
    BY <1>1, FS_EmptySet DEF Small
  <2> DEFINE F == [s \in Small(S, 0) |-> 0]
  <2>2. F = [s \in Small(S, 0) |-> IF s = {} THEN 0 ELSE Some(s).votes + F[s \ {Some(s)}]]
    BY <2>1
  <2> QED
    BY <2>2 DEF SumsTo
<1>3. ASSUME NEW n \in Nat, n \in Good PROVE n + 1 \in Good
  <2>1. PICK F : SumsTo(F, S, n)
    BY <1>3
  <2> DEFINE Sum(s) == IF s = {} THEN 0 ELSE Some(s).votes + F[s \ {Some(s)}]
             G == [s \in Small(S, n + 1) |-> Sum(s)]
  <2>2. \A s \in Small(S, n) : F[s] = Sum(s) /\ s \in Small(S, n + 1)
    <3>1. \A s \in Small(S, n) : F[s] = Sum(s)
      BY <2>1 DEF SumsTo
    <3>2. \A s \in Small(S, n) : s \in SUBSET S /\ Cardinality(s) <= n
      BY DEF Small
    <3>3. \A s \in Small(S, n) : s \in SUBSET S /\ Cardinality(s) <= n + 1
      BY <1>1, <3>2
    <3> QED
      BY <3>1, <3>3 DEF Small
  <2>3. \A s \in Small(S, n + 1) : s # {} => s \ {Some(s)} \in Small(S, n)
    <3> SUFFICES ASSUME NEW s \in Small(S, n + 1), s # {} PROVE s \ {Some(s)} \in Small(S, n)
      OBVIOUS
    <3>1. Cardinality(s \ {Some(s)}) = Cardinality(s) - 1 /\ Cardinality(s) \in Nat
      BY <1>1, SomeIn, Fewer DEF Small
    <3> QED
      BY <3>1 DEF Small
  <2> HIDE DEF Sum
  <2>4. \A s \in Small(S, n + 1) : s # {} => G[s \ {Some(s)}] = F[s \ {Some(s)}]
    BY <2>2, <2>3
  <2>5. \A s \in Small(S, n + 1) :
          Sum(s) = IF s = {} THEN 0 ELSE Some(s).votes + G[s \ {Some(s)}]
    BY <2>4 DEF Sum
  <2> HIDE DEF G
  <2>6. G = [s \in Small(S, n + 1) |-> IF s = {} THEN 0 ELSE Some(s).votes + G[s \ {Some(s)}]]
    BY <2>5 DEF G
  <2>7. SumsTo(G, S, n + 1)
    BY <2>6 DEF SumsTo
  <2>8. \E H : SumsTo(H, S, n + 1)
    BY <2>7
  <2> QED
    BY <2>8
<1> HIDE DEF Good
<1>4. Cardinality(S) \in Good
  BY <1>1, <1>2, <1>3, SetInduction
<1>5. PICK F : SumsTo(F, S, Cardinality(S))
  BY <1>4 DEF Good
<1>6. Small(S, Cardinality(S)) = SUBSET S
  BY <1>1 DEF Small
<1> QED
  BY <1>5, <1>6 DEF SumsTo, Sums

LEMMA SumIs ==
  ASSUME NEW S, IsFiniteSet(S)
  PROVE  \E F : Sums(F, S) /\ SumVotes(S) = F[S]
<1>1. SumVotes(S) = (CHOOSE F : Sums(F, S))[S]
  BY DEF SumVotes, MapThenSumSet, MapThenFoldSet, Sums, Some
<1> QED
  BY <1>1, SumsExist

(* The function of a larger set gives the same sum.                        *)
LEMMA SumsAgree ==
  ASSUME NEW T, IsFiniteSet(T), NEW S \in SUBSET T, NEW F, Sums(F, S), NEW G, Sums(G, T)
  PROVE  F[S] = G[S]
<1> DEFINE Good == {n \in Nat : \A s \in SUBSET S : Cardinality(s) = n => F[s] = G[s]}
<1>1. \A s \in SUBSET S : s \in SUBSET T /\ IsFiniteSet(s) /\ Cardinality(s) \in Nat
  BY FS_Subset, FS_CardinalityType
<1>2. 0 \in Good
  <2>1. \A s \in SUBSET S : Cardinality(s) = 0 => s = {}
    BY <1>1, FS_EmptySet
  <2>2. F[{}] = 0 /\ G[{}] = 0
    BY DEF Sums
  <2> QED
    BY <2>1, <2>2
<1>3. ASSUME NEW n \in Nat, n \in Good PROVE n + 1 \in Good
  <2> SUFFICES ASSUME NEW s \in SUBSET S, Cardinality(s) = n + 1 PROVE F[s] = G[s]
    OBVIOUS
  <2>1. s # {}
    BY FS_EmptySet
  <2> DEFINE r == s \ {Some(s)}
  <2>2. r \in SUBSET S /\ Cardinality(r) = n
    BY <1>1, <2>1, SomeIn, Fewer
  <2>3. F[r] = G[r]
    BY <1>3, <2>2
  <2>4. F[s] = Some(s).votes + F[r] /\ G[s] = Some(s).votes + G[r]
    BY <1>1, <2>1 DEF Sums
  <2> QED
    BY <2>3, <2>4
<1> HIDE DEF Good
<1>4. Cardinality(S) \in Good
  BY <1>1, <1>2, <1>3, SetInduction
<1> QED
  BY <1>4 DEF Good

LEMMA SumsInt ==
  ASSUME NEW T, IsFiniteSet(T), \A m \in T : m.votes \in Int, NEW F, Sums(F, T)
  PROVE  \A s \in SUBSET T : F[s] \in Int
<1> DEFINE Good == {n \in Nat : \A s \in SUBSET T : Cardinality(s) = n => F[s] \in Int}
<1>1. \A s \in SUBSET T : IsFiniteSet(s) /\ Cardinality(s) \in Nat
  BY FS_Subset, FS_CardinalityType
<1>2. 0 \in Good
  <2>1. \A s \in SUBSET T : Cardinality(s) = 0 => s = {}
    BY <1>1, FS_EmptySet
  <2>2. F[{}] = 0
    BY DEF Sums
  <2> QED
    BY <2>1, <2>2
<1>3. ASSUME NEW n \in Nat, n \in Good PROVE n + 1 \in Good
  <2> SUFFICES ASSUME NEW s \in SUBSET T, Cardinality(s) = n + 1 PROVE F[s] \in Int
    OBVIOUS
  <2>1. s # {} /\ Some(s) \in s
    BY FS_EmptySet, SomeIn
  <2>2. s \ {Some(s)} \in SUBSET T /\ Cardinality(s \ {Some(s)}) = n
    BY <1>1, <2>1, Fewer
  <2>3. F[s \ {Some(s)}] \in Int
    BY <1>3, <2>2
  <2>4. F[s] = Some(s).votes + F[s \ {Some(s)}]
    BY <2>1 DEF Sums
  <2> QED
    BY <2>1, <2>3, <2>4
<1> HIDE DEF Good
<1>4. Nat \subseteq Good
  BY <1>2, <1>3, SetInduction
<1> QED
  BY <1>1, <1>4 DEF Good

(* Whichever element is taken first.                                       *)
LEMMA SumsSwap ==
  ASSUME NEW T, IsFiniteSet(T), \A m \in T : m.votes \in Int, NEW F, Sums(F, T)
  PROVE  \A s \in SUBSET T : \A x \in s : F[s] = x.votes + F[s \ {x}]
<1> DEFINE Good == {n \in Nat : \A s \in SUBSET T : Cardinality(s) = n =>
                                  \A x \in s : F[s] = x.votes + F[s \ {x}]}
<1>1. \A s \in SUBSET T : IsFiniteSet(s) /\ Cardinality(s) \in Nat
  BY FS_Subset, FS_CardinalityType
<1>2. 0 \in Good
  <2>1. \A s \in SUBSET T : Cardinality(s) = 0 => \A x \in s : FALSE
    BY <1>1, FS_EmptySet
  <2> QED
    BY <2>1
<1>3. ASSUME NEW n \in Nat, n \in Good PROVE n + 1 \in Good
  <2> SUFFICES ASSUME NEW s \in SUBSET T, Cardinality(s) = n + 1, NEW x \in s
               PROVE  F[s] = x.votes + F[s \ {x}]
    OBVIOUS
  <2> DEFINE a == Some(s)
             rest == s \ {a, x}
  <2>1. a \in s
    BY SomeIn
  <2>2. F[s] = a.votes + F[s \ {a}]
    BY DEF Sums
  <2>3. CASE x = a
    BY <2>2, <2>3
  <2>4. CASE x # a
    <3>1. (s \ {a}) \ {x} = rest /\ (s \ {x}) \ {a} = rest /\ x \in s \ {a} /\ a \in s \ {x}
      BY <2>1, <2>4
    <3>2. /\ s \ {a} \in SUBSET T /\ Cardinality(s \ {a}) = n
          /\ s \ {x} \in SUBSET T /\ Cardinality(s \ {x}) = n
      BY <1>1, <2>1, Fewer
    <3>3. F[s \ {a}] = x.votes + F[(s \ {a}) \ {x}] /\ F[s \ {x}] = a.votes + F[(s \ {x}) \ {a}]
      BY <1>3, <3>1, <3>2
    <3>4. F[rest] \in Int /\ x.votes \in Int /\ a.votes \in Int
      BY <2>1, SumsInt
    <3>5. F[s \ {a}] = x.votes + F[rest] /\ F[s \ {x}] = a.votes + F[rest]
      BY <3>1, <3>3
    <3> HIDE DEF a, rest
    <3> QED
      BY <2>2, <3>4, <3>5
  <2> QED
    BY <2>3, <2>4
<1> HIDE DEF Good
<1>4. Nat \subseteq Good
  BY <1>2, <1>3, SetInduction
<1> QED
  BY <1>1, <1>4 DEF Good

LEMMA NoVotes == SumVotes({}) = 0
BY SumIs, FS_EmptySet DEF Sums

(* An element adds its votes to the sum.                                   *)
LEMMA VotesAdd ==
  ASSUME NEW T, IsFiniteSet(T), \A m \in T : m.votes \in Int, NEW y \in T
  PROVE  /\ SumVotes(T) \in Int /\ SumVotes(T \ {y}) \in Int
         /\ SumVotes(T) = y.votes + SumVotes(T \ {y})
<1> DEFINE S == T \ {y}
<1>1. IsFiniteSet(S) /\ S \in SUBSET T
  BY FS_Subset
<1>2. PICK G : Sums(G, T) /\ SumVotes(T) = G[T]
  BY SumIs
<1>3. PICK F : Sums(F, S) /\ SumVotes(S) = F[S]
  BY <1>1, SumIs
<1>4. F[S] = G[S]
  BY <1>1, <1>2, <1>3, SumsAgree
<1>5. G[T] \in Int /\ G[S] \in Int /\ G[T] = y.votes + G[S]
  BY <1>1, <1>2, SumsInt, SumsSwap
<1> QED
  BY <1>2, <1>3, <1>4, <1>5
=============================================================================
