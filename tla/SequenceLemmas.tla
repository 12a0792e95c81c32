--------------------------- MODULE SequenceLemmas ---------------------------
(***************************************************************************)
(* Facts about numbers and sequences that several proof modules need.      *)
(* Induction is by a least counterexample (LeastNat).                      *)
(***************************************************************************)
EXTENDS Integers, SequencesExt, WellFoundedInduction, TLAPS

(* Every set of numbers that is not empty has a least element. *)
LEMMA LeastNat ==
  ASSUME NEW T \in SUBSET Nat, T # {}
  PROVE  \E m \in T : \A k \in T : m <= k
<1>1. PICK m \in T : \A k \in T : <<k, m>> \notin OpToRel(<, Nat)
  BY WFMin, NatLessThanWellFounded, Zenon
<1>2. \A k \in T : ~(k < m)
  BY <1>1 DEF OpToRel
<1> QED BY <1>2

-----------------------------------------------------------------------------
(* FlattenSeq *)

(* What FlattenSeq computes for the first n sequences of a list. *)
Flattened(seqs, n, f) ==
  f = [i \in 1 .. n |-> IF i = 1 THEN seqs[i] ELSE f[i - 1] \o seqs[i]]

LEMMA FlattenedExists ==
  ASSUME NEW seqs
  PROVE  \A n \in Nat : \E f : Flattened(seqs, n, f)
<1> DEFINE T == {n \in Nat : ~\E f : Flattened(seqs, n, f)}
<1>1. SUFFICES ASSUME T # {} PROVE FALSE
  OBVIOUS
<1>2. PICK m \in T : \A k \in T : m <= k
  <2>1. T \in SUBSET Nat
    OBVIOUS
  <2> HIDE DEF T
  <2> QED BY <1>1, <2>1, LeastNat
<1>3. CASE m = 0
  <2> DEFINE f == [i \in 1 .. 0 |-> seqs]
  <2>1. f = [i \in 1 .. 0 |->
               IF i = 1 THEN seqs[i] ELSE f[i - 1] \o seqs[i]]
    OBVIOUS
  <2> HIDE DEF f
  <2>2. Flattened(seqs, 0, f)
    BY <2>1 DEF Flattened
  <2> QED BY <1>3, <2>2
<1>4. CASE m # 0
  <2> DEFINE n == m - 1
  <2>1. n \in Nat /\ n \notin T /\ m = n + 1
    BY <1>2, <1>4
  <2>2. PICK f : Flattened(seqs, n, f)
    BY <2>1
  <2> HIDE DEF n
  <2> DEFINE Step(q, i) == IF i = 1 THEN seqs[i] ELSE q[i - 1] \o seqs[i]
             g == [i \in 1 .. n + 1 |-> Step(f, i)]
  <2>3. \A i \in 1 .. n : g[i] = f[i]
    <3>1. \A i \in 1 .. n : f[i] = Step(f, i)
      BY <2>2 DEF Flattened
    <3>2. \A i \in 1 .. n : i \in 1 .. n + 1
      BY <2>1
    <3> HIDE DEF Step
    <3> QED BY <3>1, <3>2
  <2>4. \A i \in 1 .. n + 1 : i # 1 => i - 1 \in 1 .. n
    BY <2>1
  <2>5. \A i \in 1 .. n + 1 : Step(g, i) = Step(f, i)
    <3> HIDE DEF g
    <3> QED BY <2>3, <2>4
  <2>6. g = [i \in 1 .. n + 1 |-> Step(g, i)]
    BY <2>5
  <2> HIDE DEF g
  <2>7. Flattened(seqs, n + 1, g)
    BY <2>6 DEF Flattened
  <2> QED BY <2>1, <2>7
<1> QED BY <1>3, <1>4

LEMMA FlattenSeqIsFlattened ==
  ASSUME NEW seqs, Len(seqs) \in Nat \ {0}
  PROVE  \E f : /\ Flattened(seqs, Len(seqs), f)
                /\ FlattenSeq(seqs) = f[Len(seqs)]
<1> DEFINE f == CHOOSE f : Flattened(seqs, Len(seqs), f)
<1>1. Flattened(seqs, Len(seqs), f)
  BY FlattenedExists
<1>2. FlattenSeq(seqs) = f[Len(seqs)]
  BY DEF FlattenSeq, Flattened
<1> QED BY <1>1, <1>2

LEMMA FlattenedIsSeq ==
  ASSUME NEW S, NEW seqs, NEW n \in Nat, NEW f, Flattened(seqs, n, f),
         \A i \in 1 .. n : seqs[i] \in Seq(S)
  PROVE  \A i \in 1 .. n : f[i] \in Seq(S)
<1> DEFINE T == {i \in 1 .. n : f[i] \notin Seq(S)}
<1>1. SUFFICES ASSUME T # {} PROVE FALSE
  OBVIOUS
<1>2. PICK m \in T : \A i \in T : m <= i
  <2>1. T \in SUBSET Nat
    OBVIOUS
  <2> HIDE DEF T
  <2> QED BY <1>1, <2>1, LeastNat
<1>3. m \in 1 .. n /\ f[m] \notin Seq(S) /\ seqs[m] \in Seq(S)
  BY <1>2
<1>4. f[m] = IF m = 1 THEN seqs[m] ELSE f[m - 1] \o seqs[m]
  BY <1>3 DEF Flattened
<1>5. m # 1 /\ m - 1 \in 1 .. n /\ m - 1 \notin T
  BY <1>2, <1>3, <1>4
<1>6. f[m - 1] \in Seq(S)
  BY <1>5
<1> QED BY <1>3, <1>4, <1>5, <1>6

(* The lists are functions of the numbers up to n, as the models write     *)
(* them.                                                                   *)
LEMMA FlattenNone ==
  ASSUME NEW seqs, Len(seqs) = 0
  PROVE  FlattenSeq(seqs) = seqs
  BY DEF FlattenSeq

LEMMA FlattenType ==
  ASSUME NEW S, NEW seqs \in Seq(Seq(S))
  PROVE  FlattenSeq(seqs) \in Seq(S)
<1>1. CASE Len(seqs) = 0
  <2>1. seqs = <<>>
    BY <1>1
  <2>2. FlattenSeq(seqs) = seqs
    BY <1>1, FlattenNone
  <2>3. <<>> \in Seq(S)
    OBVIOUS
  <2> QED BY <2>1, <2>2, <2>3
<1>2. CASE Len(seqs) # 0
  <2> DEFINE n == Len(seqs)
  <2>1. n \in Nat \ {0} /\ n \in 1 .. n
    BY <1>2
  <2>2. \A i \in 1 .. n : seqs[i] \in Seq(S)
    OBVIOUS
  <2>3. PICK f : Flattened(seqs, n, f) /\ FlattenSeq(seqs) = f[n]
    BY <2>1, FlattenSeqIsFlattened
  <2> HIDE DEF n
  <2> QED BY <2>1, <2>2, <2>3, FlattenedIsSeq
<1> QED BY <1>1, <1>2

(* One more sequence. *)
LEMMA FlattenAppend ==
  ASSUME NEW S, NEW seqs \in Seq(Seq(S)), NEW x \in Seq(S)
  PROVE  FlattenSeq(Append(seqs, x)) = FlattenSeq(seqs) \o x
<1> DEFINE n == Len(seqs)
           more == Append(seqs, x)
<1>1. /\ n \in Nat /\ Len(more) = n + 1 /\ more[n + 1] = x
      /\ \A i \in 1 .. n : more[i] = seqs[i]
  OBVIOUS
<1>2. PICK g : Flattened(more, n + 1, g) /\ FlattenSeq(more) = g[n + 1]
  <2>1. Len(more) \in Nat \ {0}
    BY <1>1
  <2> QED BY <1>1, <2>1, FlattenSeqIsFlattened
<1>3. g[n + 1] = IF n + 1 = 1 THEN x ELSE g[(n + 1) - 1] \o x
  <2>1. n + 1 \in 1 .. n + 1
    BY <1>1
  <2> QED BY <1>1, <1>2, <2>1 DEF Flattened
<1>4. CASE n = 0
  <2>1. FlattenSeq(seqs) = <<>>
    BY <1>4, FlattenNone
  <2>2. <<>> \o x = x
    OBVIOUS
  <2> QED BY <1>2, <1>3, <1>4, <2>1, <2>2
<1>5. CASE n # 0
  <2>1. n \in Nat \ {0} /\ n \in 1 .. n /\ n + 1 # 1 /\ (n + 1) - 1 = n
    BY <1>1, <1>5
  <2>2. PICK f : Flattened(seqs, n, f) /\ FlattenSeq(seqs) = f[n]
    BY <2>1, FlattenSeqIsFlattened
  <2> DEFINE T == {i \in 1 .. n : f[i] # g[i]}
  <2>3. T = {}
    <3>1. SUFFICES ASSUME T # {} PROVE FALSE
      OBVIOUS
    <3>2. PICK m \in T : \A i \in T : m <= i
      <4>1. T \in SUBSET Nat
        OBVIOUS
      <4> HIDE DEF T
      <4> QED BY <3>1, <4>1, LeastNat
    <3>3. /\ m \in 1 .. n /\ m \in 1 .. n + 1
          /\ f[m] # g[m] /\ seqs[m] = more[m]
      BY <1>1, <3>2
    <3> HIDE DEF more, n
    <3>4. /\ f[m] = IF m = 1 THEN seqs[m] ELSE f[m - 1] \o seqs[m]
          /\ g[m] = IF m = 1 THEN more[m] ELSE g[m - 1] \o more[m]
      BY <1>2, <2>2, <3>3 DEF Flattened
    <3>5. m # 1 /\ m - 1 \in 1 .. n /\ m - 1 \notin T
      <4>1. m # 1
        BY <3>3, <3>4
      <4>2. m - 1 \in 1 .. n /\ ~(m <= m - 1)
        BY <1>1, <3>3, <4>1
      <4> HIDE DEF T
      <4> QED BY <3>2, <4>1, <4>2
    <3>6. f[m - 1] = g[m - 1]
      BY <3>5
    <3> QED BY <3>3, <3>4, <3>5, <3>6
  <2> QED BY <1>2, <1>3, <2>1, <2>2, <2>3
<1> QED BY <1>4, <1>5

-----------------------------------------------------------------------------
(* Prefixes *)

LEMMA PrefixElements ==
  ASSUME NEW S, NEW a \in Seq(S), NEW b \in Seq(S)
  PROVE  IsPrefix(a, b) <=>
           Len(a) <= Len(b) /\ \A i \in 1 .. Len(a) : a[i] = b[i]
<1>1. CASE Len(a) <= Len(b)
  <2>1. /\ SubSeq(a, 1, Len(a)) = a
        /\ SubSeq(b, 1, Len(a)) \in Seq(S)
        /\ Len(SubSeq(b, 1, Len(a))) = Len(a)
        /\ \A i \in 1 .. Len(a) : SubSeq(b, 1, Len(a))[i] = b[i]
    BY <1>1
  <2> DEFINE c == SubSeq(b, 1, Len(a))
  <2>2. c = a <=> \A i \in 1 .. Len(a) : a[i] = c[i]
    <3> HIDE DEF c
    <3> QED BY <2>1 DEF c
  <2> HIDE DEF c
  <2> QED BY <1>1, <2>1, <2>2 DEF IsPrefix, c
<1>2. CASE ~(Len(a) <= Len(b))
  BY <1>2 DEF IsPrefix
<1> QED BY <1>1, <1>2

LEMMA PrefixTransitive ==
  ASSUME NEW S, NEW a \in Seq(S), NEW b \in Seq(S), NEW c \in Seq(S),
         IsPrefix(a, b), IsPrefix(b, c)
  PROVE  IsPrefix(a, c)
<1>1. Len(a) <= Len(b) /\ \A i \in 1 .. Len(a) : a[i] = b[i]
  BY PrefixElements
<1>2. Len(b) <= Len(c) /\ \A i \in 1 .. Len(b) : b[i] = c[i]
  BY PrefixElements
<1>3. Len(a) <= Len(c) /\ \A i \in 1 .. Len(a) : a[i] = c[i]
  BY <1>1, <1>2
<1> QED BY <1>3, PrefixElements

LEMMA PrefixOfConcat ==
  ASSUME NEW S, NEW a \in Seq(S), NEW b \in Seq(S)
  PROVE  IsPrefix(a, a \o b)
<1>1. /\ a \o b \in Seq(S) /\ Len(a) <= Len(a \o b)
      /\ \A i \in 1 .. Len(a) : a[i] = (a \o b)[i]
  OBVIOUS
<1> QED BY <1>1, PrefixElements

(* The sequences of a list, one after the other. *)
LEMMA FlattenNext ==
  ASSUME NEW S, NEW seqs \in Seq(Seq(S)), NEW m \in 1 .. Len(seqs)
  PROVE  /\ FlattenSeq(SubSeq(seqs, 1, m))
              = FlattenSeq(SubSeq(seqs, 1, m - 1)) \o seqs[m]
         /\ FlattenSeq(SubSeq(seqs, 1, m)) \in Seq(S)
         /\ FlattenSeq(SubSeq(seqs, 1, m - 1)) \in Seq(S)
         /\ seqs[m] \in Seq(S)
<1>1. /\ SubSeq(seqs, 1, m - 1) \in Seq(Seq(S))
      /\ SubSeq(seqs, 1, m) \in Seq(Seq(S)) /\ seqs[m] \in Seq(S)
  OBVIOUS
<1>2. SubSeq(seqs, 1, m) = Append(SubSeq(seqs, 1, m - 1), seqs[m])
  OBVIOUS
<1> QED BY <1>1, <1>2, FlattenAppend, FlattenType

LEMMA FlattenPrefix ==
  ASSUME NEW S, NEW seqs \in Seq(Seq(S))
  PROVE  \A m \in 0 .. Len(seqs) :
           IsPrefix(FlattenSeq(SubSeq(seqs, 1, m)), FlattenSeq(seqs))
<1> DEFINE n == Len(seqs)
           Flat(m) == FlattenSeq(SubSeq(seqs, 1, m))
           T == {d \in 0 .. n : ~IsPrefix(Flat(n - d), Flat(n))}
<1>1. n \in Nat /\ SubSeq(seqs, 1, n) = seqs
  OBVIOUS
<1>2. \A m \in 0 .. n : Flat(m) \in Seq(S)
  <2> SUFFICES ASSUME NEW m \in 0 .. n PROVE Flat(m) \in Seq(S)
    OBVIOUS
  <2>1. SubSeq(seqs, 1, m) \in Seq(Seq(S))
    OBVIOUS
  <2> QED BY <2>1, FlattenType
<1>3. \A m \in 1 .. n : Flat(m) = Flat(m - 1) \o seqs[m] /\ seqs[m] \in Seq(S)
  BY FlattenNext
<1>4. T = {}
  <2>1. SUFFICES ASSUME T # {} PROVE FALSE
    OBVIOUS
  <2>2. PICK d \in T : \A k \in T : d <= k
    <3>1. T \in SUBSET Nat
      BY <1>1
    <3> HIDE DEF T
    <3> QED BY <2>1, <3>1, LeastNat
  <2> HIDE DEF n, Flat
  <2>3. d \in 0 .. n /\ ~IsPrefix(Flat(n - d), Flat(n))
    BY <2>2
  <2>4. d # 0
    <3>1. Flat(n) \in Seq(S) /\ n - 0 = n
      BY <1>1, <1>2
    <3>2. IsPrefix(Flat(n), Flat(n))
      BY <3>1, PrefixElements
    <3> QED BY <2>3, <3>1, <3>2
  <2>5. /\ d - 1 \in 0 .. n /\ d - 1 \notin T
        /\ n - d \in 0 .. n /\ n - (d - 1) \in 1 .. n
        /\ (n - (d - 1)) - 1 = n - d /\ n \in 0 .. n
        /\ n - (d - 1) \in 0 .. n
    <3>1. ~(d <= d - 1)
      BY <1>1, <2>3
    <3>2. d - 1 \notin T
      <4> HIDE DEF T
      <4> QED BY <2>2, <3>1
    <3> QED BY <1>1, <2>3, <2>4, <3>2
  <2>6. IsPrefix(Flat(n - (d - 1)), Flat(n))
    BY <2>5
  <2>7. Flat(n - (d - 1)) = Flat(n - d) \o seqs[n - (d - 1)]
    BY <1>3, <2>5
  <2>8. /\ Flat(n - (d - 1)) \in Seq(S) /\ Flat(n - d) \in Seq(S)
        /\ Flat(n) \in Seq(S) /\ seqs[n - (d - 1)] \in Seq(S)
    BY <1>2, <1>3, <2>5
  <2>9. IsPrefix(Flat(n - d), Flat(n - (d - 1)))
    BY <2>7, <2>8, PrefixOfConcat
  <2>10. IsPrefix(Flat(n - d), Flat(n))
    BY <2>6, <2>8, <2>9, PrefixTransitive
  <2> QED BY <2>3, <2>10
<1>5. \A m \in 0 .. n : IsPrefix(Flat(m), Flat(n))
  <2> SUFFICES ASSUME NEW m \in 0 .. n PROVE IsPrefix(Flat(m), Flat(n))
    OBVIOUS
  <2> HIDE DEF n, Flat
  <2>1. n - m \in 0 .. n /\ n - (n - m) = m
    BY <1>1
  <2>2. n - m \notin T
    BY <1>4
  <2> QED BY <2>1, <2>2
<1> QED BY <1>1, <1>5

LEMMA SeqElement ==
  ASSUME NEW S, NEW s \in Seq(S), NEW k \in 1 .. Len(s)
  PROVE  s[k] \in S
  OBVIOUS

LEMMA ConcatElements ==
  ASSUME NEW S, NEW a \in Seq(S), NEW b \in Seq(S)
  PROVE  /\ a \o b \in Seq(S) /\ Len(a \o b) = Len(a) + Len(b)
         /\ \A i \in 1 .. Len(a) : (a \o b)[i] = a[i]
         /\ \A i \in 1 .. Len(b) : (a \o b)[Len(a) + i] = b[i]
  OBVIOUS

(* One sequence of one element for each position. *)
LEMMA FlattenOnes ==
  ASSUME NEW S, NEW seqs \in Seq(Seq(S)),
         \A i \in 1 .. Len(seqs) : Len(seqs[i]) = 1
  PROVE  /\ FlattenSeq(seqs) \in Seq(S) /\ Len(FlattenSeq(seqs)) = Len(seqs)
         /\ \A i \in 1 .. Len(seqs) : FlattenSeq(seqs)[i] = seqs[i][1]
<1> DEFINE n == Len(seqs)
           Flat(m) == FlattenSeq(SubSeq(seqs, 1, m))
           P(m) == /\ Flat(m) \in Seq(S) /\ Len(Flat(m)) = m
                   /\ \A i \in 1 .. m : Flat(m)[i] = seqs[i][1]
           T == {m \in 0 .. n : ~P(m)}
<1>1. n \in Nat /\ SubSeq(seqs, 1, n) = seqs /\ SubSeq(seqs, 1, 0) = <<>>
  OBVIOUS
<1>2. T = {}
  <2>1. SUFFICES ASSUME T # {} PROVE FALSE
    OBVIOUS
  <2>2. PICK m \in T : \A k \in T : m <= k
    <3>1. T \in SUBSET Nat
      BY <1>1
    <3> HIDE DEF T
    <3> QED BY <2>1, <3>1, LeastNat
  <2>3. m \in 0 .. n /\ ~P(m)
    BY <2>2
  <2>4. m # 0
    <3>1. Len(<<>>) = 0 /\ <<>> \in Seq(S)
      OBVIOUS
    <3>2. FlattenSeq(<<>>) = <<>>
      BY <3>1, FlattenNone
    <3>3. Flat(0) = <<>>
      BY <1>1, <3>2
    <3> HIDE DEF Flat
    <3>4. Flat(0) \in Seq(S) /\ Len(Flat(0)) = 0
      BY <3>1, <3>3
    <3>5. P(0)
      BY <3>4
    <3> QED BY <2>3, <3>5
  <2>5. m \in 1 .. n /\ m - 1 \in 0 .. n
    BY <1>1, <2>3, <2>4
  <2>6. P(m - 1)
    <3>1. ~(m <= m - 1)
      BY <1>1, <2>5
    <3>2. m - 1 \notin T
      <4> HIDE DEF T
      <4> QED BY <2>2, <3>1
    <3> HIDE DEF P
    <3> QED BY <2>5, <3>2
  <2>7. Flat(m) = Flat(m - 1) \o seqs[m] /\ seqs[m] \in Seq(S)
    BY <2>5, FlattenNext
  <2>8. Len(seqs[m]) = 1
    BY <2>5
  <2> HIDE DEF Flat, n
  <2> DEFINE a == Flat(m - 1)
             b == seqs[m]
  <2>9. /\ a \in Seq(S) /\ Len(a) = m - 1 /\ b \in Seq(S) /\ Len(b) = 1
        /\ \A i \in 1 .. m - 1 : a[i] = seqs[i][1]
    BY <2>6, <2>7, <2>8
  <2> HIDE DEF a, b
  <2>10. /\ a \o b \in Seq(S) /\ Len(a \o b) = m
         /\ \A i \in 1 .. m - 1 : (a \o b)[i] = a[i]
         /\ (a \o b)[m] = b[1]
    <3>1. (m - 1) + 1 = m /\ 1 \in 1 .. 1
      BY <2>5
    <3>2. a \in Seq(S) /\ b \in Seq(S)
      BY <2>9
    <3>3. /\ a \o b \in Seq(S) /\ Len(a \o b) = Len(a) + Len(b)
          /\ \A i \in 1 .. Len(a) : (a \o b)[i] = a[i]
          /\ \A i \in 1 .. Len(b) : (a \o b)[Len(a) + i] = b[i]
      BY <3>2, ConcatElements
    <3> QED BY <2>9, <3>1, <3>3
  <2>11. \A i \in 1 .. m : i \in 1 .. m - 1 \/ i = m
    BY <2>5
  <2>12. Flat(m) = a \o b
    BY <2>7 DEF a, b
  <2>13. \A i \in 1 .. m : (a \o b)[i] = seqs[i][1]
    BY <2>9, <2>10, <2>11 DEF b
  <2>14. P(m)
    BY <2>10, <2>12, <2>13
  <2> QED BY <2>3, <2>14
<1>3. P(n)
  <2>1. n \in 0 .. n
    BY <1>1
  <2> HIDE DEF P, n
  <2> QED BY <1>2, <2>1
<1> QED BY <1>1, <1>3

(* And of two elements. *)
LEMMA FlattenPairs ==
  ASSUME NEW S, NEW seqs \in Seq(Seq(S)),
         \A i \in 1 .. Len(seqs) : Len(seqs[i]) = 2
  PROVE  /\ FlattenSeq(seqs) \in Seq(S)
         /\ Len(FlattenSeq(seqs)) = 2 * Len(seqs)
         /\ \A i \in 1 .. Len(seqs) : /\ FlattenSeq(seqs)[2 * i - 1] = seqs[i][1]
                                      /\ FlattenSeq(seqs)[2 * i] = seqs[i][2]
<1> DEFINE n == Len(seqs)
           Flat(m) == FlattenSeq(SubSeq(seqs, 1, m))
           P(m) == /\ Flat(m) \in Seq(S) /\ Len(Flat(m)) = 2 * m
                   /\ \A i \in 1 .. m : /\ Flat(m)[2 * i - 1] = seqs[i][1]
                                        /\ Flat(m)[2 * i] = seqs[i][2]
           T == {m \in 0 .. n : ~P(m)}
<1>1. n \in Nat /\ SubSeq(seqs, 1, n) = seqs /\ SubSeq(seqs, 1, 0) = <<>>
  OBVIOUS
<1>2. T = {}
  <2>1. SUFFICES ASSUME T # {} PROVE FALSE
    OBVIOUS
  <2>2. PICK m \in T : \A k \in T : m <= k
    <3>1. T \in SUBSET Nat
      BY <1>1
    <3> HIDE DEF T
    <3> QED BY <2>1, <3>1, LeastNat
  <2>3. m \in 0 .. n /\ ~P(m)
    BY <2>2
  <2>4. m # 0
    <3>1. Len(<<>>) = 0 /\ <<>> \in Seq(S)
      OBVIOUS
    <3>2. FlattenSeq(<<>>) = <<>>
      BY <3>1, FlattenNone
    <3>3. Flat(0) = <<>>
      BY <1>1, <3>2
    <3> HIDE DEF Flat
    <3>4. Flat(0) \in Seq(S) /\ Len(Flat(0)) = 0
      BY <3>1, <3>3
    <3>5. P(0)
      BY <3>4
    <3> QED BY <2>3, <3>5
  <2>5. m \in 1 .. n /\ m - 1 \in 0 .. n
    BY <1>1, <2>3, <2>4
  <2>6. P(m - 1)
    <3>1. ~(m <= m - 1)
      BY <1>1, <2>5
    <3>2. m - 1 \notin T
      <4> HIDE DEF T
      <4> QED BY <2>2, <3>1
    <3> HIDE DEF P
    <3> QED BY <2>5, <3>2
  <2>7. Flat(m) = Flat(m - 1) \o seqs[m] /\ seqs[m] \in Seq(S)
    BY <2>5, FlattenNext
  <2>8. Len(seqs[m]) = 2
    BY <2>5
  <2> HIDE DEF Flat, n
  <2> DEFINE a == Flat(m - 1)
             b == seqs[m]
  <2>9. /\ a \in Seq(S) /\ Len(a) = 2 * (m - 1) /\ b \in Seq(S) /\ Len(b) = 2
        /\ \A i \in 1 .. m - 1 : a[2 * i - 1] = seqs[i][1] /\ a[2 * i] = seqs[i][2]
    BY <2>6, <2>7, <2>8
  <2> HIDE DEF a, b
  <2>10. /\ a \o b \in Seq(S) /\ Len(a \o b) = 2 * m
         /\ \A j \in 1 .. 2 * (m - 1) : (a \o b)[j] = a[j]
         /\ (a \o b)[2 * m - 1] = b[1] /\ (a \o b)[2 * m] = b[2]
    <3>1. /\ 2 * (m - 1) + 1 = 2 * m - 1 /\ 2 * (m - 1) + 2 = 2 * m
          /\ 1 \in 1 .. 2 /\ 2 \in 1 .. 2
      BY <2>5
    <3>2. a \in Seq(S) /\ b \in Seq(S)
      BY <2>9
    <3>3. /\ a \o b \in Seq(S) /\ Len(a \o b) = Len(a) + Len(b)
          /\ \A i \in 1 .. Len(a) : (a \o b)[i] = a[i]
          /\ \A i \in 1 .. Len(b) : (a \o b)[Len(a) + i] = b[i]
      BY <3>2, ConcatElements
    <3> DEFINE c == a \o b
               l == 2 * (m - 1)
    <3> HIDE DEF c, l
    <3>4. /\ c \in Seq(S) /\ Len(c) = l + 2 /\ l + 2 = 2 * m
          /\ \A j \in 1 .. l : c[j] = a[j]
          /\ c[l + 1] = b[1] /\ c[l + 2] = b[2]
          /\ l + 1 = 2 * m - 1
      <4>1. /\ Len(a) = l /\ Len(b) = 2
            /\ l + 2 = 2 * m /\ l + 1 = 2 * m - 1
        BY <2>9, <3>1 DEF l
      <4>2. /\ c \in Seq(S) /\ Len(c) = l + 2
            /\ \A i \in 1 .. l : c[i] = a[i]
            /\ \A i \in 1 .. 2 : c[l + i] = b[i]
        BY <3>3, <4>1 DEF c
      <4> QED BY <3>1, <4>1, <4>2
    <3> QED BY <3>4 DEF c, l
  <2>11. \A i \in 1 .. m : \/ /\ i \in 1 .. m - 1
                              /\ 2 * i - 1 \in 1 .. 2 * (m - 1)
                              /\ 2 * i \in 1 .. 2 * (m - 1)
                           \/ i = m
    BY <2>5
  <2>12. Flat(m) = a \o b
    BY <2>7 DEF a, b
  <2>13. \A i \in 1 .. m : /\ (a \o b)[2 * i - 1] = seqs[i][1]
                           /\ (a \o b)[2 * i] = seqs[i][2]
    BY <2>9, <2>10, <2>11 DEF b
  <2>14. P(m)
    BY <2>10, <2>12, <2>13
  <2> QED BY <2>3, <2>14
<1>3. P(n)
  <2>1. n \in 0 .. n
    BY <1>1
  <2> HIDE DEF P, n
  <2> QED BY <1>2, <2>1
<1> QED BY <1>1, <1>3
=============================================================================
