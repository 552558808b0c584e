---------------------------- MODULE QueryProofs ----------------------------
(***************************************************************************)
(* Proofs about Query, for any name and every answer: what is put in a     *)
(* datagram by one recursion is found in it by another.                    *)
(*                                                                         *)
(* The library's induction theorems take an operator, which the provers    *)
(* cannot instantiate; NumberInduction takes a set instead.                *)
(***************************************************************************)
EXTENDS Question, TLAPS, WellFoundedInduction, SequenceTheorems

(* A set of numbers that is not empty has a least one.                     *)
LEMMA LeastNumber ==
  ASSUME NEW T, T \subseteq Nat, T # {}
  PROVE  \E n \in T : \A m \in T : n <= m
<1> DEFINE R1 == {ss \in Nat \X Nat : ss[1] < ss[2]}
<1>1. IsWellFoundedOn(R1, Nat)
  BY NatLessThanWellFounded DEF OpToRel
<1>2. PICK n \in T : \A m \in T : ~(<<m, n>> \in R1)
  <2> HIDE DEF R1
  <2> QED BY <1>1, WFMin
<1>3. \A m \in T : ~(m < n)
  <2> TAKE m \in T
  <2>1. m \in Nat /\ n \in Nat
    OBVIOUS
  <2>2. <<m, n>> \in R1 <=> m < n
    BY <2>1
  <2> QED BY <1>2, <2>2
<1> QED BY <1>3

(* Min, of the library, is that one.                                       *)
LEMMA MinIsLeast ==
  ASSUME NEW T, T \subseteq Nat, T # {}
  PROVE  Min(T) \in T /\ \A m \in T : Min(T) <= m
BY LeastNumber DEF Min

(* Induction over the numbers, of a set instead of an operator.            *)
LEMMA NumberInduction ==
  ASSUME NEW T, 0 \in T, \A n \in Nat : n \in T => n + 1 \in T
  PROVE  \A n \in Nat : n \in T
<1> DEFINE U == Nat \ T
<1>1. SUFFICES ASSUME U # {} PROVE FALSE
  OBVIOUS
<1>2. PICK n \in U : \A m \in U : n <= m
  BY <1>1, LeastNumber
<1>3. n \in Nat /\ n # 0 /\ n - 1 \in Nat /\ ~(n <= n - 1)
  OBVIOUS
<1>4. n - 1 \in T
  BY <1>2, <1>3
<1>5. (n - 1) + 1 = n
  BY <1>3
<1> QED BY <1>3, <1>4, <1>5
-----------------------------------------------------------------------------
(* A function on 1 .. n is a sequence.                                     *)
LEMMA SequenceOf ==
  ASSUME NEW S, NEW n \in Nat, NEW f \in [1 .. n -> S]
  PROVE  f \in Seq(S) /\ Len(f) = n
OBVIOUS

(* What stands at each place of a concatenation.                           *)
LEMMA ConcatPlaces ==
  ASSUME NEW S, NEW s \in Seq(S), NEW u \in Seq(S),
         NEW n \in Nat, Len(s) = n, NEW m \in Nat, Len(u) = m
  PROVE  /\ s \o u \in Seq(S) /\ Len(s \o u) = n + m
         /\ \A k \in 1 .. n : (s \o u)[k] = s[k]
         /\ \A k \in 1 .. m : (s \o u)[n + k] = u[k]
OBVIOUS

(* The same, for the prover to find by name.                               *)
Joined(S, s, n, u, m) ==
  /\ s \o u \in Seq(S) /\ Len(s \o u) = n + m
  /\ \A k \in 1 .. n : (s \o u)[k] = s[k]
  /\ \A k \in 1 .. m : (s \o u)[n + k] = u[k]

(* A concatenation is the two sequences joined.                            *)
LEMMA ConcatJoins ==
  ASSUME NEW S, NEW s \in Seq(S), NEW u \in Seq(S),
         NEW n \in Nat, Len(s) = n, NEW m \in Nat, Len(u) = m
  PROVE  Joined(S, s, n, u, m)
BY DEF Joined

(* FlattenSeq is there, and puts one sequence after the other.             *)
LEMMA FlattenExists ==
  ASSUME NEW seqs
  PROVE  \A n \in Nat : \E f : f = [i \in 1 .. n |-> IF i = 1 THEN seqs[i]
                                                     ELSE f[i - 1] \o seqs[i]]
<1> DEFINE Is(f, n) == f = [i \in 1 .. n |-> IF i = 1 THEN seqs[i] ELSE f[i - 1] \o seqs[i]]
           T == {n \in Nat : \E f : Is(f, n)}
<1>1. 0 \in T
  <2>1. Is([i \in 1 .. 0 |-> 0], 0)
    OBVIOUS
  <2> QED BY <2>1
<1>2. ASSUME NEW n \in Nat, n \in T
      PROVE  n + 1 \in T
  <2>1. PICK f : Is(f, n)
    BY <1>2
  <2> DEFINE g == [i \in 1 .. n + 1 |-> IF i = 1 THEN seqs[i] ELSE f[i - 1] \o seqs[i]]
  <2>2. \A i \in 1 .. n : g[i] = f[i]
    <3> TAKE i \in 1 .. n
    <3>1. f[i] = IF i = 1 THEN seqs[i] ELSE f[i - 1] \o seqs[i]
      BY <2>1
    <3>2. i \in 1 .. n + 1
      OBVIOUS
    <3> QED BY <3>1, <3>2
  <2>3. \A i \in 1 .. n + 1 : i # 1 => g[i - 1] = f[i - 1]
    <3> TAKE i \in 1 .. n + 1
    <3>1. i # 1 => i - 1 \in 1 .. n
      OBVIOUS
    <3> QED BY <2>2, <3>1
  <2>4. Is(g, n + 1)
    BY <2>3
  <2> HIDE DEF g, Is
  <2> QED BY <2>4
<1> HIDE DEF T
<1>3. \A n \in Nat : n \in T
  BY <1>1, <1>2, NumberInduction
<1> QED BY <1>3 DEF T

(* FlattenSeq is its own recursion, a concatenation for each sequence.     *)
LEMMA FlattenUnfolds ==
  ASSUME NEW S, NEW seqs \in Seq(Seq(S)), seqs # <<>>
  PROVE  \E f \in [1 .. Len(seqs) -> Seq(S)] :
           /\ FlattenSeq(seqs) = f[Len(seqs)] /\ f[1] = seqs[1]
           /\ \A i \in 2 .. Len(seqs) : f[i] = f[i - 1] \o seqs[i]
<1> DEFINE n == Len(seqs)
           Is(f) == f = [i \in 1 .. n |-> IF i = 1 THEN seqs[i] ELSE f[i - 1] \o seqs[i]]
           f == CHOOSE f : Is(f)
<1>1. n \in Nat /\ n # 0 /\ \A i \in 1 .. n : seqs[i] \in Seq(S)
  OBVIOUS
<1>2. FlattenSeq(seqs) = f[n]
  BY <1>1 DEF FlattenSeq
<1>3. Is(f)
  <2>1. \E g : Is(g)
    BY <1>1, FlattenExists
  <2> HIDE DEF Is
  <2> QED BY <2>1
<1> HIDE DEF f
<1>4. \A i \in 1 .. n : f[i] = IF i = 1 THEN seqs[i] ELSE f[i - 1] \o seqs[i]
  BY <1>3
<1>5. DOMAIN f = 1 .. n /\ f = [i \in 1 .. n |-> f[i]]
  BY <1>3
<1> DEFINE T == {k \in Nat : k = 0 \/ k > n \/ f[k] \in Seq(S)}
<1>6. 0 \in T
  OBVIOUS
<1>7. ASSUME NEW k \in Nat, k \in T
      PROVE  k + 1 \in T
  <2>1. CASE k + 1 > n
    BY <2>1
  <2>2. CASE k = 0 /\ k + 1 <= n
    <3>1. k + 1 \in 1 .. n /\ k + 1 = 1
      BY <1>1, <2>2
    <3> QED BY <1>1, <1>4, <3>1
  <2>3. CASE k # 0 /\ k + 1 <= n
    <3>1. k + 1 \in 1 .. n /\ k + 1 # 1 /\ (k + 1) - 1 = k /\ ~(k > n)
      BY <1>1, <2>3
    <3>2. f[k] \in Seq(S)
      BY <1>7, <2>3, <3>1
    <3>3. f[k + 1] = f[k] \o seqs[k + 1]
      BY <1>4, <3>1
    <3>4. seqs[k + 1] \in Seq(S)
      BY <1>1, <3>1
    <3>5. f[k] \o seqs[k + 1] \in Seq(S)
      BY <3>2, <3>4, ConcatProperties
    <3>6. f[k + 1] \in Seq(S)
      BY <3>3, <3>5, Zenon
    <3>7. k + 1 \in Nat
      OBVIOUS
    <3> QED BY <3>6, <3>7
  <2> QED BY <1>1, <2>1, <2>2, <2>3
<1> HIDE DEF T
<1>8. \A k \in Nat : k \in T
  BY <1>6, <1>7, NumberInduction
<1>9. f \in [1 .. n -> Seq(S)]
  <2>1. \A k \in 1 .. n : f[k] \in Seq(S)
    <3> TAKE k \in 1 .. n
    <3>1. k \in Nat /\ k # 0 /\ ~(k > n)
      BY <1>1
    <3> QED BY <1>8, <3>1 DEF T
  <2> QED BY <1>5, <2>1
<1>10. f[1] = seqs[1] /\ \A i \in 2 .. n : f[i] = f[i - 1] \o seqs[i]
  <2>1. 1 \in 1 .. n /\ \A i \in 2 .. n : i \in 1 .. n /\ i # 1
    BY <1>1
  <2> QED BY <1>4, <2>1
<1> QED BY <1>2, <1>9, <1>10
-----------------------------------------------------------------------------

(* Each of the sequences stands in FlattenSeq from its own place on.       *)
LEMMA FlattenPlaces ==
  ASSUME NEW S, NEW seqs \in Seq(Seq(S)), seqs # <<>>
  PROVE  LET flat == FlattenSeq(seqs)
             n == Len(seqs)
         IN  /\ flat \in Seq(S)
             /\ \E at \in [0 .. n -> Nat] :
                  /\ at[0] = 0 /\ at[n] = Len(flat)
                  /\ \A i \in 1 .. n :
                       /\ at[i] = at[i - 1] + Len(seqs[i]) /\ at[i] <= Len(flat)
                       /\ \A k \in 1 .. Len(seqs[i]) : flat[at[i - 1] + k] = seqs[i][k]
<1> DEFINE flat == FlattenSeq(seqs)
           n == Len(seqs)
<1>1. n \in Nat /\ n >= 1 /\ \A i \in 1 .. n : seqs[i] \in Seq(S)
  OBVIOUS
<1>2. PICK f \in [1 .. n -> Seq(S)] :
        /\ flat = f[n] /\ f[1] = seqs[1]
        /\ \A i \in 2 .. n : f[i] = f[i - 1] \o seqs[i]
  BY FlattenUnfolds
<1> DEFINE len(i) == Len(f[i])
           at == [i \in 0 .. n |-> IF i = 0 THEN 0 ELSE len(i)]
<1>3. \A i \in 1 .. n : f[i] \in Seq(S) /\ len(i) \in Nat
  <2>1. \A i \in 1 .. n : f[i] \in Seq(S)
    OBVIOUS
  <2>2. \A s \in Seq(S) : Len(s) \in Nat
    OBVIOUS
  <2> HIDE DEF n
  <2> QED BY <2>1, <2>2
<1> HIDE DEF n, flat
<1>4. ASSUME NEW i \in 2 .. n
      PROVE  /\ len(i) = len(i - 1) + Len(seqs[i])
             /\ \A k \in 1 .. len(i - 1) : f[i][k] = f[i - 1][k]
             /\ \A k \in 1 .. Len(seqs[i]) : f[i][len(i - 1) + k] = seqs[i][k]
  <2>1. i - 1 \in 1 .. n /\ i \in 1 .. n
    BY <1>1
  <2>2. f[i] = f[i - 1] \o seqs[i] /\ f[i - 1] \in Seq(S) /\ seqs[i] \in Seq(S)
    BY <1>1, <1>2, <1>3, <2>1
  <2> DEFINE s == f[i - 1]
             u == seqs[i]
             r == f[i]
             a == Len(s)
             b == Len(u)
  <2>3. s \in Seq(S) /\ u \in Seq(S) /\ r = s \o u /\ a \in Nat /\ b \in Nat
    BY <2>2
  <2>4. Len(s) = a /\ Len(u) = b
    OBVIOUS
  <2> HIDE DEF s, u, r, a, b
  <2>5. Joined(S, s, a, u, b)
    BY <2>3, <2>4, ConcatJoins, Zenon
  <2>6. /\ Len(r) = a + b /\ \A k \in 1 .. a : r[k] = s[k]
        /\ \A k \in 1 .. b : r[a + k] = u[k]
    BY <2>3, <2>5, Zenon DEF Joined
  <2> QED BY <2>6, Zenon DEF s, u, r, a, b
<1> HIDE DEF len
<1>5. \A i \in 2 .. n : Len(seqs[i]) \in Nat
  BY <1>1
<1> DEFINE P(i) == \A j \in 1 .. i : /\ len(j) <= len(i)
                                     /\ \A k \in 1 .. len(j) : f[i][k] = f[j][k]
           T == {i \in Nat : i = 0 \/ i > n \/ P(i)}
<1>6. 0 \in T
  OBVIOUS
<1>7. ASSUME NEW i \in Nat, i \in T
      PROVE  i + 1 \in T
  <2>1. CASE i + 1 > n
    BY <2>1
  <2>2. CASE i = 0 /\ i + 1 <= n
    <3>1. P(i + 1)
      <4>1. i + 1 = 1 /\ 1 .. 1 = {1} /\ len(1) \in Nat
        BY <1>1, <1>3, <2>2
      <4> QED BY <4>1
    <3> QED BY <3>1
  <2>3. CASE i # 0 /\ i + 1 <= n
    <3>1. i \in 1 .. n /\ i + 1 \in 2 .. n /\ (i + 1) - 1 = i /\ ~(i > n)
      BY <1>1, <2>3
    <3>2. P(i)
      BY <1>7, <2>3, <3>1
    <3>3. /\ len(i + 1) = len(i) + Len(seqs[i + 1])
          /\ \A k \in 1 .. len(i) : f[i + 1][k] = f[i][k]
      BY <1>4, <3>1
    <3>4. len(i) \in Nat /\ len(i + 1) \in Nat /\ Len(seqs[i + 1]) \in Nat /\ len(i) <= len(i + 1)
      <4>1. len(i) \in Nat /\ len(i + 1) \in Nat /\ Len(seqs[i + 1]) \in Nat
        BY <1>1, <1>3, <1>5, <3>1
      <4>2. len(i + 1) = len(i) + Len(seqs[i + 1])
        BY <3>3
      <4> HIDE DEF len
      <4> QED BY <4>1, <4>2
    <3>5. ASSUME NEW j \in 1 .. i + 1
          PROVE  len(j) <= len(i + 1) /\ \A k \in 1 .. len(j) : f[i + 1][k] = f[j][k]
      <4>1. CASE j = i + 1
        BY <3>4, <4>1
      <4>2. CASE j # i + 1
        <5>1. j \in 1 .. i /\ j \in 1 .. n
          BY <1>1, <3>1, <4>2
        <5>2. len(j) \in Nat /\ len(j) <= len(i) /\ \A k \in 1 .. len(j) : f[i][k] = f[j][k]
          BY <1>3, <3>2, <5>1
        <5>3. \A k \in 1 .. len(j) : k \in 1 .. len(i)
          BY <3>4, <5>2
        <5> QED BY <3>3, <3>4, <5>2, <5>3
      <4> QED BY <4>1, <4>2
    <3>6. P(i + 1)
      BY <3>5
    <3> HIDE DEF P
    <3> QED BY <3>6
  <2> QED BY <1>1, <2>1, <2>2, <2>3
<1> HIDE DEF T
<1>8. n \in T
  BY <1>1, <1>6, <1>7, NumberInduction
<1>9. P(n)
  <2> HIDE DEF P
  <2> QED BY <1>1, <1>8 DEF T
<1>10. at \in [0 .. n -> Nat] /\ at[0] = 0 /\ at[n] = len(n)
  BY <1>1, <1>3
<1>11. ASSUME NEW i \in 1 .. n
       PROVE  /\ at[i] = at[i - 1] + Len(seqs[i]) /\ at[i] <= len(n)
              /\ \A k \in 1 .. Len(seqs[i]) : flat[at[i - 1] + k] = seqs[i][k]
  <2>1. at[i] = len(i) /\ len(i) \in Nat /\ len(i) <= len(n)
        /\ \A k \in 1 .. len(i) : flat[k] = f[i][k]
    BY <1>1, <1>2, <1>3, <1>9
  <2>2. CASE i = 1
    <3>1. at[i - 1] = 0 /\ f[i] = seqs[i] /\ len(i) = Len(seqs[i])
      BY <1>1, <1>2, <2>2 DEF len
    <3>2. \A k \in 1 .. Len(seqs[i]) : 0 + k = k
      OBVIOUS
    <3>3. at[i] = at[i - 1] + Len(seqs[i])
      BY <2>1, <3>1
    <3>4. \A k \in 1 .. Len(seqs[i]) : flat[at[i - 1] + k] = seqs[i][k]
      <4> TAKE k \in 1 .. Len(seqs[i])
      <4>1. flat[k] = seqs[i][k]
        BY <2>1, <3>1
      <4> QED BY <3>1, <3>2, <4>1, Zenon
    <3> HIDE DEF at
    <3> QED BY <2>1, <3>3, <3>4
  <2>3. CASE i # 1
    <3>1. i \in 2 .. n /\ i - 1 \in 1 .. n
      BY <1>1, <2>3
    <3>2. /\ at[i - 1] = len(i - 1) /\ len(i - 1) \in Nat /\ Len(seqs[i]) \in Nat
          /\ len(i) = len(i - 1) + Len(seqs[i])
          /\ \A k \in 1 .. Len(seqs[i]) : f[i][len(i - 1) + k] = seqs[i][k]
      BY <1>3, <1>4, <1>5, <3>1
    <3>3. \A k \in 1 .. Len(seqs[i]) : len(i - 1) + k \in 1 .. len(i)
      BY <3>2
    <3>4. at[i] = at[i - 1] + Len(seqs[i])
      BY <2>1, <3>2
    <3>5. \A k \in 1 .. Len(seqs[i]) : flat[at[i - 1] + k] = seqs[i][k]
      <4> TAKE k \in 1 .. Len(seqs[i])
      <4>1. flat[len(i - 1) + k] = f[i][len(i - 1) + k]
        BY <2>1, <3>3
      <4> QED BY <3>2, <4>1, Zenon
    <3> HIDE DEF at
    <3> QED BY <2>1, <3>4, <3>5
  <2> QED BY <2>2, <2>3
<1>12. flat \in Seq(S) /\ Len(flat) = len(n)
  BY <1>1, <1>2, <1>3 DEF len
<1> HIDE DEF at
<1> QED BY <1>10, <1>11, <1>12 DEF flat, n
-----------------------------------------------------------------------------
(* A name on the wire and in text, byte by byte: where the one has the     *)
(* length of a label the other has a dot.  left[k] is how much of the      *)
(* label is to come after the k-th byte.                                   *)
Laid(wire, text, left) ==
  /\ wire \in Seq(0 .. 255) /\ text \in Seq(0 .. 255) /\ left \in Seq(0 .. 63)
  /\ Len(wire) > 1 /\ Len(text) = Len(wire) /\ Len(left) = Len(wire)
  /\ wire[1] \in 1 .. 63 /\ text[1] = Q!Dot /\ left[1] = wire[1]
  /\ left[Len(wire)] = 0
  /\ \A k \in 1 .. Len(wire) - 1 :
       IF left[k] = 0
       THEN wire[k + 1] \in 1 .. 63 /\ text[k + 1] = Q!Dot /\ left[k + 1] = wire[k + 1]
       ELSE wire[k + 1] \in Letter /\ text[k + 1] = wire[k + 1] /\ left[k + 1] = left[k] - 1

(* A byte before the others.                                               *)
LEMMA OneBefore ==
  ASSUME NEW S, NEW c \in S, NEW n \in Nat, NEW u \in Seq(S), Len(u) = n
  PROVE  LET s == <<c>> \o u
         IN  /\ s \in Seq(S) /\ Len(s) = n + 1 /\ s[1] = c
             /\ \A k \in 1 .. n : s[k + 1] = u[k]
<1> DEFINE one == <<c>>
<1>1. one \in Seq(S) /\ Len(one) = 1 /\ one[1] = c /\ 1 \in Nat
  OBVIOUS
<1> HIDE DEF one
<1>2. Joined(S, one, 1, u, n)
  BY <1>1, ConcatJoins, Zenon
<1>3. /\ one \o u \in Seq(S) /\ Len(one \o u) = 1 + n
      /\ \A k \in 1 .. 1 : (one \o u)[k] = one[k]
      /\ \A k \in 1 .. n : (one \o u)[1 + k] = u[k]
  BY <1>2, Zenon DEF Joined
<1>4. \A k \in 1 .. n : 1 + k = k + 1
  OBVIOUS
<1>5. 1 + n = n + 1 /\ 1 \in 1 .. 1
  OBVIOUS
<1>6. /\ one \o u \in Seq(S) /\ Len(one \o u) = n + 1 /\ (one \o u)[1] = c
      /\ \A k \in 1 .. n : (one \o u)[k + 1] = u[k]
  BY <1>1, <1>3, <1>4, <1>5, Zenon
<1> QED BY <1>6, Zenon DEF one

(* A label on the wire, of encodeName, and its text lie side by side:      *)
(* where a length stands in one, a dot stands in the other.                *)
LEMMA LabelIsLaid ==
  ASSUME NEW label \in Seq(Letter), Len(label) \in 1 .. 63
  PROVE  Laid(<<Len(label)>> \o label, <<Q!Dot>> \o label,
              [k \in 1 .. Len(label) + 1 |-> Len(label) + 1 - k])
<1> DEFINE n == Len(label)
           wire == <<n>> \o label
           text == <<Q!Dot>> \o label
           left == [k \in 1 .. n + 1 |-> n + 1 - k]
<1>1. n \in 1 .. 63 /\ label \in Seq(0 .. 255) /\ \A k \in 1 .. n : label[k] \in Letter
  BY DEF Letter
<1>2. n \in 0 .. 255 /\ Q!Dot \in 0 .. 255
  BY <1>1 DEF Q!Dot
<1>3. /\ wire \in Seq(0 .. 255) /\ Len(wire) = n + 1 /\ wire[1] = n
      /\ \A k \in 1 .. n : wire[k + 1] = label[k]
  <2> DEFINE S == 0 .. 255
  <2>1. n \in S /\ n \in Nat /\ label \in Seq(S) /\ Len(label) = n
    BY <1>1, <1>2
  <2> HIDE DEF S, n
  <2>2. /\ <<n>> \o label \in Seq(S) /\ Len(<<n>> \o label) = n + 1
        /\ (<<n>> \o label)[1] = n
        /\ \A k \in 1 .. n : (<<n>> \o label)[k + 1] = label[k]
    BY <2>1, OneBefore
  <2> QED BY <2>2, Zenon DEF S
<1>4. /\ text \in Seq(0 .. 255) /\ Len(text) = n + 1 /\ text[1] = Q!Dot
      /\ \A k \in 1 .. n : text[k + 1] = label[k]
  <2> DEFINE S == 0 .. 255
             c == Q!Dot
  <2>1. c \in S /\ n \in Nat /\ label \in Seq(S) /\ Len(label) = n
    BY <1>1, <1>2
  <2> HIDE DEF S, c, n
  <2>2. /\ <<c>> \o label \in Seq(S) /\ Len(<<c>> \o label) = n + 1
        /\ (<<c>> \o label)[1] = c
        /\ \A k \in 1 .. n : (<<c>> \o label)[k + 1] = label[k]
    BY <2>1, OneBefore
  <2> QED BY <2>2, Zenon DEF S, c
<1>5. /\ left \in Seq(0 .. 63) /\ Len(left) = n + 1 /\ \A k \in 1 .. n + 1 : left[k] = n + 1 - k
  <2>0. n \in 1 .. 63
    BY <1>1
  <2> HIDE DEF n
  <2>1. \A k \in 1 .. n + 1 : n + 1 - k \in 0 .. 63
    BY <2>0
  <2>2. n + 1 \in Nat
    BY <2>0
  <2> DEFINE e(k) == n + 1 - k
             f == [k \in 1 .. n + 1 |-> e(k)]
  <2> HIDE DEF e
  <2>3. \A k \in 1 .. n + 1 : e(k) \in 0 .. 63
    BY <2>1 DEF e
  <2>4. f \in [1 .. n + 1 -> 0 .. 63]
    BY <2>3
  <2>5. \A k \in 1 .. n + 1 : f[k] = e(k)
    OBVIOUS
  <2> HIDE DEF f
  <2>6. f \in Seq(0 .. 63) /\ Len(f) = n + 1
    BY <2>2, <2>4, SequenceOf
  <2> QED BY <2>5, <2>6 DEF e, f
<1> HIDE DEF wire, text, left, n
<1>6. left[1] = n /\ left[n + 1] = 0
  BY <1>1, <1>5
<1>7. \A k \in 1 .. n : /\ left[k] # 0 /\ left[k + 1] = left[k] - 1
                        /\ wire[k + 1] \in Letter /\ text[k + 1] = wire[k + 1]
  BY <1>1, <1>3, <1>4, <1>5
<1>8. n + 1 > 1 /\ (n + 1) - 1 = n
  BY <1>1
<1>9. Laid(wire, text, left)
  BY <1>1, <1>3, <1>4, <1>5, <1>6, <1>7, <1>8 DEF Laid
<1> QED BY <1>9 DEF wire, text, left, n

(* What lies side by side still does with more behind it.                  *)
LEMMA LaidConcat ==
  ASSUME NEW w1, NEW t1, NEW r1, Laid(w1, t1, r1),
         NEW w2, NEW t2, NEW r2, Laid(w2, t2, r2)
  PROVE  Laid(w1 \o w2, t1 \o t2, r1 \o r2)
<1> DEFINE n == Len(w1)
           m == Len(w2)
           wire == w1 \o w2
           text == t1 \o t2
           left == r1 \o r2
<1>1. n \in Nat /\ n > 1 /\ m \in Nat /\ m > 1
  BY DEF Laid
<1>2. /\ wire \in Seq(0 .. 255) /\ Len(wire) = n + m
      /\ \A k \in 1 .. n : wire[k] = w1[k]
      /\ \A k \in 1 .. m : wire[n + k] = w2[k]
  BY ConcatProperties DEF Laid
<1>3. /\ text \in Seq(0 .. 255) /\ Len(text) = n + m
      /\ \A k \in 1 .. n : text[k] = t1[k]
      /\ \A k \in 1 .. m : text[n + k] = t2[k]
  <2> DEFINE S == 0 .. 255
  <2>1. t1 \in Seq(S) /\ t2 \in Seq(S) /\ Len(t1) = n /\ Len(t2) = m
    BY DEF Laid
  <2>2. n \in Nat /\ m \in Nat
    BY <1>1
  <2> HIDE DEF n, m, S
  <2>3. Joined(S, t1, n, t2, m)
    BY <2>1, <2>2, ConcatJoins, Zenon
  <2> QED BY <2>3, Zenon DEF Joined, S
<1>4. /\ left \in Seq(0 .. 63) /\ Len(left) = n + m
      /\ \A k \in 1 .. n : left[k] = r1[k]
      /\ \A k \in 1 .. m : left[n + k] = r2[k]
  <2>1. r1 \in Seq(0 .. 63) /\ r2 \in Seq(0 .. 63) /\ Len(r1) = n /\ Len(r2) = m
    BY DEF Laid
  <2> DEFINE S == 0 .. 63
  <2>2. n \in Nat /\ m \in Nat /\ r1 \in Seq(S) /\ r2 \in Seq(S)
    BY <1>1, <2>1
  <2> HIDE DEF n, m, S
  <2>3. left \in Seq(S)
    BY <2>1, <2>2, ConcatPlaces
  <2>4. Len(left) = n + m
    BY <2>1, <2>2, ConcatPlaces
  <2>5. \A k \in 1 .. n : left[k] = r1[k]
    BY <2>1, <2>2, ConcatPlaces
  <2>6. \A k \in 1 .. m : left[n + k] = r2[k]
    BY <2>1, <2>2, ConcatPlaces
  <2> QED BY <2>3, <2>4, <2>5, <2>6 DEF S
<1>5. /\ wire[1] = w1[1] /\ text[1] = t1[1] /\ left[1] = r1[1]
      /\ left[n] = 0 /\ left[n + m] = 0
      /\ wire[n + 1] = w2[1] /\ text[n + 1] = t2[1] /\ left[n + 1] = r2[1]
  <2>1. 1 \in 1 .. n /\ 1 \in 1 .. m /\ n \in 1 .. n /\ m \in 1 .. m
    BY <1>1
  <2> QED BY <1>2, <1>3, <1>4, <2>1 DEF Laid
<1> HIDE DEF wire, text, left, n, m
<1>6. ASSUME NEW k \in 1 .. n + m - 1
      PROVE  IF left[k] = 0
             THEN wire[k + 1] \in 1 .. 63 /\ text[k + 1] = Q!Dot /\ left[k + 1] = wire[k + 1]
             ELSE wire[k + 1] \in Letter /\ text[k + 1] = wire[k + 1] /\ left[k + 1] = left[k] - 1
  <2>1. CASE k < n
    <3>1. k \in 1 .. n - 1 /\ k \in 1 .. n /\ k + 1 \in 1 .. n
      BY <1>1, <2>1
    <3>2. /\ left[k] = r1[k] /\ left[k + 1] = r1[k + 1]
          /\ wire[k + 1] = w1[k + 1] /\ text[k + 1] = t1[k + 1]
      BY <1>2, <1>3, <1>4, <3>1
    <3> QED BY <3>1, <3>2 DEF Laid, n
  <2>2. CASE k = n
    BY <1>5, <2>2 DEF Laid
  <2>3. CASE k > n
    <3> DEFINE j == k - n
    <3>1. j \in 1 .. m - 1 /\ j \in 1 .. m /\ j + 1 \in 1 .. m /\ k = n + j /\ k + 1 = n + (j + 1)
      BY <1>1, <2>3
    <3> HIDE DEF j
    <3>2. /\ left[k] = r2[j] /\ left[k + 1] = r2[j + 1]
          /\ wire[k + 1] = w2[j + 1] /\ text[k + 1] = t2[j + 1]
      BY <1>2, <1>3, <1>4, <3>1
    <3> QED BY <3>1, <3>2 DEF Laid, m
  <2> QED BY <1>1, <2>1, <2>2, <2>3
<1>7. n + m > 1 /\ wire[1] \in 1 .. 63 /\ text[1] = Q!Dot /\ left[1] = wire[1]
  BY <1>1, <1>5 DEF Laid
<1>8. Laid(wire, text, left)
  <2>0. Len(wire) = n + m
    BY <1>2
  <2>1. Len(wire) - 1 = n + m - 1 /\ left[Len(wire)] = 0 /\ Len(wire) > 1
    <3>1. left[n + m] = 0
      BY <1>5
    <3>2. n + m > 1
      BY <1>7
    <3>3. Len(wire) - 1 = n + m - 1
      BY <1>1, <2>0
    <3>4. left[Len(wire)] = 0
      BY <2>0, <3>1, Zenon
    <3>5. Len(wire) > 1
      BY <2>0, <3>2, Zenon
    <3> QED BY <3>3, <3>4, <3>5, Zenon
  <2>2. \A k \in 1 .. Len(wire) - 1 :
          IF left[k] = 0
          THEN wire[k + 1] \in 1 .. 63 /\ text[k + 1] = Q!Dot /\ left[k + 1] = wire[k + 1]
          ELSE wire[k + 1] \in Letter /\ text[k + 1] = wire[k + 1] /\ left[k + 1] = left[k] - 1
    BY <1>6, <2>1
  <2>3. Len(text) = Len(wire) /\ Len(left) = Len(wire)
    BY <1>2, <1>3, <1>4
  <2> QED BY <1>2, <1>3, <1>4, <1>7, <2>1, <2>2, <2>3, Zenon DEF Laid
<1> QED BY <1>8 DEF wire, text, left

(* The labels of a name, with their lengths and with dots.                 *)
Wire(name) == FlattenSeq([i \in DOMAIN name |-> <<Len(name[i])>> \o name[i]])
Text(name) == FlattenSeq([i \in DOMAIN name |-> <<Q!Dot>> \o name[i]])

(* So does a whole name, for every name that may be asked for.             *)
LEMMA NameIsLaid ==
  ASSUME QuestionAssumption, NEW name \in Asked
  PROVE  \E left : Laid(Wire(name), Text(name), left)
<1> DEFINE n == Len(name)
           ws == [i \in DOMAIN name |-> <<Len(name[i])>> \o name[i]]
           ts == [i \in DOMAIN name |-> <<Q!Dot>> \o name[i]]
           label(i) == [k \in 1 .. Len(name[i]) + 1 |-> Len(name[i]) + 1 - k]
<1>1. /\ n \in Nat /\ n >= 1 /\ DOMAIN name = 1 .. n
      /\ \A i \in 1 .. n : name[i] \in Seq(Letter) /\ Len(name[i]) \in 1 .. 63
  <2>1. name \in Seq(Seq(Letter)) /\ name # <<>> /\ \A i \in DOMAIN name : Len(name[i]) \in 1 .. 63
    BY DEF QuestionAssumption
  <2> QED BY <2>1
<1>2. \A i \in 1 .. n : Laid(ws[i], ts[i], label(i))
  BY <1>1, LabelIsLaid
<1> HIDE DEF label
<1>3. /\ ws \in Seq(Seq(0 .. 255)) /\ ts \in Seq(Seq(0 .. 255))
      /\ Len(ws) = n /\ Len(ts) = n /\ ws # <<>> /\ ts # <<>>
  <2>1. /\ ws = [i \in 1 .. n |-> ws[i]] /\ ts = [i \in 1 .. n |-> ts[i]]
        /\ \A i \in 1 .. n : ws[i] \in Seq(0 .. 255) /\ ts[i] \in Seq(0 .. 255)
    BY <1>1, <1>2 DEF Laid
  <2> HIDE DEF ws, ts
  <2>2. ws \in Seq(Seq(0 .. 255)) /\ Len(ws) = n
    BY <1>1, <2>1
  <2>3. ts \in Seq(Seq(0 .. 255)) /\ Len(ts) = n
    BY <1>1, <2>1
  <2> QED BY <1>1, <2>2, <2>3
<1> HIDE DEF ws, ts
<1>4. PICK f \in [1 .. n -> Seq(0 .. 255)] :
        /\ FlattenSeq(ws) = f[n] /\ f[1] = ws[1]
        /\ \A i \in 2 .. n : f[i] = f[i - 1] \o ws[i]
  <2>1. \E h \in [1 .. Len(ws) -> Seq(0 .. 255)] :
          /\ FlattenSeq(ws) = h[Len(ws)] /\ h[1] = ws[1]
          /\ \A i \in 2 .. Len(ws) : h[i] = h[i - 1] \o ws[i]
    <3> DEFINE S == 0 .. 255
    <3>1. ws \in Seq(Seq(S)) /\ ws # <<>>
      BY <1>3
    <3> HIDE DEF S
    <3>2. \E h \in [1 .. Len(ws) -> Seq(S)] :
            /\ FlattenSeq(ws) = h[Len(ws)] /\ h[1] = ws[1]
            /\ \A i \in 2 .. Len(ws) : h[i] = h[i - 1] \o ws[i]
      BY <3>1, FlattenUnfolds
    <3> QED BY <3>2 DEF S
  <2> QED BY <1>3, <2>1
<1>5. PICK g \in [1 .. n -> Seq(0 .. 255)] :
        /\ FlattenSeq(ts) = g[n] /\ g[1] = ts[1]
        /\ \A i \in 2 .. n : g[i] = g[i - 1] \o ts[i]
  <2>1. \E h \in [1 .. Len(ts) -> Seq(0 .. 255)] :
          /\ FlattenSeq(ts) = h[Len(ts)] /\ h[1] = ts[1]
          /\ \A i \in 2 .. Len(ts) : h[i] = h[i - 1] \o ts[i]
    <3> DEFINE S == 0 .. 255
    <3>1. ts \in Seq(Seq(S)) /\ ts # <<>>
      BY <1>3
    <3> HIDE DEF S
    <3>2. \E h \in [1 .. Len(ts) -> Seq(S)] :
            /\ FlattenSeq(ts) = h[Len(ts)] /\ h[1] = ts[1]
            /\ \A i \in 2 .. Len(ts) : h[i] = h[i - 1] \o ts[i]
      BY <3>1, FlattenUnfolds
    <3> QED BY <3>2 DEF S
  <2> QED BY <1>3, <2>1
<1> DEFINE T == {i \in Nat : i = 0 \/ i > n \/ \E left : Laid(f[i], g[i], left)}
<1>6. 0 \in T
  OBVIOUS
<1>7. ASSUME NEW i \in Nat, i \in T
      PROVE  i + 1 \in T
  <2>1. CASE i + 1 > n
    BY <2>1
  <2>2. CASE i = 0 /\ i + 1 <= n
    <3>1. i + 1 = 1 /\ 1 \in 1 .. n
      BY <1>1, <2>2
    <3>2. Laid(f[1], g[1], label(1))
      BY <1>2, <1>4, <1>5, <3>1
    <3> QED BY <3>1, <3>2
  <2>3. CASE i # 0 /\ i + 1 <= n
    <3>1. i + 1 \in 2 .. n /\ i + 1 \in 1 .. n /\ (i + 1) - 1 = i /\ ~(i > n)
      BY <1>1, <2>3
    <3>2. PICK left : Laid(f[i], g[i], left)
      BY <1>7, <2>3, <3>1
    <3>3. f[i + 1] = f[i] \o ws[i + 1] /\ g[i + 1] = g[i] \o ts[i + 1]
      BY <1>4, <1>5, <3>1
    <3>4. Laid(f[i + 1], g[i + 1], left \o label(i + 1))
      BY <1>2, <3>1, <3>2, <3>3, LaidConcat
    <3> QED BY <3>4
  <2> QED BY <1>1, <2>1, <2>2, <2>3
<1> HIDE DEF T
<1>8. n \in T
  BY <1>1, <1>6, <1>7, NumberInduction
<1>9. \E left : Laid(f[n], g[n], left)
  BY <1>1, <1>8 DEF T
<1> QED BY <1>4, <1>5, <1>9 DEF ws, ts, Wire, Text

(* Text(name) from Dotted[name]: with a dot before it.                     *)
LEMMA TextIsBytes ==
  ASSUME QuestionAssumption, NEW name \in Asked
  PROVE  /\ Text(name) \in Seq(0 .. 255) /\ Len(Text(name)) > 1
         /\ Head(Text(name)) = Q!Dot /\ Dotted[name] = Tail(Text(name))
<1>1. PICK left : Laid(Wire(name), Text(name), left)
  BY NameIsLaid
<1>2. Text(name) \in Seq(0 .. 255) /\ Len(Text(name)) > 1 /\ Text(name)[1] = Q!Dot
  BY <1>1 DEF Laid
<1> QED BY <1>2 DEF Dotted, Text

(* No name that is asked for has an empty text, which is what an error     *)
(* decodes to.                                                             *)
LEMMA DottedIsSomething ==
  ASSUME QuestionAssumption, NEW name \in Asked
  PROVE  Dotted[name] # <<>>
<1> DEFINE text == Text(name)
           rest == Tail(text)
           n == Len(text)
<1>1. text \in Seq(0 .. 255) /\ n > 1 /\ Dotted[name] = rest
  BY TextIsBytes
<1>2. Len(rest) = n - 1 /\ n \in Nat
  BY <1>1
<1> HIDE DEF rest, n
<1>3. Len(rest) # 0
  BY <1>1, <1>2
<1>4. Len(<<>>) = 0
  OBVIOUS
<1> QED BY <1>1, <1>3, <1>4, Zenon

(* Where each label is in the text.                                        *)
Placed(name, text, at) ==
  /\ at \in [0 .. Len(name) -> Nat] /\ at[0] = 0 /\ at[Len(name)] = Len(text)
  /\ \A i \in 1 .. Len(name) :
       /\ name[i] \in Seq(Letter) /\ Len(name[i]) \in 1 .. 63
       /\ at[i] = at[i - 1] + 1 + Len(name[i]) /\ at[i] <= Len(text)
       /\ text[at[i - 1] + 1] = Q!Dot
       /\ \A k \in 1 .. Len(name[i]) : text[at[i - 1] + 1 + k] = name[i][k]

(* Every label of a name has its place in the name's text, after a dot.    *)
LEMMA LabelsArePlaced ==
  ASSUME QuestionAssumption, NEW name \in Asked
  PROVE  \E at : Placed(name, Text(name), at)
<1> DEFINE n == Len(name)
           ts == [i \in DOMAIN name |-> <<Q!Dot>> \o name[i]]
           text == Text(name)
<1>1. /\ n \in Nat /\ n >= 1 /\ DOMAIN name = 1 .. n
      /\ \A i \in 1 .. n : name[i] \in Seq(Letter) /\ Len(name[i]) \in 1 .. 63
  <2>1. name \in Seq(Seq(Letter)) /\ name # <<>> /\ \A i \in DOMAIN name : Len(name[i]) \in 1 .. 63
    BY DEF QuestionAssumption
  <2> QED BY <2>1
<1> HIDE DEF n
<1>2. ASSUME NEW i \in 1 .. n
      PROVE  /\ ts[i] \in Seq(0 .. 255) /\ Len(ts[i]) = 1 + Len(name[i])
             /\ ts[i][1] = Q!Dot /\ \A k \in 1 .. Len(name[i]) : ts[i][1 + k] = name[i][k]
  <2> DEFINE u == name[i]
             m == Len(u)
             d == <<Q!Dot>>
             S == 0 .. 255
  <2>1. u \in Seq(S) /\ m \in Nat /\ Len(u) = m
    BY <1>1 DEF Letter
  <2>2. d \in Seq(S) /\ Len(d) = 1 /\ d[1] = Q!Dot
    BY DEF Q!Dot
  <2>3. ts[i] = d \o u
    BY <1>1
  <2> HIDE DEF u, m, d, ts, S
  <2>4. 1 \in Nat /\ 1 \in 1 .. 1
    OBVIOUS
  <2>5. Joined(S, d, 1, u, m)
    BY <2>1, <2>2, <2>4, ConcatJoins, Zenon
  <2>6. /\ d \o u \in Seq(S) /\ Len(d \o u) = 1 + m /\ (d \o u)[1] = Q!Dot
        /\ \A k \in 1 .. m : (d \o u)[1 + k] = u[k]
    BY <2>2, <2>4, <2>5, Zenon DEF Joined
  <2> QED BY <2>3, <2>6, Zenon DEF u, m, S
<1>3. ts \in Seq(Seq(0 .. 255)) /\ Len(ts) = n /\ ts # <<>>
  <2>1. ts \in [1 .. n -> Seq(0 .. 255)]
    BY <1>1, <1>2
  <2> HIDE DEF ts
  <2>2. ts \in Seq(Seq(0 .. 255)) /\ Len(ts) = n
    BY <1>1, <2>1, SequenceOf
  <2> QED BY <1>1, <2>2
<1>4. text = FlattenSeq(ts)
  BY DEF Text
<1> HIDE DEF ts, text
<1>5. PICK at \in [0 .. n -> Nat] :
        /\ at[0] = 0 /\ at[n] = Len(text)
        /\ \A i \in 1 .. n :
             /\ at[i] = at[i - 1] + Len(ts[i]) /\ at[i] <= Len(text)
             /\ \A k \in 1 .. Len(ts[i]) : text[at[i - 1] + k] = ts[i][k]
  <2> DEFINE S == 0 .. 255
  <2>1. ts \in Seq(Seq(S)) /\ ts # <<>>
    BY <1>3
  <2> HIDE DEF S
  <2>2. \E at \in [0 .. Len(ts) -> Nat] :
          /\ at[0] = 0 /\ at[Len(ts)] = Len(FlattenSeq(ts))
          /\ \A i \in 1 .. Len(ts) :
               /\ at[i] = at[i - 1] + Len(ts[i]) /\ at[i] <= Len(FlattenSeq(ts))
               /\ \A k \in 1 .. Len(ts[i]) : FlattenSeq(ts)[at[i - 1] + k] = ts[i][k]
    BY <2>1, FlattenPlaces, ZenonT(60)
  <2> QED BY <1>3, <1>4, <2>2
<1>6. ASSUME NEW i \in 1 .. n
      PROVE  /\ at[i] = at[i - 1] + 1 + Len(name[i])
             /\ text[at[i - 1] + 1] = Q!Dot
             /\ \A k \in 1 .. Len(name[i]) : text[at[i - 1] + 1 + k] = name[i][k]
  <2> DEFINE a == at[i - 1]
             m == Len(name[i])
  <2>1. a \in Nat /\ m \in Nat /\ Len(ts[i]) = 1 + m
    <3>1. i - 1 \in 0 .. n
      BY <1>1
    <3> QED BY <1>1, <1>2, <3>1
  <2>2. at[i] = a + Len(ts[i]) /\ \A k \in 1 .. Len(ts[i]) : text[a + k] = ts[i][k]
    BY <1>5
  <2>3. ts[i][1] = Q!Dot /\ \A k \in 1 .. m : ts[i][1 + k] = name[i][k]
    BY <1>2
  <2> HIDE DEF a, m
  <2>4. at[i] = a + 1 + m
    BY <2>1, <2>2
  <2>5. text[a + 1] = Q!Dot
    <3>1. 1 \in 1 .. Len(ts[i])
      BY <2>1
    <3> QED BY <2>2, <2>3, <3>1
  <2>6. ASSUME NEW k \in 1 .. m
        PROVE  text[a + 1 + k] = name[i][k]
    <3>1. 1 + k \in 1 .. Len(ts[i]) /\ a + 1 + k = a + (1 + k)
      BY <2>1
    <3> QED BY <2>2, <2>3, <3>1
  <2> QED BY <2>4, <2>5, <2>6 DEF a, m
<1>7. /\ at \in [0 .. n -> Nat] /\ at[0] = 0 /\ at[n] = Len(text)
      /\ \A i \in 1 .. n :
           /\ name[i] \in Seq(Letter) /\ Len(name[i]) \in 1 .. 63
           /\ at[i] = at[i - 1] + 1 + Len(name[i]) /\ at[i] <= Len(text)
           /\ text[at[i - 1] + 1] = Q!Dot
           /\ \A k \in 1 .. Len(name[i]) : text[at[i - 1] + 1 + k] = name[i][k]
  BY <1>1, <1>5, <1>6, Zenon
<1> QED BY <1>7, ZenonT(60) DEF Placed, n, text

(* A label ends where a dot or the end of the text is.                     *)
LEMMA LabelIsNotLonger ==
  ASSUME NEW name, NEW other, NEW text, NEW at, NEW bt,
         Len(name) \in Nat, Len(other) \in Nat, Len(text) \in Nat,
         Placed(name, text, at), Placed(other, text, bt),
         NEW i \in 1 .. Len(name), i \in 1 .. Len(other), at[i - 1] = bt[i - 1]
  PROVE  Len(other[i]) <= Len(name[i])
<1> DEFINE a == at[i - 1]
           m == Len(name[i])
           p == Len(other[i])
           N == Len(text)
           n == Len(name)
<1>1. /\ a \in Nat /\ m \in Nat /\ p \in Nat /\ N \in Nat /\ n \in Nat
      /\ at[i] = a + 1 + m /\ bt[i] = a + 1 + p /\ at[i] <= N /\ bt[i] <= N
      /\ other[i] \in Seq(Letter)
      /\ \A k \in 1 .. p : text[a + 1 + k] = other[i][k]
      /\ at[n] = N
  <2>1. i - 1 \in 0 .. Len(name)
    OBVIOUS
  <2>2. at[i] = a + 1 + m /\ at[i] <= N /\ m \in Nat
    BY DEF Placed
  <2>4. a \in Nat /\ at[n] = N
    BY <2>1 DEF Placed
  <2>3. /\ bt[i] = a + 1 + p /\ bt[i] <= N /\ p \in Nat /\ other[i] \in Seq(Letter)
        /\ \A k \in 1 .. p : text[bt[i - 1] + 1 + k] = other[i][k]
    BY DEF Placed
  <2>5. N \in Nat /\ n \in Nat
    OBVIOUS
  <2> QED BY <2>2, <2>3, <2>4, <2>5, Zenon
<1>2. i < n => text[at[i] + 1] = Q!Dot
  <2>0. i \in 1 .. n
    OBVIOUS
  <2>1. i < n => i + 1 \in 1 .. n /\ (i + 1) - 1 = i
    <3> HIDE DEF n
    <3> QED BY <1>1, <2>0
  <2>2. \A j \in 1 .. n : text[at[j - 1] + 1] = Q!Dot
    BY DEF Placed
  <2> HIDE DEF n
  <2> QED BY <2>1, <2>2
<1>3. p <= m \/ m + 1 \in 1 .. p
  <2> HIDE DEF m, p
  <2> QED BY <1>1
<1>4. ASSUME m + 1 \in 1 .. p
      PROVE  FALSE
  <2>1. other[i][m + 1] \in Letter
    BY <1>1, <1>4
  <2>2. text[a + 1 + (m + 1)] = other[i][m + 1]
    BY <1>1, <1>4
  <2> HIDE DEF a, m, p, N, n
  <2>3. a + 1 + (m + 1) = at[i] + 1
    BY <1>1
  <2>4. at[i] < N
    BY <1>1, <1>4
  <2>5. i # n
    BY <1>1, <2>4
  <2>6. i < n
    <3>1. i <= n /\ i \in Nat
      BY DEF n
    <3> QED BY <1>1, <2>5, <3>1
  <2> QED BY <1>2, <2>1, <2>2, <2>3, <2>6 DEF Letter
<1> QED BY <1>3, <1>4

(* Two names with the same text are the same name: byName, by whose keys   *)
(* the names are told apart, confuses none of those that are asked for.    *)
LEMMA DottedIsInjective ==
  ASSUME QuestionAssumption, NEW name \in Asked, NEW other \in Asked,
         Dotted[name] = Dotted[other]
  PROVE  name = other
<1> DEFINE text == Text(name)
           n == Len(name)
           m == Len(other)
<1>1. text = Text(other)
  <2>1. \A u, v \in Seq(0 .. 255) : Len(u) > 1 /\ Len(v) > 1 /\ Head(u) = Head(v) /\ Tail(u) = Tail(v)
          => u = v
    <3> TAKE u, v \in Seq(0 .. 255)
    <3> HAVE Len(u) > 1 /\ Len(v) > 1 /\ Head(u) = Head(v) /\ Tail(u) = Tail(v)
    <3>1. u = <<Head(u)>> \o Tail(u) /\ v = <<Head(v)>> \o Tail(v)
      OBVIOUS
    <3> QED BY <3>1, Zenon
  <2> QED BY <2>1, TextIsBytes
<1>2. name \in Seq(Seq(Letter)) /\ other \in Seq(Seq(Letter)) /\ text \in Seq(0 .. 255)
  BY TextIsBytes DEF QuestionAssumption
<1>3. n \in Nat /\ m \in Nat /\ Len(text) \in Nat
  BY <1>2
<1>4. PICK at : Placed(name, text, at)
  BY LabelsArePlaced
<1>5. PICK bt : Placed(other, text, bt)
  BY <1>1, LabelsArePlaced
<1> HIDE DEF text
<1> DEFINE P(i) == at[i] = bt[i] /\ (i # 0 => name[i] = other[i])
           T == {i \in Nat : i > n \/ i > m \/ P(i)}
<1>6. 0 \in T
  BY <1>3, <1>4, <1>5 DEF Placed
<1>7. ASSUME NEW i \in Nat, i \in T
      PROVE  i + 1 \in T
  <2>1. CASE i + 1 > n \/ i + 1 > m
    BY <2>1
  <2>2. CASE ~(i + 1 > n \/ i + 1 > m)
    <3>1. i + 1 \in 1 .. n /\ i + 1 \in 1 .. m /\ (i + 1) - 1 = i /\ ~(i > n) /\ ~(i > m)
      BY <1>3, <2>2
    <3>2. at[i] = bt[i] /\ i \in 0 .. n
      BY <1>3, <1>7, <3>1
    <3>3. Len(other[i + 1]) <= Len(name[i + 1])
      BY <1>3, <1>4, <1>5, <3>1, <3>2, LabelIsNotLonger
    <3>4. Len(name[i + 1]) <= Len(other[i + 1])
      BY <1>3, <1>4, <1>5, <3>1, <3>2, LabelIsNotLonger
    <3> DEFINE u == name[i + 1]
               v == other[i + 1]
    <3>5. /\ u \in Seq(Letter) /\ v \in Seq(Letter) /\ Len(u) \in Nat /\ Len(v) \in Nat
          /\ at[i + 1] = at[i] + 1 + Len(u) /\ bt[i + 1] = bt[i] + 1 + Len(v)
          /\ \A j \in 1 .. Len(u) : text[at[i] + 1 + j] = u[j]
          /\ \A j \in 1 .. Len(v) : text[bt[i] + 1 + j] = v[j]
      <4>1. /\ u \in Seq(Letter) /\ Len(u) \in Nat
            /\ at[i + 1] = at[(i + 1) - 1] + 1 + Len(u)
            /\ \A j \in 1 .. Len(u) : text[at[(i + 1) - 1] + 1 + j] = u[j]
        <5>1. \A j \in 1 .. n :
                /\ name[j] \in Seq(Letter) /\ Len(name[j]) \in 1 .. 63
                /\ at[j] = at[j - 1] + 1 + Len(name[j])
                /\ \A k \in 1 .. Len(name[j]) : text[at[j - 1] + 1 + k] = name[j][k]
          BY <1>4 DEF Placed
        <5>2. \A k \in 1 .. 63 : k \in Nat
          OBVIOUS
        <5> HIDE DEF n
        <5> QED BY <3>1, <5>1, <5>2, Zenon DEF u
      <4>2. /\ v \in Seq(Letter) /\ Len(v) \in Nat
            /\ bt[i + 1] = bt[(i + 1) - 1] + 1 + Len(v)
            /\ \A j \in 1 .. Len(v) : text[bt[(i + 1) - 1] + 1 + j] = v[j]
        <5>1. \A j \in 1 .. m :
                /\ other[j] \in Seq(Letter) /\ Len(other[j]) \in 1 .. 63
                /\ bt[j] = bt[j - 1] + 1 + Len(other[j])
                /\ \A k \in 1 .. Len(other[j]) : text[bt[j - 1] + 1 + k] = other[j][k]
          BY <1>5 DEF Placed
        <5>2. \A k \in 1 .. 63 : k \in Nat
          OBVIOUS
        <5> HIDE DEF m
        <5> QED BY <3>1, <5>1, <5>2, Zenon DEF v
      <4> HIDE DEF u, v
      <4> QED BY <3>1, <4>1, <4>2
    <3>6. Len(u) = Len(v)
      BY <3>3, <3>4, <3>5
    <3> HIDE DEF u, v
    <3>7. \A j \in 1 .. Len(u) : u[j] = v[j]
      BY <3>2, <3>5, <3>6
    <3>8. u = v
      BY <3>5, <3>6, <3>7, SeqEqual
    <3>9. P(i + 1)
      BY <3>2, <3>5, <3>6, <3>8 DEF u, v
    <3> HIDE DEF P
    <3> QED BY <3>9
  <2> QED BY <2>1, <2>2
<1>8. \A i \in Nat : i \in T
  <2> HIDE DEF T
  <2> QED BY <1>6, <1>7, NumberInduction
<1>9. \A i \in Nat : i <= n /\ i <= m => P(i)
  <2> HIDE DEF P
  <2> TAKE i \in Nat
  <2> HAVE i <= n /\ i <= m
  <2>1. i \in T
    <3> HIDE DEF T
    <3> QED BY <1>8
  <2> HIDE DEF n, m
  <2>2. ~(i > n) /\ ~(i > m)
    BY <1>3
  <2> QED BY <2>1, <2>2
<1>10. n = m
  <2>1. ASSUME n < m
        PROVE  FALSE
    <3>1. n \in Nat /\ n + 1 \in 1 .. m /\ (n + 1) - 1 = n /\ n <= n /\ n <= m
      BY <1>3, <2>1
    <3>2. at[n] = Len(text) /\ bt[m] = Len(text)
      BY <1>4, <1>5 DEF Placed
    <3> DEFINE last == Len(text)
               more == Len(other[n + 1])
    <3>3. bt[n] = last
      <4> HIDE DEF T
      <4> HIDE DEF n, m
      <4> QED BY <1>9, <3>1, <3>2
    <3>4. bt[n + 1] = bt[(n + 1) - 1] + 1 + more /\ bt[n + 1] <= last /\ more \in Nat
      BY <1>5, <3>1 DEF Placed
    <3> HIDE DEF n, m, more, last, T
    <3>5. bt[n + 1] = last + 1 + more
      BY <3>1, <3>3, <3>4
    <3>6. last \in Nat
      BY <1>3 DEF last
    <3> QED BY <3>4, <3>5, <3>6
  <2>2. ASSUME m < n
        PROVE  FALSE
    <3>1. m \in Nat /\ m + 1 \in 1 .. n /\ (m + 1) - 1 = m /\ m <= n /\ m <= m
      BY <1>3, <2>2
    <3>2. at[n] = Len(text) /\ bt[m] = Len(text)
      BY <1>4, <1>5 DEF Placed
    <3> DEFINE last == Len(text)
               more == Len(name[m + 1])
    <3>3. at[m] = last
      <4> HIDE DEF T
      <4> HIDE DEF n, m
      <4> QED BY <1>9, <3>1, <3>2
    <3>4. at[m + 1] = at[(m + 1) - 1] + 1 + more /\ at[m + 1] <= last /\ more \in Nat
      BY <1>4, <3>1 DEF Placed
    <3> HIDE DEF n, m, more, last, T
    <3>5. at[m + 1] = last + 1 + more
      BY <3>1, <3>3, <3>4
    <3>6. last \in Nat
      BY <1>3 DEF last
    <3> QED BY <3>4, <3>5, <3>6
  <2> HIDE DEF n, m
  <2> QED BY <1>3, <2>1, <2>2
<1>11. \A i \in 1 .. n : name[i] = other[i]
  <2> TAKE i \in 1 .. n
  <2>1. i \in Nat /\ i # 0 /\ i <= n /\ i <= m
    <3> HIDE DEF n, m
    <3> QED BY <1>3, <1>10
  <2> QED BY <1>9, <2>1
<1> QED BY <1>2, <1>10, <1>11, SeqEqual
-----------------------------------------------------------------------------

(* Which of the records is the first address, for what may be answered.    *)
First(kinds) == SelectInSeq(kinds, LAMBDA kind : kind = "address")

(* The first address of what may be answered.                              *)
LEMMA FirstOfThese ==
  /\ First(<<>>) = 0
  /\ First(<<"address">>) = 1
  /\ First(<<"alias", "address">>) = 2
  /\ First(<<"address", "address">>) = 1
<1> DEFINE places(kinds) == {i \in 1 .. Len(kinds) : kinds[i] = "address"}
<1>1. \A kinds : First(kinds) = IF places(kinds) # {} THEN Min(places(kinds)) ELSE 0
  BY DEF First, SelectInSeq
<1>2. places(<<>>) = {}
  OBVIOUS
<1>3. places(<<"address">>) = {1}
  OBVIOUS
<1>4. places(<<"alias", "address">>) = {2}
  OBVIOUS
<1>5. places(<<"address", "address">>) = {1, 2}
  OBVIOUS
<1> HIDE DEF places
<1>6. Min({1}) = 1 /\ Min({2}) = 2 /\ Min({1, 2}) = 1
  <2>1. Min({1}) \in {1}
    BY MinIsLeast
  <2>2. Min({2}) \in {2}
    BY MinIsLeast
  <2>3. Min({1, 2}) \in {1, 2} /\ \A m \in {1, 2} : Min({1, 2}) <= m
    BY MinIsLeast
  <2> QED BY <2>1, <2>2, <2>3
<1> QED BY <1>1, <1>2, <1>3, <1>4, <1>5, <1>6

(* It is one of the two records, and none in an error.                     *)
LEMMA FirstAddress ==
  ASSUME NEW reply \in Reply
  PROVE  LET i == SelectInSeq(reply[2], LAMBDA kind : kind = "address")
         IN  i \in 0 .. 2 /\ (reply[1] = "error" => i = 0)
<1> DEFINE i == First(reply[2])
<1>1. \/ reply[1] = "error" /\ reply[2] = <<>>
      \/ reply[1] # "error" /\ reply[2] \in {<<>>, <<"address">>, <<"alias", "address">>,
                                           <<"address", "address">>}
  BY DEF Reply
<1>2. i \in 0 .. 2 /\ (reply[1] = "error" => i = 0)
  BY <1>1, FirstOfThese
<1> QED BY <1>2 DEF First
-----------------------------------------------------------------------------

(* Where bytes lie in a datagram.                                          *)
Octet == 0 .. 255

(* The bytes that the datagrams name.                                      *)
LEMMA Octets ==
  /\ 0 \in Octet /\ 1 \in Octet /\ 2 \in Octet /\ 4 \in Octet
  /\ 16 \in Octet /\ 28 \in Octet /\ 128 \in Octet /\ 129 \in Octet
BY DEF Octet

Holds(data, p, bytes) ==
  /\ data \in Seq(Octet) /\ bytes \in Seq(Octet) /\ p \in Nat
  /\ p + Len(bytes) <= Len(data)
  /\ \A k \in 1 .. Len(bytes) : data[p + k] = bytes[k]

(* A concatenation holds its two parts.                                    *)
LEMMA ConcatHolds ==
  ASSUME NEW s \in Seq(Octet), NEW u \in Seq(Octet)
  PROVE  /\ s \o u \in Seq(Octet) /\ Len(s \o u) = Len(s) + Len(u)
         /\ Holds(s \o u, 0, s) /\ Holds(s \o u, Len(s), u)
<1> DEFINE n == Len(s)
           m == Len(u)
           r == s \o u
<1>1. n \in Nat /\ m \in Nat /\ Len(s) = n /\ Len(u) = m
  OBVIOUS
<1> HIDE DEF n, m
<1>2. Joined(Octet, s, n, u, m)
  BY <1>1, ConcatJoins, Zenon
<1>3. /\ r \in Seq(Octet) /\ Len(r) = n + m
      /\ \A k \in 1 .. n : r[k] = s[k]
      /\ \A k \in 1 .. m : r[n + k] = u[k]
  BY <1>2, Zenon DEF Joined
<1> HIDE DEF r
<1>4. 0 + n <= n + m /\ n + m <= n + m /\ 0 \in Nat /\ \A k \in 1 .. n : 0 + k = k
  BY <1>1
<1>5. \A k \in 1 .. n : r[0 + k] = s[k]
  BY <1>3, <1>4
<1>6. Holds(r, 0, s) /\ Holds(r, n, u)
  BY <1>1, <1>3, <1>4, <1>5, Zenon DEF Holds
<1> QED BY <1>1, <1>3, <1>6, Zenon DEF n, m, r

Parts(s, n, u, m) ==
  /\ s \o u \in Seq(Octet) /\ Len(s \o u) = n + m
  /\ Holds(s \o u, 0, s) /\ Holds(s \o u, n, u)

(* The same, for the prover to find by name.                               *)
LEMMA ConcatParts ==
  ASSUME NEW s \in Seq(Octet), NEW u \in Seq(Octet), NEW n, NEW m, Len(s) = n, Len(u) = m
  PROVE  Parts(s, n, u, m)
BY ConcatHolds, Zenon DEF Parts

(* What a part of a datagram holds, the datagram holds.                    *)
LEMMA HoldsWithin ==
  ASSUME NEW data, NEW p, NEW s, NEW q, NEW u, Holds(data, p, s), Holds(s, q, u)
  PROVE  Holds(data, p + q, u)
<1> DEFINE n == Len(s)
           m == Len(u)
           N == Len(data)
<1>1. n \in Nat /\ m \in Nat /\ N \in Nat /\ p \in Nat /\ q \in Nat
      /\ p + n <= N /\ q + m <= n
  BY DEF Holds
<1>2. /\ \A k \in 1 .. n : data[p + k] = s[k]
      /\ \A k \in 1 .. m : s[q + k] = u[k]
      /\ data \in Seq(Octet) /\ u \in Seq(Octet)
  BY DEF Holds
<1>3. Len(data) = N /\ Len(u) = m
  OBVIOUS
<1> HIDE DEF n, m, N
<1>4. (p + q) + m <= N /\ p + q \in Nat
  BY <1>1
<1>5. \A k \in 1 .. m : q + k \in 1 .. n /\ p + (q + k) = (p + q) + k
  BY <1>1
<1>6. \A k \in 1 .. m : data[(p + q) + k] = u[k]
  BY <1>2, <1>5
<1> QED BY <1>2, <1>3, <1>4, <1>6 DEF Holds

(* What decode reads at a place of a datagram is the byte held there.      *)
LEMMA HoldsByte ==
  ASSUME NEW data, NEW p, NEW s, Holds(data, p, s), NEW k \in Nat, k < Len(s)
  PROVE  Q!ByteAt(data, p + k) = s[k + 1]
<1>1. Len(s) \in Nat /\ Len(data) \in Nat /\ p \in Nat /\ p + Len(s) <= Len(data)
  BY DEF Holds
<1>2. k + 1 \in 1 .. Len(s) /\ p + k < Len(data) /\ p + (k + 1) = (p + k) + 1
  BY <1>1
<1>3. data[p + (k + 1)] = s[k + 1]
  BY <1>2 DEF Holds
<1> QED BY <1>2, <1>3 DEF Q!ByteAt

(* Any byte of a datagram, or the 0 that is read past its end.             *)
LEMMA ByteIsOctet ==
  ASSUME NEW data \in Seq(Octet), NEW pos \in Nat
  PROVE  Q!ByteAt(data, pos) \in 0 .. 255
<1>1. pos < Len(data) => pos + 1 \in 1 .. Len(data)
  OBVIOUS
<1>2. \A i \in 1 .. Len(data) : data[i] \in Octet
  OBVIOUS
<1> QED BY <1>1, <1>2 DEF Octet, Q!ByteAt

(* decodeName's recursion is there: it ends where the datagram does.       *)
ScanStep(data, scan, at) ==
  LET byte == Q!ByteAt(data, at[1])
      rest == scan[<<at[1] + 1, IF at[2] = 0 THEN byte ELSE at[2] - 1>>]
  IN  IF byte = 0 \/ at[2] >= 192
      THEN [name |-> <<>>, pos |-> at[1] + 1]
      ELSE [name |-> <<IF at[2] = 0 THEN Q!Dot ELSE byte>> \o rest.name, pos |-> rest.pos]

(* The recursion of decodeName, from the datagram's end back to its start, *)
(* has a value.                                                            *)
LEMMA ScanExists ==
  ASSUME NEW data \in Seq(Octet)
  PROVE  \E scan : scan = [at \in Nat \X (0 .. 255) |-> ScanStep(data, scan, at)]
<1> DEFINE N == Len(data)
           D == Nat \X (0 .. 255)
           Next1(at) == <<at[1] + 1, IF at[2] = 0 THEN Q!ByteAt(data, at[1]) ELSE at[2] - 1>>
           Good(g, n) == /\ g = [at \in D |-> g[at]]
                         /\ \A at \in D : at[1] + n >= N => g[at] = ScanStep(data, g, at)
           T == {n \in Nat : \E g : Good(g, n)}
<1>1. N \in Nat
  OBVIOUS
<1>2. \A at \in D : at[1] \in Nat /\ at[2] \in 0 .. 255
  OBVIOUS
<1>3. \A at \in D : at[1] >= N => Q!ByteAt(data, at[1]) = 0
  <2> TAKE at \in D
  <2> HAVE at[1] >= N
  <2>1. ~(at[1] < N)
    BY <1>1, <1>2
  <2> QED BY <2>1 DEF Q!ByteAt
<1>4. ASSUME NEW at \in D
      PROVE  Next1(at) \in D /\ Next1(at)[1] = at[1] + 1
  <2>1. at[1] \in Nat /\ at[2] \in 0 .. 255 /\ Q!ByteAt(data, at[1]) \in 0 .. 255
    BY <1>2, ByteIsOctet
  <2> DEFINE l == IF at[2] = 0 THEN Q!ByteAt(data, at[1]) ELSE at[2] - 1
  <2>2. l \in 0 .. 255 /\ at[1] + 1 \in Nat
    BY <2>1
  <2> HIDE DEF l
  <2>3. <<at[1] + 1, l>> \in D /\ <<at[1] + 1, l>>[1] = at[1] + 1
    BY <2>2
  <2> QED BY <2>3 DEF l
<1>5. ASSUME NEW g, NEW h, NEW at \in D,
             Q!ByteAt(data, at[1]) = 0 \/ g[Next1(at)] = h[Next1(at)]
      PROVE  ScanStep(data, g, at) = ScanStep(data, h, at)
  BY <1>5 DEF ScanStep
<1> HIDE DEF N, D, Next1
<1>6. 0 \in T
  <2> DEFINE g == [at \in D |-> [name |-> <<>>, pos |-> at[1] + 1]]
  <2>1. ASSUME NEW at \in D, at[1] + 0 >= N
        PROVE  g[at] = ScanStep(data, g, at)
    <3>1. Q!ByteAt(data, at[1]) = 0
      BY <1>1, <1>2, <1>3, <2>1
    <3> QED BY <3>1 DEF ScanStep
  <2>2. g = [at \in D |-> g[at]]
    OBVIOUS
  <2> HIDE DEF g
  <2>3. Good(g, 0)
    BY <2>1, <2>2
  <2> HIDE DEF Good
  <2> QED BY <2>3
<1>7. ASSUME NEW n \in Nat, n \in T
      PROVE  n + 1 \in T
  <2>1. PICK g : Good(g, n)
    BY <1>7
  <2> DEFINE h == [at \in D |-> IF at[1] + n >= N THEN g[at] ELSE ScanStep(data, g, at)]
  <2>2. ASSUME NEW at \in D, at[1] + n >= N
        PROVE  h[at] = g[at] /\ g[at] = ScanStep(data, g, at)
    BY <2>1, <2>2
  <2>3. ASSUME NEW at \in D, ~(at[1] + n >= N)
        PROVE  h[at] = ScanStep(data, g, at)
    BY <2>3
  <2>4. h = [at \in D |-> h[at]]
    OBVIOUS
  <2> HIDE DEF h
  <2>5. ASSUME NEW at \in D, at[1] + (n + 1) >= N
        PROVE  h[at] = ScanStep(data, h, at)
    <3>1. h[at] = ScanStep(data, g, at)
      BY <2>2, <2>3
    <3>2. Next1(at) \in D /\ Next1(at)[1] + n >= N
      BY <1>1, <1>2, <1>4, <2>5
    <3>3. h[Next1(at)] = g[Next1(at)]
      BY <2>2, <3>2
    <3>4. ScanStep(data, g, at) = ScanStep(data, h, at)
      BY <1>5, <3>3
    <3> QED BY <3>1, <3>4
  <2>6. Good(h, n + 1)
    BY <2>4, <2>5
  <2> HIDE DEF Good
  <2> QED BY <2>6
<1> HIDE DEF T
<1>8. N \in T
  BY <1>1, <1>6, <1>7, NumberInduction
<1>9. PICK g : Good(g, N)
  BY <1>8 DEF T
<1>10. \A at \in D : at[1] + N >= N
  BY <1>1, <1>2
<1>11. g = [at \in D |-> ScanStep(data, g, at)]
  BY <1>9, <1>10
<1> QED BY <1>11 DEF D

(* So it is a function that does its step.                                 *)
Steps(data, scan, pos, len) ==
  scan[<<pos, len>>] = ScanStep(data, scan, <<pos, len>>)

Scans(data, curPos, scan) ==
  /\ \A pos \in Nat : \A len \in 0 .. 255 : Steps(data, scan, pos, len)
  /\ Q!DecodeName(data, curPos) = scan[<<curPos + 1, Q!ByteAt(data, curPos)>>]

(* decodeName is that recursion.                                           *)
LEMMA NameIsScanned ==
  ASSUME NEW data \in Seq(Octet), NEW curPos \in Nat
  PROVE  \E scan : Scans(data, curPos, scan)
<1> DEFINE Is(scan) == scan = [at \in Nat \X (0 .. 255) |-> ScanStep(data, scan, at)]
           f == CHOOSE scan : Is(scan)
<1>1. Q!DecodeName(data, curPos) = f[<<curPos + 1, Q!ByteAt(data, curPos)>>]
  BY DEF Q!DecodeName, ScanStep
<1>2. Is(f)
  <2>1. \E scan : Is(scan)
    BY ScanExists
  <2> HIDE DEF Is
  <2> QED BY <2>1
<1> HIDE DEF f
<1>3. \A pos \in Nat : \A len \in 0 .. 255 :
        Steps(data, f, pos, len)
  BY <1>2 DEF Steps
<1>4. Scans(data, curPos, f)
  BY <1>1, <1>3, Zenon DEF Scans
<1> QED BY <1>4
-----------------------------------------------------------------------------

(* What is read from a place on, and up to where.                          *)
Reads(scan, pos, len, name, end) ==
  scan[<<pos, len>>] = [name |-> name, pos |-> end]

(* The recursion ends at a zero byte or after a compression pointer.       *)
LEMMA ReadsNoMore ==
  ASSUME NEW data, NEW scan, NEW pos, NEW len, Steps(data, scan, pos, len),
         Q!ByteAt(data, pos) = 0 \/ len >= 192
  PROVE  Reads(scan, pos, len, <<>>, pos + 1)
BY DEF ScanStep, Steps, Reads

Follows(data, pos, len, next, char) ==
  LET byte == Q!ByteAt(data, pos)
  IN  /\ ~(byte = 0 \/ len >= 192)
      /\ next = IF len = 0 THEN byte ELSE len - 1
      /\ char = IF len = 0 THEN Q!Dot ELSE byte

(* Before the end of a name, decodeName reads one character and goes on.   *)
LEMMA ReadsOn ==
  ASSUME NEW data, NEW scan, NEW pos, NEW len, Steps(data, scan, pos, len),
         NEW next, NEW char, Follows(data, pos, len, next, char),
         NEW name, NEW end, Reads(scan, pos + 1, next, name, end)
  PROVE  Reads(scan, pos, len, <<char>> \o name, end)
<1> DEFINE at == <<pos, len>>
           rest == scan[<<pos + 1, next>>]
           byte == Q!ByteAt(data, pos)
<1>1. at[1] = pos /\ at[2] = len
  OBVIOUS
<1>2. rest.name = name /\ rest.pos = end
  BY DEF Reads
<1> HIDE DEF at
<1>3. ScanStep(data, scan, at)
        = IF byte = 0 \/ len >= 192 THEN [name |-> <<>>, pos |-> pos + 1]
          ELSE [name |-> <<char>> \o rest.name, pos |-> rest.pos]
  BY <1>1, Zenon DEF ScanStep, Follows
<1> HIDE DEF rest
<1>4. ScanStep(data, scan, at) = [name |-> <<char>> \o rest.name, pos |-> rest.pos]
  BY <1>3, Zenon DEF Follows
<1> QED BY <1>2, <1>4, Zenon DEF at, Steps, Reads

(* A pointer to another name is two bytes that name nothing.               *)
LEMMA PointerIsDecoded ==
  ASSUME NEW data \in Seq(Octet), NEW curPos \in Nat, Q!ByteAt(data, curPos) = 192
  PROVE  Q!DecodeName(data, curPos) = [name |-> <<>>, pos |-> curPos + 2]
<1>1. PICK scan : Scans(data, curPos, scan)
  BY NameIsScanned
<1> DEFINE pos == curPos + 1
           l == 192
<1>2. pos \in Nat
  OBVIOUS
<1>3. l \in 0 .. 255
  OBVIOUS
<1>4. l >= 192
  OBVIOUS
<1>5. pos + 1 = curPos + 2
  OBVIOUS
<1>6. Q!DecodeName(data, curPos) = scan[<<pos, l>>]
  BY <1>1, Zenon DEF Scans
<1> HIDE DEF pos, l
<1>7. Steps(data, scan, pos, l)
  BY <1>1, <1>2, <1>3, Zenon DEF Scans
<1>8. Reads(scan, pos, l, <<>>, pos + 1)
  BY <1>4, <1>7, ReadsNoMore
<1> QED BY <1>5, <1>6, <1>8 DEF Reads

(* The text from a place on.                                               *)
From(text, k) == SubSeq(text, k + 1, Len(text))

(* The rest of a text, one character at a time.                            *)
LEMMA FromIsRest ==
  ASSUME NEW text \in Seq(Octet), NEW k \in Nat, k < Len(text)
  PROVE  /\ <<text[k + 1]>> \o From(text, k + 1) = From(text, k)
         /\ From(text, Len(text)) = <<>>
<1>1. Len(text) \in Nat
  OBVIOUS
<1>2. /\ k + 1 \in 1 .. Len(text) /\ Len(text) \in k + 1 .. Len(text)
      /\ Len(text) + 1 \in Int /\ Len(text) < Len(text) + 1
  BY <1>1
<1>3. From(text, k) = <<text[k + 1]>> \o From(text, k + 1)
  BY <1>2, SubSeqRecursiveFirst DEF From
<1>4. From(text, Len(text)) = <<>>
  BY <1>1, <1>2, SubSeqEmpty DEF From
<1> QED BY <1>3, <1>4

(* decodeName reads the text of what was laid.                             *)
LEMMA NameIsDecoded ==
  ASSUME NEW wire, NEW text, NEW left, Laid(wire, text, left),
         NEW data, NEW p, Holds(data, p, wire), Holds(data, p + Len(wire), << 0 >>)
  PROVE  Q!DecodeName(data, p) = [name |-> Tail(text), pos |-> p + Len(wire) + 1]
<1> DEFINE N == Len(wire)
<1>1. data \in Seq(Octet) /\ p \in Nat /\ N \in Nat /\ N > 1
  BY DEF Holds, Laid
<1>2. PICK scan : Scans(data, p, scan)
  BY <1>1, NameIsScanned
<1>3. /\ \A k \in 0 .. N - 1 : Q!ByteAt(data, p + k) = wire[k + 1]
      /\ Q!ByteAt(data, p + N) = 0
  <2>1. \A k \in 0 .. N - 1 : k \in Nat /\ k < Len(wire)
    BY <1>1
  <2> DEFINE z == <<0>>
  <2>2. 0 < Len(z) /\ z[0 + 1] = 0 /\ (p + N) + 0 = p + N /\ 0 \in Nat
    BY <1>1
  <2>3. Q!ByteAt(data, (p + N) + 0) = z[0 + 1]
    <3> HIDE DEF z
    <3>1. Holds(data, p + N, z)
      BY DEF z
    <3> QED BY <2>2, <3>1, HoldsByte, Zenon
  <2>4. \A k \in 0 .. N - 1 : Q!ByteAt(data, p + k) = wire[k + 1]
    BY <2>1, HoldsByte
  <2> QED BY <2>2, <2>3, <2>4
<1>4. /\ text \in Seq(Octet) /\ Len(text) = N /\ left[1] = wire[1] /\ left[N] = 0
      /\ \A k \in 1 .. N : left[k] \in 0 .. 63
      /\ \A k \in 1 .. N - 1 :
           IF left[k] = 0
           THEN wire[k + 1] \in 1 .. 63 /\ text[k + 1] = Q!Dot /\ left[k + 1] = wire[k + 1]
           ELSE wire[k + 1] \in Letter /\ text[k + 1] = wire[k + 1] /\ left[k + 1] = left[k] - 1
  <2>1. left \in Seq(0 .. 63) /\ Len(left) = N
    BY DEF Laid
  <2>2. \A k \in 1 .. N : left[k] \in 0 .. 63
    <3> DEFINE S == 0 .. 63
    <3>1. left \in Seq(S)
      BY <2>1
    <3> HIDE DEF S
    <3>2. \A k \in 1 .. Len(left) : left[k] \in S
      BY <3>1
    <3> QED BY <2>1, <3>2, Zenon DEF S
  <2>3. text \in Seq(Octet) /\ Len(text) = N /\ left[1] = wire[1] /\ left[N] = 0
    BY DEF Laid, Octet
  <2> QED BY <2>2, <2>3 DEF Laid
<1> HIDE DEF N
<1> DEFINE end == p + N + 1
           Good(k) == Reads(scan, p + k, left[k], From(text, k), end)
           T == {i \in Nat : i >= N \/ Good(N - i)}
<1>5. 0 \in T
  <2>1. /\ p + N \in Nat /\ 0 \in 0 .. 255 /\ N - 0 = N /\ (p + N) + 1 = end
    BY <1>1
  <2>2. Reads(scan, p + N, 0, <<>>, end)
    <3>1. Steps(data, scan, p + N, 0)
      BY <1>2, <2>1, Zenon DEF Scans
    <3>2. Reads(scan, p + N, 0, <<>>, (p + N) + 1)
      BY <1>3, <3>1, ReadsNoMore
    <3> QED BY <2>1, <3>2
  <2>3. From(text, N) = <<>>
    <3>1. 0 < Len(text) /\ 0 \in Nat
      BY <1>1, <1>4
    <3>2. From(text, Len(text)) = <<>>
      BY <1>4, <3>1, FromIsRest, Zenon
    <3> QED BY <1>4, <3>2
  <2>4. Good(N)
    BY <1>4, <2>2, <2>3, Zenon
  <2>5. Good(N - 0)
    BY <2>1, <2>4
  <2> HIDE DEF Good
  <2> QED BY <2>5
<1>6. ASSUME NEW i \in Nat, i \in T
      PROVE  i + 1 \in T
  <2>1. CASE i + 1 >= N
    BY <2>1
  <2>2. CASE ~(i + 1 >= N)
    <3> DEFINE k == N - (i + 1)
    <3>1. /\ k \in 1 .. N - 1 /\ k + 1 \in 1 .. N /\ N - i = k + 1 /\ ~(i >= N)
          /\ k \in 0 .. N - 1 /\ k \in Nat /\ k < N /\ p + k \in Nat
          /\ p + (k + 1) = (p + k) + 1
      BY <1>1, <2>2
    <3>2. Reads(scan, (p + k) + 1, left[k + 1], From(text, k + 1), end)
      <4>1. Good(N - i)
        <5> HIDE DEF Good
        <5> QED BY <1>6, <3>1
      <4>2. Good(k + 1)
        <5> HIDE DEF Good
        <5> QED BY <3>1, <4>1
      <4> HIDE DEF k, end
      <4> QED BY <3>1, <4>2
    <3> HIDE DEF k, end
    <3> DEFINE byte == wire[k + 1]
               char == text[k + 1]
               next == left[k + 1]
               len == left[k]
    <3>3. /\ len \in 0 .. 63 /\ byte \in 1 .. 255
          /\ next = IF len = 0 THEN byte ELSE len - 1
          /\ char = IF len = 0 THEN Q!Dot ELSE byte
      <4>1. k \in 1 .. N
        BY <1>1, <3>1
      <4>2. \A b \in Letter : b \in 1 .. 255
        BY DEF Letter
      <4>3. \A b \in 1 .. 63 : b \in 1 .. 255
        OBVIOUS
      <4>4. len \in 0 .. 63
        BY <1>4, <4>1
      <4>5. CASE len = 0
        <5>1. byte \in 1 .. 63 /\ char = Q!Dot /\ next = byte
          BY <1>4, <3>1, <4>5
        <5>2. byte \in 1 .. 255
          BY <4>3, <5>1
        <5> HIDE DEF byte, char, next, len
        <5> QED BY <4>4, <4>5, <5>1, <5>2
      <4>6. CASE len # 0
        <5>1. byte \in Letter /\ char = byte /\ next = len - 1
          BY <1>4, <3>1, <4>6
        <5>2. byte \in 1 .. 255
          BY <4>2, <5>1, Zenon
        <5> HIDE DEF byte, char, next, len
        <5> QED BY <4>4, <4>6, <5>1, <5>2
      <4> QED BY <4>5, <4>6
    <3>4. Q!ByteAt(data, p + k) = byte
      BY <1>3, <3>1
    <3>5. len \in 0 .. 255
      BY <3>3
    <3> HIDE DEF byte, char, next, len
    <3>6. Reads(scan, (p + k) + 1, next, From(text, k + 1), end)
      BY <3>2 DEF next
    <3>7. Follows(data, p + k, len, next, char)
      <4>1. ~(byte = 0 \/ len >= 192)
        BY <3>3
      <4> QED BY <3>3, <3>4, <4>1, Zenon DEF Follows
    <3>8. Steps(data, scan, p + k, len)
      BY <1>2, <3>1, <3>5, Zenon DEF Scans
    <3>9. <<char>> \o From(text, k + 1) = From(text, k)
      BY <1>4, <3>1, FromIsRest DEF char
    <3>10. Good(k)
      <4>1. Reads(scan, p + k, len, <<char>> \o From(text, k + 1), end)
        BY <3>6, <3>7, <3>8, ReadsOn
      <4> QED BY <3>9, <4>1 DEF len
    <3> HIDE DEF Good
    <3>11. Good(N - (i + 1))
      BY <3>10 DEF k
    <3> QED BY <3>11
  <2> QED BY <2>1, <2>2
<1> HIDE DEF T
<1>7. N - 1 \in T
  <2>1. N - 1 \in Nat
    BY <1>1
  <2> QED BY <1>5, <1>6, <2>1, NumberInduction
<1>8. Good(1)
  <2>1. ~(N - 1 >= N) /\ N - (N - 1) = 1
    BY <1>1
  <2> HIDE DEF Good
  <2> QED BY <1>7, <2>1 DEF T
<1>9. Q!ByteAt(data, p) = wire[1]
  <2>1. 0 \in 0 .. N - 1 /\ p + 0 = p /\ 0 + 1 = 1
    BY <1>1
  <2>2. Q!ByteAt(data, p + 0) = wire[0 + 1]
    BY <1>3, <2>1
  <2> QED BY <2>1, <2>2
<1>10. From(text, 1) = Tail(text)
  <2>1. text # <<>> /\ 1 + 1 = 2
    BY <1>1, <1>4
  <2> QED BY <1>4, <2>1, TailIsSubSeq DEF From
<1>11. Q!DecodeName(data, p) = [name |-> Tail(text), pos |-> end]
  <2>1. Q!DecodeName(data, p) = scan[<<p + 1, left[1]>>]
    <3>1. Q!DecodeName(data, p) = scan[<<p + 1, Q!ByteAt(data, p)>>]
      BY <1>2, Zenon DEF Scans
    <3> QED BY <1>4, <1>9, <3>1
  <2> QED BY <1>8, <1>10, <2>1 DEF Reads
<1> QED BY <1>11 DEF N, end
-----------------------------------------------------------------------------

(* decodeAnswer and what decode makes of it.                               *)
ReplyOf(q, name, addr, pos) ==
  [reqNo |-> q, name |-> name, addr |-> addr, curPos |-> pos]

AddressType(n, type) == (n = 4 /\ type = 1) \/ (n = 16 /\ type = 28)

(* decodeAnswer takes an address, and then leaves it out once more.        *)
LEMMA AddressIsDecoded ==
  ASSUME NEW data, NEW q, NEW name, NEW addr, NEW p, NEW e,
         Q!DecodeName(data, p).pos = e, Q!Short(data, e + 2) = 1,
         NEW n, Q!Short(data, e + 8) = n,
         AddressType(n, Q!Short(data, e))
  PROVE  Q!DecodeRecord(data, ReplyOf(q, name, addr, p))
           = ReplyOf(q, name,
                     Append(addr, [i \in 1 .. n |-> Q!ByteAt(data, (e + 10) + i - 1)]),
                     (e + 10) + 2 * n)
<1> DEFINE reply == ReplyOf(q, name, addr, p)
           answer == Q!DecodeAnswer(data, e)
<1>1. /\ reply = [reqNo |-> q, name |-> name, addr |-> addr, curPos |-> p]
      /\ reply.curPos = p /\ reply.addr = addr
  BY DEF ReplyOf
<1>2. answer.curPos = e + 10 /\ answer.rdlength = n
  BY DEF Q!DecodeAnswer
<1>3. Q!IsAddress(answer)
  BY DEF AddressType, Q!DecodeAnswer, Q!IsAddress, Q!Qtype, Q!Internet
<1> HIDE DEF reply, answer
<1>4. Q!DecodeRecord(data, reply)
        = [reply EXCEPT !.addr = Append(@, [i \in 1 .. answer.rdlength |->
                                              Q!ByteAt(data, answer.curPos + i - 1)]),
                        !.curPos = answer.curPos + 2 * answer.rdlength]
  BY <1>1, <1>3, Zenon DEF Q!DecodeRecord, answer
<1>5. \A a, c : [reply EXCEPT !.addr = a, !.curPos = c] = ReplyOf(q, name, a, c)
  <2> TAKE a, c
  <2> DEFINE r == [reqNo |-> q, name |-> name, addr |-> a, curPos |-> p]
  <2>1. [reply EXCEPT !.addr = a] = r
    BY <1>1
  <2>2. [r EXCEPT !.curPos = c] = [reqNo |-> q, name |-> name, addr |-> a, curPos |-> c]
    OBVIOUS
  <2> HIDE DEF r
  <2>3. [reply EXCEPT !.addr = a, !.curPos = c] = [[reply EXCEPT !.addr = a] EXCEPT !.curPos = c]
    OBVIOUS
  <2> QED BY <2>1, <2>2, <2>3 DEF ReplyOf
<1>6. Q!DecodeRecord(data, reply)
        = [reply EXCEPT !.addr = Append(addr, [i \in 1 .. n |->
                                                 Q!ByteAt(data, (e + 10) + i - 1)]),
                        !.curPos = (e + 10) + 2 * n]
  BY <1>1, <1>2, <1>4
<1>7. Q!DecodeRecord(data, reply)
        = ReplyOf(q, name,
                  Append(addr, [i \in 1 .. n |-> Q!ByteAt(data, (e + 10) + i - 1)]),
                  (e + 10) + 2 * n)
  <2> DEFINE a == Append(addr, [i \in 1 .. n |-> Q!ByteAt(data, (e + 10) + i - 1)])
             c == (e + 10) + 2 * n
  <2>1. Q!DecodeRecord(data, reply) = [reply EXCEPT !.addr = a, !.curPos = c]
    BY <1>6
  <2> HIDE DEF a, c
  <2>2. [reply EXCEPT !.addr = a, !.curPos = c] = ReplyOf(q, name, a, c)
    BY <1>5, Zenon
  <2>3. Q!DecodeRecord(data, reply) = ReplyOf(q, name, a, c)
    BY <2>1, <2>2, Zenon
  <2> QED BY <2>3 DEF a, c
<1> QED BY <1>7 DEF reply

(* Of any other record it takes nothing, and leaves it out once.           *)
LEMMA OtherIsDecoded ==
  ASSUME NEW data, NEW q, NEW name, NEW addr, NEW p, NEW e,
         Q!DecodeName(data, p).pos = e,
         \/ Q!Short(data, e + 2) # 1
         \/ Q!Short(data, e) \notin {1, 28}
  PROVE  Q!DecodeRecord(data, ReplyOf(q, name, addr, p))
           = ReplyOf(q, name, addr, (e + 10) + Q!Short(data, e + 8))
<1> DEFINE reply == ReplyOf(q, name, addr, p)
           answer == Q!DecodeAnswer(data, e)
<1>1. /\ reply = [reqNo |-> q, name |-> name, addr |-> addr, curPos |-> p]
      /\ reply.curPos = p
  BY DEF ReplyOf
<1>2. answer.curPos = e + 10 /\ answer.rdlength = Q!Short(data, e + 8)
  BY DEF Q!DecodeAnswer
<1>3. ~Q!IsAddress(answer)
  BY DEF Q!DecodeAnswer, Q!IsAddress, Q!Qtype, Q!Internet
<1> HIDE DEF reply, answer
<1>4. Q!DecodeRecord(data, reply) = [reply EXCEPT !.curPos = answer.curPos + answer.rdlength]
  BY <1>1, <1>3, Zenon DEF Q!DecodeRecord, answer
<1>5. \A c : [reply EXCEPT !.curPos = c] = ReplyOf(q, name, addr, c)
  BY <1>1 DEF ReplyOf
<1> QED BY <1>2, <1>4, <1>5, Zenon DEF reply

(* The bytes of a record: a pointer, twelve bytes in all, and the data.    *)
RecordHead(type, n) == <<192, 12, 0, type, 0, 1, 0, 0, 0, 60, 0, n>>

(* What decode reads in the head of a record.                              *)
LEMMA RecordHeadIsRead ==
  ASSUME NEW data, NEW p, NEW type \in Octet, NEW n \in Octet,
         Holds(data, p, RecordHead(type, n))
  PROVE  /\ data \in Seq(Octet) /\ p \in Nat
         /\ Q!DecodeName(data, p).pos = p + 2
         /\ Q!Short(data, p + 2) = type /\ Q!Short(data, (p + 2) + 2) = 1
         /\ Q!Short(data, (p + 2) + 8) = n
<1> DEFINE s == RecordHead(type, n)
           B(k) == Q!ByteAt(data, p + k)
<1>1. data \in Seq(Octet) /\ p \in Nat /\ type \in 0 .. 255 /\ n \in 0 .. 255
  BY DEF Holds, Octet
<1>2. /\ Len(s) = 12 /\ s[1] = 192 /\ s[3] = 0 /\ s[4] = type /\ s[5] = 0 /\ s[6] = 1
      /\ s[11] = 0 /\ s[12] = n
  BY DEF RecordHead
<1> HIDE DEF s
<1>3. \A k \in Nat : k < 12 => B(k) = s[k + 1]
  <2> TAKE k \in Nat
  <2> HAVE k < 12
  <2>1. Holds(data, p, s) /\ k < Len(s)
    BY <1>2 DEF s
  <2> QED BY <2>1, HoldsByte
<1>4. /\ B(0) = 192 /\ B(2) = 0 /\ B(3) = type /\ B(4) = 0 /\ B(5) = 1
      /\ B(10) = 0 /\ B(11) = n
  <2> HIDE DEF B
  <2> QED BY <1>2, <1>3
<1>5. Q!DecodeName(data, p).pos = p + 2
  <2>1. p + 0 = p
    BY <1>1
  <2>2. Q!ByteAt(data, p) = 192
    BY <1>4, <2>1
  <2>3. Q!DecodeName(data, p) = [name |-> <<>>, pos |-> p + 2]
    BY <1>1, <2>2, PointerIsDecoded
  <2> QED BY <2>3
<1>6. /\ (p + 2) + 1 = p + 3 /\ (p + 2) + 2 = p + 4 /\ (p + 4) + 1 = p + 5
      /\ (p + 2) + 8 = p + 10 /\ (p + 10) + 1 = p + 11
  BY <1>1
<1>7. Q!Short(data, p + 2) = 256 * B(2) + B(3)
  BY <1>6, Zenon DEF Q!Short
<1>8. Q!Short(data, (p + 2) + 2) = 256 * B(4) + B(5)
  BY <1>6, Zenon DEF Q!Short
<1>9. Q!Short(data, (p + 2) + 8) = 256 * B(10) + B(11)
  BY <1>6, Zenon DEF Q!Short
<1> HIDE DEF B
<1>10. 256 * 0 + type = type /\ 256 * 0 + n = n
  BY <1>1
<1> QED BY <1>1, <1>4, <1>5, <1>7, <1>8, <1>9, <1>10
-----------------------------------------------------------------------------

(* A question, and the records of an answer.                               *)
LEMMA QuestionIsDecoded ==
  ASSUME NEW data, NEW q, NEW p, NEW text, NEW end,
         Q!DecodeName(data, p) = [name |-> text, pos |-> end]
  PROVE  Q!DecodeQuestion(data, ReplyOf(q, <<>>, <<>>, p)) = ReplyOf(q, text, <<>>, end + 4)
<1> DEFINE reply == ReplyOf(q, <<>>, <<>>, p)
           found == Q!DecodeName(data, p)
           none == <<>>
<1>1. reply = [reqNo |-> q, name |-> none, addr |-> none, curPos |-> p] /\ reply.curPos = p
  BY DEF ReplyOf
<1>2. found.name = text /\ found.pos = end
  OBVIOUS
<1> HIDE DEF reply, none
<1>3. Q!DecodeQuestion(data, reply) = [reply EXCEPT !.name = found.name, !.curPos = found.pos + 4]
  BY <1>1, Zenon DEF Q!DecodeQuestion
<1>4. \A a, c : [reply EXCEPT !.name = a, !.curPos = c] = ReplyOf(q, a, none, c)
  <2> TAKE a, c
  <2> DEFINE r == [reqNo |-> q, name |-> a, addr |-> none, curPos |-> p]
  <2>1. [reply EXCEPT !.name = a] = r
    BY <1>1
  <2>2. [r EXCEPT !.curPos = c] = [reqNo |-> q, name |-> a, addr |-> none, curPos |-> c]
    OBVIOUS
  <2> HIDE DEF r
  <2>3. [reply EXCEPT !.name = a, !.curPos = c] = [[reply EXCEPT !.name = a] EXCEPT !.curPos = c]
    OBVIOUS
  <2> QED BY <2>1, <2>2, <2>3 DEF ReplyOf
<1> DEFINE pos == found.pos + 4
<1>5. pos = end + 4
  BY <1>2
<1> HIDE DEF found, pos
<1>6. [reply EXCEPT !.name = found.name, !.curPos = pos] = ReplyOf(q, text, none, end + 4)
  <2>1. [reply EXCEPT !.name = found.name, !.curPos = pos] = ReplyOf(q, found.name, none, pos)
    BY <1>4, Zenon
  <2> QED BY <1>2, <1>5, <2>1
<1>7. Q!DecodeQuestion(data, reply) = ReplyOf(q, text, none, end + 4)
  BY <1>3, <1>6 DEF pos
<1> QED BY <1>7, Zenon DEF reply, none

(* A record that is an address is understood, the place after it is missed *)
(* by the length of the address.                                           *)
LEMMA AddressRecordIsDecoded ==
  ASSUME NEW type \in Octet, NEW n \in Octet, NEW rdata \in Seq(Octet), Len(rdata) = n,
         AddressType(n, type),
         NEW data, NEW p, Holds(data, p, RecordHead(type, n) \o rdata),
         NEW q, NEW name, NEW addr
  PROVE  Q!DecodeRecord(data, ReplyOf(q, name, addr, p))
           = ReplyOf(q, name, Append(addr, rdata), p + 12 + 2 * n)
<1> DEFINE s == RecordHead(type, n)
           e == p + 2
           f == [i \in 1 .. n |-> Q!ByteAt(data, (e + 10) + i - 1)]
<1>1. s \in Seq(Octet) /\ Len(s) = 12
  BY DEF RecordHead, Octet
<1>2. p \in Nat /\ n \in Nat
  BY DEF Holds, Octet
<1> HIDE DEF s
<1>3. Holds(data, p + 0, s) /\ Holds(data, p + 12, rdata)
  <2>1. Holds(s \o rdata, 0, s) /\ Holds(s \o rdata, 12, rdata)
    BY <1>1, ConcatHolds
  <2>2. Holds(data, p, s \o rdata)
    BY DEF s
  <2> QED BY <2>1, <2>2, HoldsWithin, Zenon
<1>4. /\ Q!DecodeName(data, p).pos = e
      /\ Q!Short(data, e) = type /\ Q!Short(data, e + 2) = 1 /\ Q!Short(data, e + 8) = n
  <2>1. p + 0 = p
    BY <1>2
  <2>2. Holds(data, p, RecordHead(type, n))
    BY <1>3, <2>1 DEF s
  <2> QED BY <2>2, RecordHeadIsRead
<1>5. Q!DecodeRecord(data, ReplyOf(q, name, addr, p))
        = ReplyOf(q, name, Append(addr, f), (e + 10) + 2 * n)
  <2>1. AddressType(n, Q!Short(data, e))
    BY <1>4
  <2> HIDE DEF e
  <2> QED BY <1>4, <2>1, AddressIsDecoded
<1>6. f = rdata
  <2>1. ASSUME NEW i \in 1 .. n
        PROVE  f[i] = rdata[i]
    <3>1. /\ i - 1 \in Nat /\ i - 1 < Len(rdata) /\ (i - 1) + 1 = i
          /\ (e + 10) + i - 1 = (p + 12) + (i - 1)
      BY <1>2
    <3>2. Q!ByteAt(data, (p + 12) + (i - 1)) = rdata[(i - 1) + 1]
      BY <1>3, <3>1, HoldsByte
    <3>3. f[i] = Q!ByteAt(data, (e + 10) + i - 1)
      OBVIOUS
    <3> HIDE DEF f, e
    <3> QED BY <3>1, <3>2, <3>3
  <2>2. f = [i \in 1 .. n |-> f[i]]
    OBVIOUS
  <2>3. \A i \in 1 .. n : rdata[i] \in Octet
    <3>1. \A u \in Seq(Octet) : \A i \in 1 .. Len(u) : u[i] \in Octet
      OBVIOUS
    <3> QED BY <3>1, Zenon
  <2> HIDE DEF f
  <2>4. f \in [1 .. n -> Octet]
    BY <2>1, <2>2, <2>3
  <2>5. f \in Seq(Octet) /\ Len(f) = n
    BY <1>2, <2>4, SequenceOf
  <2> QED BY <2>1, <2>5, SeqEqual
<1>7. (e + 10) + 2 * n = p + 12 + 2 * n
  BY <1>2
<1> HIDE DEF e, f
<1> QED BY <1>5, <1>6, <1>7

(* A record that is none is left out.                                      *)
LEMMA OtherRecordIsDecoded ==
  ASSUME NEW type \in Octet, NEW n \in Octet, NEW rdata \in Seq(Octet), Len(rdata) = n,
         type \notin {1, 28},
         NEW data, NEW p, Holds(data, p, RecordHead(type, n) \o rdata),
         NEW q, NEW name, NEW addr
  PROVE  Q!DecodeRecord(data, ReplyOf(q, name, addr, p))
           = ReplyOf(q, name, addr, p + 12 + n)
<1> DEFINE s == RecordHead(type, n)
           e == p + 2
<1>1. s \in Seq(Octet) /\ Len(s) = 12
  BY DEF RecordHead, Octet
<1>2. p \in Nat /\ n \in Nat
  BY DEF Holds, Octet
<1> HIDE DEF s
<1>3. Holds(data, p + 0, s)
  <2>1. Holds(s \o rdata, 0, s)
    BY <1>1, ConcatHolds
  <2>2. Holds(data, p, s \o rdata)
    BY DEF s
  <2> QED BY <2>1, <2>2, HoldsWithin, Zenon
<1>4. /\ Q!DecodeName(data, p).pos = e
      /\ Q!Short(data, e) = type /\ Q!Short(data, e + 8) = n
  <2>1. p + 0 = p
    BY <1>2
  <2>2. Holds(data, p, RecordHead(type, n))
    BY <1>3, <2>1 DEF s
  <2> QED BY <2>2, RecordHeadIsRead
<1>5. Q!DecodeRecord(data, ReplyOf(q, name, addr, p))
        = ReplyOf(q, name, addr, (e + 10) + n)
  <2> HIDE DEF e
  <2> QED BY <1>4, OtherIsDecoded
<1>6. (e + 10) + n = p + 12 + n
  BY <1>2
<1> HIDE DEF e
<1> QED BY <1>5, <1>6
-----------------------------------------------------------------------------
(* decode, for a question at most and two records.                         *)
LEMMA DecodeUnfolds ==
  ASSUME NEW data, NEW q, NEW n \in {0, 1, 2},
         Q!DecodeHeader(data) = [reqNo |-> q, qdcount |-> 1, ancount |-> n]
  PROVE  LET read0 == Q!DecodeQuestion(data, ReplyOf(q, <<>>, <<>>, 12))
             read1 == Q!DecodeRecord(data, read0)
             read2 == Q!DecodeRecord(data, read1)
         IN  /\ n = 0 => Q!Decode(data) = read0
             /\ n = 1 => Q!Decode(data) = read1
             /\ n = 2 => Q!Decode(data) = read2
<1> DEFINE header == Q!DecodeHeader(data)
           empty == [reqNo |-> header.reqNo, name |-> <<>>, addr |-> <<>>,
                     curPos |-> Q!HeaderSize]
           IsAsked(f) == f = [i \in 0 .. header.qdcount |->
                                IF i = 0 THEN empty ELSE Q!DecodeQuestion(data, f[i - 1])]
           asked == CHOOSE f : IsAsked(f)
           IsRead(f) == f = [i \in 0 .. header.ancount |->
                               IF i = 0 THEN asked[header.qdcount]
                               ELSE Q!DecodeRecord(data, f[i - 1])]
           read == CHOOSE f : IsRead(f)
           none == ReplyOf(q, <<>>, <<>>, 12)
           read0 == Q!DecodeQuestion(data, none)
           read1 == Q!DecodeRecord(data, read0)
           read2 == Q!DecodeRecord(data, read1)
<1>1. Q!Decode(data) = read[header.ancount]
  BY Zenon DEF Q!Decode
<1>2. header.reqNo = q /\ header.qdcount = 1 /\ header.ancount = n
  OBVIOUS
<1>3. empty = none
  BY <1>2 DEF ReplyOf, Q!HeaderSize
<1> HIDE DEF header, empty, none
<1>4. IsAsked(asked)
  <2> DEFINE f == [i \in 0 .. 1 |-> IF i = 0 THEN empty ELSE Q!DecodeQuestion(data, empty)]
  <2>1. f[0] = empty /\ \A i \in 0 .. 1 : i # 0 => i - 1 = 0
    OBVIOUS
  <2>2. f = [i \in 0 .. 1 |-> IF i = 0 THEN empty ELSE Q!DecodeQuestion(data, f[i - 1])]
    BY <2>1
  <2>3. IsAsked(f)
    BY <1>2, <2>2
  <2> HIDE DEF IsAsked
  <2> QED BY <2>3
<1> HIDE DEF asked
<1>5. asked[header.qdcount] = read0
  <2>1. asked = [i \in 0 .. 1 |-> IF i = 0 THEN empty ELSE Q!DecodeQuestion(data, asked[i - 1])]
    BY <1>2, <1>4
  <2>2. asked[0] = empty
    BY <2>1
  <2>3. asked[1] = Q!DecodeQuestion(data, asked[0])
    BY <2>1
  <2> QED BY <1>2, <1>3, <2>2, <2>3
<1> HIDE DEF read0
<1>6. IsRead(read)
  <2> DEFINE f == [i \in 0 .. n |-> IF i = 0 THEN read0 ELSE IF i = 1 THEN read1 ELSE read2]
  <2>1. \A i \in 0 .. n : /\ i # 0 => i - 1 \in 0 .. n
                          /\ i = 1 => i - 1 = 0
                          /\ i # 0 /\ i # 1 => i = 2 /\ i - 1 = 1
    OBVIOUS
  <2>2. \A i \in 0 .. n : f[i] = IF i = 0 THEN read0 ELSE IF i = 1 THEN read1 ELSE read2
    OBVIOUS
  <2>3. f = [i \in 0 .. n |-> f[i]]
    OBVIOUS
  <2> HIDE DEF f
  <2>4. ASSUME NEW i \in 0 .. n, i # 0
        PROVE  f[i] = Q!DecodeRecord(data, f[i - 1])
    <3>1. CASE i = 1
      <4>1. f[i - 1] = read0 /\ f[i] = read1
        BY <2>1, <2>2, <2>4, <3>1
      <4> QED BY <4>1
    <3>2. CASE i # 1
      <4>1. f[i - 1] = read1 /\ f[i] = read2
        BY <2>1, <2>2, <2>4, <3>2
      <4> QED BY <4>1
    <3> QED BY <3>1, <3>2
  <2>5. f[0] = read0
    BY <2>2
  <2>6. f = [i \in 0 .. n |-> IF i = 0 THEN read0 ELSE Q!DecodeRecord(data, f[i - 1])]
    BY <2>3, <2>4, <2>5
  <2>7. IsRead(f)
    BY <1>2, <1>5, <2>6
  <2> HIDE DEF IsRead
  <2> QED BY <2>7
<1> HIDE DEF read
<1>7. read = [i \in 0 .. n |-> IF i = 0 THEN read0 ELSE Q!DecodeRecord(data, read[i - 1])]
  BY <1>2, <1>5, <1>6
<1>8. read[0] = read0
  BY <1>7
<1>9. n # 0 => read[1] = read1
  BY <1>7, <1>8
<1>10. n = 2 => read[2] = read2
  BY <1>7, <1>9
<1> QED BY <1>1, <1>2, <1>8, <1>9, <1>10 DEF read0, none

(* An error has neither.                                                   *)
LEMMA EmptyIsDecoded ==
  ASSUME NEW data, NEW q,
         Q!DecodeHeader(data) = [reqNo |-> q, qdcount |-> 0, ancount |-> 0]
  PROVE  Q!Decode(data) = ReplyOf(q, <<>>, <<>>, 12)
<1> DEFINE header == Q!DecodeHeader(data)
           empty == [reqNo |-> header.reqNo, name |-> <<>>, addr |-> <<>>,
                     curPos |-> Q!HeaderSize]
           IsAsked(f) == f = [i \in 0 .. header.qdcount |->
                                IF i = 0 THEN empty ELSE Q!DecodeQuestion(data, f[i - 1])]
           asked == CHOOSE f : IsAsked(f)
           IsRead(f) == f = [i \in 0 .. header.ancount |->
                               IF i = 0 THEN asked[header.qdcount]
                               ELSE Q!DecodeRecord(data, f[i - 1])]
           read == CHOOSE f : IsRead(f)
<1>1. Q!Decode(data) = read[header.ancount]
  BY Zenon DEF Q!Decode
<1>2. header.reqNo = q /\ header.qdcount = 0 /\ header.ancount = 0
  OBVIOUS
<1>3. empty = ReplyOf(q, <<>>, <<>>, 12)
  BY <1>2 DEF ReplyOf, Q!HeaderSize
<1> HIDE DEF header, empty
<1>4. \A i \in 0 .. 0 : i = 0
  OBVIOUS
<1>5. IsAsked(asked)
  <2> DEFINE f == [i \in 0 .. 0 |-> empty]
  <2>1. IsAsked(f)
    BY <1>2, <1>4
  <2> HIDE DEF IsAsked
  <2> QED BY <2>1
<1> HIDE DEF asked
<1>6. IsRead(read)
  <2> DEFINE f == [i \in 0 .. 0 |-> asked[header.qdcount]]
  <2>1. IsRead(f)
    BY <1>2, <1>4
  <2> HIDE DEF IsRead
  <2> QED BY <2>1
<1> HIDE DEF read
<1>7. asked[0] = empty
  BY <1>2, <1>5
<1>8. read[0] = asked[0]
  BY <1>2, <1>6
<1> QED BY <1>1, <1>2, <1>3, <1>7, <1>8
-----------------------------------------------------------------------------

(* What the nameserver sends, part by part.                                *)
LEMMA IdIsBytes ==
  ASSUME QuestionAssumption
  PROVE  Id \in Seq(Octet) /\ Len(Id) = 2
<1>1. FirstRequest \in Nat /\ FirstRequest < 65536
  <2>1. 2 ^ 16 = 65536
    OBVIOUS
  <2> QED BY <2>1 DEF QuestionAssumption
<1>2. \A x \in Nat : /\ x \div 256 \in Int /\ x % 256 \in 0 .. 255
                     /\ 256 * (x \div 256) <= x /\ x < 256 * (x \div 256) + 256
  OBVIOUS
<1>3. \A x \in Nat : \A d \in Int :
        x < 65536 /\ 256 * d <= x /\ x < 256 * d + 256 => d \in 0 .. 255
  OBVIOUS
<1>4. FirstRequest \div 256 \in Octet /\ FirstRequest % 256 \in Octet
  BY <1>1, <1>2, <1>3 DEF Octet
<1> QED BY <1>4 DEF Id

(* The records of an answer that has two at most.                          *)
LEMMA FlattenOfFew ==
  ASSUME NEW a \in Seq(Octet), NEW b \in Seq(Octet)
  PROVE  FlattenSeq(<<>>) = <<>> /\ FlattenSeq(<<a>>) = a /\ FlattenSeq(<<a, b>>) = a \o b
<1>1. FlattenSeq(<<>>) = <<>>
  <2>1. Len(<<>>) = 0
    OBVIOUS
  <2> QED BY <2>1 DEF FlattenSeq
<1>2. FlattenSeq(<<a>>) = a
  <2> DEFINE seqs == <<a>>
  <2>1. seqs \in Seq(Seq(Octet)) /\ seqs # <<>> /\ Len(seqs) = 1 /\ seqs[1] = a
    OBVIOUS
  <2> HIDE DEF seqs
  <2>2. PICK f \in [1 .. Len(seqs) -> Seq(Octet)] :
          FlattenSeq(seqs) = f[Len(seqs)] /\ f[1] = seqs[1]
    BY <2>1, FlattenUnfolds
  <2> QED BY <2>1, <2>2 DEF seqs
<1>3. FlattenSeq(<<a, b>>) = a \o b
  <2> DEFINE seqs == <<a, b>>
  <2>1. /\ seqs \in Seq(Seq(Octet)) /\ seqs # <<>> /\ Len(seqs) = 2
        /\ seqs[1] = a /\ seqs[2] = b
    OBVIOUS
  <2> HIDE DEF seqs
  <2>2. PICK f \in [1 .. Len(seqs) -> Seq(Octet)] :
          /\ FlattenSeq(seqs) = f[Len(seqs)] /\ f[1] = seqs[1]
          /\ \A i \in 2 .. Len(seqs) : f[i] = f[i - 1] \o seqs[i]
    BY <2>1, FlattenUnfolds
  <2>3. 2 \in 2 .. Len(seqs) /\ 2 - 1 = 1
    BY <2>1
  <2>4. f[2] = f[1] \o seqs[2]
    BY <2>2, <2>3
  <2> QED BY <2>1, <2>2, <2>4 DEF seqs
<1> QED BY <1>1, <1>2, <1>3

(* The records the nameserver sends: their heads, their data, their        *)
(* lengths.                                                                *)
LEMMA RecordIsBytes ==
  ASSUME NEW t \in Type, NEW i \in {1, 2}
  PROVE  LET n == IF t = "A" THEN 4 ELSE 16
             type == IF t = "A" THEN 1 ELSE 28
             alias == <<3, 119, 119, 119, 192, 12>>
         IN  /\ Address(t, i) \in Seq(Octet) /\ Len(Address(t, i)) = n
             /\ Record(t, "address", i) = RecordHead(type, n) \o Address(t, i)
             /\ Record(t, "address", i) \in Seq(Octet)
             /\ Len(Record(t, "address", i)) = 12 + n
             /\ alias \in Seq(Octet) /\ Len(alias) = 6
             /\ Record(t, "alias", i) = RecordHead(5, 6) \o alias
             /\ Record(t, "alias", i) \in Seq(Octet)
             /\ Len(Record(t, "alias", i)) = 18
<1> DEFINE n == IF t = "A" THEN 4 ELSE 16
           type == IF t = "A" THEN 1 ELSE 28
           alias == <<3, 119, 119, 119, 192, 12>>
           addr == Address(t, i)
<1>1. addr \in Seq(Octet) /\ Len(addr) = n
  <2>1. /\ i \in Octet /\ 0 \in Octet /\ 1 \in Octet /\ 10 \in Octet /\ 13 \in Octet
        /\ 32 \in Octet /\ 184 \in Octet
    BY DEF Octet
  <2>2. CASE t = "A"
    <3>1. addr = <<10, 0, 0, i>> /\ n = 4
      BY <2>2 DEF Address
    <3>2. <<10, 0, 0, i>> \in Seq(Octet) /\ Len(<<10, 0, 0, i>>) = 4
      BY <2>1
    <3> QED BY <3>1, <3>2, Zenon
  <2>3. CASE t # "A"
    <3> DEFINE a == <<32, 1, 13, 184, 0, 0, 0, 0, 0, 0, 0, 0, 0, 0, 1, i>>
    <3>1. addr = a /\ n = 16
      BY <2>3 DEF Address
    <3>2. a \in Seq(Octet) /\ Len(a) = 16
      BY <2>1
    <3> HIDE DEF a
    <3> QED BY <3>1, <3>2, Zenon
  <2> QED BY <2>2, <2>3
<1>2. alias \in Seq(Octet) /\ Len(alias) = 6
  BY DEF Octet
<1>3. Q!Qtype[t] = type /\ Q!Qtype["CNAME"] = 5
  BY DEF Type, Q!Qtype
<1>4. type \in Octet /\ n \in Octet /\ 5 \in Octet /\ 6 \in Octet
  BY DEF Octet
<1> HIDE DEF addr, alias, n, type
<1>5. \A y, m \in Octet : RecordHead(y, m) \in Seq(Octet) /\ Len(RecordHead(y, m)) = 12
  BY DEF RecordHead, Octet
<1>6. Record(t, "address", i) = RecordHead(type, n) \o addr
  <2>1. "address" # "alias"
    OBVIOUS
  <2> QED BY <1>1, <1>3, <2>1, Zenon DEF Record, RecordHead, addr
<1>7. Record(t, "alias", i) = RecordHead(5, 6) \o alias
  BY <1>2, <1>3, Zenon DEF Record, RecordHead, alias
<1>8. RecordHead(type, n) \o addr \in Seq(Octet) /\ Len(RecordHead(type, n) \o addr) = 12 + n
  <2>1. Parts(RecordHead(type, n), 12, addr, n)
    BY <1>1, <1>4, <1>5, ConcatParts
  <2> QED BY <2>1, Zenon DEF Parts
<1>9. RecordHead(5, 6) \o alias \in Seq(Octet) /\ Len(RecordHead(5, 6) \o alias) = 12 + 6
  <2>1. Parts(RecordHead(5, 6), 12, alias, 6)
    BY <1>2, <1>4, <1>5, ConcatParts
  <2> QED BY <2>1, Zenon DEF Parts
<1>10. 12 + 6 = 18
  OBVIOUS
<1> QED BY <1>1, <1>2, <1>6, <1>7, <1>8, <1>9, <1>10 DEF addr, alias, n, type

(* The places of the name and the records in an answer.                    *)
AnswerHead(n) == <<129, 128, 0, 1, 0, n, 0, 0, 0, 0>>

(* What stands where in an answer.                                         *)
LEMMA AnswerIsLaidOut ==
  ASSUME QuestionAssumption, NEW name \in Asked, NEW t \in Type, NEW kinds,
         NEW n, n = Len(kinds), n \in Octet,
         NEW flat \in Seq(Octet),
         flat = FlattenSeq([i \in DOMAIN kinds |-> Record(t, kinds[i], i)])
  PROVE  LET data == OnWire(name, t, <<"answer", kinds>>)
             end == 12 + Len(Wire(name))
         IN  /\ end \in Nat /\ Len(data) >= 12
             /\ Holds(data, 2, AnswerHead(n)) /\ Holds(data, 12, Wire(name))
             /\ Holds(data, end, <<0>>) /\ Holds(data, end + 5, flat)
<1> DEFINE data == OnWire(name, t, <<"answer", kinds>>)
           h == AnswerHead(n)
           w == Wire(name)
           z == <<0>>
           f == <<0, Q!Qtype[t], 0, Q!Internet>>
           N == Len(w)
           s1 == w \o z
           s2 == s1 \o f
           s3 == h \o s2
           s4 == s3 \o flat
<1>1. w \in Seq(Octet) /\ N \in Nat
  <2>1. PICK left : Laid(Wire(name), Text(name), left)
    BY NameIsLaid
  <2>2. Wire(name) \in Seq(0 .. 255)
    BY <2>1, Zenon DEF Laid
  <2>3. Wire(name) \in Seq(Octet)
    BY <2>2, Zenon DEF Octet
  <2> HIDE DEF w
  <2>4. \A u \in Seq(Octet) : Len(u) \in Nat
    OBVIOUS
  <2>5. Len(Wire(name)) \in Nat
    BY <2>3, <2>4, Zenon
  <2> QED BY <2>3, <2>5 DEF w
<1>2. h \in Seq(Octet) /\ Len(h) = 10
  <2>1. 0 \in Octet /\ 1 \in Octet /\ 128 \in Octet /\ 129 \in Octet
    BY Octets, Zenon
  <2> QED BY <2>1 DEF AnswerHead
<1>3. z \in Seq(Octet) /\ Len(z) = 1
  BY Octets
<1>4. f \in Seq(Octet) /\ Len(f) = 4
  <2>1. Q!Qtype[t] \in Octet /\ Q!Internet \in Octet /\ 0 \in Octet
    <3>1. Q!Qtype["A"] = 1 /\ Q!Qtype["AAAA"] = 28 /\ Q!Internet = 1
      BY DEF Q!Qtype, Q!Internet
    <3>2. 0 \in Octet /\ 1 \in Octet /\ 28 \in Octet
      BY Octets, Zenon
    <3> QED BY <3>1, <3>2 DEF Type
  <2> QED BY <2>1
<1>5. data = Id \o s4
  BY Zenon DEF OnWire, AnswerHead, QuestionOnWire, NameOnWire, Wire
<1>6. Id \in Seq(Octet) /\ Len(Id) = 2
  BY IdIsBytes
<1> HIDE DEF data, h, w, z, f, N
<1>7. Len(w) = N
  BY DEF N
<1>8. s1 \in Seq(Octet) /\ Len(s1) = N + 1 /\ Holds(s1, 0, w) /\ Holds(s1, N, z)
  <2>1. Parts(w, N, z, 1)
    BY <1>1, <1>3, <1>7, ConcatParts
  <2> QED BY <2>1, Zenon DEF Parts, s1
<1> HIDE DEF s1
<1>9. s2 \in Seq(Octet) /\ Len(s2) = (N + 1) + 4 /\ Holds(s2, 0, s1)
  <2>1. Parts(s1, N + 1, f, 4)
    BY <1>4, <1>8, ConcatParts
  <2> QED BY <2>1, Zenon DEF Parts, s2
<1> HIDE DEF s2
<1>10. s3 \in Seq(Octet) /\ Len(s3) = 10 + ((N + 1) + 4) /\ Holds(s3, 0, h) /\ Holds(s3, 10, s2)
  <2>1. Parts(h, 10, s2, (N + 1) + 4)
    BY <1>2, <1>9, ConcatParts
  <2> QED BY <2>1, Zenon DEF Parts, s3
<1> HIDE DEF s3
<1>11. /\ s4 \in Seq(Octet) /\ Holds(s4, 0, s3)
       /\ Holds(s4, 10 + ((N + 1) + 4), flat)
  <2>1. Parts(s3, 10 + ((N + 1) + 4), flat, Len(flat))
    BY <1>10, ConcatParts
  <2> QED BY <2>1, Zenon DEF Parts, s4
<1> HIDE DEF s4
<1>12. Holds(data, 2, s4)
  <2>1. Parts(Id, 2, s4, Len(s4))
    BY <1>6, <1>11, ConcatParts
  <2> QED BY <1>5, <2>1, Zenon DEF Parts
<1>13. Holds(data, 2 + 0, s3)
  BY <1>11, <1>12, HoldsWithin, Zenon
<1>14. Holds(data, (2 + 0) + 0, h) /\ Holds(data, (2 + 0) + 10, s2)
  BY <1>10, <1>13, HoldsWithin, Zenon
<1>15. Holds(data, ((2 + 0) + 10) + 0, s1)
  BY <1>9, <1>14, HoldsWithin, Zenon
<1>16. Holds(data, (((2 + 0) + 10) + 0) + 0, w) /\ Holds(data, (((2 + 0) + 10) + 0) + N, z)
  BY <1>8, <1>15, HoldsWithin, Zenon
<1>17. Holds(data, 2 + (10 + ((N + 1) + 4)), flat)
  BY <1>11, <1>12, HoldsWithin, Zenon
<1>18. /\ (2 + 0) + 0 = 2 /\ (((2 + 0) + 10) + 0) + 0 = 12
       /\ (((2 + 0) + 10) + 0) + N = 12 + N
       /\ 2 + (10 + ((N + 1) + 4)) = (12 + N) + 5 /\ 12 + N \in Nat
  BY <1>1
<1>19. Len(data) >= 12
  <2>1. Len(data) \in Nat /\ 2 + Len(h) <= Len(data)
    BY <1>14, <1>18 DEF Holds
  <2> QED BY <1>2, <2>1
<1> QED BY <1>7, <1>14, <1>16, <1>17, <1>18, <1>19 DEF data, h, w, z
-----------------------------------------------------------------------------

(* A name where there is none: a zero byte and another, or one between.    *)
LEMMA NoNameIsDecoded ==
  ASSUME NEW data \in Seq(Octet), NEW curPos \in Nat, Q!ByteAt(data, curPos) = 0
  PROVE  /\ Q!ByteAt(data, curPos + 1) = 0 => Q!DecodeName(data, curPos).pos = curPos + 2
         /\ Q!ByteAt(data, curPos + 1) = 1 /\ Q!ByteAt(data, curPos + 2) = 0
              => Q!DecodeName(data, curPos).pos = curPos + 3
<1>1. PICK scan : Scans(data, curPos, scan)
  BY NameIsScanned
<1> DEFINE p1 == curPos + 1
           p2 == curPos + 2
           none == <<>>
<1>2. p1 \in Nat /\ p2 \in Nat /\ p1 + 1 = p2 /\ p2 + 1 = curPos + 3 /\ 0 \in 0 .. 255 /\ 1 \in 0 .. 255
  OBVIOUS
<1>3. Q!DecodeName(data, curPos) = scan[<<p1, 0>>]
  BY <1>1 DEF Scans
<1> HIDE DEF p1, p2
<1>4. Steps(data, scan, p1, 0) /\ Steps(data, scan, p2, 1)
  BY <1>1, <1>2, Zenon DEF Scans
<1>5. ASSUME Q!ByteAt(data, p1) = 0
      PROVE  Q!DecodeName(data, curPos).pos = p2
  <2>1. Reads(scan, p1, 0, none, p1 + 1)
    BY <1>4, <1>5, ReadsNoMore
  <2>2. scan[<<p1, 0>>].pos = p1 + 1
    BY <2>1 DEF Reads
  <2> QED BY <1>2, <1>3, <2>2
<1>6. ASSUME Q!ByteAt(data, p1) = 1, Q!ByteAt(data, p2) = 0
      PROVE  Q!DecodeName(data, curPos).pos = p2 + 1
  <2>1. Reads(scan, p2, 1, none, p2 + 1)
    BY <1>4, <1>6, ReadsNoMore
  <2>2. ~(1 = 0 \/ 0 >= 192)
    OBVIOUS
  <2>3. Follows(data, p1, 0, 1, Q!Dot)
    BY <1>6, <2>2, Zenon DEF Follows
  <2>4. Reads(scan, p1 + 1, 1, none, p2 + 1)
    BY <1>2, <2>1
  <2>5. Reads(scan, p1, 0, <<Q!Dot>> \o none, p2 + 1)
    <3> HIDE DEF none
    <3> QED BY <1>4, <2>3, <2>4, ReadsOn
  <2>6. scan[<<p1, 0>>].pos = p2 + 1
    BY <2>5 DEF Reads
  <2> QED BY <1>3, <2>6
<1> QED BY <1>2, <1>5, <1>6 DEF p1, p2

DecodesTo(data, q, name, addr, p, more, end) ==
  Q!DecodeRecord(data, ReplyOf(q, name, addr, p)) = ReplyOf(q, name, more, end)

(* An address the nameserver sends is found where the record starts.       *)
LEMMA AddressIsHeard ==
  ASSUME NEW t \in Type, NEW i \in {1, 2}, NEW data, NEW p,
         Holds(data, p, Record(t, "address", i)),
         NEW n, n = Len(Address(t, i)), NEW q, NEW name, NEW addr
  PROVE  DecodesTo(data, q, name, addr, p, Append(addr, Address(t, i)), p + 12 + 2 * n)
<1> DEFINE a == Address(t, i)
           type == IF t = "A" THEN 1 ELSE 28
           m == IF t = "A" THEN 4 ELSE 16
<1>1. a \in Seq(Octet) /\ Len(a) = m /\ Record(t, "address", i) = RecordHead(type, m) \o a
  BY RecordIsBytes, ZenonT(60)
<1>2. 1 \in Octet /\ 4 \in Octet /\ 16 \in Octet /\ 28 \in Octet
  BY Octets, Zenon
<1>3. AddressType(m, type) /\ type \in Octet /\ m \in Octet
  <2>1. AddressType(4, 1) /\ AddressType(16, 28)
    BY DEF AddressType
  <2>2. \/ m = 4 /\ type = 1
        \/ m = 16 /\ type = 28
    OBVIOUS
  <2> HIDE DEF m, type
  <2>3. AddressType(m, type)
    BY <2>1, <2>2, Zenon
  <2>4. type \in Octet /\ m \in Octet
    BY <1>2, <2>2, Zenon
  <2> QED BY <2>3, <2>4
<1>4. n = m
  BY <1>1
<1> HIDE DEF m, type, a
<1>5. Holds(data, p, RecordHead(type, m) \o a)
  BY <1>1, Zenon
<1>6. Q!DecodeRecord(data, ReplyOf(q, name, addr, p))
        = ReplyOf(q, name, Append(addr, a), p + 12 + 2 * m)
  BY <1>1, <1>3, <1>5, AddressRecordIsDecoded
<1> QED BY <1>4, <1>6 DEF a, DecodesTo

(* An alias is left out.                                                   *)
LEMMA AliasIsSkipped ==
  ASSUME NEW t \in Type, NEW i \in {1, 2}, NEW data, NEW p,
         Holds(data, p, Record(t, "alias", i)), NEW q, NEW name, NEW addr
  PROVE  DecodesTo(data, q, name, addr, p, addr, p + 18)
<1> DEFINE alias == <<3, 119, 119, 119, 192, 12>>
           n == 6
           type == 5
<1>1. alias \in Seq(Octet) /\ Len(alias) = n /\ Record(t, "alias", i) = RecordHead(type, n) \o alias
  BY RecordIsBytes, ZenonT(60)
<1>2. n \in Octet /\ type \in Octet /\ type \notin {1, 28}
  BY DEF Octet
<1>3. p + 12 + n = p + 18
  BY DEF Holds
<1> HIDE DEF alias, n, type
<1>4. Holds(data, p, RecordHead(type, n) \o alias)
  BY <1>1, Zenon
<1>5. Q!DecodeRecord(data, ReplyOf(q, name, addr, p)) = ReplyOf(q, name, addr, p + 12 + n)
  BY <1>1, <1>2, <1>4, OtherRecordIsDecoded
<1> QED BY <1>3, <1>5 DEF DecodesTo

(* The second of two addresses is read from behind its place, and what is  *)
(* there is no address.                                                    *)
LEMMA SecondIsMissed ==
  ASSUME NEW t \in Type, NEW data, NEW p, Holds(data, p, Record(t, "address", 2)),
         NEW n, n = Len(Address(t, 2)), NEW q, NEW name, NEW addr
  PROVE  \E pos : DecodesTo(data, q, name, addr, p + n, addr, pos)
<1> DEFINE s == Record(t, "address", 2)
           a == Address(t, 2)
           type == IF t = "A" THEN 1 ELSE 28
           h == RecordHead(type, n)
           B(k) == Q!ByteAt(data, p + k)
<1>1. /\ n = IF t = "A" THEN 4 ELSE 16
      /\ a \in Seq(Octet) /\ s = h \o a /\ s \in Seq(Octet) /\ Len(s) = 12 + n
  <2> DEFINE m == IF t = "A" THEN 4 ELSE 16
  <2>1. 2 \in {1, 2}
    OBVIOUS
  <2>2. /\ a \in Seq(Octet) /\ Len(a) = m /\ s = RecordHead(type, m) \o a
        /\ s \in Seq(Octet) /\ Len(s) = 12 + m
    BY <2>1, RecordIsBytes, ZenonT(60)
  <2>3. n = m
    BY <2>2
  <2> HIDE DEF m
  <2>4. /\ a \in Seq(Octet) /\ s = RecordHead(type, n) \o a
        /\ s \in Seq(Octet) /\ Len(s) = 12 + n
    BY <2>2, <2>3, Zenon
  <2> QED BY <2>3, <2>4, Zenon DEF m
<1>2. data \in Seq(Octet) /\ p \in Nat
  BY DEF Holds
<1>3. h \in Seq(Octet) /\ Len(h) = 12
  <2>1. /\ 0 \in Octet /\ 1 \in Octet /\ 12 \in Octet /\ 60 \in Octet /\ 192 \in Octet
        /\ 4 \in Octet /\ 16 \in Octet /\ 28 \in Octet
    BY DEF Octet
  <2>2. type \in Octet
    BY <2>1
  <2>3. n \in Octet
    BY <1>1, <2>1, Zenon
  <2> HIDE DEF type
  <2> QED BY <2>1, <2>2, <2>3 DEF RecordHead
<1>4. Holds(data, p + 0, h) /\ Holds(data, p + 12, a)
  <2>1. Parts(h, 12, a, n)
    <3> HIDE DEF h
    <3> QED BY <1>1, <1>3, ConcatParts
  <2>2. Holds(s, 0, h) /\ Holds(s, 12, a)
    BY <1>1, <2>1, Zenon DEF Parts
  <2> HIDE DEF s, h, a
  <2>3. Holds(data, p, s)
    BY DEF s
  <2> QED BY <2>2, <2>3, HoldsWithin, Zenon
<1>5. \A k \in Nat : k < 12 => B(k) = h[k + 1]
  <2> TAKE k \in Nat
  <2> HAVE k < 12
  <2> HIDE DEF h
  <2>1. Holds(data, p, h) /\ k < Len(h)
    BY <1>2, <1>3, <1>4
  <2> QED BY <2>1, HoldsByte
<1>6. \A k \in Nat : k < n => B(12 + k) = a[k + 1]
  <2> TAKE k \in Nat
  <2> HAVE k < n
  <2> HIDE DEF a
  <2>1. k < Len(a) /\ (p + 12) + k = p + (12 + k)
    BY <1>2 DEF a
  <2>2. Q!ByteAt(data, (p + 12) + k) = a[k + 1]
    BY <1>4, <2>1, HoldsByte
  <2> QED BY <2>1, <2>2
<1>7. PICK e : Q!DecodeName(data, p + n).pos = e /\ Q!Short(data, e) = 0
  <2>1. CASE t = "A"
    <3>1. n = 4
      BY <1>1, <2>1
    <3>2. h[5] = 0 /\ h[6] = 1 /\ h[7] = 0 /\ h[8] = 0 /\ h[9] = 0
      BY DEF RecordHead
    <3> HIDE DEF B, h
    <3>3. B(4) = 0 /\ B(5) = 1 /\ B(6) = 0 /\ B(7) = 0 /\ B(8) = 0
      BY <1>5, <3>2
    <3>4. /\ (p + n) + 1 = p + 5 /\ (p + n) + 2 = p + 6 /\ (p + n) + 3 = p + 7
          /\ (p + 7) + 1 = p + 8 /\ p + n = p + 4 /\ p + n \in Nat
      <4>1. \A x \in Nat : /\ (x + 4) + 1 = x + 5 /\ (x + 4) + 2 = x + 6 /\ (x + 4) + 3 = x + 7
                           /\ (x + 7) + 1 = x + 8 /\ x + 4 \in Nat
        OBVIOUS
      <4> QED BY <1>2, <3>1, <4>1, Zenon
    <3>5. Q!DecodeName(data, p + n).pos = p + 7
      BY <1>2, <3>3, <3>4, NoNameIsDecoded DEF B
    <3>6. Q!Short(data, p + 7) = 256 * 0 + 0
      BY <3>3, <3>4, Zenon DEF Q!Short, B
    <3> QED BY <3>5, <3>6
  <2>2. CASE t # "A"
    <3>1. n = 16
      BY <1>1, <2>2
    <3>2. a[5] = 0 /\ a[6] = 0 /\ a[7] = 0 /\ a[8] = 0
      BY <2>2 DEF Address
    <3> HIDE DEF B, a
    <3>3. B(12 + 4) = 0 /\ B(12 + 5) = 0 /\ B(12 + 6) = 0 /\ B(12 + 7) = 0
      <4>1. \A k \in Nat : k < 16 => B(12 + k) = a[k + 1]
        BY <1>6, <3>1, Zenon
      <4>2. /\ 4 \in Nat /\ 5 \in Nat /\ 6 \in Nat /\ 7 \in Nat
            /\ 4 < 16 /\ 5 < 16 /\ 6 < 16 /\ 7 < 16
            /\ 4 + 1 = 5 /\ 5 + 1 = 6 /\ 6 + 1 = 7 /\ 7 + 1 = 8
        OBVIOUS
      <4>3. /\ B(12 + 4) = a[4 + 1] /\ B(12 + 5) = a[5 + 1]
            /\ B(12 + 6) = a[6 + 1] /\ B(12 + 7) = a[7 + 1]
        BY <4>1, <4>2, Zenon
      <4> QED BY <3>2, <4>2, <4>3, Zenon
    <3>4. /\ (p + n) + 1 = p + (12 + 5) /\ (p + n) + 2 = p + (12 + 6) /\ p + n = p + (12 + 4)
          /\ (p + (12 + 6)) + 1 = p + (12 + 7) /\ p + n \in Nat
      <4>1. \A x \in Nat : /\ (x + 16) + 1 = x + (12 + 5) /\ (x + 16) + 2 = x + (12 + 6)
                           /\ x + 16 = x + (12 + 4) /\ x + 16 \in Nat
                           /\ (x + (12 + 6)) + 1 = x + (12 + 7)
        OBVIOUS
      <4>2. p \in Nat /\ p + n = p + 16
        BY <1>2, <3>1
      <4>3. /\ (p + 16) + 1 = p + (12 + 5) /\ (p + 16) + 2 = p + (12 + 6)
            /\ p + 16 = p + (12 + 4) /\ p + 16 \in Nat
            /\ (p + (12 + 6)) + 1 = p + (12 + 7)
        BY <4>1, <4>2
      <4> QED BY <4>2, <4>3, Zenon
    <3>5. Q!DecodeName(data, p + n).pos = p + (12 + 6)
      BY <1>2, <3>3, <3>4, NoNameIsDecoded DEF B
    <3>6. Q!Short(data, p + (12 + 6)) = 256 * 0 + 0
      BY <3>3, <3>4, Zenon DEF Q!Short, B
    <3> QED BY <3>5, <3>6
  <2> QED BY <2>1, <2>2
<1>8. Q!Short(data, e) \notin {1, 28}
  BY <1>7
<1>9. Q!DecodeRecord(data, ReplyOf(q, name, addr, p + n))
        = ReplyOf(q, name, addr, (e + 10) + Q!Short(data, e + 8))
  BY <1>7, <1>8, OtherIsDecoded
<1>10. DecodesTo(data, q, name, addr, p + n, addr, (e + 10) + Q!Short(data, e + 8))
  BY <1>9, Zenon DEF DecodesTo
<1> QED BY <1>10

(* The name and the address decode finds.                                  *)
LEMMA AnswerIsDecoded ==
  ASSUME QuestionAssumption, NEW name \in Asked, NEW t \in Type,
         NEW kinds \in {<<>>, <<"address">>, <<"alias", "address">>, <<"address", "address">>}
  PROVE  LET ans == Q!Decode(OnWire(name, t, <<"answer", kinds>>))
         IN  /\ ans.name = Dotted[name]
             /\ ans.addr = IF First(kinds) = 0 THEN <<>> ELSE <<Address(t, First(kinds))>>
<1> DEFINE data == OnWire(name, t, <<"answer", kinds>>)
           n == Len(kinds)
           flat == FlattenSeq([i \in DOMAIN kinds |-> Record(t, kinds[i], i)])
           end == 12 + Len(Wire(name))
           first == Record(t, kinds[1], 1)
           second == Record(t, kinds[2], 2)
           text == Dotted[name]
           none == <<>>
<1>1. n \in {0, 1, 2} /\ n \in Octet
  <2>1. n \in {0, 1, 2}
    OBVIOUS
  <2> HIDE DEF n
  <2> QED BY <2>1, Octets
<1>2. /\ n # 0 => first \in Seq(Octet)
      /\ n = 2 => second \in Seq(Octet)
  <2>1. \A i \in {1, 2} : Record(t, "address", i) \in Seq(Octet) /\ Record(t, "alias", i) \in Seq(Octet)
    BY RecordIsBytes
  <2>2. /\ n # 0 => kinds[1] \in {"address", "alias"}
        /\ n = 2 => kinds[2] \in {"address", "alias"}
    OBVIOUS
  <2>3. 1 \in {1, 2} /\ 2 \in {1, 2}
    OBVIOUS
  <2> HIDE DEF n
  <2> QED BY <2>1, <2>2, <2>3
<1>3. /\ n = 0 => flat = <<>>
      /\ n = 1 => flat = first
      /\ n = 2 => flat = first \o second
  <2> DEFINE seqs == [i \in DOMAIN kinds |-> Record(t, kinds[i], i)]
  <2>1. n = 0 => seqs = <<>>
    OBVIOUS
  <2>2. n = 1 => seqs = <<first>>
    OBVIOUS
  <2>3. n = 2 => seqs = <<first, second>>
    OBVIOUS
  <2> HIDE DEF seqs, first, second, n
  <2>4. flat = FlattenSeq(seqs)
    BY DEF seqs
  <2>5. <<>> \in Seq(Octet)
    OBVIOUS
  <2>6. n = 0 => flat = <<>>
    BY <2>1, <2>4, <2>5, FlattenOfFew
  <2>7. ASSUME n = 1
        PROVE  flat = first
    <3>1. first \in Seq(Octet)
      BY <1>1, <1>2, <2>7
    <3>2. FlattenSeq(<<first>>) = first
      BY <2>5, <3>1, FlattenOfFew, Zenon
    <3> QED BY <2>2, <2>4, <2>7, <3>2, Zenon
  <2>8. ASSUME n = 2
        PROVE  flat = first \o second
    <3>1. first \in Seq(Octet) /\ second \in Seq(Octet)
      BY <1>1, <1>2, <2>8
    <3>2. FlattenSeq(<<first, second>>) = first \o second
      BY <3>1, FlattenOfFew, Zenon
    <3> QED BY <2>3, <2>4, <2>8, <3>2, Zenon
  <2> QED BY <2>6, <2>7, <2>8
<1>4. flat \in Seq(Octet)
  <2>1. <<>> \in Seq(Octet)
    OBVIOUS
  <2>2. n = 2 => first \o second \in Seq(Octet)
    <3>1. SUFFICES ASSUME n = 2 PROVE first \o second \in Seq(Octet)
      OBVIOUS
    <3>2. first \in Seq(Octet) /\ second \in Seq(Octet)
      BY <1>1, <1>2, <3>1
    <3> HIDE DEF n, first, second
    <3>3. Parts(first, Len(first), second, Len(second))
      BY <3>2, ConcatParts
    <3> QED BY <3>3, Zenon DEF Parts
  <2> HIDE DEF n, flat, first, second
  <2> QED BY <1>1, <1>2, <1>3, <2>1, <2>2
<1>5. /\ end \in Nat /\ Len(data) >= 12
      /\ Holds(data, 2, AnswerHead(n)) /\ Holds(data, 12, Wire(name))
      /\ Holds(data, end, <<0>>) /\ Holds(data, end + 5, flat)
  <2> DEFINE k == n
  <2>1. k = Len(kinds) /\ k \in Octet
    BY <1>1
  <2> DEFINE f == flat
  <2>2. f = FlattenSeq([i \in DOMAIN kinds |-> Record(t, kinds[i], i)]) /\ f \in Seq(Octet)
    BY <1>4
  <2> HIDE DEF k, f
  <2>3. /\ end \in Nat /\ Len(data) >= 12
        /\ Holds(data, 2, AnswerHead(k)) /\ Holds(data, 12, Wire(name))
        /\ Holds(data, end, <<0>>) /\ Holds(data, end + 5, f)
    BY <2>1, <2>2, AnswerIsLaidOut, Zenon
  <2> QED BY <2>3, Zenon DEF k, f
<1> DEFINE q == Q!DecodeHeader(data).reqNo
<1>6. Q!DecodeHeader(data) = [reqNo |-> q, qdcount |-> 1, ancount |-> n]
  <2> DEFINE h == AnswerHead(n)
  <2>1. Len(h) = 10 /\ h[3] = 0 /\ h[4] = 1 /\ h[5] = 0 /\ h[6] = n
    BY DEF AnswerHead
  <2>2. Holds(data, 2, h)
    BY <1>5
  <2> HIDE DEF h, n, data, end
  <2>3. \A k \in Nat : k < 10 => Q!ByteAt(data, 2 + k) = h[k + 1]
    BY <2>1, <2>2, HoldsByte
  <2>4. /\ Q!ByteAt(data, 4) = 0 /\ Q!ByteAt(data, 4 + 1) = 1
        /\ Q!ByteAt(data, 6) = 0 /\ Q!ByteAt(data, 6 + 1) = n
    <3>1. /\ 2 \in Nat /\ 3 \in Nat /\ 4 \in Nat /\ 5 \in Nat
          /\ 2 < 10 /\ 3 < 10 /\ 4 < 10 /\ 5 < 10
          /\ 2 + 1 = 3 /\ 3 + 1 = 4 /\ 4 + 1 = 5 /\ 5 + 1 = 6
          /\ 2 + 2 = 4 /\ 2 + 3 = 4 + 1 /\ 2 + 4 = 6 /\ 2 + 5 = 6 + 1
      OBVIOUS
    <3>2. /\ Q!ByteAt(data, 2 + 2) = h[2 + 1] /\ Q!ByteAt(data, 2 + 3) = h[3 + 1]
          /\ Q!ByteAt(data, 2 + 4) = h[4 + 1] /\ Q!ByteAt(data, 2 + 5) = h[5 + 1]
      BY <2>3, <3>1, Zenon
    <3> QED BY <2>1, <3>1, <3>2
  <2>5. Q!Short(data, 4) = 1 /\ Q!Short(data, 6) = n
    <3>1. 256 * 0 + 1 = 1 /\ 256 * 0 + n = n
      BY <1>1
    <3> QED BY <2>4, <3>1, Zenon DEF Q!Short
  <2>6. 2 * 2 = 4 /\ 2 * 3 = 6
    OBVIOUS
  <2>7. Q!DecodeHeader(data)
          = [reqNo |-> Q!Short(data, 2 * 0), qdcount |-> Q!Short(data, 2 * 2),
             ancount |-> Q!Short(data, 2 * 3)]
    BY <1>5 DEF Q!DecodeHeader, Q!HeaderSize
  <2>8. q = Q!Short(data, 2 * 0)
    BY <2>7
  <2> QED BY <2>5, <2>6, <2>7, <2>8
<1>7. Q!DecodeName(data, 12) = [name |-> text, pos |-> end + 1]
  <2>1. PICK left : Laid(Wire(name), Text(name), left)
    BY NameIsLaid
  <2>2. text = Tail(Text(name))
    BY TextIsBytes
  <2> HIDE DEF data, text
  <2>3. Q!DecodeName(data, 12) = [name |-> Tail(Text(name)), pos |-> 12 + Len(Wire(name)) + 1]
    BY <1>5, <2>1, NameIsDecoded
  <2> QED BY <2>2, <2>3
<1> HIDE DEF data, n, flat, end, text, q
<1> DEFINE none0 == ReplyOf(q, <<>>, <<>>, 12)
           p == (end + 1) + 4
           read0 == Q!DecodeQuestion(data, none0)
           read1 == Q!DecodeRecord(data, read0)
           read2 == Q!DecodeRecord(data, read1)
<1>8. read0 = ReplyOf(q, text, none, p)
  BY <1>7, QuestionIsDecoded
<1>9. p \in Nat /\ Holds(data, p, flat)
  <2>1. p = end + 5 /\ p \in Nat
    BY <1>5
  <2> HIDE DEF p
  <2> QED BY <1>5, <2>1
<1> HIDE DEF read0, p
<1>10. /\ n = 0 => Q!Decode(data) = read0
       /\ n = 1 => Q!Decode(data) = read1
       /\ n = 2 => Q!Decode(data) = read2
  BY <1>1, <1>6, DecodeUnfolds DEF read0
<1>11. Append(none, Address(t, 1)) = <<Address(t, 1)>> /\ Append(none, Address(t, 2)) = <<Address(t, 2)>>
  OBVIOUS
<1> HIDE DEF none
<1>12. n = Len(kinds) /\ 1 \in {1, 2} /\ 2 \in {1, 2}
  BY DEF n
<1> DEFINE ans == Q!Decode(data)
           k == First(kinds)
           a1 == Address(t, 1)
           a2 == Address(t, 2)
           m == Len(a2)
           Heard1 == ans.name = text /\ ans.addr = IF k = 0 THEN none ELSE <<Address(t, k)>>
<1> SUFFICES Heard1
  BY Zenon DEF data, text, none
<1>13. Len(a1) = m /\ m \in Nat /\ Len(Record(t, "address", 1)) = 12 + m
  <2> DEFINE l == IF t = "A" THEN 4 ELSE 16
  <2>1. Len(a1) = l /\ Len(Record(t, "address", 1)) = 12 + l
    BY <1>12, RecordIsBytes, Zenon
  <2>2. Len(a2) = l
    BY <1>12, RecordIsBytes, Zenon
  <2>3. l \in Nat
    OBVIOUS
  <2> HIDE DEF l
  <2> QED BY <2>1, <2>2, <2>3
<1>14. CASE kinds = <<>>
  <2>1. n = 0 /\ k = 0
    BY <1>12, <1>14, FirstOfThese
  <2>2. ans = ReplyOf(q, text, none, p)
    BY <1>8, <1>10, <2>1
  <2> HIDE DEF ans, k
  <2>3. ans.name = text /\ ans.addr = none
    BY <2>2 DEF ReplyOf
  <2> QED BY <2>1, <2>3
<1>15. CASE kinds = <<"address">>
  <2>1. n = 1 /\ k = 1 /\ kinds[1] = "address"
    BY <1>12, <1>15, FirstOfThese
  <2>2. Holds(data, p, Record(t, "address", 1))
    BY <1>3, <1>9, <2>1 DEF first
  <2>3. DecodesTo(data, q, text, none, p, Append(none, a1), p + 12 + 2 * m)
    <3> HIDE DEF m
    <3> QED BY <1>12, <1>13, <2>2, AddressIsHeard, Zenon
  <2>4. ans = ReplyOf(q, text, <<a1>>, p + 12 + 2 * m)
    BY <1>8, <1>10, <1>11, <2>1, <2>3 DEF DecodesTo
  <2> HIDE DEF ans, k, a1, m
  <2>5. ans.name = text /\ ans.addr = <<a1>>
    BY <2>4 DEF ReplyOf
  <2> QED BY <2>1, <2>5 DEF a1
<1>16. CASE kinds = <<"alias", "address">>
  <2>1. n = 2 /\ k = 2 /\ kinds[1] = "alias" /\ kinds[2] = "address"
    BY <1>12, <1>16, FirstOfThese
  <2>2. Holds(data, p, Record(t, "alias", 1)) /\ Holds(data, p + 18, Record(t, "address", 2))
    <3> DEFINE l == 18
    <3>1. Len(first) = l
      BY <1>12, <2>1, RecordIsBytes, Zenon DEF first
    <3>2. p + 0 = p
      BY <1>9
    <3> HIDE DEF l, first, second
    <3>3. Parts(first, l, second, Len(second))
      <4>1. first \in Seq(Octet) /\ second \in Seq(Octet)
        BY <1>2, <2>1
      <4> QED BY <3>1, <4>1, ConcatParts, Zenon
    <3>4. Holds(data, p + 0, first) /\ Holds(data, p + l, second)
      <4>1. Holds(flat, 0, first) /\ Holds(flat, l, second)
        BY <1>3, <2>1, <3>3, Zenon DEF Parts
      <4> QED BY <1>9, <4>1, HoldsWithin, Zenon
    <3> QED BY <2>1, <3>2, <3>4 DEF first, second, l
  <2>3. DecodesTo(data, q, text, none, p, none, p + 18)
    BY <1>12, <2>2, AliasIsSkipped, Zenon
  <2>4. DecodesTo(data, q, text, none, p + 18, Append(none, a2), (p + 18) + 12 + 2 * m)
    <3> HIDE DEF m
    <3>1. m = Len(a2)
      BY DEF m
    <3> QED BY <1>12, <2>2, <3>1, AddressIsHeard, Zenon
  <2>5. ans = ReplyOf(q, text, <<a2>>, (p + 18) + 12 + 2 * m)
    BY <1>8, <1>10, <1>11, <2>1, <2>3, <2>4 DEF DecodesTo
  <2> HIDE DEF ans, k, a2, m
  <2>6. ans.name = text /\ ans.addr = <<a2>>
    BY <2>5 DEF ReplyOf
  <2> QED BY <2>1, <2>6 DEF a2
<1>17. CASE kinds = <<"address", "address">>
  <2>1. n = 2 /\ k = 1 /\ kinds[1] = "address" /\ kinds[2] = "address"
    BY <1>12, <1>17, FirstOfThese
  <2> DEFINE p2 == p + (12 + m)
  <2>2. Holds(data, p, Record(t, "address", 1)) /\ Holds(data, p2, Record(t, "address", 2))
    <3> DEFINE l == 12 + m
    <3>1. Len(first) = l
      BY <1>13, <2>1 DEF first
    <3>2. p + 0 = p
      BY <1>9
    <3> HIDE DEF l, first, second
    <3>3. Parts(first, l, second, Len(second))
      <4>1. first \in Seq(Octet) /\ second \in Seq(Octet)
        BY <1>2, <2>1
      <4> QED BY <3>1, <4>1, ConcatParts, Zenon
    <3>4. Holds(data, p + 0, first) /\ Holds(data, p + l, second)
      <4>1. Holds(flat, 0, first) /\ Holds(flat, l, second)
        BY <1>3, <2>1, <3>3, Zenon DEF Parts
      <4> QED BY <1>9, <4>1, HoldsWithin, Zenon
    <3> QED BY <2>1, <3>2, <3>4 DEF first, second, l
  <2>3. p + 12 + 2 * m = p2 + m
    <3> HIDE DEF m
    <3> QED BY <1>9, <1>13
  <2>4. DecodesTo(data, q, text, none, p, Append(none, a1), p + 12 + 2 * m)
    <3> HIDE DEF m
    <3> QED BY <1>12, <1>13, <2>2, AddressIsHeard, Zenon
  <2>5. PICK pos : DecodesTo(data, q, text, <<a1>>, p2 + m, <<a1>>, pos)
    <3> HIDE DEF m, p2
    <3>1. m = Len(a2)
      BY DEF m
    <3> QED BY <2>2, <3>1, SecondIsMissed, Zenon
  <2> HIDE DEF p2, m
  <2>6. ans = ReplyOf(q, text, <<a1>>, pos)
    BY <1>8, <1>10, <1>11, <2>1, <2>3, <2>4, <2>5 DEF DecodesTo
  <2> HIDE DEF ans, k, a1
  <2>7. ans.name = text /\ ans.addr = <<a1>>
    BY <2>6 DEF ReplyOf
  <2> QED BY <2>1, <2>7 DEF a1
<1> HIDE DEF Heard1
<1> QED BY <1>14, <1>15, <1>16, <1>17
-----------------------------------------------------------------------------

(* In an error without a question decode finds neither.                    *)
LEMMA ErrorIsDecoded ==
  ASSUME QuestionAssumption, NEW name, NEW t
  PROVE  LET ans == Q!Decode(OnWire(name, t, <<"error", <<>>>>))
         IN  ans.name = <<>> /\ ans.addr = <<>>
<1> DEFINE h == <<129, 129, 0, 0, 0, 0, 0, 0, 0, 0>>
           data == OnWire(name, t, <<"error", <<>>>>)
           q == Q!DecodeHeader(data).reqNo
<1>1. h \in Seq(Octet) /\ Len(h) = 10 /\ h[3] = 0 /\ h[4] = 0 /\ h[5] = 0 /\ h[6] = 0
  <2>1. 129 \in Octet /\ 0 \in Octet
    BY Octets, Zenon
  <2> QED BY <2>1
<1>2. data = Id \o h
  BY DEF OnWire
<1> HIDE DEF h, data
<1>3. Parts(Id, 2, h, 10)
  BY <1>1, IdIsBytes, ConcatParts, Zenon
<1>4. Len(data) = 2 + 10 /\ Holds(data, 2, h)
  BY <1>2, <1>3, Zenon DEF Parts
<1>5. Q!ByteAt(data, 4) = 0 /\ Q!ByteAt(data, 4 + 1) = 0
      /\ Q!ByteAt(data, 6) = 0 /\ Q!ByteAt(data, 6 + 1) = 0
  <2>1. \A k \in Nat : k < 10 => Q!ByteAt(data, 2 + k) = h[k + 1]
    BY <1>1, <1>4, HoldsByte
  <2>2. /\ 2 \in Nat /\ 3 \in Nat /\ 4 \in Nat /\ 5 \in Nat
        /\ 2 < 10 /\ 3 < 10 /\ 4 < 10 /\ 5 < 10
        /\ 2 + 1 = 3 /\ 3 + 1 = 4 /\ 4 + 1 = 5 /\ 5 + 1 = 6
        /\ 2 + 2 = 4 /\ 2 + 3 = 4 + 1 /\ 2 + 4 = 6 /\ 2 + 5 = 6 + 1
    OBVIOUS
  <2>3. /\ Q!ByteAt(data, 2 + 2) = h[2 + 1] /\ Q!ByteAt(data, 2 + 3) = h[3 + 1]
        /\ Q!ByteAt(data, 2 + 4) = h[4 + 1] /\ Q!ByteAt(data, 2 + 5) = h[5 + 1]
    BY <2>1, <2>2, Zenon
  <2> QED BY <1>1, <2>2, <2>3
<1>6. Q!Short(data, 4) = 0 /\ Q!Short(data, 6) = 0
  <2>1. 256 * 0 + 0 = 0
    OBVIOUS
  <2> QED BY <1>5, <2>1, Zenon DEF Q!Short
<1>7. Q!DecodeHeader(data) = [reqNo |-> q, qdcount |-> 0, ancount |-> 0]
  <2>1. Q!DecodeHeader(data)
          = [reqNo |-> Q!Short(data, 2 * 0), qdcount |-> Q!Short(data, 2 * 2),
             ancount |-> Q!Short(data, 2 * 3)]
    BY <1>4 DEF Q!DecodeHeader, Q!HeaderSize
  <2>2. 2 * 2 = 4 /\ 2 * 3 = 6
    OBVIOUS
  <2>3. q = Q!Short(data, 2 * 0)
    BY <2>1
  <2> QED BY <1>6, <2>1, <2>2, <2>3
<1> HIDE DEF q
<1> DEFINE ans == Q!Decode(data)
<1>8. ans = ReplyOf(q, <<>>, <<>>, 12)
  BY <1>7, EmptyIsDecoded
<1> HIDE DEF ans
<1>9. ans.name = <<>> /\ ans.addr = <<>>
  BY <1>8 DEF ReplyOf
<1> QED BY <1>9 DEF ans, data

(* Of every datagram the nameserver may send, decode finds the name that   *)
(* was asked (none in an error) and the first address.                     *)
LEMMA AnswerIsHeard ==
  ASSUME QuestionAssumption, NEW name \in Asked, NEW t \in Type, NEW reply \in Reply
  PROVE  LET ans == Decoded[name][t][reply]
             i == SelectInSeq(reply[2], LAMBDA kind : kind = "address")
         IN  /\ ans.name = IF reply[1] = "error" THEN <<>> ELSE Dotted[name]
             /\ ans.addr = IF i = 0 THEN <<>> ELSE <<Address(t, i)>>
<1> DEFINE ans == Decoded[name][t][reply]
           i == First(reply[2])
<1> SUFFICES /\ ans.name = IF reply[1] = "error" THEN <<>> ELSE Dotted[name]
             /\ ans.addr = IF i = 0 THEN <<>> ELSE <<Address(t, i)>>
  BY DEF First
<1>1. ans = Q!Decode(OnWire(name, t, reply))
  BY DEF Decoded
<1>2. \/ reply = <<"error", <<>>>>
      \/ \E kinds \in {<<>>, <<"address">>, <<"alias", "address">>, <<"address", "address">>} :
           reply = <<"answer", kinds>>
  BY DEF Reply
<1> HIDE DEF ans
<1>3. CASE reply = <<"error", <<>>>>
  <2>1. ans.name = <<>> /\ ans.addr = <<>>
    BY <1>1, <1>3, ErrorIsDecoded, Zenon
  <2>2. i = 0
    BY <1>3, FirstOfThese
  <2>3. reply[1] = "error"
    BY <1>3
  <2> HIDE DEF i
  <2> QED BY <2>1, <2>2, <2>3
<1>4. ASSUME NEW kinds \in {<<>>, <<"address">>, <<"alias", "address">>, <<"address", "address">>},
             reply = <<"answer", kinds>>
      PROVE  /\ ans.name = IF reply[1] = "error" THEN <<>> ELSE Dotted[name]
             /\ ans.addr = IF i = 0 THEN <<>> ELSE <<Address(t, i)>>
  <2> DEFINE k == First(kinds)
  <2>1. ans.name = Dotted[name] /\ ans.addr = IF k = 0 THEN <<>> ELSE <<Address(t, k)>>
    BY <1>1, <1>4, AnswerIsDecoded
  <2>2. reply[1] # "error" /\ i = k
    BY <1>4
  <2> HIDE DEF i, k
  <2> QED BY <2>1, <2>2
<1> QED BY <1>2, <1>3, <1>4
-----------------------------------------------------------------------------
(* The question: encodeName lays a name out as its own bytes, and the      *)
(* datagram is the one a nameserver understands.                           *)

(* A label in the text goes on for as long as its length says, up to the   *)
(* next dot or the end.                                                    *)
LEMMA LabelRuns ==
  ASSUME NEW wire, NEW text, NEW left, Laid(wire, text, left),
         NEW k \in 1 .. Len(wire)
  PROVE  /\ left[k] \in 0 .. 63 /\ k + left[k] <= Len(wire)
         /\ \A j \in 1 .. left[k] : text[k + j] # Q!Dot
         /\ k + left[k] < Len(wire) => text[k + left[k] + 1] = Q!Dot
<1> DEFINE n == Len(wire)
           l == left[k]
           P(j) == /\ k + j <= n /\ left[k + j] = l - j
                   /\ \A i \in 1 .. j : text[k + i] # Q!Dot
           T == {j \in Nat : j > l \/ P(j)}
<1>1. /\ n \in Nat /\ k \in 1 .. n /\ left[n] = 0
      /\ \A i \in 1 .. n : left[i] \in 0 .. 63
  <2>1. /\ left \in Seq(0 .. 63) /\ Len(left) = n /\ wire \in Seq(0 .. 255)
        /\ k \in 1 .. n /\ left[n] = 0
    BY Zenon DEF Laid
  <2> HIDE DEF n
  <2>2. n \in Nat
    BY <2>1
  <2> DEFINE S == 0 .. 63
  <2>3. left \in Seq(S) /\ Len(left) = n
    BY <2>1
  <2> HIDE DEF S
  <2>4. \A i \in 1 .. n : left[i] \in S
    BY <2>3
  <2> QED BY <2>1, <2>2, <2>4 DEF S
<1>2. \A i \in 1 .. n - 1 :
        IF left[i] = 0
        THEN text[i + 1] = Q!Dot
        ELSE text[i + 1] # Q!Dot /\ left[i + 1] = left[i] - 1
  BY DEF Laid, Letter
<1>3. l \in 0 .. 63
  BY <1>1
<1> HIDE DEF n, l
<1>4. 0 \in T
  <2>1. k + 0 = k /\ l - 0 = l /\ k <= n
    BY <1>1, <1>3
  <2>2. P(0)
    BY <2>1 DEF l
  <2> HIDE DEF P
  <2> QED BY <2>2
<1>5. ASSUME NEW j \in Nat, j \in T
      PROVE  j + 1 \in T
  <2>1. CASE j + 1 > l
    BY <2>1
  <2>2. CASE ~(j + 1 > l)
    <3>1. P(j) /\ l - j # 0
      BY <1>3, <1>5, <2>2
    <3>2. k + j \in 1 .. n - 1 /\ (k + j) + 1 = k + (j + 1)
      BY <1>1, <3>1
    <3>3. text[k + (j + 1)] # Q!Dot /\ left[k + (j + 1)] = (l - j) - 1
      BY <1>2, <3>1, <3>2
    <3>4. k + (j + 1) <= n /\ (l - j) - 1 = l - (j + 1)
      BY <1>1, <1>3, <3>2
    <3>5. \A i \in 1 .. j + 1 : i \in 1 .. j \/ i = j + 1
      OBVIOUS
    <3>6. \A i \in 1 .. j + 1 : text[k + i] # Q!Dot
      BY <3>1, <3>3, <3>5
    <3>7. P(j + 1)
      BY <3>3, <3>4, <3>6
    <3> HIDE DEF P
    <3> QED BY <3>7
  <2> QED BY <2>1, <2>2
<1>6. \A j \in Nat : j \in T
  <2> HIDE DEF T
  <2> QED BY <1>4, <1>5, NumberInduction
<1>7. P(l)
  <2> HIDE DEF P
  <2> QED BY <1>3, <1>6
<1>8. left[k + l] = 0
  BY <1>3, <1>7
<1>9. k + l < n => text[k + l + 1] = Q!Dot
  <2>1. SUFFICES ASSUME k + l < n PROVE text[k + l + 1] = Q!Dot
    OBVIOUS
  <2>2. k + l \in 1 .. n - 1
    BY <1>1, <1>3, <2>1
  <2> QED BY <1>2, <1>8, <2>2
<1> QED BY <1>3, <1>7, <1>9 DEF l, n

(* Query's Min is the least of a set of numbers.                           *)
LEMMA QueryMin ==
  ASSUME NEW T, T \subseteq Nat, T # {}
  PROVE  Q!Min(T) \in T /\ \A m \in T : Q!Min(T) <= m
BY LeastNumber DEF Q!Min

(* FindDot, from any place in a name on, finds the end of the label there. *)
LEMMA NextDot ==
  ASSUME NEW wire, NEW text, NEW left, Laid(wire, text, left),
         NEW k \in 1 .. Len(wire)
  PROVE  LET next == Q!FindDot(Tail(text), k - 1)
         IN  /\ k + left[k] < Len(wire) => next = (k - 1) + left[k]
             /\ ~(k + left[k] < Len(wire)) => next = Q!Npos /\ k + left[k] = Len(wire)
<1> DEFINE n == Len(wire)
           l == left[k]
           name == Tail(text)
           dots == {i \in k - 1 .. Len(name) - 1 : name[i + 1] = Q!Dot}
<1>1. /\ n \in Nat /\ n > 1 /\ k \in 1 .. n /\ Len(name) = n - 1
      /\ \A i \in 1 .. n - 1 : name[i] = text[i + 1]
  BY DEF Laid
<1>2. /\ l \in 0 .. 63 /\ k + l <= n
      /\ \A j \in 1 .. l : text[k + j] # Q!Dot
      /\ k + l < n => text[k + l + 1] = Q!Dot
  BY LabelRuns
<1> HIDE DEF l, n, name
<1>3. dots \subseteq Nat
  BY <1>1
<1>4. ASSUME NEW i \in dots
      PROVE  (k - 1) + l <= i /\ i <= n - 2 /\ i \in Nat
  <2>1. i \in k - 1 .. n - 2 /\ name[i + 1] = Q!Dot
    BY <1>1
  <2>2. i + 1 \in 1 .. n - 1 /\ (i + 1) + 1 = k + ((i + 2) - k) /\ (i + 2) - k \in Nat
        /\ (i + 2) - k >= 1
    BY <1>1, <2>1
  <2>3. text[k + ((i + 2) - k)] = Q!Dot
    BY <1>1, <2>1, <2>2
  <2>4. ~((i + 2) - k \in 1 .. l)
    BY <1>2, <2>3
  <2> QED BY <1>1, <1>2, <2>1, <2>2, <2>4
<1>5. Q!FindDot(name, k - 1) = IF dots = {} THEN Q!Npos ELSE Q!Min(dots)
  BY DEF Q!FindDot
<1>6. ASSUME k + l < n
      PROVE  Q!FindDot(name, k - 1) = (k - 1) + l
  <2> DEFINE p == (k - 1) + l
  <2>1. p \in k - 1 .. n - 2 /\ p + 1 \in 1 .. n - 1 /\ (p + 1) + 1 = k + l + 1
    BY <1>1, <1>2, <1>6
  <2>2. name[p + 1] = Q!Dot
    BY <1>1, <1>2, <1>6, <2>1
  <2>3. p \in dots
    BY <1>1, <2>1, <2>2
  <2>4. Q!Min(dots) \in dots /\ Q!Min(dots) <= p
    <3> HIDE DEF dots, p
    <3> QED BY <1>3, <2>3, QueryMin
  <2>5. p <= Q!Min(dots) /\ Q!Min(dots) \in Nat
    BY <1>4, <2>4
  <2> HIDE DEF dots
  <2>6. Q!Min(dots) = p
    <3>1. p \in Nat
      BY <1>1, <1>2
    <3>2. \A a, b \in Nat : a <= b /\ b <= a => a = b
      OBVIOUS
    <3> HIDE DEF p
    <3> QED BY <2>4, <2>5, <3>1, <3>2, Zenon
  <2> QED BY <1>5, <2>3, <2>6
<1>7. ASSUME ~(k + l < n)
      PROVE  Q!FindDot(name, k - 1) = Q!Npos /\ k + l = n
  <2>1. k + l = n
    BY <1>1, <1>2, <1>7
  <2>2. dots = {}
    <3> HIDE DEF dots
    <3>1. \A i \in dots : FALSE
      BY <1>1, <1>2, <1>4, <2>1
    <3> QED BY <3>1
  <2> QED BY <1>5, <2>1, <2>2
<1> QED BY <1>6, <1>7 DEF n, l, name

(* getLen, after the dot before a label, finds the label's length.         *)
LEMMA LengthIsFound ==
  ASSUME NEW wire, NEW text, NEW left, Laid(wire, text, left),
         NEW k \in 3 .. Len(wire)
  PROVE  Q!GetLen(Tail(text), k - 2)
           = [dotPos |-> Q!FindDot(Tail(text), k - 1), len |-> left[k]]
<1> DEFINE n == Len(wire)
           l == left[k]
           name == Tail(text)
           dotPos == Q!FindDot(name, k - 1)
<1>1. n \in Nat /\ n > 1 /\ k \in 3 .. n /\ k \in 1 .. n /\ Len(name) = n - 1
  BY DEF Laid
<1>2. l \in 0 .. 63
  BY <1>1, LabelRuns
<1>3. /\ k + l < n => dotPos = (k - 1) + l
      /\ ~(k + l < n) => dotPos = Q!Npos /\ k + l = n
  BY <1>1, NextDot
<1> HIDE DEF n, l, name, dotPos
<1>4. Q!LabelLen(name, k - 2, dotPos) = l
  BY <1>1, <1>2, <1>3 DEF Q!LabelLen, Q!Npos
<1>5. (k - 2) + 1 = k - 1 /\ ~(l >= 64)
  BY <1>1, <1>2
<1>6. Q!GetLen(name, k - 2) = [dotPos |-> dotPos, len |-> l]
  BY <1>4, <1>5 DEF Q!GetLen, Q!MaxDomainLen, dotPos
<1> QED BY <1>6 DEF dotPos, l, name

(* Of the first label it does when there is a second.                      *)
LEMMA FirstLengthIsFound ==
  ASSUME NEW wire, NEW text, NEW left, Laid(wire, text, left), 1 + left[1] < Len(wire)
  PROVE  Q!GetLen(Tail(text), 0)
           = [dotPos |-> Q!FindDot(Tail(text), 0), len |-> left[1]]
<1> DEFINE n == Len(wire)
           l == left[1]
           name == Tail(text)
           dotPos == Q!FindDot(name, 1)
<1>1. /\ n \in Nat /\ n > 1 /\ 1 \in 1 .. n /\ 2 \in 1 .. n /\ Len(name) = n - 1
      /\ l \in 1 .. 63 /\ left[2] = l - 1
  <2>1. n \in Nat /\ n > 1 /\ Len(name) = n - 1 /\ l \in 1 .. 63
    BY DEF Laid
  <2>2. \A i \in 1 .. n - 1 : left[i] # 0 => left[i + 1] = left[i] - 1
    BY DEF Laid
  <2> HIDE DEF n, name
  <2>3. 1 \in 1 .. n - 1 /\ 1 + 1 = 2 /\ l # 0 /\ 1 \in 1 .. n /\ 2 \in 1 .. n
    <3> HIDE DEF l
    <3> QED BY <2>1
  <2>4. left[1 + 1] = left[1] - 1
    BY <2>2, <2>3
  <2> QED BY <2>1, <2>3, <2>4
<1>2. dotPos = l
  <2>1. 2 + left[2] < n /\ (2 - 1) + left[2] = l /\ 2 - 1 = 1
    <3>1. 1 + l < n
      OBVIOUS
    <3> HIDE DEF n, l
    <3> QED BY <1>1, <3>1
  <2>2. Q!FindDot(name, 2 - 1) = (2 - 1) + left[2]
    BY <1>1, <2>1, NextDot
  <2> QED BY <2>1, <2>2
<1>3. Q!FindDot(name, 0) = l
  <2>1. Q!FindDot(name, 1 - 1) = (1 - 1) + left[1]
    BY <1>1, NextDot
  <2>2. 1 - 1 = 0 /\ 0 + l = l
    <3> HIDE DEF l
    <3> QED BY <1>1
  <2> QED BY <2>1, <2>2, Zenon
<1> HIDE DEF n, l, name, dotPos
<1>4. Q!LabelLen(name, 0, dotPos) = l
  BY <1>1, <1>2 DEF Q!LabelLen, Q!Npos
<1>5. 0 + 1 = 1 /\ ~(l >= 64)
  BY <1>1
<1>6. Q!GetLen(name, 0) = [dotPos |-> dotPos, len |-> l]
  BY <1>4, <1>5 DEF Q!GetLen, Q!MaxDomainLen, dotPos
<1> QED BY <1>2, <1>3, <1>6 DEF l, name

(* The first byte of a sequence, by itself.                                *)
LEMMA OneByte ==
  ASSUME NEW S, NEW w \in Seq(S), Len(w) >= 1
  PROVE  SubSeq(w, 1, 1) = <<w[1]>>
<1>1. SubSeq(w, 1, 1) = [j \in 1 .. 1 |-> w[j]]
  OBVIOUS
<1>2. [j \in 1 .. 1 |-> w[j]] = <<w[1]>>
  OBVIOUS
<1> QED BY <1>1, <1>2

(* A part of a sequence, one byte longer.                                  *)
LEMMA OneMore ==
  ASSUME NEW S, NEW w \in Seq(S), NEW i \in 1 .. Len(w) - 1
  PROVE  Append(SubSeq(w, 1, i), w[i + 1]) = SubSeq(w, 1, i + 1)
<1>1. SubSeq(w, 1, i) = [j \in 1 .. i |-> w[j]] /\ SubSeq(w, 1, i + 1) = [j \in 1 .. i + 1 |-> w[j]]
  OBVIOUS
<1> DEFINE u == [j \in 1 .. i |-> w[j]]
           v == [j \in 1 .. i + 1 |-> w[j]]
<1>2. u \in Seq(S) /\ v \in Seq(S) /\ Len(u) = i /\ Len(v) = i + 1 /\ w[i + 1] \in S
  OBVIOUS
<1> DEFINE x == Append(u, w[i + 1])
<1>3. x \in Seq(S) /\ Len(x) = i + 1 /\ x[i + 1] = w[i + 1] /\ \A j \in 1 .. i : x[j] = u[j]
  BY <1>2
<1>4. \A j \in 1 .. i + 1 : x[j] = v[j]
  <2>1. \A j \in 1 .. i + 1 : v[j] = w[j] /\ (j # i + 1 => j \in 1 .. i /\ u[j] = w[j])
    OBVIOUS
  <2> HIDE DEF u, v, x
  <2> QED BY <1>3, <2>1
<1> HIDE DEF u, v, x
<1>5. x = v
  BY <1>2, <1>3, <1>4, SeqEqual
<1> QED BY <1>1, <1>5 DEF u, v, x

(* encodeName, one byte after another, lays the name on the wire.          *)
LEMMA NameIsEncoded ==
  ASSUME NEW wire, NEW text, NEW left, Laid(wire, text, left), 1 + left[1] < Len(wire)
  PROVE  Q!EncodeName(Tail(text)) = Append(wire, 0)
<1> DEFINE name == Tail(text)
           n == Len(name)
           after(i) == [len |-> left[i + 1], prevDotPos |-> Q!FindDot(name, i),
                        query |-> SubSeq(wire, 1, i + 1)]
           first == Q!EncodeLabel(name, [len |-> 0, prevDotPos |-> 0, query |-> <<>>])
           IsEncode(f) == f = [i \in 0 .. n |-> IF i = 0 THEN first
                                                ELSE Q!EncodeByte(name, f[i - 1], name[i])]
           encode == CHOOSE f : IsEncode(f)
<1>1. /\ wire \in Seq(0 .. 255) /\ n \in Nat /\ n >= 1 /\ Len(wire) = n + 1
      /\ \A i \in 1 .. n : name[i] = text[i + 1]
  BY DEF Laid
<1>2. \A i \in 1 .. n :
        IF left[i] = 0
        THEN text[i + 1] = Q!Dot /\ wire[i + 1] = left[i + 1]
        ELSE /\ text[i + 1] # Q!Dot /\ text[i + 1] = wire[i + 1]
             /\ left[i + 1] = left[i] - 1
  BY <1>1 DEF Laid, Letter
<1>3. wire[1] = left[1] /\ left[1] # 0
  <2>1. wire[1] = left[1] /\ left[1] \in 1 .. 63
    BY DEF Laid
  <2>2. \A l \in 1 .. 63 : l # 0
    OBVIOUS
  <2> QED BY <2>1, <2>2, Zenon
<1>4. \A i \in 1 .. n : left[i] \in 0 .. 63 /\ i \in 1 .. Len(wire) /\ i + 1 \in 1 .. Len(wire)
  <2> TAKE i \in 1 .. n
  <2>1. i \in 1 .. Len(wire) /\ i + 1 \in 1 .. Len(wire)
    BY <1>1
  <2> QED BY <2>1, LabelRuns
<1>5. Q!EncodeName(name) = Append(encode[n].query, 0)
  BY Zenon DEF Q!EncodeName
<1> HIDE DEF name, n
<1>6. first = after(0)
  <2>1. Q!GetLen(name, 0) = [dotPos |-> Q!FindDot(name, 0), len |-> left[1]]
    BY FirstLengthIsFound DEF name
  <2>2. SubSeq(wire, 1, 0 + 1) = <<wire[1]>> /\ 0 + 1 = 1
    <3>1. Len(wire) >= 1
      BY <1>1
    <3> QED BY <1>1, <3>1, OneByte
  <2>3. Append(<<>>, left[1]) = <<left[1]>>
    OBVIOUS
  <2> QED BY <1>3, <2>1, <2>2, <2>3 DEF Q!EncodeLabel
<1>7. ASSUME NEW i \in 1 .. n
      PROVE  Q!EncodeByte(name, after(i - 1), name[i]) = after(i)
  <2> DEFINE s == after(i - 1)
             d == Q!FindDot(name, i)
             q == SubSeq(wire, 1, i)
  <2>1. i \in Nat /\ (i - 1) + 1 = i /\ i \in 1 .. Len(wire) - 1
    BY <1>1
  <2>2. s = [len |-> left[i], prevDotPos |-> Q!FindDot(name, i - 1), query |-> q]
    BY <2>1
  <2>3. Append(q, wire[i + 1]) = SubSeq(wire, 1, i + 1)
    BY <1>1, <2>1, OneMore
  <2>4. /\ i + left[i] < Len(wire) => Q!FindDot(name, i - 1) = (i - 1) + left[i]
        /\ ~(i + left[i] < Len(wire)) => Q!FindDot(name, i - 1) = Q!Npos /\ i + left[i] = Len(wire)
    BY <1>4, NextDot DEF name
  <2>5. CASE left[i] = 0
    <3>1. name[i] = Q!Dot /\ wire[i + 1] = left[i + 1]
      BY <1>1, <1>2, <2>5
    <3>2. i # 1 /\ i + 0 < Len(wire) /\ (i - 1) + 0 = i - 1
      <4> HIDE DEF s, d, q, after
      <4>1. i # 1
        BY <1>3, <2>5, Zenon
      <4>2. i + 0 < n + 1 /\ (i - 1) + 0 = i - 1
        BY <1>1
      <4> QED BY <1>1, <4>1, <4>2, Zenon
    <3>3. i + 1 \in 3 .. Len(wire) /\ (i + 1) - 2 = i - 1 /\ (i + 1) - 1 = i
      BY <1>1, <2>1, <3>2
    <3>4. Q!GetLen(name, i - 1) = [dotPos |-> d, len |-> left[i + 1]]
      <4> HIDE DEF d
      <4>1. Q!GetLen(name, (i + 1) - 2)
              = [dotPos |-> Q!FindDot(name, (i + 1) - 1), len |-> left[i + 1]]
        BY <3>3, LengthIsFound DEF name
      <4> QED BY <3>3, <4>1 DEF d
    <3>5. s.prevDotPos = i - 1 /\ s.query = q
      BY <2>2, <2>4, <2>5, <3>2
    <3> HIDE DEF s, d, q
    <3>6. Q!EncodeLabel(name, s)
            = [len |-> left[i + 1], prevDotPos |-> d, query |-> Append(q, left[i + 1])]
      <4> DEFINE l == Q!GetLen(name, s.prevDotPos)
      <4>1. Q!EncodeLabel(name, s)
              = [len |-> l.len, prevDotPos |-> l.dotPos, query |-> Append(s.query, l.len)]
        BY Zenon DEF Q!EncodeLabel
      <4>2. l = [dotPos |-> d, len |-> left[i + 1]]
        BY <3>4, <3>5, Zenon
      <4> HIDE DEF l
      <4>3. l.dotPos = d /\ l.len = left[i + 1]
        BY <4>2
      <4> QED BY <3>5, <4>1, <4>3
    <3>7. Q!EncodeByte(name, s, name[i]) = Q!EncodeLabel(name, s)
      BY <3>1, Zenon DEF Q!EncodeByte
    <3> QED BY <2>3, <3>1, <3>6, <3>7 DEF s, d
  <2>6. CASE left[i] # 0
    <3>1. /\ name[i] # Q!Dot /\ name[i] = wire[i + 1] /\ left[i + 1] = left[i] - 1
          /\ left[i] # Q!Npos /\ left[i] \in 1 .. 63
      <4>1. left[i] \in 1 .. 63 /\ left[i] # -1
        <5> DEFINE m == left[i]
        <5>1. m \in 0 .. 63 /\ m # 0
          BY <1>4, <2>6
        <5> HIDE DEF m
        <5>2. m \in 1 .. 63 /\ m # -1
          BY <5>1
        <5> QED BY <5>2 DEF m
      <4> QED BY <1>1, <1>2, <2>6, <4>1 DEF Q!Npos
    <3>2. Q!FindDot(name, i - 1) = d
      <4>1. /\ (i + 1) + left[i + 1] < Len(wire) => d = i + left[i + 1]
            /\ ~((i + 1) + left[i + 1] < Len(wire)) => d = Q!Npos
        <5>1. (i + 1) - 1 = i
          BY <2>1
        <5> QED BY <1>4, <5>1, NextDot DEF name
      <4> DEFINE m == left[i]
      <4>2. m \in 1 .. 63 /\ (i + 1) + (m - 1) = i + m /\ i + (m - 1) = (i - 1) + m
        <5>1. m \in 1 .. 63 /\ i \in Nat
          BY <2>1, <3>1
        <5> HIDE DEF m
        <5>2. \A x \in Nat, y \in 1 .. 63 : /\ (x + 1) + (y - 1) = x + y
                                            /\ x + (y - 1) = (x - 1) + y
          OBVIOUS
        <5> QED BY <5>1, <5>2
      <4> HIDE DEF d
      <4> QED BY <2>4, <3>1, <4>1, <4>2
    <3> HIDE DEF d, q
    <3>3. s.query = q /\ s.len = left[i]
      BY <2>2
    <3>4. [s EXCEPT !.query = Append(@, name[i]), !.len = @ - 1]
            = [len |-> left[i] - 1, prevDotPos |-> d, query |-> Append(q, name[i])]
      <4> DEFINE a == Append(q, name[i])
                 z == left[i] - 1
                 s1 == [len |-> left[i], prevDotPos |-> d, query |-> a]
      <4>1. s = [len |-> left[i], prevDotPos |-> d, query |-> q]
        BY <2>2, <3>2
      <4> HIDE DEF s, a, z
      <4>2. [s EXCEPT !.query = a] = s1
        BY <4>1
      <4>3. [s1 EXCEPT !.len = z] = [len |-> z, prevDotPos |-> d, query |-> a]
        OBVIOUS
      <4> HIDE DEF s1
      <4>4. [s EXCEPT !.query = a, !.len = z] = [[s EXCEPT !.query = a] EXCEPT !.len = z]
        OBVIOUS
      <4>5. [s EXCEPT !.query = Append(@, name[i]), !.len = @ - 1]
              = [s EXCEPT !.query = a, !.len = z]
        BY <3>3 DEF a, z
      <4> QED BY <4>2, <4>3, <4>4, <4>5 DEF a, z
    <3> HIDE DEF s
    <3>5. Q!EncodeByte(name, s, name[i])
            = [s EXCEPT !.query = Append(@, name[i]), !.len = @ - 1]
      BY <3>1, <3>3, Zenon DEF Q!EncodeByte
    <3>6. [len |-> left[i] - 1, prevDotPos |-> d, query |-> Append(q, name[i])] = after(i)
      BY <2>3, <3>1 DEF d
    <3> QED BY <3>4, <3>5, <3>6, Zenon DEF s
  <2> QED BY <2>5, <2>6
<1> HIDE DEF first
<1>8. IsEncode(encode)
  <2> DEFINE f == [i \in 0 .. n |-> after(i)]
  <2>1. \A i \in 0 .. n : /\ f[i] = after(i)
                          /\ i # 0 => i \in 1 .. n /\ i - 1 \in 0 .. n
    BY <1>1
  <2>2. f = [i \in 0 .. n |-> f[i]]
    OBVIOUS
  <2> HIDE DEF f, after
  <2>3. ASSUME NEW i \in 0 .. n
        PROVE  f[i] = IF i = 0 THEN first ELSE Q!EncodeByte(name, f[i - 1], name[i])
    <3>1. CASE i = 0
      BY <1>6, <2>1, <3>1
    <3>2. CASE i # 0
      BY <1>7, <2>1, <3>2, Zenon
    <3> QED BY <3>1, <3>2
  <2>4. IsEncode(f)
    BY <2>2, <2>3
  <2> HIDE DEF IsEncode
  <2> QED BY <2>4
<1> HIDE DEF encode
<1>9. /\ encode[0] = first
      /\ \A i \in 1 .. n : encode[i] = Q!EncodeByte(name, encode[i - 1], name[i])
  <2>1. 0 \in 0 .. n /\ \A i \in 1 .. n : i \in 0 .. n /\ i # 0
    BY <1>1
  <2> QED BY <1>8, <2>1
<1> HIDE DEF after, IsEncode
<1> DEFINE T == {i \in Nat : i > n \/ encode[i] = after(i)}
<1>10. 0 \in T
  BY <1>6, <1>9
<1>11. ASSUME NEW i \in Nat, i \in T
       PROVE  i + 1 \in T
  <2>1. CASE i + 1 > n
    BY <2>1
  <2>2. CASE ~(i + 1 > n)
    <3>1. i + 1 \in 1 .. n /\ (i + 1) - 1 = i /\ encode[i] = after(i)
      BY <1>1, <1>11, <2>2
    <3>2. encode[i + 1] = Q!EncodeByte(name, encode[(i + 1) - 1], name[i + 1])
      BY <1>9, <3>1
    <3>3. Q!EncodeByte(name, after((i + 1) - 1), name[i + 1]) = after(i + 1)
      BY <1>7, <3>1, Zenon
    <3> QED BY <3>1, <3>2, <3>3
  <2> QED BY <2>1, <2>2
<1>12. \A i \in Nat : i \in T
  <2> HIDE DEF T
  <2> QED BY <1>10, <1>11, NumberInduction
<1>13. encode[n] = after(n)
  BY <1>1, <1>12
<1>14. encode[n].query = SubSeq(wire, 1, n + 1)
  <2>1. after(n).query = SubSeq(wire, 1, n + 1)
    BY DEF after
  <2> QED BY <1>13, <2>1, Zenon
<1>15. SubSeq(wire, 1, n + 1) = wire
  BY <1>1
<1> QED BY <1>5, <1>14, <1>15 DEF name

(* A name of two labels or more is laid beyond the first of them.          *)
LEMMA MoreLabels ==
  ASSUME QuestionAssumption, NEW name \in Asked, Len(name) > 1,
         NEW left, Laid(Wire(name), Text(name), left)
  PROVE  1 + left[1] < Len(Wire(name))
<1> DEFINE text == Text(name)
           n == Len(Wire(name))
           l == left[1]
           m == Len(name)
<1>1. /\ n \in Nat /\ n > 1 /\ 1 \in 1 .. n /\ Len(text) = n /\ l \in 0 .. 63 /\ 1 + l <= n
      /\ \A j \in 1 .. l : text[1 + j] # Q!Dot
  <2>1. Len(text) = n /\ n \in Nat /\ n > 1
    BY DEF Laid
  <2>2. 1 \in 1 .. n
    <3> HIDE DEF n
    <3> QED BY <2>1
  <2> QED BY <2>1, <2>2, LabelRuns
<1>2. PICK at : Placed(name, text, at)
  BY LabelsArePlaced
<1>3. name \in Seq(Seq(Letter)) /\ m \in Nat
  BY DEF QuestionAssumption
<1>4. /\ at[0] = 0 /\ at \in [0 .. m -> Nat]
      /\ \A i \in 1 .. m :
           /\ Len(name[i]) \in 1 .. 63
           /\ at[i] = at[i - 1] + 1 + Len(name[i]) /\ at[i] <= Len(text)
           /\ text[at[i - 1] + 1] = Q!Dot
  BY <1>2, Zenon DEF Placed
<1>5. 1 \in 1 .. m /\ 2 \in 1 .. m /\ 1 - 1 = 0 /\ 2 - 1 = 1 /\ 1 \in 0 .. m
  <2> HIDE DEF m
  <2> QED BY <1>3 DEF m
<1> DEFINE a == at[1]
           u == Len(name[1])
           v == Len(name[2])
<1>6. /\ a = 0 + 1 + u /\ u \in 1 .. 63 /\ at[2] = a + 1 + v /\ v \in 1 .. 63
      /\ at[2] <= Len(text) /\ text[a + 1] = Q!Dot
  BY <1>4, <1>5, Zenon
<1> HIDE DEF a, u, v, l, n, text, m
<1>7. a \in Nat /\ a >= 1 /\ a + 1 = 1 + a /\ a < n
  BY <1>1, <1>6
<1>8. ~(a \in 1 .. l)
  BY <1>1, <1>6, <1>7
<1>9. a > l
  BY <1>1, <1>7, <1>8
<1>10. 1 + l < n
  BY <1>1, <1>7, <1>9
<1> QED BY <1>10 DEF l, n

(* The flags of a recursive query are one bit.                             *)
LEMMA FlagsAreRecursive == Q!ReqFlags = 256
<1> DEFINE qr == Q!SetBits(0, 15, 1, 0)
           opcode == Q!SetBits(qr, 11, 4, 0)
           tc == Q!SetBits(opcode, 9, 1, 0)
           rd == Q!SetBits(tc, 8, 1, 1)
           ra == Q!SetBits(rd, 7, 1, 0)
<1>1. /\ 2 ^ 15 = 32768 /\ 2 ^ 11 = 2048 /\ 2 ^ 10 = 1024 /\ 2 ^ 9 = 512 /\ 2 ^ 8 = 256
      /\ 2 ^ 7 = 128 /\ 2 ^ 4 = 16 /\ 2 ^ 1 = 2
  OBVIOUS
<1>2. qr = 0
  BY <1>1 DEF Q!SetBits
<1> HIDE DEF qr
<1>3. opcode = 0
  BY <1>1, <1>2 DEF Q!SetBits
<1> HIDE DEF opcode
<1>4. tc = 0
  BY <1>1, <1>3 DEF Q!SetBits
<1> HIDE DEF tc
<1>5. rd = 256
  BY <1>1, <1>4 DEF Q!SetBits
<1> HIDE DEF rd
<1>6. ra = 256
  BY <1>1, <1>5 DEF Q!SetBits
<1> HIDE DEF ra
<1>7. Q!SetBits(ra, 10, 1, 0) = 256
  BY <1>1, <1>6 DEF Q!SetBits
<1> QED BY <1>7 DEF Q!ReqFlags, ra, rd, tc, opcode, qr

(* The twelve bytes of a question's header.                                *)
LEMMA HeaderIsEncoded ==
  ASSUME QuestionAssumption
  PROVE  FlattenSeq([i \in 1 .. 6 |->
                       Q!NetworkEndian(<<FirstRequest, Q!ReqFlags, 1, 0, 0, 0>>[i])])
           = Id \o <<1, 0, 0, 1, 0, 0, 0, 0, 0, 0>>
<1> DEFINE seqs == [i \in 1 .. 6 |-> Q!NetworkEndian(<<FirstRequest, Q!ReqFlags, 1, 0, 0, 0>>[i])]
           flat == FlattenSeq(seqs)
           h == <<1, 0, 0, 1, 0, 0, 0, 0, 0, 0>>
           one == <<1, 0>>
           zero == <<0, 0>>
           next == <<0, 1>>
<1>1. /\ seqs[1] = Id /\ seqs[2] = one /\ seqs[3] = next
      /\ seqs[4] = zero /\ seqs[5] = zero /\ seqs[6] = zero
  <2>1. /\ 256 \div 256 = 1 /\ 256 % 256 = 0 /\ 1 \div 256 = 0 /\ 1 % 256 = 1
        /\ 0 \div 256 = 0 /\ 0 % 256 = 0
    OBVIOUS
  <2>2. /\ seqs[1] = Q!NetworkEndian(FirstRequest) /\ seqs[2] = Q!NetworkEndian(Q!ReqFlags)
        /\ seqs[3] = Q!NetworkEndian(1) /\ seqs[4] = Q!NetworkEndian(0)
        /\ seqs[5] = Q!NetworkEndian(0) /\ seqs[6] = Q!NetworkEndian(0)
    OBVIOUS
  <2> HIDE DEF seqs
  <2> QED BY <2>1, <2>2, FlagsAreRecursive DEF Q!NetworkEndian, Id
<1>2. /\ Id \in Seq(Octet) /\ Len(Id) = 2
      /\ one \in Seq(Octet) /\ next \in Seq(Octet) /\ zero \in Seq(Octet)
      /\ h \in Seq(Octet) /\ Len(h) = 10
  BY IdIsBytes, Octets
<1>3. seqs \in Seq(Seq(Octet)) /\ Len(seqs) = 6 /\ seqs # <<>>
  <2>1. \A i \in 1 .. 6 : i = 1 \/ i = 2 \/ i = 3 \/ i = 4 \/ i = 5 \/ i = 6
    OBVIOUS
  <2>2. \A i \in 1 .. 6 : seqs[i] \in Seq(Octet)
    <3> HIDE DEF seqs, one, next, zero
    <3> QED BY <1>1, <1>2, <2>1
  <2>3. seqs = [i \in 1 .. 6 |-> seqs[i]]
    OBVIOUS
  <2> HIDE DEF seqs
  <2>4. seqs \in [1 .. 6 -> Seq(Octet)]
    BY <2>2, <2>3
  <2>5. 6 \in Nat
    OBVIOUS
  <2> DEFINE k == 6
             S == Seq(Octet)
  <2>6. seqs \in Seq(S) /\ Len(seqs) = k
    <3>1. k \in Nat /\ seqs \in [1 .. k -> S]
      BY <2>4, <2>5
    <3> HIDE DEF k, S
    <3> QED BY <3>1, SequenceOf
  <2> QED BY <2>6
<1> HIDE DEF seqs
<1>4. PICK at \in [0 .. 6 -> Nat] :
        /\ at[0] = 0 /\ at[6] = Len(flat) /\ flat \in Seq(Octet)
        /\ \A i \in 1 .. 6 :
             /\ at[i] = at[i - 1] + Len(seqs[i])
             /\ \A k \in 1 .. Len(seqs[i]) : flat[at[i - 1] + k] = seqs[i][k]
  <2> DEFINE P(n) == \E at \in [0 .. n -> Nat] :
                       /\ at[0] = 0 /\ at[n] = Len(FlattenSeq(seqs))
                       /\ \A i \in 1 .. n :
                            /\ at[i] = at[i - 1] + Len(seqs[i]) /\ at[i] <= Len(FlattenSeq(seqs))
                            /\ \A k \in 1 .. Len(seqs[i]) :
                                 FlattenSeq(seqs)[at[i - 1] + k] = seqs[i][k]
  <2>1. P(Len(seqs))
    <3>1. seqs \in Seq(Seq(Octet)) /\ seqs # <<>>
      BY <1>3
    <3> HIDE DEF one, zero, next
    <3> QED BY <3>1, FlattenPlaces, ZenonT(60)
  <2>2. FlattenSeq(seqs) \in Seq(Octet)
    BY <1>3, FlattenPlaces
  <2>3. P(6)
    <3>1. Len(seqs) = 6
      BY <1>3
    <3> HIDE DEF P
    <3> QED BY <2>1, <3>1
  <2> QED BY <2>2, <2>3
<1> HIDE DEF flat
<1>5. Len(one) = 2 /\ Len(next) = 2 /\ Len(zero) = 2
  OBVIOUS
<1>6. /\ at[1] = at[0] + 2 /\ flat[at[0] + 1] = Id[1] /\ flat[at[0] + 2] = Id[2]
      /\ at[2] = at[1] + 2 /\ flat[at[1] + 1] = one[1] /\ flat[at[1] + 2] = one[2]
      /\ at[3] = at[2] + 2 /\ flat[at[2] + 1] = next[1] /\ flat[at[2] + 2] = next[2]
      /\ at[4] = at[3] + 2 /\ flat[at[3] + 1] = zero[1] /\ flat[at[3] + 2] = zero[2]
      /\ at[5] = at[4] + 2 /\ flat[at[4] + 1] = zero[1] /\ flat[at[4] + 2] = zero[2]
      /\ at[6] = at[5] + 2 /\ flat[at[5] + 1] = zero[1] /\ flat[at[5] + 2] = zero[2]
  <2>1. /\ 1 \in 1 .. 6 /\ 2 \in 1 .. 6 /\ 3 \in 1 .. 6 /\ 4 \in 1 .. 6 /\ 5 \in 1 .. 6
        /\ 6 \in 1 .. 6 /\ 1 - 1 = 0 /\ 2 - 1 = 1 /\ 3 - 1 = 2 /\ 4 - 1 = 3 /\ 5 - 1 = 4
        /\ 6 - 1 = 5 /\ 1 \in 1 .. 2 /\ 2 \in 1 .. 2
    OBVIOUS
  <2>2. \A i \in 1 .. 6 : /\ at[i] = at[i - 1] + Len(seqs[i])
                          /\ \A k \in 1 .. Len(seqs[i]) : flat[at[i - 1] + k] = seqs[i][k]
    BY <1>4
  <2> HIDE DEF one, next, zero
  <2>3. /\ Len(seqs[1]) = 2 /\ Len(seqs[2]) = 2 /\ Len(seqs[3]) = 2 /\ Len(seqs[4]) = 2
        /\ Len(seqs[5]) = 2 /\ Len(seqs[6]) = 2
    BY <1>1, <1>2, <1>5
  <2> DEFINE Pair(i, p) == /\ at[i] = at[p] + 2 /\ flat[at[p] + 1] = seqs[i][1]
                          /\ flat[at[p] + 2] = seqs[i][2]
  <2>4. \A i \in 1 .. 6 : Len(seqs[i]) = 2 => Pair(i, i - 1)
    <3> TAKE i \in 1 .. 6
    <3>1. SUFFICES ASSUME Len(seqs[i]) = 2 PROVE Pair(i, i - 1)
      OBVIOUS
    <3>2. /\ at[i] = at[i - 1] + Len(seqs[i])
          /\ \A k \in 1 .. Len(seqs[i]) : flat[at[i - 1] + k] = seqs[i][k]
      BY <2>2, Zenon
    <3> QED BY <2>1, <3>1, <3>2, Zenon
  <2> HIDE DEF Pair
  <2>5. /\ Pair(1, 1 - 1) /\ Pair(2, 2 - 1) /\ Pair(3, 3 - 1)
        /\ Pair(4, 4 - 1) /\ Pair(5, 5 - 1) /\ Pair(6, 6 - 1)
    BY <2>1, <2>3, <2>4, Zenon
  <2>6. Pair(1, 0) /\ Pair(2, 1) /\ Pair(3, 2) /\ Pair(4, 3) /\ Pair(5, 4) /\ Pair(6, 5)
    BY <2>1, <2>5, Zenon
  <2> QED BY <1>1, <2>6, Zenon DEF Pair
<1>7. /\ at[1] = 2 /\ at[2] = 4 /\ at[3] = 6 /\ at[4] = 8 /\ at[5] = 10 /\ at[6] = 12
  BY <1>4, <1>6
<1>8. /\ flat \in Seq(Octet) /\ Len(flat) = 12
      /\ flat[1] = Id[1] /\ flat[2] = Id[2] /\ flat[3] = 1 /\ flat[4] = 0
      /\ flat[5] = 0 /\ flat[6] = 1 /\ flat[7] = 0 /\ flat[8] = 0
      /\ flat[9] = 0 /\ flat[10] = 0 /\ flat[11] = 0 /\ flat[12] = 0
  BY <1>4, <1>6, <1>7
<1> DEFINE head == Id \o h
<1>9. /\ h[1] = 1 /\ h[2] = 0 /\ h[3] = 0 /\ h[4] = 1 /\ h[5] = 0 /\ h[6] = 0
      /\ h[7] = 0 /\ h[8] = 0 /\ h[9] = 0 /\ h[10] = 0
  OBVIOUS
<1> HIDE DEF h
<1>10. Joined(Octet, Id, 2, h, 10)
  <2>1. 2 \in Nat /\ 10 \in Nat
    OBVIOUS
  <2> QED BY <1>2, <2>1, ConcatJoins, Zenon
<1>11. /\ head \in Seq(Octet) /\ Len(head) = 2 + 10
       /\ \A k \in 1 .. 2 : head[k] = Id[k]
       /\ \A k \in 1 .. 10 : head[2 + k] = h[k]
  BY <1>10, Zenon DEF Joined
<1> HIDE DEF head
<1>12. /\ head \in Seq(Octet) /\ Len(head) = 12
       /\ head[1] = Id[1] /\ head[2] = Id[2] /\ head[3] = 1 /\ head[4] = 0
       /\ head[5] = 0 /\ head[6] = 1 /\ head[7] = 0 /\ head[8] = 0
       /\ head[9] = 0 /\ head[10] = 0 /\ head[11] = 0 /\ head[12] = 0
  <2>1. /\ 1 \in 1 .. 10 /\ 2 \in 1 .. 10 /\ 3 \in 1 .. 10 /\ 4 \in 1 .. 10
        /\ 5 \in 1 .. 10 /\ 6 \in 1 .. 10 /\ 7 \in 1 .. 10 /\ 8 \in 1 .. 10
        /\ 9 \in 1 .. 10 /\ 10 \in 1 .. 10 /\ 1 \in 1 .. 2 /\ 2 \in 1 .. 2
    OBVIOUS
  <2>2. /\ 2 + 1 = 3 /\ 2 + 2 = 4 /\ 2 + 3 = 5 /\ 2 + 4 = 6 /\ 2 + 5 = 7 /\ 2 + 6 = 8
        /\ 2 + 7 = 9 /\ 2 + 8 = 10 /\ 2 + 9 = 11 /\ 2 + 10 = 12
    OBVIOUS
  <2>3. /\ head[2 + 1] = 1 /\ head[2 + 2] = 0 /\ head[2 + 3] = 0 /\ head[2 + 4] = 1
        /\ head[2 + 5] = 0 /\ head[2 + 6] = 0 /\ head[2 + 7] = 0 /\ head[2 + 8] = 0
        /\ head[2 + 9] = 0 /\ head[2 + 10] = 0
    BY <1>9, <1>11, <2>1, Zenon
  <2>4. head[1] = Id[1] /\ head[2] = Id[2] /\ head \in Seq(Octet) /\ Len(head) = 2 + 10
    BY <1>11, <2>1, Zenon
  <2> QED BY <2>2, <2>3, <2>4, Zenon
<1>13. \A k \in 1 .. 12 : flat[k] = head[k]
  <2>1. \A k \in 1 .. 12 : k \in {1, 2, 3, 4, 5, 6, 7, 8, 9, 10, 11, 12}
    OBVIOUS
  <2> QED BY <1>8, <1>12, <2>1
<1>14. flat = head
  BY <1>8, <1>12, <1>13, SeqEqual
<1> QED BY <1>14 DEF flat, head, seqs, h

(* Two bytes after two.                                                    *)
LEMMA PairsJoin ==
  ASSUME NEW a \in Octet, NEW b \in Octet, NEW c \in Octet, NEW d \in Octet
  PROVE  <<a, b>> \o <<c, d>> = <<a, b, c, d>>
<1> DEFINE s == <<a, b>>
           u == <<c, d>>
           v == <<a, b, c, d>>
<1>1. /\ s \in Seq(Octet) /\ Len(s) = 2 /\ s[1] = a /\ s[2] = b
      /\ u \in Seq(Octet) /\ Len(u) = 2 /\ u[1] = c /\ u[2] = d
      /\ v \in Seq(Octet) /\ Len(v) = 4 /\ v[1] = a /\ v[2] = b /\ v[3] = c /\ v[4] = d
  OBVIOUS
<1> HIDE DEF s, u, v
<1>2. /\ 2 \in Nat /\ 1 \in 1 .. 2 /\ 2 \in 1 .. 2 /\ 2 + 1 = 3 /\ 2 + 2 = 4
  OBVIOUS
<1>3. Joined(Octet, s, 2, u, 2)
  BY <1>1, <1>2, ConcatJoins, Zenon
<1> DEFINE x == s \o u
<1>4. /\ x \in Seq(Octet) /\ Len(x) = 2 + 2
      /\ \A k \in 1 .. 2 : x[k] = s[k] /\ x[2 + k] = u[k]
  BY <1>3, Zenon DEF Joined
<1> HIDE DEF x
<1>5. x[1] = a /\ x[2] = b /\ x[2 + 1] = c /\ x[2 + 2] = d
  BY <1>1, <1>2, <1>4, Zenon
<1>6. \A k \in 1 .. 4 : x[k] = v[k]
  <2>1. x[1] = v[1] /\ x[2] = v[2] /\ x[3] = v[3] /\ x[4] = v[4]
    BY <1>1, <1>2, <1>5, Zenon
  <2>2. \A k \in 1 .. 4 : k = 1 \/ k = 2 \/ k = 3 \/ k = 4
    OBVIOUS
  <2> QED BY <2>1, <2>2, Zenon
<1>7. x = v
  BY <1>1, <1>4, <1>6, SeqEqual
<1> QED BY <1>7 DEF x, s, u, v

(* Bytes may be put together in any order.                                 *)
LEMMA BytesAssociate ==
  ASSUME NEW a \in Seq(Octet), NEW b \in Seq(Octet), NEW c \in Seq(Octet)
  PROVE  (a \o b) \o c = a \o (b \o c)
<1> HIDE DEF Octet
<1> QED BY ConcatAssociative

(* The datagram of a name of two labels or more is that of RFC 1035.       *)
LEMMA NameIsUnderstood ==
  ASSUME QuestionAssumption, NEW name \in Asked, Len(name) > 1, NEW t \in Type
  PROVE  name \in Understood[t]
<1> DEFINE head == Id \o <<1, 0, 0, 1, 0, 0, 0, 0, 0, 0>>
           w == Wire(name)
           type == <<0, Q!Qtype[t]>>
           class == <<0, Q!Internet>>
           z == <<0>>
<1>1. PICK left : Laid(w, Text(name), left)
  BY NameIsLaid
<1>2. Q!EncodeName(Dotted[name]) = w \o z
  <2>1. 1 + left[1] < Len(w)
    BY <1>1, MoreLabels
  <2>2. Q!EncodeName(Tail(Text(name))) = Append(w, 0)
    BY <1>1, <2>1, NameIsEncoded
  <2>3. w \in Seq(0 .. 255)
    BY <1>1, Zenon DEF Laid
  <2> HIDE DEF w
  <2>4. Append(w, 0) = w \o <<0>>
    BY <2>3
  <2> QED BY <2>2, <2>4, TextIsBytes
<1>3. Q!NetworkEndian(Q!Qtype[t]) = type /\ Q!NetworkEndian(Q!Internet) = class
  <2>1. /\ 1 \div 256 = 0 /\ 1 % 256 = 1 /\ 28 \div 256 = 0 /\ 28 % 256 = 28
    OBVIOUS
  <2>2. Q!Qtype[t] \in {1, 28} /\ Q!Internet = 1
    BY DEF Type, Q!Qtype, Q!Internet
  <2> QED BY <2>1, <2>2 DEF Q!NetworkEndian
<1>4. Datagram(name, t) = (head \o (w \o z) \o type) \o class
  <2> DEFINE flat == FlattenSeq([i \in 1 .. 6 |->
                       Q!NetworkEndian(<<FirstRequest, Q!ReqFlags, 1, 0, 0, 0>>[i])])
  <2>1. flat = head
    BY HeaderIsEncoded
  <2>2. \A seqs : Q!FlattenSeq(seqs) = FlattenSeq(seqs)
    BY DEF Q!FlattenSeq, FlattenSeq
  <2>3. Q!Resolve(FirstRequest, Dotted[name], t)
          = flat \o Q!EncodeName(Dotted[name])
              \o Q!NetworkEndian(Q!Qtype[t]) \o Q!NetworkEndian(Q!Internet)
    BY <2>2, Zenon DEF Q!Resolve
  <2> HIDE DEF flat, head, type, class, z, w
  <2> QED BY <1>2, <1>3, <2>1, <2>3, Zenon DEF Datagram
<1>5. QuestionOnWire(name, t) = (w \o z) \o <<0, Q!Qtype[t], 0, Q!Internet>>
  BY Zenon DEF QuestionOnWire, NameOnWire, Wire
<1>6. type \o class = <<0, Q!Qtype[t], 0, Q!Internet>>
  <2>1. Q!Qtype[t] \in Octet /\ Q!Internet \in Octet /\ 0 \in Octet
    <3>1. Q!Qtype[t] \in {1, 28} /\ Q!Internet = 1
      BY DEF Type, Q!Qtype, Q!Internet
    <3> QED BY <3>1, Octets, Zenon
  <2> QED BY <2>1, PairsJoin, Zenon
<1>7. /\ head \in Seq(Octet) /\ w \o z \in Seq(Octet) /\ type \in Seq(Octet)
      /\ class \in Seq(Octet)
  <2>1. Q!Qtype[t] \in Octet /\ Q!Internet \in Octet /\ 0 \in Octet /\ 1 \in Octet
    <3>1. Q!Qtype[t] \in {1, 28} /\ Q!Internet = 1
      BY DEF Type, Q!Qtype, Q!Internet
    <3> QED BY <3>1, Octets, Zenon
  <2>2. type \in Seq(Octet) /\ class \in Seq(Octet) /\ z \in Seq(Octet)
    BY <2>1
  <2>3. w \in Seq(Octet)
    BY <1>1, Zenon DEF Laid, Octet
  <2> DEFINE h == <<1, 0, 0, 1, 0, 0, 0, 0, 0, 0>>
  <2>4. h \in Seq(Octet)
    BY <2>1
  <2>5. Id \in Seq(Octet)
    BY IdIsBytes
  <2> HIDE DEF h, z, w, type, class
  <2>6. Id \o h \in Seq(Octet) /\ w \o z \in Seq(Octet)
    BY <2>2, <2>3, <2>4, <2>5, ConcatProperties, Zenon
  <2> QED BY <2>2, <2>6 DEF h
<1> DEFINE wz == w \o z
<1> HIDE DEF head, wz, type, class
<1>8. (head \o wz \o type) \o class = head \o (wz \o (type \o class))
  <2>1. wz \in Seq(Octet)
    BY <1>7 DEF wz
  <2>2. head \o wz \in Seq(Octet)
    BY <1>7, <2>1, ConcatProperties, Zenon
  <2>3. ((head \o wz) \o type) \o class = (head \o wz) \o (type \o class)
    BY <1>7, <2>2, BytesAssociate, Zenon
  <2>4. type \o class \in Seq(Octet)
    BY <1>7, ConcatProperties, Zenon
  <2> DEFINE tc == type \o class
  <2>5. tc \in Seq(Octet)
    BY <2>4
  <2> HIDE DEF tc
  <2>6. (head \o wz) \o tc = head \o (wz \o tc)
    <3>1. \A a, b, c \in Seq(Octet) : (a \o b) \o c = a \o (b \o c)
      BY BytesAssociate, Zenon
    <3>2. head \in Seq(Octet)
      BY <1>7, Zenon
    <3> HIDE DEF w, z
    <3> QED BY <2>1, <2>5, <3>1, <3>2
  <2> QED BY <2>3, <2>6, Zenon DEF tc
<1>9. Datagram(name, t) = head \o QuestionOnWire(name, t)
  BY <1>4, <1>5, <1>6, <1>8, Zenon DEF wz
<1> QED BY <1>9 DEF Understood, head
=============================================================================
