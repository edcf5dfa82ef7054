------------------------------ MODULE DataFacts -----------------------------
(***************************************************************************)
(* Facts about numbers and sequences that the proofs of several components *)
(* share: least and greatest elements, and beginnings of sequences.        *)
(***************************************************************************)
EXTENDS Integers, SequencesExt, FiniteSetsExt, WellFoundedInduction, TLAPS

(* Every non-empty set of natural numbers has a least element: the form in *)
(* which the proofs use induction, on the least counterexample.            *)
LEMMA LeastNat ==
  ASSUME NEW T, T \subseteq Nat, T # {}
  PROVE  \E x \in T : \A y \in T : x <= y
<1>1. PICK R : /\ IsWellFoundedOn(R, Nat)
               /\ \A x, y \in Nat : <<y, x>> \in R <=> y < x
  <2>1. \A x, y \in Nat : <<y, x>> \in OpToRel(<, Nat) <=> y < x
    BY DEF OpToRel
  <2>2. /\ IsWellFoundedOn(OpToRel(<, Nat), Nat)
        /\ \A x, y \in Nat : <<y, x>> \in OpToRel(<, Nat) <=> y < x
    BY <2>1, NatLessThanWellFounded, Zenon
  <2> QED BY <2>2, Zenon
<1>2. PICK x \in T : \A y \in T : ~ (<<y, x>> \in R)
  BY <1>1, WFMin
<1>3. ASSUME NEW y \in T PROVE x <= y
  <2>1. x \in Nat /\ y \in Nat /\ ~(y < x)
    BY <1>1, <1>2
  <2> QED BY <2>1
<1> QED BY <1>3

(* Min() of a non-empty set of natural numbers is its least element. *)
LEMMA MinFacts ==
  ASSUME NEW S, S \subseteq Nat, S # {}
  PROVE  Min(S) \in S /\ \A y \in S : Min(S) <= y
<1>1. \E x \in S : \A y \in S : x <= y
  BY LeastNat
<1> QED BY <1>1, Zenon DEF Min

(* Max() of a non-empty set of bounded numbers is its greatest element. *)
LEMMA MaxFacts ==
  ASSUME NEW S, NEW b \in Nat, S \subseteq 0 .. b, S # {}
  PROVE  Max(S) \in S /\ \A y \in S : Max(S) >= y
<1> DEFINE T == {n \in Nat : \A y \in S : n >= y}
<1>1. T \subseteq Nat /\ b \in T
  OBVIOUS
<1>2. PICK x \in T : \A y \in T : x <= y
  <2> HIDE DEF T
  <2> QED BY <1>1, LeastNat
<1>3. x \in S
  <2>1. SUFFICES ASSUME x \notin S PROVE FALSE
    OBVIOUS
  <2>2. x \in Nat /\ \A y \in S : y \in Nat /\ x > y
    BY <1>2, <2>1
  <2>3. x # 0
    <3>1. PICK y : y \in S
      OBVIOUS
    <3> QED BY <2>2, <3>1
  <2>4. x - 1 \in T
    BY <2>2, <2>3
  <2> QED BY <1>2, <2>2, <2>4
<1>4. \E z \in S : \A y \in S : z >= y
  BY <1>2, <1>3
<1> QED BY <1>4, Zenon DEF Max

(* The beginning of a sequence, element by element. *)
LEMMA TakeFacts ==
  ASSUME NEW S, NEW s \in Seq(S), NEW n \in 0 .. Len(s)
  PROVE  /\ SubSeq(s, 1, n) \in Seq(S)
         /\ Len(SubSeq(s, 1, n)) = n
         /\ \A i \in 1 .. n : SubSeq(s, 1, n)[i] = s[i]
OBVIOUS

(* Sequences with the same elements are the same. *)
LEMMA SameElements ==
  ASSUME NEW S, NEW s \in Seq(S), NEW t \in Seq(S), Len(s) = Len(t),
         \A i \in 1 .. Len(s) : s[i] = t[i]
  PROVE  s = t
OBVIOUS

(* IsPrefix(), element by element. *)
LEMMA PrefixFacts ==
  ASSUME NEW S, NEW s \in Seq(S), NEW T, NEW t \in Seq(T)
  PROVE  IsPrefix(s, t) <=> /\ Len(s) <= Len(t)
                            /\ \A i \in 1 .. Len(s) : s[i] = t[i]
<1>1. SubSeq(s, 1, Len(s)) = s
  OBVIOUS
<1>2. ASSUME Len(s) <= Len(t), \A i \in 1 .. Len(s) : s[i] = t[i]
      PROVE  s = SubSeq(t, 1, Len(s))
  <2>1. Len(s) \in 0 .. Len(t)
    BY <1>2
  <2>2. /\ Len(SubSeq(t, 1, Len(s))) = Len(s) /\ SubSeq(t, 1, Len(s)) \in Seq(T)
        /\ \A i \in 1 .. Len(s) : SubSeq(t, 1, Len(s))[i] = t[i]
    BY <2>1, TakeFacts
  <2> QED BY <1>2, <2>2
<1>3. ASSUME Len(s) <= Len(t), s = SubSeq(t, 1, Len(s)), NEW i \in 1 .. Len(s)
      PROVE  s[i] = t[i]
  <2>1. Len(s) \in 0 .. Len(t)
    BY <1>3
  <2> QED BY <1>3, <2>1, TakeFacts
<1> QED BY <1>1, <1>2, <1>3 DEF IsPrefix

(* A beginning that is extended by the elements that follow it is again a  *)
(* beginning.                                                              *)
LEMMA TakeMore ==
  ASSUME NEW S, NEW s \in Seq(S), NEW n \in 0 .. Len(s), NEW k \in Nat, n + k <= Len(s)
  PROVE  SubSeq(s, 1, n) \o SubSeq(s, n + 1, n + k) = SubSeq(s, 1, n + k)
<1>1. /\ SubSeq(s, 1, n) \in Seq(S) /\ Len(SubSeq(s, 1, n)) = n
      /\ \A i \in 1 .. n : SubSeq(s, 1, n)[i] = s[i]
  BY TakeFacts
<1>2. /\ SubSeq(s, 1, n + k) \in Seq(S) /\ Len(SubSeq(s, 1, n + k)) = n + k
      /\ \A i \in 1 .. n + k : SubSeq(s, 1, n + k)[i] = s[i]
  BY TakeFacts
<1>3. /\ SubSeq(s, n + 1, n + k) \in Seq(S) /\ Len(SubSeq(s, n + 1, n + k)) = k
      /\ \A i \in 1 .. k : SubSeq(s, n + 1, n + k)[i] = s[n + i]
  OBVIOUS
<1> QED BY <1>1, <1>2, <1>3

-----------------------------------------------------------------------------
(* Concatenation, and FlattenSeq() as the last of its partial results.     *)

(* Induction up to a bound, for a property given as the set of the numbers *)
(* that have it.                                                           *)
LEMMA UpTo ==
  ASSUME NEW m \in Nat, NEW P, 0 \in P, \A n \in 0 .. m - 1 : n \in P => n + 1 \in P
  PROVE  \A n \in 0 .. m : n \in P
<1> DEFINE T == {n \in 0 .. m : n \notin P}
<1>1. T \subseteq Nat
  OBVIOUS
<1>2. SUFFICES ASSUME T # {} PROVE FALSE
  OBVIOUS
<1>3. PICK n \in T : \A y \in T : n <= y
  <2> HIDE DEF T
  <2> QED BY <1>1, <1>2, LeastNat
<1>4. n \in 0 .. m /\ n \notin P /\ n # 0
  BY <1>3
<1>5. n - 1 \in 0 .. m - 1 /\ n - 1 \notin T
  BY <1>3, <1>4
<1>6. n - 1 \in P
  BY <1>5
<1>7. (n - 1) + 1 \in P
  BY <1>5, <1>6
<1> QED BY <1>4, <1>7

(* Sequences over a set are sequences over a larger one. *)
LEMMA MoreElements ==
  ASSUME NEW S, NEW T, S \subseteq T
  PROVE  Seq(S) \subseteq Seq(T)
OBVIOUS

(* There is one sequence without elements. *)
LEMMA LengthZero ==
  ASSUME NEW S, NEW s \in Seq(S), Len(s) = 0
  PROVE  s = <<>>
OBVIOUS

(* The elements of two sequences put together. *)
LEMMA Joined ==
  ASSUME NEW S, NEW s \in Seq(S), NEW t \in Seq(S)
  PROVE  /\ s \o t \in Seq(S) /\ Len(s \o t) = Len(s) + Len(t)
         /\ \A i \in 1 .. Len(s) : (s \o t)[i] = s[i]
         /\ \A i \in 1 .. Len(t) : (s \o t)[Len(s) + i] = t[i]
OBVIOUS

(* f is the recursive function of FlattenSeq(), over n sequences. *)
Flattens(f, seqs, n) ==
  f = [i \in 1 .. n |-> IF i = 1 THEN seqs[i] ELSE f[i - 1] \o seqs[i]]

(* There is one, for any number of sequences. *)
LEMMA FlattensExist ==
  ASSUME NEW seqs, NEW n \in Nat
  PROVE  \E f : Flattens(f, seqs, n)
<1> DEFINE P == {m \in Nat : \E f : Flattens(f, seqs, m)}
<1>1. 0 \in P
  <2>1. PICK f : f = [i \in 1 .. 0 |-> IF i = 1 THEN seqs[i] ELSE seqs[i]]
    OBVIOUS
  <2>2. Flattens(f, seqs, 0)
    BY <2>1 DEF Flattens
  <2> QED BY <2>2
<1>2. ASSUME NEW m \in 0 .. n - 1, m \in P PROVE m + 1 \in P
  <2>1. PICK g : Flattens(g, seqs, m)
    BY <1>2
  <2>2. \A i \in 1 .. m : g[i] = IF i = 1 THEN seqs[i] ELSE g[i - 1] \o seqs[i]
    BY <2>1 DEF Flattens
  <2>3. PICK h : h = [i \in 1 .. m + 1 |-> IF i = m + 1
                                           THEN IF i = 1 THEN seqs[i] ELSE g[m] \o seqs[i]
                                           ELSE g[i]]
    OBVIOUS
  <2>4. /\ \A i \in 1 .. m : h[i] = g[i]
        /\ h[m + 1] = IF m + 1 = 1 THEN seqs[m + 1] ELSE g[m] \o seqs[m + 1]
    <3>1. m \in Nat /\ m + 1 \in 1 .. m + 1 /\ \A i \in 1 .. m : i \in 1 .. m + 1 /\ i # m + 1
      BY <1>2
    <3>2. \A i \in 1 .. m + 1 : h[i] = IF i = m + 1
                                        THEN IF i = 1 THEN seqs[i] ELSE g[m] \o seqs[i]
                                        ELSE g[i]
      BY <2>3, Zenon
    <3> QED BY <3>1, <3>2, Zenon
  <2>5. \A i \in 1 .. m + 1 : h[i] = IF i = 1 THEN seqs[i] ELSE h[i - 1] \o seqs[i]
    <3> SUFFICES ASSUME NEW i \in 1 .. m + 1
                 PROVE  h[i] = IF i = 1 THEN seqs[i] ELSE h[i - 1] \o seqs[i]
      OBVIOUS
    <3>1. CASE i = m + 1
      <4>1. i # 1 => m \in 1 .. m /\ i - 1 = m
        BY <1>2, <3>1
      <4> QED BY <2>4, <3>1, <4>1
    <3>2. CASE i # m + 1
      <4>1. i \in 1 .. m /\ (i # 1 => i - 1 \in 1 .. m)
        BY <1>2, <3>2
      <4> QED BY <2>2, <2>4, <4>1
    <3> QED BY <3>1, <3>2
  <2>6. Flattens(h, seqs, m + 1)
    BY <2>3, <2>5 DEF Flattens
  <2> QED BY <1>2, <2>6
<1>3. n \in P
  <2>1. n \in 0 .. n
    OBVIOUS
  <2> HIDE DEF P
  <2> QED BY <1>1, <1>2, <2>1, UpTo
<1> QED BY <1>3

(* The partial results of FlattenSeq(): each adds one sequence. *)
Partial(F, S, seqs) ==
  /\ F \in [0 .. Len(seqs) -> Seq(S)]
  /\ F[0] = <<>>
  /\ \A i \in 1 .. Len(seqs) : F[i] = F[i - 1] \o seqs[i]

(* FlattenSeq() is the last of them. *)
LEMMA FlattenFacts ==
  ASSUME NEW S, NEW seqs \in Seq(Seq(S))
  PROVE  \E F : Partial(F, S, seqs) /\ FlattenSeq(seqs) = F[Len(seqs)]
<1>n. PICK n : n = Len(seqs)
  OBVIOUS
<1>s. n \in Nat /\ \A i \in 1 .. n : seqs[i] \in Seq(S)
  BY <1>n
<1>1. CASE n = 0
  <2>1. PICK F : F = [i \in 0 .. 0 |-> <<>>]
    OBVIOUS
  <2>2. Partial(F, S, seqs)
    BY <1>n, <1>1, <2>1 DEF Partial
  <2>3. FlattenSeq(seqs) = <<>>
    <3>1. FlattenSeq(seqs) = seqs
      BY <1>n, <1>1, Zenon DEF FlattenSeq
    <3>2. seqs = <<>>
      BY <1>n, <1>1, LengthZero
    <3> QED BY <3>1, <3>2
  <2>4. F[Len(seqs)] = <<>>
    BY <1>n, <1>1, <2>1
  <2>5. FlattenSeq(seqs) = F[Len(seqs)]
    BY <2>3, <2>4
  <2> QED BY <2>2, <2>5, Zenon
<1>2. CASE n # 0
  <2>1. \E f : Flattens(f, seqs, n)
    BY <1>s, FlattensExist
  <2>2. PICK f : f = CHOOSE g : Flattens(g, seqs, n)
    OBVIOUS
  <2>3. Flattens(f, seqs, n)
    BY <2>1, <2>2, Zenon
  <2>4. FlattenSeq(seqs) = f[n]
    BY <1>n, <1>2, <2>2, Zenon DEF FlattenSeq, Flattens
  <2>5. \A i \in 1 .. n : f[i] = IF i = 1 THEN seqs[i] ELSE f[i - 1] \o seqs[i]
    BY <2>3, Zenon DEF Flattens
  <2>6. PICK F : F = [i \in 0 .. n |-> IF i = 0 THEN <<>> ELSE f[i]]
    OBVIOUS
  <2>7. F[0] = <<>> /\ \A i \in 1 .. n : F[i] = f[i]
    BY <1>s, <2>6
  <2>8. \A i \in 1 .. n : F[i] = F[i - 1] \o seqs[i]
    <3> SUFFICES ASSUME NEW i \in 1 .. n PROVE F[i] = F[i - 1] \o seqs[i]
      OBVIOUS
    <3>1. CASE i = 1
      <4>1. seqs[1] \in Seq(S) /\ F[1] = seqs[1] /\ i - 1 = 0
        BY <1>s, <2>5, <2>7, <3>1
      <4>2. <<>> \o seqs[1] = seqs[1]
        BY <4>1
      <4> QED BY <2>7, <3>1, <4>1, <4>2
    <3>2. CASE i # 1
      <4>1. i - 1 \in 1 .. n
        BY <1>s, <3>2
      <4> QED BY <2>5, <2>7, <3>2, <4>1
    <3> QED BY <3>1, <3>2
  <2>9. \A i \in 0 .. n : F[i] \in Seq(S)
    <3> DEFINE P == {i \in 0 .. n : F[i] \in Seq(S)}
    <3>1. 0 \in P
      <4>1. 0 \in 0 .. n /\ <<>> \in Seq(S)
        BY <1>s
      <4> QED BY <2>7, <4>1, Zenon
    <3>2. ASSUME NEW i \in 0 .. n - 1, i \in P PROVE i + 1 \in P
      <4>1. F[i] \in Seq(S) /\ i + 1 \in 1 .. n /\ (i + 1) - 1 = i
        BY <1>s, <3>2
      <4>2. F[i + 1] = F[i] \o seqs[i + 1] /\ seqs[i + 1] \in Seq(S)
        BY <1>s, <2>8, <4>1, Zenon
      <4>3. F[i] \o seqs[i + 1] \in Seq(S)
        BY <4>1, <4>2, Joined
      <4>4. i + 1 \in 0 .. n
        BY <4>1, <1>s
      <4> QED BY <4>2, <4>3, <4>4, Zenon
    <3>3. \A i \in 0 .. n : i \in P
      <4> HIDE DEF P
      <4> QED BY <1>s, <3>1, <3>2, UpTo
    <3> QED BY <3>3
  <2>10. Partial(F, S, seqs)
    BY <1>n, <2>6, <2>7, <2>8, <2>9 DEF Partial
  <2>11. FlattenSeq(seqs) = F[n]
    BY <1>s, <1>2, <2>4, <2>7
  <2> QED BY <1>n, <2>10, <2>11
<1> QED BY <1>1, <1>2, <1>s

(* Where each of the sequences begins in what FlattenSeq() makes of them,  *)
(* and that there is nothing else in it.                                   *)
Starts(at, seqs, all) ==
  /\ at \in [1 .. Len(seqs) + 1 -> Nat]
  /\ at[1] = 0
  /\ at[Len(seqs) + 1] = Len(all)
  /\ \A b \in 1 .. Len(seqs) : at[b + 1] = at[b] + Len(seqs[b])
  /\ \A b \in 1 .. Len(seqs) : \A j \in 1 .. Len(seqs[b]) :
       at[b] + j \in 1 .. Len(all) /\ all[at[b] + j] = seqs[b][j]
  /\ \A x \in 1 .. Len(all) :
       \E b \in 1 .. Len(seqs) : \E j \in 1 .. Len(seqs[b]) : x = at[b] + j

(* The element j of sequence b in a partial result. *)
Placed(F, seqs, i) ==
  /\ \A b \in 1 .. i : \A j \in 1 .. Len(seqs[b]) :
       /\ Len(F[b - 1]) + j \in 1 .. Len(F[i])
       /\ F[i][Len(F[b - 1]) + j] = seqs[b][j]
  /\ \A x \in 1 .. Len(F[i]) :
       \E b \in 1 .. i : \E j \in 1 .. Len(seqs[b]) : x = Len(F[b - 1]) + j

LEMMA PartialAt ==
  ASSUME NEW S, NEW seqs \in Seq(Seq(S)), NEW F, Partial(F, S, seqs), NEW i \in 0 .. Len(seqs)
  PROVE  Placed(F, seqs, i)
<1>n. PICK n : n = Len(seqs)
  OBVIOUS
<1>s. n \in Nat /\ \A b \in 1 .. n : seqs[b] \in Seq(S)
  BY <1>n
<1>F. /\ \A b \in 0 .. n : F[b] \in Seq(S)
      /\ F[0] = <<>>
      /\ \A b \in 1 .. n : F[b] = F[b - 1] \o seqs[b]
  BY <1>n DEF Partial
<1> DEFINE At(m)   == \A b \in 1 .. m : \A j \in 1 .. Len(seqs[b]) :
                        /\ Len(F[b - 1]) + j \in 1 .. Len(F[m])
                        /\ F[m][Len(F[b - 1]) + j] = seqs[b][j]
           Only(m) == \A x \in 1 .. Len(F[m]) :
                        \E b \in 1 .. m : \E j \in 1 .. Len(seqs[b]) : x = Len(F[b - 1]) + j
           P       == {m \in 0 .. n : At(m) /\ Only(m)}
<1>1. 0 \in P
  <2>1. Len(F[0]) = 0
    BY <1>F
  <2> QED BY <1>s, <2>1
<1>2. ASSUME NEW m \in 0 .. n - 1, m \in P PROVE m + 1 \in P
  <2>1. m + 1 \in 1 .. n /\ m \in 0 .. n /\ (m + 1) - 1 = m /\ At(m) /\ Only(m)
    BY <1>s, <1>2
  <2>2. PICK s, t, u : s = F[m] /\ t = seqs[m + 1] /\ u = F[m + 1]
    OBVIOUS
  <2>3. s \in Seq(S) /\ t \in Seq(S) /\ u = s \o t
    BY <1>s, <1>F, <2>1, <2>2, Zenon
  <2>4. /\ Len(u) = Len(s) + Len(t)
        /\ \A x \in 1 .. Len(s) : u[x] = s[x]
        /\ \A x \in 1 .. Len(t) : u[Len(s) + x] = t[x]
    BY <2>3, Joined
  <2>5. Len(s) \in Nat /\ Len(t) \in Nat
    BY <2>3
  <2>6. ASSUME NEW b \in 1 .. m + 1, NEW j \in 1 .. Len(seqs[b])
        PROVE  Len(F[b - 1]) + j \in 1 .. Len(u) /\ u[Len(F[b - 1]) + j] = seqs[b][j]
    <3>1. CASE b = m + 1
      <4>1. F[b - 1] = s /\ seqs[b] = t
        BY <2>1, <2>2, <3>1
      <4>2. j \in 1 .. Len(t)
        BY <4>1
      <4>3. Len(s) + j \in 1 .. Len(u) /\ u[Len(s) + j] = t[j]
        BY <2>4, <2>5, <4>2
      <4> QED BY <4>1, <4>3
    <3>2. CASE b # m + 1
      <4>1. b \in 1 .. m
        BY <2>1, <3>2
      <4>2. Len(F[b - 1]) + j \in 1 .. Len(s) /\ s[Len(F[b - 1]) + j] = seqs[b][j]
        BY <2>1, <2>2, <4>1, Zenon
      <4>3. PICK x : x = Len(F[b - 1]) + j
        OBVIOUS
      <4>4. x \in 1 .. Len(s) /\ s[x] = seqs[b][j]
        BY <4>2, <4>3
      <4>5. x \in 1 .. Len(u) /\ u[x] = seqs[b][j]
        BY <2>4, <2>5, <4>4
      <4> QED BY <4>3, <4>5
    <3> QED BY <3>1, <3>2
  <2>7. ASSUME NEW x \in 1 .. Len(u)
        PROVE  \E b \in 1 .. m + 1 : \E j \in 1 .. Len(seqs[b]) : x = Len(F[b - 1]) + j
    <3>1. CASE x \in 1 .. Len(s)
      <4>1. PICK b \in 1 .. m : \E j \in 1 .. Len(seqs[b]) : x = Len(F[b - 1]) + j
        BY <2>1, <2>2, <3>1, Zenon
      <4>2. b \in 1 .. m + 1
        BY <2>1
      <4> QED BY <4>1, <4>2, Zenon
    <3>2. CASE x \notin 1 .. Len(s)
      <4>1. x - Len(s) \in 1 .. Len(t) /\ x = Len(s) + (x - Len(s))
        BY <2>4, <2>5, <3>2
      <4>2. m + 1 \in 1 .. m + 1 /\ seqs[m + 1] = t /\ F[(m + 1) - 1] = s
        BY <2>1, <2>2
      <4>3. \E j \in 1 .. Len(seqs[m + 1]) : x = Len(F[(m + 1) - 1]) + j
        BY <4>1, <4>2
      <4> QED BY <4>2, <4>3, Zenon
    <3> QED BY <3>1, <3>2
  <2>8. At(m + 1) /\ Only(m + 1)
    BY <2>2, <2>6, <2>7, Zenon
  <2>9. m + 1 \in 0 .. n
    BY <2>1
  <2> QED BY <2>8, <2>9, Zenon
<1>3. i \in P
  <2> HIDE DEF P
  <2> QED BY <1>n, <1>s, <1>1, <1>2, UpTo
<1> QED BY <1>3, Zenon DEF Placed

(* FlattenSeq() puts its sequences one after the other. *)
LEMMA FlattenStarts ==
  ASSUME NEW S, NEW seqs \in Seq(Seq(S))
  PROVE  FlattenSeq(seqs) \in Seq(S) /\ \E at : Starts(at, seqs, FlattenSeq(seqs))
<1>n. PICK n : n = Len(seqs)
  OBVIOUS
<1>s. n \in Nat /\ \A b \in 1 .. n : seqs[b] \in Seq(S)
  BY <1>n
<1>1. PICK F : Partial(F, S, seqs) /\ FlattenSeq(seqs) = F[Len(seqs)]
  BY FlattenFacts
<1>F. /\ \A b \in 0 .. n : F[b] \in Seq(S)
      /\ F[0] = <<>>
      /\ \A b \in 1 .. n : F[b] = F[b - 1] \o seqs[b]
      /\ FlattenSeq(seqs) = F[n]
  BY <1>n, <1>1 DEF Partial
<1>2. PICK at : at = [b \in 1 .. n + 1 |-> Len(F[b - 1])]
  OBVIOUS
<1>3. /\ at \in [1 .. n + 1 -> Nat]
      /\ \A b \in 1 .. n + 1 : at[b] = Len(F[b - 1])
  <2>1. \A b \in 1 .. n + 1 : b - 1 \in 0 .. n
    BY <1>s
  <2>2. \A b \in 1 .. n + 1 : Len(F[b - 1]) \in Nat
    BY <1>F, <2>1
  <2> QED BY <1>2, <2>2
<1>4. at[1] = 0 /\ at[n + 1] = Len(F[n])
  <2>1. 1 \in 1 .. n + 1 /\ n + 1 \in 1 .. n + 1 /\ 1 - 1 = 0 /\ (n + 1) - 1 = n
    BY <1>s
  <2>2. Len(F[0]) = 0
    BY <1>F
  <2> QED BY <1>3, <2>1, <2>2
<1>5. ASSUME NEW b \in 1 .. n PROVE at[b + 1] = at[b] + Len(seqs[b])
  <2>1. /\ b \in 1 .. n + 1 /\ b + 1 \in 1 .. n + 1 /\ (b + 1) - 1 = b
        /\ b \in 0 .. n /\ b - 1 \in 0 .. n
    BY <1>s
  <2>2. F[b - 1] \in Seq(S) /\ seqs[b] \in Seq(S) /\ F[b] = F[b - 1] \o seqs[b]
    BY <1>s, <1>F, <2>1, Zenon
  <2>3. Len(F[b]) = Len(F[b - 1]) + Len(seqs[b])
    BY <2>2, Joined
  <2> QED BY <1>3, <2>1, <2>3
<1>6. n \in 0 .. Len(seqs)
  BY <1>n, <1>s
<1>7. /\ \A b \in 1 .. n : \A j \in 1 .. Len(seqs[b]) :
           /\ Len(F[b - 1]) + j \in 1 .. Len(F[n])
           /\ F[n][Len(F[b - 1]) + j] = seqs[b][j]
      /\ \A x \in 1 .. Len(F[n]) :
           \E b \in 1 .. n : \E j \in 1 .. Len(seqs[b]) : x = Len(F[b - 1]) + j
  <2>1. Placed(F, seqs, n)
    BY <1>1, <1>6, PartialAt
  <2> QED BY <2>1, Zenon DEF Placed
<1>8. \A b \in 1 .. n : at[b] = Len(F[b - 1])
  BY <1>s, <1>3
<1>9. Starts(at, seqs, F[n])
  <2>1. \A b \in 1 .. n : \A j \in 1 .. Len(seqs[b]) :
          at[b] + j \in 1 .. Len(F[n]) /\ F[n][at[b] + j] = seqs[b][j]
    <3>1. ASSUME NEW b \in 1 .. n, NEW j \in 1 .. Len(seqs[b])
          PROVE  at[b] + j \in 1 .. Len(F[n]) /\ F[n][at[b] + j] = seqs[b][j]
      <4>1. at[b] = Len(F[b - 1])
        BY <1>8
      <4>2. /\ Len(F[b - 1]) + j \in 1 .. Len(F[n])
            /\ F[n][Len(F[b - 1]) + j] = seqs[b][j]
        BY <1>7, Zenon
      <4> QED BY <4>1, <4>2
    <3> QED BY <3>1, Zenon
  <2>2. \A x \in 1 .. Len(F[n]) : \E b \in 1 .. n : \E j \in 1 .. Len(seqs[b]) : x = at[b] + j
    <3>1. ASSUME NEW x \in 1 .. Len(F[n])
          PROVE  \E b \in 1 .. n : \E j \in 1 .. Len(seqs[b]) : x = at[b] + j
      <4>1. PICK b \in 1 .. n : \E j \in 1 .. Len(seqs[b]) : x = Len(F[b - 1]) + j
        BY <1>7
      <4>2. at[b] = Len(F[b - 1])
        BY <1>8
      <4>3. \E j \in 1 .. Len(seqs[b]) : x = at[b] + j
        BY <4>1, <4>2
      <4> QED BY <4>3, Zenon
    <3> QED BY <3>1, Zenon
  <2> QED BY <1>n, <1>3, <1>4, <1>5, <2>1, <2>2, Zenon DEF Starts
<1>10. F[n] \in Seq(S)
  BY <1>s, <1>F
<1> QED BY <1>F, <1>9, <1>10, Zenon
=============================================================================
