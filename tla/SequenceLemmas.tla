--------------------------- MODULE SequenceLemmas ---------------------------
(***************************************************************************)
(* What the operators on sequences do that the models are built from:      *)
(* Within and OfKind, the FlattenSeq, Min and Max of the library.  The     *)
(* recursive ones need induction, which is done over sets: a set of        *)
(* numbers with 0 and all successors has every number, a set of sequences  *)
(* with the empty one and all extensions has every sequence.               *)
(***************************************************************************)
EXTENDS Subsequences, SequencesExt, SequenceTheorems, WellFoundedInduction, TLAPS

-----------------------------------------------------------------------------
(* Induction, over sets in the place of predicates.                        *)

\* A set of numbers has a least one.
LEMMA Least ==
  ASSUME NEW T \in SUBSET Nat, T # {}
  PROVE  \E x \in T : \A y \in T : x <= y
<1> DEFINE R == OpToRel(<, Nat)
<1>1. \A y, x \in Nat : y < x => <<y, x>> \in R
  BY DEF OpToRel
<1>2. IsWellFoundedOn(R, Nat)
  BY NatLessThanWellFounded
<1> HIDE DEF R
<1>3. PICK x \in T : \A y \in T : ~ (<<y, x>> \in R)
  BY <1>2, WFMin
<1>4. \A y \in T : ~(y < x)
  BY <1>1, <1>3
<1>5. \A y \in T : x <= y
  BY <1>4
<1>6. QED
  BY <1>5

\* A set with 0 and every successor has every number.
LEMMA SetInduction ==
  ASSUME NEW T, 0 \in T, \A n \in Nat : n \in T => n + 1 \in T
  PROVE  Nat \subseteq T
<1> SUFFICES ASSUME Nat \ T # {} PROVE FALSE
  OBVIOUS
<1>1. PICK x \in Nat \ T : \A y \in Nat \ T : x <= y
  BY Least
<1>2. x - 1 \in Nat /\ x - 1 \in T
  BY <1>1
<1>3. QED
  BY <1>1, <1>2

\* A set with the empty sequence and every extension has every sequence.
LEMMA SeqInduction ==
  ASSUME NEW A, NEW P, <<>> \in P,
         \A s \in Seq(A), e \in A : s \in P => Append(s, e) \in P
  PROVE  Seq(A) \subseteq P
<1> DEFINE T == {n \in Nat : \A s \in Seq(A) : Len(s) = n => s \in P}
<1>1. 0 \in T
  OBVIOUS
<1>2. ASSUME NEW n \in Nat, n \in T PROVE n + 1 \in T
  <2> SUFFICES ASSUME NEW s \in Seq(A), Len(s) = n + 1 PROVE s \in P
    OBVIOUS
  <2>1. PICK t \in Seq(A), e \in A : s = Append(t, e)
    BY SequenceEmptyOrAppend
  <2>2. Len(t) = n
    BY <2>1
  <2>3. QED
    BY <2>1, <2>2, <1>2
<1> HIDE DEF T
<1>3. Nat \subseteq T
  BY <1>1, <1>2, SetInduction
<1> USE DEF T
<1>4. QED
  BY <1>3

-----------------------------------------------------------------------------
(* Least and greatest.                                                     *)

\* Min(T) is that one.
LEMMA MinOf ==
  ASSUME NEW T \in SUBSET Nat, T # {}
  PROVE  Min(T) \in T /\ \A y \in T : Min(T) <= y
  BY Least DEF Min

\* A member that none is less than is the least.
LEMMA MinIs ==
  ASSUME NEW T \in SUBSET Nat, NEW x \in T, \A y \in T : x <= y
  PROVE  Min(T) = x
<1>1. Min(T) \in T /\ Min(T) <= x
  BY MinOf
<1>2. PICK m \in Nat : m = Min(T)
  BY <1>1
<1>3. m <= x /\ x <= m
  BY <1>1, <1>2
<1>4. QED
  BY <1>2, <1>3

\* A set with a greatest number: Max(T) is that one.
LEMMA MaxIs ==
  ASSUME NEW T \in SUBSET Nat, NEW x \in T, \A y \in T : y <= x
  PROVE  Max(T) = x
<1>1. \A y \in T : x >= y
  OBVIOUS
<1>2. Max(T) \in T /\ \A y \in T : Max(T) >= y
  BY <1>1 DEF Max
<1>3. PICK m \in Nat : m = Max(T)
  BY <1>2
<1>4. m >= x /\ m <= x
  BY <1>2, <1>3
<1>5. QED
  BY <1>3, <1>4

\* A bounded set has a greatest number.
LEMMA MaxOf ==
  ASSUME NEW n \in Nat, NEW T \in SUBSET (1..n), T # {}
  PROVE  Max(T) \in T /\ \A y \in T : y <= Max(T)
<1> DEFINE D == {d \in Nat : d <= n /\ n - d \in T}
<1>1. D \in SUBSET Nat /\ D # {}
  <2>1. PICK x \in T : TRUE
    OBVIOUS
  <2>2. n - x \in Nat /\ n - x <= n /\ n - (n - x) = x
    BY <2>1
  <2>3. QED
    BY <2>1, <2>2
<1> HIDE DEF D
<1>2. PICK d \in D : \A e \in D : d <= e
  BY <1>1, Least
<1>3. n - d \in T
  BY <1>2 DEF D
<1>4. ASSUME NEW y \in T PROVE y <= n - d
  <2>1. n - y \in D
    BY DEF D
  <2>2. d <= n - y /\ d \in Nat
    BY <2>1, <1>2 DEF D
  <2>3. QED
    BY <2>2
<1>5. T \in SUBSET Nat
  OBVIOUS
<1>6. PICK m \in T : m = n - d
  BY <1>3
<1>7. Max(T) = m
  BY <1>4, <1>5, <1>6, MaxIs
<1>8. QED
  BY <1>4, <1>6, <1>7

-----------------------------------------------------------------------------
(* Within.                                                                 *)

WithinSteps(s, S, m, f) ==
  f = [n \in 0..m |-> IF n = 0 THEN <<>>
                      ELSE IF s[n] \in S THEN Append(f[n - 1], s[n]) ELSE f[n - 1]]

\* The recursion of Within is a function.
LEMMA WithinStepsExist ==
  ASSUME NEW s, NEW S, NEW m \in Nat
  PROVE  \E f : WithinSteps(s, S, m, f)
<1> DEFINE T == {n \in Nat : \E f : WithinSteps(s, S, n, f)}
<1>1. 0 \in T
  <2> DEFINE f == [n \in 0..0 |-> <<>>]
  <2>1. WithinSteps(s, S, 0, f)
    BY DEF WithinSteps
  <2>2. QED BY <2>1
<1>2. ASSUME NEW n \in Nat, n \in T PROVE n + 1 \in T
  <2>1. PICK f : WithinSteps(s, S, n, f)
    BY <1>2
  <2> DEFINE g == [k \in 0..(n + 1) |->
                     IF k = n + 1 THEN IF s[n + 1] \in S THEN Append(f[n], s[n + 1]) ELSE f[n]
                     ELSE f[k]]
  <2>2. WithinSteps(s, S, n + 1, g)
    <3>1. \A k \in 0..n : f[k] = IF k = 0 THEN <<>>
                      ELSE IF s[k] \in S THEN Append(f[k - 1], s[k]) ELSE f[k - 1]
      BY <2>1 DEF WithinSteps
    <3>2. \A k \in 0..(n+1) : g[k] = IF k = 0 THEN <<>>
                      ELSE IF s[k] \in S THEN Append(g[k - 1], s[k]) ELSE g[k - 1]
      BY <3>1
    <3> HIDE DEF g
    <3>3. DOMAIN g = 0..(n+1) /\ g = [k \in 0..(n+1) |-> g[k]]
      BY DEF g
    <3>4. QED
      BY <3>2, <3>3 DEF WithinSteps
  <2>3. QED BY <2>2
<1> HIDE DEF T
<1>3. Nat \subseteq T
  BY <1>1, <1>2, SetInduction
<1> USE DEF T
<1>4. QED
  BY <1>3

WithinRun(s, S, m, f) ==
  /\ f[0] = <<>>
  /\ \A n \in 1..m : f[n] = IF s[n] \in S THEN Append(f[n - 1], s[n]) ELSE f[n - 1]

\* Its values, one from the other.
LEMMA WithinStepsRun ==
  ASSUME NEW s, NEW S, NEW m \in Nat, NEW f, WithinSteps(s, S, m, f)
  PROVE  WithinRun(s, S, m, f)
<1>1. \A n \in 0..m : f[n] = IF n = 0 THEN <<>>
                             ELSE IF s[n] \in S THEN Append(f[n - 1], s[n]) ELSE f[n - 1]
  BY DEF WithinSteps
<1>2. 0 \in 0..m /\ \A n \in 1..m : n \in 0..m /\ n # 0
  OBVIOUS
<1>3. QED
  BY <1>1, <1>2 DEF WithinRun

\* Within is the last of them.
LEMMA WithinIs ==
  ASSUME NEW s, NEW S, NEW m \in Nat, Len(s) = m
  PROVE  \E f : WithinRun(s, S, m, f) /\ Within(s, S) = f[m]
<1> DEFINE F == CHOOSE f : WithinSteps(s, S, m, f)
<1>1. WithinSteps(s, S, m, F)
  BY WithinStepsExist
<1>2. Within(s, S) = F[m]
  BY DEF Within, WithinSteps
<1> HIDE DEF F
<1>3. WithinRun(s, S, m, F)
  BY <1>1, WithinStepsRun
<1>4. QED
  BY <1>2, <1>3

\* Nothing of nothing.
LEMMA WithinEmpty ==
  ASSUME NEW S
  PROVE  Within(<<>>, S) = <<>>
<1>1. PICK f : WithinRun(<<>>, S, 0, f) /\ Within(<<>>, S) = f[0]
  BY WithinIs
<1>2. QED
  BY <1>1 DEF WithinRun

\* Within, an element more.
LEMMA WithinAppend ==
  ASSUME NEW A, NEW s \in Seq(A), NEW S, NEW e
  PROVE  Within(Append(s, e), S) = IF e \in S THEN Append(Within(s, S), e) ELSE Within(s, S)
<1>1. PICK l \in Nat : l = Len(s)
  OBVIOUS
<1>2. PICK t : t = Append(s, e)
  OBVIOUS
<1>3. Len(t) = l + 1 /\ t[l + 1] = e /\ \A n \in 1..l : t[n] = s[n]
  BY <1>1, <1>2
<1>4. PICK f : WithinRun(s, S, l, f) /\ Within(s, S) = f[l]
  BY WithinIs, <1>1
<1>5. PICK g : WithinRun(t, S, l + 1, g) /\ Within(t, S) = g[l + 1]
  BY WithinIs, <1>3
<1>6. g[l + 1] = IF e \in S THEN Append(g[l], e) ELSE g[l]
  <2>1. l + 1 \in 1..(l + 1) /\ (l + 1) - 1 = l
    OBVIOUS
  <2>2. g[l + 1] = IF t[l + 1] \in S THEN Append(g[(l + 1) - 1], t[l + 1]) ELSE g[(l + 1) - 1]
    BY <2>1, <1>5 DEF WithinRun
  <2>3. QED
    BY <2>1, <2>2, <1>3
<1> DEFINE T == {n \in Nat : n <= l => f[n] = g[n]}
<1>7. 0 \in T
  BY <1>4, <1>5 DEF WithinRun
<1>8. ASSUME NEW n \in Nat, n \in T PROVE n + 1 \in T
  <2> SUFFICES ASSUME n + 1 <= l PROVE f[n + 1] = g[n + 1]
    OBVIOUS
  <2>1. f[n] = g[n] /\ n + 1 \in 1..l /\ n + 1 \in 1..(l + 1) /\ (n + 1) - 1 = n
    BY <1>8
  <2>2. t[n + 1] = s[n + 1]
    BY <1>3, <2>1
  <2>3. f[n + 1] = IF s[n + 1] \in S THEN Append(f[n], s[n + 1]) ELSE f[n]
    BY <2>1, <1>4 DEF WithinRun
  <2>4. g[n + 1] = IF t[n + 1] \in S THEN Append(g[n], t[n + 1]) ELSE g[n]
    BY <2>1, <1>5 DEF WithinRun
  <2>5. QED
    BY <2>1, <2>2, <2>3, <2>4
<1> HIDE DEF T
<1>9. Nat \subseteq T
  BY <1>7, <1>8, SetInduction
<1> USE DEF T
<1>10. f[l] = g[l]
  BY <1>9
<1>11. QED
  BY <1>2, <1>4, <1>5, <1>6, <1>10

\* Only elements of the sequence that are wanted are kept.
LEMMA WithinOwn ==
  ASSUME NEW A, NEW s \in Seq(A), NEW S
  PROVE  Within(s, S) \in Seq(A \cap S)
<1> DEFINE P == {r \in Seq(A) : Within(r, S) \in Seq(A \cap S)}
<1>1. <<>> \in P
  <2>1. <<>> \in Seq(A) /\ <<>> \in Seq(A \cap S)
    BY EmptySeq
  <2>2. Within(<<>>, S) = <<>>
    BY WithinEmpty
  <2>3. QED
    BY <2>1, <2>2
<1>2. ASSUME NEW r \in Seq(A), NEW e \in A, r \in P PROVE Append(r, e) \in P
  <2>1. Within(r, S) \in Seq(A \cap S)
    BY <1>2
  <2>2. Within(Append(r, e), S) = IF e \in S THEN Append(Within(r, S), e) ELSE Within(r, S)
    BY WithinAppend
  <2>3. Within(Append(r, e), S) \in Seq(A \cap S)
    BY <2>1, <2>2
  <2>4. QED
    BY <2>3
<1> HIDE DEF P
<1>3. Seq(A) \subseteq P
  BY <1>1, <1>2, SeqInduction
<1> USE DEF P
<1>4. QED
  BY <1>3

\* So what is kept has the type of the sequence.
LEMMA WithinType ==
  ASSUME NEW A, NEW s \in Seq(A), NEW S
  PROVE  Within(s, S) \in Seq(A)
<1>1. Within(s, S) \in Seq(A \cap S)
  BY WithinOwn
<1>2. QED
  BY <1>1, SeqMonotonic

\* Of wanted elements nothing is left out.
LEMMA WithinAll ==
  ASSUME NEW S, NEW s \in Seq(S)
  PROVE  Within(s, S) = s
<1> DEFINE P == {r \in Seq(S) : Within(r, S) = r}
<1>1. <<>> \in P
  BY EmptySeq, WithinEmpty
<1>2. ASSUME NEW r \in Seq(S), NEW e \in S, r \in P PROVE Append(r, e) \in P
  <2>1. Within(Append(r, e), S) = Append(Within(r, S), e)
    BY WithinAppend
  <2>2. Within(r, S) = r /\ Append(r, e) \in Seq(S)
    BY <1>2
  <2>3. QED
    BY <2>1, <2>2
<1> HIDE DEF P
<1>3. Seq(S) \subseteq P
  BY <1>1, <1>2, SeqInduction
<1>4. QED
  BY <1>3 DEF P

\* Of unwanted elements nothing is left.
LEMMA WithinNone ==
  ASSUME NEW A, NEW s \in Seq(A), NEW S, A \cap S = {}
  PROVE  Within(s, S) = <<>>
<1>1. PICK t \in Seq({}) : t = Within(s, S)
  BY WithinOwn
<1>2. Len(t) = 0
  <2>1. Len(t) \in Nat
    OBVIOUS
  <2>2. ~(1 \in 1..Len(t))
    BY ElementOfSeq
  <2>3. QED
    BY <2>1, <2>2
<1>3. QED
  BY <1>1, <1>2, EmptySeq

\* Appending to the second half.
LEMMA ConcatAppend ==
  ASSUME NEW A, NEW s \in Seq(A), NEW t \in Seq(A), NEW e \in A
  PROVE  s \o Append(t, e) = Append(s \o t, e)
  OBVIOUS

\* Where the elements of a concatenation come from.
LEMMA ConcatIs ==
  ASSUME NEW A, NEW s \in Seq(A), NEW t \in Seq(A)
  PROVE  /\ s \o t = [i \in 1..(Len(s) + Len(t)) |-> (s \o t)[i]]
         /\ DOMAIN (s \o t) = 1..(Len(s) + Len(t))
         /\ \A i \in 1..Len(s) : (s \o t)[i] = s[i]
         /\ \A i \in 1..Len(t) : (s \o t)[Len(s) + i] = t[i]
<1>1. PICK a \in Nat, b \in Nat : a = Len(s) /\ b = Len(t)
  OBVIOUS
<1>0. s \o t \in Seq(A)
  OBVIOUS
<1>2. PICK u \in Seq(A) : u = s \o t
  BY <1>0
<1>3. Len(u) = a + b
  BY <1>1, <1>2
<1>4. u \in [1..(a + b) -> A]
  BY <1>2, <1>3, LenProperties
<1>5. DOMAIN u = 1..(a + b)
  BY <1>4
<1>6. u = [i \in 1..(a + b) |-> u[i]]
  BY <1>4
<1>7. \A i \in 1..a : u[i] = s[i]
  BY <1>1, <1>2
<1>8. \A i \in 1..b : u[a + i] = t[i]
  BY <1>1, <1>2
<1>9. QED
  BY <1>1, <1>2, <1>5, <1>6, <1>7, <1>8

\* It matters only which of the elements at hand are wanted.
LEMMA WithinSame ==
  ASSUME NEW A, NEW s \in Seq(A), NEW S
  PROVE  Within(s, S) = Within(s, A \cap S)
<1> DEFINE P == {r \in Seq(A) : Within(r, S) = Within(r, A \cap S)}
<1>1. <<>> \in P
  <2>1. <<>> \in Seq(A) /\ Within(<<>>, S) = Within(<<>>, A \cap S)
    BY EmptySeq, WithinEmpty
  <2>2. QED
    BY <2>1
<1>2. ASSUME NEW r \in Seq(A), NEW e \in A, r \in P PROVE Append(r, e) \in P
  <2>1. Within(r, S) = Within(r, A \cap S)
    BY <1>2
  <2>2. Within(Append(r, e), S) = Within(Append(r, e), A \cap S)
    <3>1. Within(Append(r, e), S) = IF e \in S THEN Append(Within(r, S), e) ELSE Within(r, S)
      BY WithinAppend
    <3>2. PICK T : T = A \cap S
      OBVIOUS
    <3>3. Within(Append(r, e), T) = IF e \in T THEN Append(Within(r, T), e) ELSE Within(r, T)
      BY WithinAppend
    <3>4. e \in S <=> e \in T
      BY <3>2
    <3>5. QED
      BY <2>1, <3>1, <3>2, <3>3, <3>4
  <2>3. Append(r, e) \in Seq(A)
    OBVIOUS
  <2>4. QED
    BY <2>2, <2>3
<1> HIDE DEF P
<1>3. Seq(A) \subseteq P
  BY <1>1, <1>2, SeqInduction
<1>4. QED
  BY <1>3 DEF P

\* Within goes through a concatenation.
LEMMA WithinConcat ==
  ASSUME NEW A, NEW s \in Seq(A), NEW t \in Seq(A), NEW S
  PROVE  Within(s \o t, S) = Within(s, S) \o Within(t, S)
<1> DEFINE P == {r \in Seq(A) : Within(s \o r, S) = Within(s, S) \o Within(r, S)}
<1>0. Within(s, S) \in Seq(A)
  BY WithinType
<1>1. <<>> \in P
  BY WithinEmpty, <1>0
<1>2. ASSUME NEW r \in Seq(A), NEW e \in A, r \in P PROVE Append(r, e) \in P
  <2>1. Within(s \o r, S) = Within(s, S) \o Within(r, S) /\ s \o r \in Seq(A)
    BY <1>2
  <2>2. Within(Append(r, e), S) = IF e \in S THEN Append(Within(r, S), e) ELSE Within(r, S)
    BY WithinAppend
  <2> DEFINE sr == s \o r
  <2> HIDE DEF sr
  <2>a. sr \in Seq(A)
    BY <2>1 DEF sr
  <2>b. Within(Append(sr, e), S) = IF e \in S THEN Append(Within(sr, S), e) ELSE Within(sr, S)
    BY <2>a, WithinAppend
  <2>3. Within(Append(s \o r, e), S) = IF e \in S THEN Append(Within(s \o r, S), e) ELSE Within(s \o r, S)
    BY <2>b DEF sr
  <2>4. s \o Append(r, e) = Append(s \o r, e)
    OBVIOUS
  <2>5. Within(r, S) \in Seq(A)
    BY WithinType
  <2>6. Append(Within(s, S) \o Within(r, S), e) = Within(s, S) \o Append(Within(r, S), e)
    <3>1. \A p, q \in Seq(A) : p \o Append(q, e) = Append(p \o q, e)
      BY ConcatAppend
    <3>2. QED
      BY <3>1, <2>5, <1>0
  <2>7. Within(s \o Append(r, e), S) = Within(s, S) \o Within(Append(r, e), S)
    BY <2>1, <2>2, <2>3, <2>4, <2>6
  <2>8. QED
    BY <2>7
<1> HIDE DEF P
<1>3. Seq(A) \subseteq P
  BY <1>1, <1>2, SeqInduction
<1> USE DEF P
<1>4. QED
  BY <1>3

\* OfKind keeps elements of the kinds asked for.
LEMMA OfKindType ==
  ASSUME NEW A, NEW s \in Seq(A), NEW kinds
  PROVE  OfKind(s, kinds) \in Seq({a \in A : a.kind \in kinds})
<1> DEFINE S == {s[i] : i \in {j \in DOMAIN s : s[j].kind \in kinds}}
<1>1. Within(s, S) \in Seq(A \cap S)
  BY WithinOwn
<1>2. A \cap S \subseteq {a \in A : a.kind \in kinds}
  OBVIOUS
<1>3. QED
  BY <1>1, <1>2, SeqMonotonic DEF OfKind

\* The elements of a sequence and one more.
LEMMA RangeAppend ==
  ASSUME NEW A, NEW s \in Seq(A), NEW e
  PROVE  Range(Append(s, e)) = Range(s) \union {e}
<1>1. PICK t : t = Append(s, e)
  OBVIOUS
<1>2. PICK l \in Nat : l = Len(s)
  OBVIOUS
<1>3. /\ DOMAIN s = 1..l /\ DOMAIN t = 1..(l + 1) /\ t[l + 1] = e
      /\ \A i \in 1..l : t[i] = s[i]
  BY <1>1, <1>2
<1>4. \A i \in 1..(l + 1) : i \in 1..l \/ i = l + 1
  OBVIOUS
<1>5. Range(t) = Range(s) \union {e}
  BY <1>3, <1>4 DEF Range
<1>6. QED
  BY <1>1, <1>5

\* Every wanted element is kept.
LEMMA WithinHits ==
  ASSUME NEW A, NEW s \in Seq(A), NEW S
  PROVE  Range(Within(s, S)) = Range(s) \cap S
<1> DEFINE P == {r \in Seq(A) : Range(Within(r, S)) = Range(r) \cap S}
<1>1. <<>> \in P
  BY WithinEmpty DEF Range
<1>2. ASSUME NEW r \in Seq(A), NEW e \in A, r \in P PROVE Append(r, e) \in P
  <2>1. Range(Within(r, S)) = Range(r) \cap S
    BY <1>2
  <2>2. Within(Append(r, e), S) = IF e \in S THEN Append(Within(r, S), e) ELSE Within(r, S)
    BY WithinAppend
  <2>3. Within(r, S) \in Seq(A)
    BY WithinType
  <2>4. /\ Range(Append(r, e)) = Range(r) \union {e}
        /\ Range(Append(Within(r, S), e)) = Range(Within(r, S)) \union {e}
    BY <2>3, RangeAppend
  <2>5. Range(Within(Append(r, e), S)) = Range(Append(r, e)) \cap S
    BY <2>1, <2>2, <2>4
  <2>6. QED
    BY <2>5
<1> HIDE DEF P
<1>3. Seq(A) \subseteq P
  BY <1>1, <1>2, SeqInduction
<1> USE DEF P
<1>4. QED
  BY <1>3

-----------------------------------------------------------------------------
(* FlattenSeq.                                                             *)

FlattenSteps(ss, m, f) ==
  f = [n \in 1..m |-> IF n = 1 THEN ss[n] ELSE f[n - 1] \o ss[n]]

FlattenRun(ss, m, f) ==
  /\ f[1] = ss[1]
  /\ \A n \in 2..m : f[n] = f[n - 1] \o ss[n]

\* The recursion of FlattenSeq is a function.
LEMMA FlattenStepsExist ==
  ASSUME NEW ss, NEW m \in Nat
  PROVE  \E f : FlattenSteps(ss, m, f)
<1> DEFINE T == {n \in Nat : \E f : FlattenSteps(ss, n, f)}
<1>1. 0 \in T
  <2> DEFINE f == [n \in 1..0 |-> <<>>]
  <2>1. FlattenSteps(ss, 0, f)
    BY DEF FlattenSteps
  <2>2. QED BY <2>1
<1>2. ASSUME NEW n \in Nat, n \in T PROVE n + 1 \in T
  <2>1. PICK f : FlattenSteps(ss, n, f)
    BY <1>2
  <2> DEFINE g == [k \in 1..(n + 1) |->
                     IF k = n + 1 THEN IF k = 1 THEN ss[k] ELSE f[n] \o ss[k]
                     ELSE f[k]]
  <2>2. FlattenSteps(ss, n + 1, g)
    <3>1. \A k \in 1..n : f[k] = IF k = 1 THEN ss[k] ELSE f[k - 1] \o ss[k]
      BY <2>1 DEF FlattenSteps
    <3>2. \A k \in 1..(n+1) : g[k] = IF k = 1 THEN ss[k] ELSE g[k - 1] \o ss[k]
      BY <3>1
    <3> HIDE DEF g
    <3>3. DOMAIN g = 1..(n+1) /\ g = [k \in 1..(n+1) |-> g[k]]
      BY DEF g
    <3>4. QED
      BY <3>2, <3>3 DEF FlattenSteps
  <2>3. QED BY <2>2
<1> HIDE DEF T
<1>3. Nat \subseteq T
  BY <1>1, <1>2, SetInduction
<1> USE DEF T
<1>4. QED
  BY <1>3

\* FlattenSeq is its last value.
LEMMA FlattenIs ==
  ASSUME NEW ss, NEW m \in Nat, Len(ss) = m, m # 0
  PROVE  \E f : FlattenRun(ss, m, f) /\ FlattenSeq(ss) = f[m]
<1> DEFINE F == CHOOSE f : FlattenSteps(ss, m, f)
<1>1. FlattenSteps(ss, m, F)
  BY FlattenStepsExist
<1>2. FlattenSeq(ss) = F[m]
  BY DEF FlattenSeq, FlattenSteps
<1> HIDE DEF F
<1>3. FlattenRun(ss, m, F)
  <2>1. \A n \in 1..m : F[n] = IF n = 1 THEN ss[n] ELSE F[n - 1] \o ss[n]
    BY <1>1 DEF FlattenSteps
  <2>2. 1 \in 1..m /\ \A n \in 2..m : n \in 1..m /\ n # 1
    OBVIOUS
  <2>3. QED
    BY <2>1, <2>2 DEF FlattenRun
<1>4. QED
  BY <1>2, <1>3

\* Nothing to put together.
LEMMA FlattenEmpty ==
  FlattenSeq(<<>>) = <<>>
  BY DEF FlattenSeq

\* FlattenSeq, a sequence more.
LEMMA FlattenAppend ==
  ASSUME NEW A, NEW ss \in Seq(Seq(A)), NEW s \in Seq(A)
  PROVE  FlattenSeq(Append(ss, s)) = FlattenSeq(ss) \o s
<1>1. PICK l \in Nat : l = Len(ss)
  OBVIOUS
<1>2. PICK tt : tt = Append(ss, s)
  OBVIOUS
<1>3. Len(tt) = l + 1 /\ tt[l + 1] = s /\ \A n \in 1..l : tt[n] = ss[n]
  BY <1>1, <1>2
<1>4. PICK g : FlattenRun(tt, l + 1, g) /\ FlattenSeq(tt) = g[l + 1]
  <2>1. l + 1 \in Nat /\ l + 1 # 0
    OBVIOUS
  <2>2. QED
    BY <2>1, <1>3, FlattenIs
<1>5. CASE l = 0
  <2>1. ss = <<>>
    BY <1>1, <1>5, EmptySeq
  <2>2. FlattenSeq(ss) = <<>>
    BY <2>1, FlattenEmpty
  <2>3. FlattenSeq(tt) = s
    BY <1>3, <1>4, <1>5 DEF FlattenRun
  <2>4. QED
    BY <1>2, <2>2, <2>3
<1>6. CASE l # 0
  <2>1. PICK f : FlattenRun(ss, l, f) /\ FlattenSeq(ss) = f[l]
    BY <1>1, <1>6, FlattenIs
  <2> DEFINE T == {n \in Nat : n \in 1..l => f[n] = g[n]}
  <2>2. 0 \in T
    OBVIOUS
  <2>3. ASSUME NEW n \in Nat, n \in T PROVE n + 1 \in T
    <3> SUFFICES ASSUME n + 1 \in 1..l PROVE f[n + 1] = g[n + 1]
      OBVIOUS
    <3>1. tt[n + 1] = ss[n + 1]
      BY <1>3
    <3>2. CASE n = 0
      BY <3>1, <3>2, <2>1, <1>4 DEF FlattenRun
    <3>3. CASE n # 0
      <4>1. n + 1 \in 2..l /\ n + 1 \in 2..(l + 1) /\ (n + 1) - 1 = n /\ f[n] = g[n]
        BY <3>3, <2>3
      <4>2. f[n + 1] = f[n] \o ss[n + 1]
        BY <4>1, <2>1 DEF FlattenRun
      <4>3. g[n + 1] = g[n] \o tt[n + 1]
        BY <4>1, <1>4 DEF FlattenRun
      <4>4. QED
        BY <3>1, <4>1, <4>2, <4>3
    <3>4. QED
      BY <3>2, <3>3
  <2> HIDE DEF T
  <2>4. Nat \subseteq T
    BY <2>2, <2>3, SetInduction
  <2> USE DEF T
  <2>5. f[l] = g[l]
    BY <2>4, <1>6
  <2>6. l + 1 \in 2..(l + 1) /\ (l + 1) - 1 = l
    BY <1>6
  <2>7. g[l + 1] = g[l] \o tt[l + 1]
    BY <2>6, <1>4 DEF FlattenRun
  <2>8. QED
    BY <1>2, <1>3, <1>4, <2>1, <2>5, <2>7
<1>7. QED
  BY <1>5, <1>6

\* What is put together has the type of its parts.
LEMMA FlattenType ==
  ASSUME NEW A, NEW ss \in Seq(Seq(A))
  PROVE  FlattenSeq(ss) \in Seq(A)
<1> DEFINE P == {r \in Seq(Seq(A)) : FlattenSeq(r) \in Seq(A)}
<1>1. <<>> \in P
  <2>1. <<>> \in Seq(A) /\ <<>> \in Seq(Seq(A))
    BY EmptySeq
  <2>2. QED
    BY <2>1, FlattenEmpty
<1>2. ASSUME NEW r \in Seq(Seq(A)), NEW e \in Seq(A), r \in P PROVE Append(r, e) \in P
  <2>1. FlattenSeq(r) \in Seq(A)
    BY <1>2
  <2>2. FlattenSeq(Append(r, e)) = FlattenSeq(r) \o e
    BY FlattenAppend
  <2>3. FlattenSeq(Append(r, e)) \in Seq(A)
    BY <2>1, <2>2
  <2>4. QED
    BY <2>3
<1> HIDE DEF P
<1>3. Seq(Seq(A)) \subseteq P
  BY <1>1, <1>2, SeqInduction
<1> USE DEF P
<1>4. QED
  BY <1>3

\* FlattenSeq goes through a concatenation.
LEMMA FlattenConcat ==
  ASSUME NEW A, NEW ss \in Seq(Seq(A)), NEW tt \in Seq(Seq(A))
  PROVE  FlattenSeq(ss \o tt) = FlattenSeq(ss) \o FlattenSeq(tt)
<1> DEFINE P == {r \in Seq(Seq(A)) : FlattenSeq(ss \o r) = FlattenSeq(ss) \o FlattenSeq(r)}
<1>0. FlattenSeq(ss) \in Seq(A)
  BY FlattenType
<1>1. <<>> \in P
  <2>1. FlattenSeq(<<>>) = <<>> /\ ss \o <<>> = ss /\ FlattenSeq(ss) \o <<>> = FlattenSeq(ss)
    BY FlattenEmpty, <1>0
  <2>2. <<>> \in Seq(Seq(A))
    BY EmptySeq
  <2>3. QED
    BY <2>1, <2>2
<1>2. ASSUME NEW r \in Seq(Seq(A)), NEW e \in Seq(A), r \in P PROVE Append(r, e) \in P
  <2>1. FlattenSeq(ss \o r) = FlattenSeq(ss) \o FlattenSeq(r) /\ ss \o r \in Seq(Seq(A))
    BY <1>2
  <2>2. FlattenSeq(Append(r, e)) = FlattenSeq(r) \o e
    BY FlattenAppend
  <2>3. FlattenSeq(Append(ss \o r, e)) = FlattenSeq(ss \o r) \o e
    BY <2>1, FlattenAppend
  <2>4. ss \o Append(r, e) = Append(ss \o r, e)
    OBVIOUS
  <2>5. FlattenSeq(r) \in Seq(A)
    BY FlattenType
  <2>6. (FlattenSeq(ss) \o FlattenSeq(r)) \o e = FlattenSeq(ss) \o (FlattenSeq(r) \o e)
    <3> HIDE DEF P
    <3>1. QED
      BY <2>5, <1>0, ConcatAssociative, SMTT(40)
  <2>7. FlattenSeq(ss \o Append(r, e)) = FlattenSeq(ss) \o FlattenSeq(Append(r, e))
    BY <2>1, <2>2, <2>3, <2>4, <2>6
  <2>8. QED
    BY <2>7
<1> HIDE DEF P
<1>3. Seq(Seq(A)) \subseteq P
  BY <1>1, <1>2, SeqInduction
<1> USE DEF P
<1>4. QED
  BY <1>3

\* A function on 1..n with its values in S is a sequence.
LEMMA SequenceOf ==
  ASSUME NEW S, NEW n \in Nat, NEW f, DOMAIN f = 1..n, \A i \in 1..n : f[i] \in S,
         f = [i \in 1..n |-> f[i]]
  PROVE  f \in Seq(S) /\ Len(f) = n
<1>1. f \in [1..n -> S]
  OBVIOUS
<1>2. QED
  BY <1>1

\* The first k elements of a sequence, and the others.
FirstOf(s, k) == [i \in 1..k |-> s[i]]
RestOf(s, k)  == [i \in 1..(Len(s) - k) |-> s[k + i]]

\* Both are sequences.
LEMMA HalvesType ==
  ASSUME NEW A, NEW s \in Seq(A), NEW k \in 0..Len(s)
  PROVE  /\ FirstOf(s, k) \in Seq(A) /\ Len(FirstOf(s, k)) = k
         /\ RestOf(s, k) \in Seq(A) /\ Len(RestOf(s, k)) = Len(s) - k
<1>1. PICK n \in Nat, l \in Nat : n = Len(s) /\ l = n - k
  OBVIOUS
<1>2. k \in Nat /\ (\A i \in 1..k : i \in 1..n) /\ \A i \in 1..l : k + i \in 1..n
  BY <1>1
<1>3. \A i \in 1..n : s[i] \in A
  BY <1>1
<1>4. PICK p, q : p = FirstOf(s, k) /\ q = RestOf(s, k)
  OBVIOUS
<1>5. DOMAIN p = 1..k /\ p = [i \in 1..k |-> p[i]] /\ \A i \in 1..k : p[i] \in A
  BY <1>2, <1>3, <1>4 DEF FirstOf
<1>6. DOMAIN q = 1..l /\ q = [i \in 1..l |-> q[i]] /\ \A i \in 1..l : q[i] \in A
  BY <1>1, <1>2, <1>3, <1>4 DEF RestOf
<1>7. p \in Seq(A) /\ Len(p) = k
  BY <1>2, <1>5, SequenceOf
<1>8. q \in Seq(A) /\ Len(q) = l
  BY <1>6, SequenceOf
<1>9. QED
  BY <1>1, <1>4, <1>7, <1>8

\* Together they are the sequence.
LEMMA HalvesConcat ==
  ASSUME NEW A, NEW s \in Seq(A), NEW k \in 0..Len(s)
  PROVE  FirstOf(s, k) \o RestOf(s, k) = s
<1>1. PICK n \in Nat, l \in Nat : n = Len(s) /\ l = n - k /\ k \in Nat
  OBVIOUS
<1>2. PICK p \in Seq(A), q \in Seq(A) : p = FirstOf(s, k) /\ q = RestOf(s, k) /\ Len(p) = k /\ Len(q) = l
  BY <1>1, HalvesType
<1>3. (\A i \in 1..k : p[i] = s[i]) /\ \A i \in 1..l : q[i] = s[k + i]
  BY <1>1, <1>2 DEF FirstOf, RestOf
<1>4. PICK pq : pq = p \o q
  OBVIOUS
<1>5. /\ pq \in Seq(A) /\ Len(pq) = k + l
      /\ \A i \in 1..k : pq[i] = p[i]
      /\ \A i \in 1..l : pq[k + i] = q[i]
  BY <1>1, <1>2, <1>4
<1>6. ASSUME NEW i \in 1..n PROVE pq[i] = s[i]
  <2>1. CASE i \in 1..k
    BY <1>3, <1>5, <2>1
  <2>2. CASE i \notin 1..k
    <3>1. i - k \in 1..l /\ i = k + (i - k)
      BY <1>1, <2>2
    <3>2. PICK j \in 1..l : i = k + j
      BY <3>1
    <3>3. QED
      BY <1>3, <1>5, <3>2
  <2>3. QED
    BY <2>1, <2>2
<1>7. Len(pq) = n
  BY <1>1, <1>5
<1>8. pq = s
  BY <1>1, <1>5, <1>6, <1>7, SeqEqual
<1>9. QED
  BY <1>2, <1>4, <1>8

\* Putting together, in two halves.
LEMMA FlattenSplit ==
  ASSUME NEW A, NEW ss \in Seq(Seq(A)), NEW k \in 0..Len(ss)
  PROVE  FlattenSeq(ss) = FlattenSeq(FirstOf(ss, k)) \o FlattenSeq(RestOf(ss, k))
<1>1. PICK p \in Seq(Seq(A)), q \in Seq(Seq(A)) : p = FirstOf(ss, k) /\ q = RestOf(ss, k)
  BY HalvesType
<1>2. p \o q = ss
  BY <1>1, HalvesConcat
<1>3. FlattenSeq(p \o q) = FlattenSeq(p) \o FlattenSeq(q)
  BY FlattenConcat
<1>4. QED
  BY <1>1, <1>2, <1>3

\* Of nothings nothing is put together.
LEMMA FlattenNothings ==
  ASSUME NEW n \in Nat
  PROVE  FlattenSeq([i \in 1..n |-> <<>>]) = <<>>
<1>1. PICK ss : ss = [i \in 1..n |-> <<>>]
  OBVIOUS
<1>2. DOMAIN ss = 1..n /\ ss = [i \in 1..n |-> ss[i]] /\ \A i \in 1..n : ss[i] \in Seq({})
  BY <1>1, EmptySeq
<1>3. ss \in Seq(Seq({}))
  BY <1>2, SequenceOf
<1>4. PICK t \in Seq({}) : t = FlattenSeq(ss)
  BY <1>3, FlattenType
<1>5. Len(t) = 0
  <2>1. Len(t) \in Nat
    OBVIOUS
  <2>2. ~(1 \in 1..Len(t))
    BY ElementOfSeq
  <2>3. QED
    BY <2>1, <2>2
<1>6. QED
  BY <1>1, <1>4, <1>5, EmptySeq

-----------------------------------------------------------------------------
(* A function applied to each element, and the sequences that it gives put *)
(* together.                                                               *)

Mapped(s, g) == [i \in DOMAIN s |-> g[s[i]]]

\* Nothing to apply it to.
LEMMA MappedEmpty ==
  ASSUME NEW g
  PROVE  Mapped(<<>>, g) = <<>>
  BY DEF Mapped

\* What it gives.
LEMMA MappedType ==
  ASSUME NEW A, NEW B, NEW g \in [A -> B], NEW s \in Seq(A)
  PROVE  Mapped(s, g) \in Seq(B)
<1>1. PICK n \in Nat : n = Len(s) /\ DOMAIN s = 1..n
  OBVIOUS
<1>2. PICK f : f = [i \in 1..n |-> g[s[i]]]
  OBVIOUS
<1>3. \A i \in 1..n : s[i] \in A
  BY <1>1
<1>4. \A i \in 1..n : f[i] \in B
  BY <1>2, <1>3
<1>5. f \in [1..n -> B]
  BY <1>2, <1>4
<1>6. f \in Seq(B)
  BY <1>5
<1>7. QED
  BY <1>1, <1>2, <1>6 DEF Mapped

\* And where.
LEMMA MappedAt ==
  ASSUME NEW A, NEW s \in Seq(A), NEW g
  PROVE  /\ DOMAIN Mapped(s, g) = 1..Len(s)
         /\ \A i \in 1..Len(s) : Mapped(s, g)[i] = g[s[i]]
  BY DEF Mapped

\* One element more.
LEMMA MappedAppend ==
  ASSUME NEW A, NEW B, NEW g \in [A -> B], NEW s \in Seq(A), NEW e \in A
  PROVE  Mapped(Append(s, e), g) = Append(Mapped(s, g), g[e])
<1>1. PICK n \in Nat : n = Len(s)
  OBVIOUS
<1>2. PICK t : t = Append(s, e)
  OBVIOUS
<1>3. t \in Seq(A) /\ Len(t) = n + 1 /\ t[n + 1] = e /\ \A i \in 1..n : t[i] = s[i]
  BY <1>1, <1>2
<1>4. PICK p, q : p = Mapped(s, g) /\ q = Mapped(t, g)
  OBVIOUS
<1>5. p \in Seq(B) /\ Len(p) = n /\ \A i \in 1..n : p[i] = g[s[i]]
  <2>1. Mapped(s, g) \in Seq(B)
    BY MappedType
  <2>2. /\ DOMAIN Mapped(s, g) = 1..Len(s)
        /\ \A i \in 1..Len(s) : Mapped(s, g)[i] = g[s[i]]
    BY MappedAt
  <2>3. QED
    BY <1>1, <1>4, <2>1, <2>2
<1>6. q \in Seq(B) /\ Len(q) = n + 1 /\ \A i \in 1..(n + 1) : q[i] = g[t[i]]
  <2>0. t \in Seq(A)
    BY <1>3
  <2>1. Mapped(t, g) \in Seq(B)
    BY <2>0, MappedType
  <2>2. /\ DOMAIN Mapped(t, g) = 1..Len(t)
        /\ \A i \in 1..Len(t) : Mapped(t, g)[i] = g[t[i]]
    BY <2>0, MappedAt
  <2>3. QED
    BY <1>3, <1>4, <2>1, <2>2
<1>7. PICK r : r = Append(p, g[e])
  OBVIOUS
<1>8. g[e] \in B
  OBVIOUS
<1>9. r \in Seq(B) /\ Len(r) = n + 1 /\ r[n + 1] = g[e] /\ \A i \in 1..n : r[i] = p[i]
  BY <1>5, <1>7, <1>8
<1>10. \A i \in 1..(n + 1) : i \in 1..n \/ i = n + 1
  OBVIOUS
<1>11. \A i \in 1..(n + 1) : q[i] = r[i]
  BY <1>3, <1>5, <1>6, <1>9, <1>10
<1>12. q = r
  BY <1>6, <1>9, <1>11, SeqEqual
<1>13. QED
  BY <1>2, <1>4, <1>7, <1>12

\* One part after the other.
LEMMA MappedConcat ==
  ASSUME NEW A, NEW B, NEW g \in [A -> B], NEW s \in Seq(A), NEW t \in Seq(A)
  PROVE  Mapped(s \o t, g) = Mapped(s, g) \o Mapped(t, g)
<1> DEFINE P == {r \in Seq(A) : Mapped(s \o r, g) = Mapped(s, g) \o Mapped(r, g)}
<1>0. Mapped(s, g) \in Seq(B)
  BY MappedType
<1>1. <<>> \in P
  <2>1. s \o <<>> = s /\ Mapped(s, g) \o <<>> = Mapped(s, g) /\ <<>> \in Seq(A)
    BY <1>0, EmptySeq
  <2>2. QED
    BY <2>1, MappedEmpty
<1>2. ASSUME NEW r \in Seq(A), NEW e \in A, r \in P PROVE Append(r, e) \in P
  <2>1. Mapped(s \o r, g) = Mapped(s, g) \o Mapped(r, g) /\ s \o r \in Seq(A)
    BY <1>2
  <2>2. Mapped(Append(r, e), g) = Append(Mapped(r, g), g[e])
    BY MappedAppend
  <2>3. Mapped(Append(s \o r, e), g) = Append(Mapped(s \o r, g), g[e])
    BY <2>1, MappedAppend
  <2>4. s \o Append(r, e) = Append(s \o r, e) /\ Append(r, e) \in Seq(A)
    OBVIOUS
  <2>5. Mapped(r, g) \in Seq(B) /\ g[e] \in B
    BY MappedType
  <2>6. Mapped(s, g) \o Append(Mapped(r, g), g[e]) = Append(Mapped(s, g) \o Mapped(r, g), g[e])
    BY <1>0, <2>5, ConcatAppend
  <2>7. QED
    BY <2>1, <2>2, <2>3, <2>4, <2>6
<1> HIDE DEF P
<1>3. Seq(A) \subseteq P
  BY <1>1, <1>2, SeqInduction
<1>4. QED
  BY <1>3 DEF P

Gather(s, g) == FlattenSeq(Mapped(s, g))

\* Nothing to gather.
LEMMA GatherEmpty ==
  ASSUME NEW g
  PROVE  Gather(<<>>, g) = <<>>
  BY MappedEmpty, FlattenEmpty DEF Gather

\* What is gathered.
LEMMA GatherType ==
  ASSUME NEW A, NEW B, NEW g \in [A -> Seq(B)], NEW s \in Seq(A)
  PROVE  Gather(s, g) \in Seq(B)
<1>1. Mapped(s, g) \in Seq(Seq(B))
  BY MappedType
<1>2. QED
  BY <1>1, FlattenType DEF Gather

\* One element more.
LEMMA GatherAppend ==
  ASSUME NEW A, NEW B, NEW g \in [A -> Seq(B)], NEW s \in Seq(A), NEW e \in A
  PROVE  Gather(Append(s, e), g) = Gather(s, g) \o g[e]
<1>1. Mapped(s, g) \in Seq(Seq(B)) /\ g[e] \in Seq(B)
  BY MappedType
<1>2. Mapped(Append(s, e), g) = Append(Mapped(s, g), g[e])
  BY MappedAppend
<1>3. FlattenSeq(Append(Mapped(s, g), g[e])) = FlattenSeq(Mapped(s, g)) \o g[e]
  BY <1>1, FlattenAppend
<1>4. QED
  BY <1>2, <1>3 DEF Gather

\* One element alone.
LEMMA GatherOne ==
  ASSUME NEW A, NEW B, NEW g \in [A -> Seq(B)], NEW e \in A
  PROVE  Gather(<<e>>, g) = g[e]
<1>1. <<>> \in Seq(A) /\ Append(<<>>, e) = <<e>>
  BY EmptySeq
<1>2. Gather(Append(<<>>, e), g) = Gather(<<>>, g) \o g[e]
  BY <1>1, GatherAppend
<1>3. g[e] \in Seq(B)
  OBVIOUS
<1>4. <<>> \o g[e] = g[e]
  BY <1>3
<1>5. QED
  BY <1>1, <1>2, <1>4, GatherEmpty

\* One part after the other.
LEMMA GatherConcat ==
  ASSUME NEW A, NEW B, NEW g \in [A -> Seq(B)], NEW s \in Seq(A), NEW t \in Seq(A)
  PROVE  Gather(s \o t, g) = Gather(s, g) \o Gather(t, g)
<1> DEFINE P == {r \in Seq(A) : Gather(s \o r, g) = Gather(s, g) \o Gather(r, g)}
<1>0. Gather(s, g) \in Seq(B)
  BY GatherType
<1>1. <<>> \in P
  <2>1. s \o <<>> = s /\ Gather(s, g) \o <<>> = Gather(s, g) /\ <<>> \in Seq(A)
    BY <1>0, EmptySeq
  <2>2. QED
    BY <2>1, GatherEmpty
<1>2. ASSUME NEW r \in Seq(A), NEW e \in A, r \in P PROVE Append(r, e) \in P
  <2>1. Gather(s \o r, g) = Gather(s, g) \o Gather(r, g) /\ s \o r \in Seq(A)
    BY <1>2
  <2>2. Gather(Append(r, e), g) = Gather(r, g) \o g[e]
    BY GatherAppend
  <2>3. Gather(Append(s \o r, e), g) = Gather(s \o r, g) \o g[e]
    BY <2>1, GatherAppend
  <2>4. s \o Append(r, e) = Append(s \o r, e)
    OBVIOUS
  <2>5. Gather(r, g) \in Seq(B) /\ g[e] \in Seq(B)
    BY GatherType
  <2>6. (Gather(s, g) \o Gather(r, g)) \o g[e] = Gather(s, g) \o (Gather(r, g) \o g[e])
    <3> HIDE DEF P
    <3>1. QED
      BY <1>0, <2>5, ConcatAssociative, SMTT(40)
  <2>7. Gather(s \o Append(r, e), g) = Gather(s, g) \o Gather(Append(r, e), g)
    BY <2>1, <2>2, <2>3, <2>4, <2>6
  <2>8. Append(r, e) \in Seq(A)
    OBVIOUS
  <2>9. QED
    BY <2>7, <2>8
<1> HIDE DEF P
<1>3. Seq(A) \subseteq P
  BY <1>1, <1>2, SeqInduction
<1>4. QED
  BY <1>3 DEF P

\* To gather from what was put together is to put together what was gathered.
LEMMA GatherFlatten ==
  ASSUME NEW A, NEW B, NEW g \in [A -> Seq(B)], NEW ss \in Seq(Seq(A))
  PROVE  Gather(FlattenSeq(ss), g) = Gather(ss, [s \in Seq(A) |-> Gather(s, g)])
<1> DEFINE h == [s \in Seq(A) |-> Gather(s, g)]
           P == {rr \in Seq(Seq(A)) : Gather(FlattenSeq(rr), g) = Gather(rr, h)}
<1>1. h \in [Seq(A) -> Seq(B)] /\ \A s \in Seq(A) : h[s] = Gather(s, g)
  <2>1. \A s \in Seq(A) : Gather(s, g) \in Seq(B)
    BY GatherType
  <2>2. QED
    BY <2>1
<1> HIDE DEF h
<1>2. <<>> \in P
  BY EmptySeq, FlattenEmpty, GatherEmpty
<1>3. ASSUME NEW rr \in Seq(Seq(A)), NEW e \in Seq(A), rr \in P PROVE Append(rr, e) \in P
  <2>1. FlattenSeq(rr) \in Seq(A) /\ FlattenSeq(Append(rr, e)) = FlattenSeq(rr) \o e
    BY FlattenType, FlattenAppend
  <2>2. Gather(FlattenSeq(rr) \o e, g) = Gather(FlattenSeq(rr), g) \o Gather(e, g)
    BY <2>1, GatherConcat
  <2>3. Gather(Append(rr, e), h) = Gather(rr, h) \o h[e]
    BY <1>1, GatherAppend
  <2>4. Append(rr, e) \in Seq(Seq(A))
    OBVIOUS
  <2>5. QED
    BY <1>1, <1>3, <2>1, <2>2, <2>3, <2>4
<1> HIDE DEF P
<1>4. Seq(Seq(A)) \subseteq P
  BY <1>2, <1>3, SeqInduction
<1>5. QED
  BY <1>4 DEF P, h

Placed(ss, t) ==
  /\ \A i \in 1..Len(ss) : \A e \in Range(ss[i]) : \E l \in 1..Len(t) : t[l] = e
  /\ \A k \in 1..Len(t) : \E i \in 1..Len(ss) :
       /\ t[k] \in Range(ss[i])
       /\ \A j \in 1..(i - 1) : \A e \in Range(ss[j]) : \E l \in 1..(k - 1) : t[l] = e

\* Every element of what is put together lies in one of the parts, and after all those of
\* the parts before it.
LEMMA FlattenPlaces ==
  ASSUME NEW A, NEW ss \in Seq(Seq(A))
  PROVE  Placed(ss, FlattenSeq(ss))
<1> DEFINE P == {rr \in Seq(Seq(A)) : Placed(rr, FlattenSeq(rr))}
<1>1. <<>> \in P
  BY EmptySeq, FlattenEmpty DEF Placed
<1>2. ASSUME NEW rr \in Seq(Seq(A)), NEW s \in Seq(A), rr \in P PROVE Append(rr, s) \in P
  <2>1. PICK m \in Nat : m = Len(rr)
    OBVIOUS
  <2>2. PICK qq : qq = Append(rr, s)
    OBVIOUS
  <2>3. qq \in Seq(Seq(A)) /\ Len(qq) = m + 1 /\ qq[m + 1] = s /\ \A i \in 1..m : qq[i] = rr[i]
    BY <2>1, <2>2
  <2>4. PICK t \in Seq(A) : t = FlattenSeq(rr)
    BY FlattenType
  <2>5. PICK a, b \in Nat : a = Len(t) /\ b = Len(s)
    OBVIOUS
  <2>6. PICK u : u = t \o s
    OBVIOUS
  <2>7. Len(u) = a + b /\ (\A l \in 1..a : u[l] = t[l]) /\ \A l \in 1..b : u[a + l] = s[l]
    BY <2>5, <2>6
  <2>8. FlattenSeq(qq) = u
    BY <2>2, <2>4, <2>6, FlattenAppend
  <2>9. Placed(rr, t)
    BY <1>2, <2>4
  <2>10. \A i \in 1..(m + 1) : i \in 1..m \/ i = m + 1
    OBVIOUS
  <2>11. Range(s) = {s[l] : l \in 1..b}
    <3>1. DOMAIN s = 1..b
      BY <2>5
    <3>2. QED
      BY <3>1 DEF Range
  <2>12. ASSUME NEW i \in 1..(m + 1), NEW e \in Range(qq[i])
         PROVE  \E l \in 1..(a + b) : u[l] = e
    <3>1. CASE i \in 1..m
      <4>1. PICK l \in 1..a : t[l] = e
        BY <2>1, <2>3, <2>5, <2>9, <2>12, <3>1 DEF Placed
      <4>2. l \in 1..(a + b) /\ u[l] = e
        BY <2>7, <4>1
      <4>3. QED
        BY <4>2
    <3>2. CASE i = m + 1
      <4>1. PICK l \in 1..b : e = s[l]
        BY <2>3, <2>11, <2>12, <3>2
      <4>2. a + l \in 1..(a + b) /\ u[a + l] = e
        BY <2>7, <4>1
      <4>3. QED
        BY <4>2
    <3>3. QED
      BY <2>10, <3>1, <3>2
  <2>13. ASSUME NEW k \in 1..(a + b)
         PROVE  \E i \in 1..(m + 1) :
                  /\ u[k] \in Range(qq[i])
                  /\ \A j \in 1..(i - 1) : \A e \in Range(qq[j]) : \E l \in 1..(k - 1) : u[l] = e
    <3>1. CASE k \in 1..a
      <4>1. PICK i \in 1..m :
              /\ t[k] \in Range(rr[i])
              /\ \A j \in 1..(i - 1) : \A e \in Range(rr[j]) : \E l \in 1..(k - 1) : t[l] = e
        BY <2>1, <2>5, <2>9, <3>1 DEF Placed
      <4>2. i \in 1..(m + 1) /\ u[k] \in Range(qq[i])
        BY <2>3, <2>7, <3>1, <4>1
      <4>3. ASSUME NEW j \in 1..(i - 1), NEW e \in Range(qq[j])
            PROVE  \E l \in 1..(k - 1) : u[l] = e
        <5>1. j \in 1..m
          OBVIOUS
        <5>2. PICK l \in 1..(k - 1) : t[l] = e
          BY <2>3, <4>1, <4>3, <5>1
        <5>3. l \in 1..a
          BY <3>1
        <5>4. QED
          BY <2>7, <5>2, <5>3
      <4>4. QED
        BY <4>2, <4>3
    <3>2. CASE k \notin 1..a
      <4>1. PICK l \in 1..b : k = a + l
        <5>1. k - a \in 1..b /\ k = a + (k - a)
          BY <3>2
        <5>2. QED
          BY <5>1
      <4>2. u[k] \in Range(qq[m + 1])
        BY <2>3, <2>7, <2>11, <4>1
      <4>3. ASSUME NEW j \in 1..((m + 1) - 1), NEW e \in Range(qq[j])
            PROVE  \E o \in 1..(k - 1) : u[o] = e
        <5>1. j \in 1..m
          OBVIOUS
        <5>2. PICK o \in 1..a : t[o] = e
          BY <2>1, <2>3, <2>5, <2>9, <4>3, <5>1 DEF Placed
        <5>3. o \in 1..(k - 1) /\ u[o] = e
          BY <2>7, <4>1, <5>2
        <5>4. QED
          BY <5>3
      <4>4. m + 1 \in 1..(m + 1)
        OBVIOUS
      <4>5. QED
        BY <4>2, <4>3, <4>4
    <3>3. QED
      BY <3>1, <3>2
  <2>14. Placed(qq, u)
    BY <2>3, <2>7, <2>12, <2>13 DEF Placed
  <2>15. QED
    BY <2>2, <2>8, <2>14
<1> HIDE DEF P
<1>3. Seq(Seq(A)) \subseteq P
  BY <1>1, <1>2, SeqInduction
<1>4. QED
  BY <1>3 DEF P
=============================================================================
