-------------------------- MODULE Selection_proofs --------------------------
(***************************************************************************)
(* Facts about Keep, a recursive function: that such a function exists and *)
(* takes the values its definition gives is proved from the well-          *)
(* foundedness of < on Nat.  Facts about the elements of sequences.        *)
(***************************************************************************)
EXTENDS Selection, SequenceTheorems, WellFoundedInduction, TLAPS

(* Every set of naturals that is not empty has a least element.            *)
LEMMA NatMin ==
  ASSUME NEW T, T \subseteq Nat, T # {}
  PROVE  \E m \in T : \A k \in T : m <= k
<1> DEFINE R == OpToRel(<, Nat)
<1>1. IsWellFoundedOn(R, Nat)
  BY NatLessThanWellFounded
<1>2. \E x \in T : \A y \in T : ~(<<y, x>> \in R)
  <2> HIDE DEF R
  <2> QED BY <1>1, WFMin
<1>3. PICK x \in T : \A y \in T : ~(<<y, x>> \in R)
  BY <1>2
<1>4. ASSUME NEW k \in T PROVE x <= k
  <2>1. <<k, x>> \notin R
    BY <1>3
  <2>2. ~(k < x)
    BY <2>1 DEF OpToRel
  <2> QED BY <2>2
<1> QED BY <1>4

(* Induction over 0..N, for a set in place of a predicate.                 *)
LEMMA IntervalInduction ==
  ASSUME NEW N \in Nat, NEW T, 0 \in T,
         \A n \in 1..N : n - 1 \in T => n \in T
  PROVE  \A n \in 0..N : n \in T
<1> DEFINE Bad == {n \in 0..N : n \notin T}
<1> SUFFICES ASSUME Bad # {} PROVE FALSE
  OBVIOUS
<1>1. Bad \subseteq Nat
  OBVIOUS
<1>2. PICK m \in Bad : \A k \in Bad : m <= k
  <2> HIDE DEF Bad
  <2> QED BY <1>1, NatMin
<1>3. m \in 1..N
  OBVIOUS
<1>4. m - 1 \in 0..N /\ m - 1 \notin Bad
  BY <1>2, <1>3
<1> QED BY <1>3, <1>4

(* f is the function that e and the steps F define over 0..N.               *)
IsRecursion(f, N, e, F) ==
  f[0] = e /\ \A n \in 1..N : f[n] = F[n][f[n - 1]]

(* A function that is defined by recursion over 0..N exists.               *)
LEMMA RecursionExists ==
  ASSUME NEW N \in Nat, NEW S, NEW e \in S, NEW F \in [1..N -> [S -> S]]
  PROVE  \E f \in [0..N -> S] :
           IsRecursion(f, N, e, F)
<1> DEFINE Eq(f, k) ==
             f[0] = e /\ \A n \in 1..k : f[n] = F[n][f[n - 1]]
           T == {k \in 0..N : \E f \in [0..k -> S] : Eq(f, k)}
<1>1. 0 \in T
  <2> DEFINE f == [n \in 0..0 |-> e]
  <2>1. f \in [0..0 -> S] /\ Eq(f, 0)
    OBVIOUS
  <2>2. \E h \in [0..0 -> S] : Eq(h, 0)
    <3> HIDE DEF f, Eq
    <3> QED BY <2>1
  <2>3. 0 \in 0..N
    OBVIOUS
  <2> HIDE DEF f, Eq
  <2> QED BY <2>2, <2>3, Zenon
<1>2. ASSUME NEW k \in 1..N, k - 1 \in T PROVE k \in T
  <2>1. PICK f \in [0..(k - 1) -> S] : Eq(f, k - 1)
    <3> HIDE DEF Eq
    <3> QED BY <1>2, Zenon
  <2> DEFINE g == [n \in 0..k |-> IF n = k THEN F[k][f[k - 1]] ELSE f[n]]
  <2>2. F[k][f[k - 1]] \in S
    <3>1. f[k - 1] \in S
      OBVIOUS
    <3> QED BY <3>1
  <2>3. ASSUME NEW n \in 0..k PROVE g[n] \in S
    <3>1. CASE n = k
      BY <2>2, <3>1
    <3>2. CASE n # k
      <4>1. n \in 0..(k - 1)
        BY <3>2
      <4> QED BY <4>1, <3>2
    <3> QED BY <3>1, <3>2
  <2>4. g \in [0..k -> S]
    BY <2>3
  <2>5. g[0] = e
    BY <2>1
  <2>6. ASSUME NEW n \in 1..k PROVE g[n] = F[n][g[n - 1]]
    BY <2>1
  <2>7. \E h \in [0..k -> S] : Eq(h, k)
    <3>1. Eq(g, k)
      BY <2>5, <2>6
    <3> HIDE DEF g, Eq
    <3> QED BY <2>4, <3>1
  <2>8. k \in 0..N
    OBVIOUS
  <2> HIDE DEF g, Eq
  <2> QED BY <2>7, <2>8, Zenon
<1>3. N \in T
  <2> HIDE DEF T
  <2>1. \A n \in 0..N : n \in T
    BY <1>1, <1>2, IntervalInduction
  <2> QED BY <2>1
<1>4. PICK f \in [0..N -> S] : Eq(f, N)
  <2> HIDE DEF Eq
  <2> QED BY <1>3, Zenon
<1> QED BY <1>4 DEF IsRecursion

-----------------------------------------------------------------------------
(* The elements of a sequence that got one more.                           *)
LEMMA AppendElements ==
  ASSUME NEW U, NEW s \in Seq(U), NEW e \in U
  PROVE  Elements(Append(s, e)) = Elements(s) \cup {e}
<1>1. /\ DOMAIN s = 1..Len(s)
      /\ DOMAIN Append(s, e) = 1..(Len(s) + 1)
      /\ Append(s, e)[Len(s) + 1] = e
      /\ \A i \in 1..Len(s) : Append(s, e)[i] = s[i]
  OBVIOUS
<1>2. \A i \in 1..(Len(s) + 1) : i \in 1..Len(s) \/ i = Len(s) + 1
  OBVIOUS
<1>3. 1..Len(s) \subseteq 1..(Len(s) + 1) /\ Len(s) + 1 \in 1..(Len(s) + 1)
  OBVIOUS
<1> QED BY <1>1, <1>2, <1>3, Zenon DEF Elements

(* The steps of Keep: what it has kept of the first n elements.            *)
LEMMA KeepSteps ==
  ASSUME NEW U, NEW s \in Seq(U), NEW S
  PROVE  \E kept \in [0..Len(s) -> Seq(U)] :
           /\ Keep(s, S) = kept[Len(s)]
           /\ kept[0] = <<>>
           /\ \A n \in 1..Len(s) :
                kept[n] = IF s[n] \in S THEN Append(kept[n - 1], s[n])
                          ELSE kept[n - 1]
<1> DEFINE N == Len(s)
           Eq(f) == f = [n \in 0..N |->
                           IF n = 0 THEN <<>>
                           ELSE IF s[n] \in S THEN Append(f[n - 1], s[n])
                           ELSE f[n - 1]]
           kept == CHOOSE f : Eq(f)
           F == [n \in 1..N |-> [x \in Seq(U) |->
                   IF s[n] \in S THEN Append(x, s[n]) ELSE x]]
<1>1. N \in Nat /\ \A n \in 1..N : s[n] \in U
  OBVIOUS
<1>2. F \in [1..N -> [Seq(U) -> Seq(U)]]
  <2>1. ASSUME NEW n \in 1..N, NEW x \in Seq(U)
        PROVE  (IF s[n] \in S THEN Append(x, s[n]) ELSE x) \in Seq(U)
    BY <1>1
  <2> HIDE DEF N
  <2> QED BY <2>1
<1>3. \E f : Eq(f)
  <2>1. <<>> \in Seq(U)
    OBVIOUS
  <2>2. PICK f \in [0..N -> Seq(U)] :
          f[0] = <<>> /\ \A n \in 1..N : f[n] = F[n][f[n - 1]]
    <3> DEFINE e == <<>>
               V == Seq(U)
    <3>1. N \in Nat /\ e \in V /\ F \in [1..N -> [V -> V]]
      BY <1>1, <1>2, <2>1
    <3>2. \E f \in [0..N -> V] : IsRecursion(f, N, e, F)
      <4> HIDE DEF F, N, e, V
      <4> QED BY <3>1, RecursionExists
    <3> HIDE DEF F, N
    <3> QED BY <3>2 DEF IsRecursion
  <2>3. ASSUME NEW n \in 0..N, n # 0
        PROVE  f[n] = IF s[n] \in S THEN Append(f[n - 1], s[n]) ELSE f[n - 1]
    <3>1. n \in 1..N /\ n - 1 \in 0..N
      BY <1>1, <2>3
    <3>2. f[n - 1] \in Seq(U)
      BY <3>1
    <3> HIDE DEF N
    <3> QED BY <2>2, <3>1, <3>2
  <2>4. \A n \in 0..N : f[n] = IF n = 0 THEN <<>>
                               ELSE IF s[n] \in S THEN Append(f[n - 1], s[n])
                               ELSE f[n - 1]
    BY <2>2, <2>3
  <2>5. Eq(f)
    <3>1. f = [n \in 0..N |-> f[n]]
      OBVIOUS
    <3> HIDE DEF N
    <3> QED BY <2>4, <3>1
  <2> HIDE DEF Eq
  <2> QED BY <2>5
<1>4. Eq(kept)
  <2> HIDE DEF Eq
  <2> QED BY <1>3
<1>5. /\ kept = [n \in 0..N |-> kept[n]]
      /\ kept[0] = <<>>
      /\ \A n \in 1..N : kept[n] = IF s[n] \in S THEN Append(kept[n - 1], s[n])
                                   ELSE kept[n - 1]
  <2> HIDE DEF kept, N
  <2>1. kept = [n \in 0..N |-> IF n = 0 THEN <<>>
                               ELSE IF s[n] \in S THEN Append(kept[n - 1], s[n])
                               ELSE kept[n - 1]]
    BY <1>4
  <2> HIDE DEF Eq
  <2>2. \A n \in 0..N : kept[n] = IF n = 0 THEN <<>>
                                  ELSE IF s[n] \in S THEN Append(kept[n - 1], s[n])
                                  ELSE kept[n - 1]
    BY <2>1
  <2>3. kept = [n \in 0..N |-> kept[n]]
    BY <2>1, <2>2
  <2>4. 0 \in 0..N /\ \A n \in 1..N : n \in 0..N /\ n # 0
    BY <1>1
  <2> QED BY <2>2, <2>3, <2>4
<1>6. kept \in [0..N -> Seq(U)]
  <2> DEFINE T == {n \in 0..N : kept[n] \in Seq(U)}
  <2> HIDE DEF kept, N
  <2>1. 0 \in T
    BY <1>1, <1>5
  <2>2. ASSUME NEW n \in 1..N, n - 1 \in T PROVE n \in T
    <3>1. kept[n - 1] \in Seq(U) /\ s[n] \in U /\ n \in 0..N
      BY <1>1, <2>2
    <3>2. Append(kept[n - 1], s[n]) \in Seq(U)
      BY <3>1
    <3>3. \/ kept[n] = Append(kept[n - 1], s[n])
          \/ kept[n] = kept[n - 1]
      BY <1>5
    <3>4. kept[n] \in Seq(U)
      BY <3>1, <3>2, <3>3
    <3> QED BY <3>1, <3>4
  <2>3. \A n \in 0..N : n \in T
    <3> HIDE DEF T
    <3> QED BY <1>1, <2>1, <2>2, IntervalInduction
  <2>4. \A n \in 0..N : kept[n] \in Seq(U)
    BY <2>3
  <2> QED BY <1>5, <2>4
<1>7. Keep(s, S) = kept[N]
  BY DEF Keep
<1> HIDE DEF kept
<1> QED BY <1>5, <1>6, <1>7

(* What Keep returns: some of the elements of s, all of them in S.         *)
LEMMA KeepType ==
  ASSUME NEW U, NEW s \in Seq(U), NEW S
  PROVE  /\ Keep(s, S) \in Seq(U)
         /\ Elements(Keep(s, S)) \subseteq Elements(s) \cap S
<1> DEFINE N == Len(s)
<1>1. N \in Nat /\ \A n \in 1..N : s[n] \in U /\ s[n] \in Elements(s)
  BY DEF Elements
<1>2. PICK kept \in [0..N -> Seq(U)] :
        /\ Keep(s, S) = kept[N]
        /\ kept[0] = <<>>
        /\ \A n \in 1..N :
             kept[n] = IF s[n] \in S THEN Append(kept[n - 1], s[n])
                       ELSE kept[n - 1]
  BY KeepSteps
<1> DEFINE T == {n \in 0..N : Elements(kept[n]) \subseteq Elements(s) \cap S}
<1> HIDE DEF N
<1>3. 0 \in T
  BY <1>1, <1>2 DEF Elements
<1>4. ASSUME NEW n \in 1..N, n - 1 \in T PROVE n \in T
  <2>1. kept[n - 1] \in Seq(U) /\ s[n] \in U /\ n \in 0..N
    BY <1>1
  <2>2. CASE s[n] \in S
    <3>1. kept[n] = Append(kept[n - 1], s[n])
      BY <1>2, <2>2
    <3>2. Elements(kept[n]) = Elements(kept[n - 1]) \cup {s[n]}
      BY <2>1, <3>1, AppendElements
    <3> QED BY <1>1, <1>4, <2>1, <2>2, <3>2
  <2>3. CASE s[n] \notin S
    BY <1>2, <1>4, <2>1, <2>3
  <2> QED BY <2>2, <2>3
<1>5. N \in T
  <2> HIDE DEF T
  <2>1. \A n \in 0..N : n \in T
    BY <1>1, <1>3, <1>4, IntervalInduction
  <2> QED BY <1>1, <2>1
<1> QED BY <1>1, <1>2, <1>5

-----------------------------------------------------------------------------
(* Sequences and their elements                                            *)

(* A sequence with one element more in front.                              *)
Prefixed(c, r) == <<c>> \o r

(* The places of such a sequence s.                                        *)
InFront(s, U, c, r) ==
  /\ s \in Seq(U) /\ Len(s) = Len(r) + 1 /\ Len(r) \in Nat
  /\ s[1] = c
  /\ \A i \in 1..Len(r) : s[i + 1] = r[i]

(* They are moved by one.                                                  *)
LEMMA PushedIndex ==
  ASSUME NEW U, NEW c \in U, NEW r \in Seq(U)
  PROVE  InFront(Prefixed(c, r), U, c, r)
<1> DEFINE o == <<c>>
<1>1. o \in Seq(U) /\ Len(o) = 1 /\ o[1] = c
  OBVIOUS
<1>2. /\ o \o r \in Seq(U)
      /\ Len(o \o r) = Len(r) + 1
      /\ Len(r) \in Nat
      /\ \A i \in 1..(Len(r) + 1) :
           (o \o r)[i] = IF i <= 1 THEN o[i] ELSE r[i - 1]
  <2> HIDE DEF o
  <2>1. /\ o \o r \in Seq(U) /\ Len(o \o r) = Len(o) + Len(r)
        /\ \A i \in 1..(Len(o) + Len(r)) :
             (o \o r)[i] = IF i <= Len(o) THEN o[i] ELSE r[i - Len(o)]
    BY <1>1, ConcatProperties
  <2>2. Len(r) \in Nat /\ Len(o) + Len(r) = Len(r) + 1
    BY <1>1
  <2> QED BY <1>1, <2>1, <2>2
<1> HIDE DEF o
<1>3. (o \o r)[1] = c
  BY <1>1, <1>2
<1>4. \A i \in 1..Len(r) : (o \o r)[i + 1] = r[i]
  BY <1>2
<1> QED BY <1>2, <1>3, <1>4 DEF o, Prefixed, InFront

(* A sequence is its head before its tail.                                 *)
LEMMA HeadBeforeTail ==
  ASSUME NEW U, NEW s \in Seq(U), s # <<>>
  PROVE  /\ Head(s) \in U /\ Tail(s) \in Seq(U)
         /\ s = Prefixed(Head(s), Tail(s))
<1>1. Len(s) \in Nat /\ Len(s) # 0 /\ s \in [1..Len(s) -> U]
  BY EmptySeq
<1>2. /\ Head(s) = s[1] /\ Tail(s) \in Seq(U) /\ Len(Tail(s)) = Len(s) - 1
      /\ \A i \in 1..(Len(s) - 1) : Tail(s)[i] = s[i + 1]
  BY <1>1, HeadTailProperties
<1>3. Head(s) \in U
  BY <1>1, <1>2
<1> DEFINE t == Prefixed(Head(s), Tail(s))
<1>4. /\ t \in Seq(U) /\ Len(t) = Len(s) /\ t[1] = s[1]
      /\ \A i \in 1..(Len(s) - 1) : t[i + 1] = s[i + 1]
  <2>1. InFront(t, U, Head(s), Tail(s))
    BY <1>2, <1>3, PushedIndex
  <2> HIDE DEF t
  <2> QED BY <1>1, <1>2, <2>1 DEF InFront
<1>5. ASSUME NEW i \in 1..Len(s) PROVE t[i] = s[i]
  <2>1. CASE i = 1
    BY <1>4, <2>1
  <2>2. CASE i # 1
    <3>1. i - 1 \in 1..(Len(s) - 1) /\ (i - 1) + 1 = i
      BY <1>1, <2>2
    <3> HIDE DEF t
    <3> QED BY <1>4, <3>1
  <2> QED BY <2>1, <2>2
<1>6. t = s
  <2> HIDE DEF t
  <2> QED BY <1>4, <1>5, SeqEqual
<1> QED BY <1>2, <1>3, <1>6

(* The elements of a sequence with one more in front.                      *)
LEMMA PushedElements ==
  ASSUME NEW U, NEW c \in U, NEW r \in Seq(U)
  PROVE  /\ Prefixed(c, r) \in Seq(U) /\ Prefixed(c, r) # <<>>
         /\ Head(Prefixed(c, r)) = c /\ Tail(Prefixed(c, r)) = r
         /\ Elements(Prefixed(c, r)) = {c} \cup Elements(r)
<1> DEFINE s == Prefixed(c, r)
<1>1. /\ s \in Seq(U) /\ Len(s) = Len(r) + 1 /\ Len(r) \in Nat /\ s[1] = c
      /\ \A i \in 1..Len(r) : s[i + 1] = r[i]
  <2>1. InFront(s, U, c, r)
    BY PushedIndex
  <2> HIDE DEF s
  <2> QED BY <2>1 DEF InFront
<1> HIDE DEF s
<1>2. s # <<>> /\ Head(s) = c
  BY <1>1, EmptySeq, HeadTailProperties
<1>3. Tail(s) = r
  <2>1. /\ Tail(s) \in Seq(U) /\ Len(Tail(s)) = Len(r)
        /\ \A i \in 1..Len(r) : Tail(s)[i] = s[i + 1]
    BY <1>1, <1>2, HeadTailProperties
  <2>2. \A i \in 1..Len(Tail(s)) : Tail(s)[i] = r[i]
    BY <1>1, <2>1
  <2> QED BY <2>1, <2>2, SeqEqual
<1>4. Elements(s) = {c} \cup Elements(r)
  <2>1. DOMAIN s = 1..(Len(r) + 1) /\ DOMAIN r = 1..Len(r)
    BY <1>1
  <2>2. ASSUME NEW i \in DOMAIN s PROVE s[i] \in {c} \cup Elements(r)
    <3>1. CASE i = 1
      BY <1>1, <3>1
    <3>2. CASE i # 1
      <4>1. i - 1 \in 1..Len(r) /\ (i - 1) + 1 = i
        BY <1>1, <2>1, <3>2
      <4>2. s[i] = r[i - 1]
        BY <1>1, <4>1
      <4> QED BY <2>1, <4>1, <4>2 DEF Elements
    <3> QED BY <3>1, <3>2
  <2>3. ASSUME NEW i \in DOMAIN r PROVE r[i] \in Elements(s)
    <3>1. i + 1 \in DOMAIN s /\ s[i + 1] = r[i]
      BY <1>1, <2>1
    <3> QED BY <3>1 DEF Elements
  <2>4. c \in Elements(s)
    BY <1>1, <2>1 DEF Elements
  <2> QED BY <2>2, <2>3, <2>4 DEF Elements
<1> QED BY <1>1, <1>2, <1>3, <1>4 DEF s

(* The elements of two sequences, one after the other.                     *)
LEMMA ConcatElements ==
  ASSUME NEW U, NEW s \in Seq(U), NEW t \in Seq(U)
  PROVE  s \o t \in Seq(U) /\ Elements(s \o t) = Elements(s) \cup Elements(t)
<1> DEFINE u == s \o t
<1>1. /\ u \in Seq(U) /\ Len(u) = Len(s) + Len(t) /\ Len(s) \in Nat /\ Len(t) \in Nat
      /\ \A i \in 1..(Len(s) + Len(t)) :
           u[i] = IF i <= Len(s) THEN s[i] ELSE t[i - Len(s)]
  BY ConcatProperties
<1>2. /\ DOMAIN u = 1..(Len(s) + Len(t)) /\ DOMAIN s = 1..Len(s) /\ DOMAIN t = 1..Len(t)
  BY <1>1
<1> HIDE DEF u
<1>3. ASSUME NEW i \in DOMAIN u PROVE u[i] \in Elements(s) \cup Elements(t)
  <2>1. CASE i <= Len(s)
    <3>1. i \in DOMAIN s /\ u[i] = s[i]
      BY <1>1, <1>2, <2>1
    <3> QED BY <3>1 DEF Elements
  <2>2. CASE ~(i <= Len(s))
    <3>1. i - Len(s) \in DOMAIN t /\ u[i] = t[i - Len(s)]
      BY <1>1, <1>2, <2>2
    <3> QED BY <3>1 DEF Elements
  <2> QED BY <2>1, <2>2
<1>4. ASSUME NEW i \in DOMAIN s PROVE s[i] \in Elements(u)
  <2>1. i \in DOMAIN u /\ u[i] = s[i]
    BY <1>1, <1>2
  <2> QED BY <2>1 DEF Elements
<1>5. ASSUME NEW i \in DOMAIN t PROVE t[i] \in Elements(u)
  <2> DEFINE j == i + Len(s)
  <2>1. j \in DOMAIN u /\ j - Len(s) = i /\ ~(j <= Len(s))
    BY <1>1, <1>2
  <2> HIDE DEF j
  <2>2. u[j] = t[i]
    BY <1>1, <1>2, <2>1
  <2> QED BY <2>1, <2>2 DEF Elements
<1>6. Elements(u) = Elements(s) \cup Elements(t)
  BY <1>3, <1>4, <1>5 DEF Elements
<1> QED BY <1>1, <1>6 DEF u

(* The elements of short sequences.                                        *)
LEMMA ShortElements ==
  /\ Elements(<<>>) = {}
  /\ \A a : Elements(<<a>>) = {a}
  /\ \A a, b : Elements(<<a, b>>) = {a, b}
BY DEF Elements

(* The elements of what is left when the first is taken.                   *)
LEMMA TailElements ==
  ASSUME NEW U, NEW s \in Seq(U), s # <<>>
  PROVE  Head(s) \in Elements(s) /\ Elements(s) = {Head(s)} \cup Elements(Tail(s))
<1> DEFINE h == Head(s)
           t == Tail(s)
<1>1. h \in U /\ t \in Seq(U) /\ s = Prefixed(h, t)
  BY HeadBeforeTail
<1> HIDE DEF h, t
<1>2. Elements(Prefixed(h, t)) = {h} \cup Elements(t)
  BY <1>1, PushedElements
<1>3. Elements(s) = {h} \cup Elements(t)
  BY <1>1, <1>2
<1> QED BY <1>3 DEF h, t
=============================================================================
