-------------------------- MODULE RcloneArgsProofs --------------------------
(***************************************************************************)
(* Proofs about RcloneArgs, for every line of arguments and every text.     *)
(*                                                                         *)
(* The operators are folds over sequences.  Induction over them rests on    *)
(* the least number of a set: the sets of the lemmas stand for what holds   *)
(* of the numbers, or of the sequences, that are in them.                   *)
(***************************************************************************)
EXTENDS RcloneArgs, SequenceTheorems, WellFoundedInduction, TLAPS

---------------------------------------------------------------------------
(* Induction.                                                              *)

LEMMA LeastNumber ==
  ASSUME NEW T \in SUBSET Nat, T # {}
  PROVE  \E m \in T : \A k \in T : ~(k < m)
<1>1. \E m \in T : \A k \in T : ~(<<k, m>> \in OpToRel(<, Nat))
  BY NatLessThanWellFounded, WFMin, Zenon
<1> QED
  BY <1>1 DEF OpToRel

\* Of numbers.
LEMMA NumbersAll ==
  ASSUME NEW P \in SUBSET Nat, 0 \in P, \A n \in P : n + 1 \in P
  PROVE  P = Nat
<1> DEFINE T == Nat \ P
<1> SUFFICES ASSUME T # {} PROVE FALSE
  OBVIOUS
<1>1. PICK m \in T : \A k \in T : ~(k < m)
  BY LeastNumber
<1>2. m # 0 /\ m - 1 \in Nat /\ m - 1 \notin T
  BY <1>1
<1> QED
  BY <1>1, <1>2

\* Of sequences, by their last element.
LEMMA SequencesAll ==
  ASSUME NEW C, NEW P \in SUBSET Seq(C), <<>> \in P,
         \A s \in P, c \in C : Append(s, c) \in P
  PROVE  P = Seq(C)
<1> DEFINE N == {n \in Nat : \A s \in Seq(C) : Len(s) = n => s \in P}
<1>1. 0 \in N
  BY EmptySeq
<1>2. ASSUME NEW n \in N PROVE n + 1 \in N
  <2> SUFFICES ASSUME NEW s \in Seq(C), Len(s) = n + 1 PROVE s \in P
    OBVIOUS
  <2>0. n \in Nat /\ s # <<>>
    OBVIOUS
  <2>1. PICK r \in Seq(C), c \in C : s = Append(r, c)
    <3> HIDE DEF N
    <3> QED
      BY <2>0, SequenceEmptyOrAppend
  <2>2. Len(r) = n
    BY <2>1, AppendProperties
  <2> QED
    BY <2>1, <2>2
<1>3. N = Nat
  <2> HIDE DEF N
  <2>1. N \in SUBSET Nat
    BY DEF N
  <2> QED
    BY <1>1, <1>2, <2>1, NumbersAll
<1> QED
  BY <1>3, LenProperties

---------------------------------------------------------------------------
(* Folds.  FoldLeft is a function of the subsets of the domain, the largest *)
(* number of which comes last; F is one round.                              *)

RoundsOf(X, C) == [X \X C -> X]
PartsTo(s, X)  == [SUBSET (DOMAIN s) -> X]

IsFold(F, b, s, g) ==
    g = [S \in SUBSET (DOMAIN s) |-> IF S = {} THEN b ELSE F[<<g[S \ {Max(S)}], s[Max(S)]>>]]

Folded(F, b, s) == (CHOOSE g : IsFold(F, b, s, g))[DOMAIN s]

LEMMA MaxOf ==
  ASSUME NEW n \in Nat, NEW S \in SUBSET (1..n), S # {}
  PROVE  Max(S) \in S /\ \A k \in S : k <= Max(S)
<1> DEFINE T == {n - k : k \in S}
<1>1. T \in SUBSET Nat /\ T # {}
  <2>1. \A k \in S : n - k \in Nat
    OBVIOUS
  <2> QED
    BY <2>1
<1>2. PICK m \in T : \A k \in T : ~(k < m)
  BY <1>1, LeastNumber
<1>3. \E x \in S : \A y \in S : x >= y
  <2>1. PICK x \in S : m = n - x
    BY <1>2
  <2>2. \A y \in S : ~(n - y < n - x)
    BY <1>2, <2>1
  <2> QED
    BY <2>2
<1> QED
  BY <1>3 DEF Max

LEMMA MaxOfAll ==
  ASSUME NEW n \in Nat
  PROVE  Max(1..n + 1) = n + 1 /\ (1..n + 1) \ {n + 1} = 1..n /\ 1..n + 1 # {}
<1> DEFINE S == 1..n + 1
<1>1. n + 1 \in Nat /\ S \in SUBSET (1..n + 1) /\ n + 1 \in S
  OBVIOUS
<1>2. Max(S) \in S /\ \A k \in S : k <= Max(S)
  <2> HIDE DEF S
  <2> QED
    BY <1>1, MaxOf
<1> QED
  BY <1>1, <1>2

\* Such a function exists.
LEMMA FoldExists ==
  ASSUME NEW X, NEW C, NEW F \in RoundsOf(X, C), NEW b \in X, NEW s \in Seq(C)
  PROVE  \E g \in PartsTo(s, X) : IsFold(F, b, s, g)
<1> USE DEF RoundsOf, PartsTo
<1> DEFINE Run(n, g) == g = [S \in SUBSET (1..n) |-> IF S = {} THEN b ELSE F[<<g[S \ {Max(S)}], s[Max(S)]>>]]
           N == {n \in Nat : n <= Len(s) => \E g \in [SUBSET (1..n) -> X] : Run(n, g)}
<1>1. 0 \in N
  <2> DEFINE g == [S \in SUBSET (1..0) |-> b]
  <2>1. g \in [SUBSET (1..0) -> X] /\ Run(0, g)
    OBVIOUS
  <2> QED
    BY <2>1
<1>2. ASSUME NEW n \in N PROVE n + 1 \in N
  <2>0. n \in Nat /\ n + 1 \in Nat
    OBVIOUS
  <2> SUFFICES ASSUME n + 1 <= Len(s)
               PROVE  \E g \in [SUBSET (1..n + 1) -> X] : Run(n + 1, g)
    <3> HIDE DEF Run
    <3> QED
      BY <2>0
  <2>1. PICK g \in [SUBSET (1..n) -> X] : Run(n, g)
    <3>1. n <= Len(s)
      BY <2>0, LenProperties
    <3> HIDE DEF Run
    <3> QED
      BY <3>1
  <2> DEFINE h == [S \in SUBSET (1..n + 1) |->
                     IF n + 1 \in S THEN F[<<g[S \ {n + 1}], s[n + 1]>>] ELSE g[S]]
  <2>2. s[n + 1] \in C
    BY LenProperties, ElementOfSeq
  <2>3. ASSUME NEW S \in SUBSET (1..n + 1)
        PROVE  h[S] \in X /\ h[S] = IF S = {} THEN b ELSE F[<<h[S \ {Max(S)}], s[Max(S)]>>]
    <3>1. CASE n + 1 \in S
      <4>1. S # {} /\ Max(S) = n + 1
        <5> HIDE DEF N, Run, h
        <5>1. Max(S) \in S /\ \A k \in S : k <= Max(S)
          BY <2>0, <3>1, MaxOf
        <5>2. Max(S) \in 1..n + 1 /\ n + 1 <= Max(S)
          BY <3>1, <5>1
        <5> QED
          BY <2>0, <3>1, <5>2
      <4>2. S \ {n + 1} \in SUBSET (1..n) /\ S \ {n + 1} \in SUBSET (1..n + 1)
        OBVIOUS
      <4>3. g[S \ {n + 1}] \in X /\ h[S \ {n + 1}] = g[S \ {n + 1}]
        BY <2>1, <4>2
      <4>4. h[S] = F[<<g[S \ {n + 1}], s[n + 1]>>]
        BY <3>1
      <4> HIDE DEF h, Run
      <4>5. <<g[S \ {n + 1}], s[n + 1]>> \in X \X C
        BY <2>2, <4>3
      <4> QED
        BY <4>1, <4>3, <4>4, <4>5
    <3>2. CASE n + 1 \notin S
      <4>1. S \in SUBSET (1..n) /\ h[S] = g[S]
        BY <3>2
      <4>2. g[S] \in X /\ g[S] = IF S = {} THEN b ELSE F[<<g[S \ {Max(S)}], s[Max(S)]>>]
        BY <2>1, <4>1
      <4>3. S \ {Max(S)} \in SUBSET (1..n + 1) /\ h[S \ {Max(S)}] = g[S \ {Max(S)}]
        <5> DEFINE R == S \ {Max(S)}
        <5>1. R \in SUBSET (1..n + 1) /\ n + 1 \notin R
          BY <3>2
        <5>2. h[R] = g[R]
          <6> HIDE DEF R, N, Run
          <6> QED
            BY <5>1
        <5> QED
          BY <5>1, <5>2
      <4> QED
        BY <4>1, <4>2, <4>3
    <3> QED
      BY <3>1, <3>2
  <2>4. h \in [SUBSET (1..n + 1) -> X] /\ Run(n + 1, h)
    <3> HIDE DEF h
    <3>1. h = [S \in SUBSET (1..n + 1) |-> h[S]]
      BY DEF h
    <3> QED
      BY <2>3, <3>1
  <2> QED
    BY <2>4
<1>3. N = Nat
  <2> HIDE DEF N
  <2>1. N \in SUBSET Nat
    BY DEF N
  <2> QED
    BY <1>1, <1>2, <2>1, NumbersAll
<1> QED
  <2>1. Len(s) \in N /\ DOMAIN s = 1..Len(s)
    BY <1>3, LenProperties
  <2>2. \E g \in [SUBSET (1..Len(s)) -> X] : Run(Len(s), g)
    <3> HIDE DEF Run
    <3>1. Len(s) \in Nat /\ Len(s) <= Len(s)
      BY LenProperties
    <3> QED
      BY <2>1, <3>1
  <2> QED
    BY <2>1, <2>2 DEF IsFold

\* What it yields of no number, and then of one number more.
LEMMA FoldBegins ==
  ASSUME NEW C, NEW F, NEW b, NEW s \in Seq(C), NEW g, IsFold(F, b, s, g)
  PROVE  g[{}] = b
BY DEF IsFold

LEMMA FoldGoesOn ==
  ASSUME NEW C, NEW F, NEW b, NEW s \in Seq(C), NEW g, IsFold(F, b, s, g),
         NEW n \in Nat, n + 1 \in DOMAIN s
  PROVE  g[1..n + 1] = F[<<g[1..n], s[n + 1]>>]
<1> DEFINE S == 1..n + 1
<1>1. S \in SUBSET (DOMAIN s) /\ S # {} /\ Max(S) = n + 1 /\ S \ {Max(S)} = 1..n
  <2>1. Max(S) = n + 1 /\ S \ {n + 1} = 1..n /\ S # {}
    BY MaxOfAll
  <2>2. DOMAIN s = 1..Len(s) /\ Len(s) \in Nat
    BY LenProperties
  <2> QED
    BY <2>1, <2>2
<1> HIDE DEF S
<1>2. g[S] = F[<<g[S \ {Max(S)}], s[Max(S)]>>]
  BY <1>1 DEF IsFold
<1> QED
  BY <1>1, <1>2 DEF S

\* Two that begin with the same, and go on alike, end with the same.
LEMMA FoldsAgree ==
  ASSUME NEW C, NEW s \in Seq(C), NEW g, NEW h, g[{}] = h[{}],
         \A n \in Nat : n < Len(s) /\ g[1..n] = h[1..n] => g[1..n + 1] = h[1..n + 1]
  PROVE  \A n \in 0..Len(s) : g[1..n] = h[1..n]
<1> DEFINE N == {n \in Nat : n <= Len(s) => g[1..n] = h[1..n]}
<1>1. 0 \in N
  <2>1. 1..0 = {}
    OBVIOUS
  <2> QED
    BY <2>1
<1>2. ASSUME NEW n \in N PROVE n + 1 \in N
  <2>1. n \in Nat /\ n + 1 \in Nat /\ Len(s) \in Nat
    BY LenProperties
  <2> QED
    BY <2>1
<1>3. N = Nat
  <2> HIDE DEF N
  <2>1. N \in SUBSET Nat
    BY DEF N
  <2> QED
    BY <1>1, <1>2, <2>1, NumbersAll
<1> QED
  <2>1. Len(s) \in Nat
    BY LenProperties
  <2> QED
    BY <1>3, <2>1

\* There is one at most.
LEMMA FoldUnique ==
  ASSUME NEW C, NEW F, NEW b, NEW s \in Seq(C),
         NEW g, IsFold(F, b, s, g), NEW h, IsFold(F, b, s, h)
  PROVE  g[DOMAIN s] = h[DOMAIN s]
<1>1. g[{}] = h[{}]
  BY FoldBegins
<1>2. ASSUME NEW n \in Nat, n < Len(s), g[1..n] = h[1..n] PROVE g[1..n + 1] = h[1..n + 1]
  <2>1. n + 1 \in DOMAIN s
    BY <1>2, LenProperties
  <2>2. g[1..n + 1] = F[<<g[1..n], s[n + 1]>>]
    BY <2>1, FoldGoesOn
  <2>3. h[1..n + 1] = F[<<h[1..n], s[n + 1]>>]
    BY <2>1, FoldGoesOn
  <2> QED
    BY <1>2, <2>2, <2>3
<1>3. \A n \in 0..Len(s) : g[1..n] = h[1..n]
  BY <1>1, <1>2, FoldsAgree
<1> QED
  BY <1>3, LenProperties

\* A fold is that of all but the last, and then one round.
LEMMA FoldOfAppend ==
  ASSUME NEW C, NEW F, NEW b, NEW s \in Seq(C), NEW c \in C,
         \E g : IsFold(F, b, s, g), \E h : IsFold(F, b, Append(s, c), h)
  PROVE  Folded(F, b, Append(s, c)) = F[<<Folded(F, b, s), c>>]
<1> DEFINE r == Append(s, c)
<1>1. /\ r \in Seq(C) /\ Len(r) = Len(s) + 1 /\ r[Len(s) + 1] = c
      /\ \A i \in 1..Len(s) : r[i] = s[i]
  BY AppendProperties
<1> PICK g : IsFold(F, b, s, g) /\ Folded(F, b, s) = g[DOMAIN s]
  BY DEF Folded
<1>2. PICK h : IsFold(F, b, r, h) /\ Folded(F, b, r) = h[DOMAIN r]
  BY DEF Folded
<1> HIDE DEF r
<1>0. r \in Seq(C) /\ IsFold(F, b, r, h)
  BY <1>1, <1>2
<1>3. /\ DOMAIN r = 1..Len(s) + 1 /\ DOMAIN s = 1..Len(s) /\ Len(s) \in Nat
  BY <1>1, LenProperties
<1>4. ASSUME NEW n \in Nat, n < Len(s), g[1..n] = h[1..n] PROVE g[1..n + 1] = h[1..n + 1]
  <2>1. n + 1 \in DOMAIN s /\ n + 1 \in DOMAIN r /\ r[n + 1] = s[n + 1]
    BY <1>1, <1>3, <1>4
  <2>2. g[1..n + 1] = F[<<g[1..n], s[n + 1]>>]
    BY <2>1, FoldGoesOn
  <2>3. h[1..n + 1] = F[<<h[1..n], r[n + 1]>>]
    BY <1>0, <2>1, FoldGoesOn
  <2> QED
    BY <1>4, <2>1, <2>2, <2>3
<1>5. \A n \in 0..Len(s) : g[1..n] = h[1..n]
  <2>1. g[{}] = b
    BY FoldBegins
  <2>2. h[{}] = b
    BY <1>1, <1>2, FoldBegins
  <2> QED
    BY <1>4, <2>1, <2>2, FoldsAgree
<1>6. h[1..Len(s) + 1] = F[<<h[1..Len(s)], r[Len(s) + 1]>>]
  <2>1. ASSUME NEW n \in Nat, n + 1 \in DOMAIN r PROVE h[1..n + 1] = F[<<h[1..n], r[n + 1]>>]
    BY <1>0, <2>1, FoldGoesOn
  <2> QED
    BY <1>3, <2>1
<1>7. g[1..Len(s)] = h[1..Len(s)]
  BY <1>3, <1>5
<1> QED
  BY <1>1, <1>2, <1>3, <1>6, <1>7 DEF r

\* So it is with Folded, wherever F is a function of that kind.
LEMMA FoldedBegins ==
  ASSUME NEW X, NEW C, NEW F \in RoundsOf(X, C), NEW b \in X
  PROVE  Folded(F, b, <<>>) = b
<1>1. <<>> \in Seq(C) /\ DOMAIN <<>> = {}
  BY EmptySeq
<1>2. \E g : IsFold(F, b, <<>>, g)
  BY <1>1, FoldExists
<1>3. PICK g : IsFold(F, b, <<>>, g) /\ Folded(F, b, <<>>) = g[{}]
  BY <1>1, <1>2 DEF Folded
<1> QED
  BY <1>1, <1>3, FoldBegins

LEMMA FoldedByParts ==
  ASSUME NEW X, NEW C, NEW F \in RoundsOf(X, C), NEW b \in X, NEW s \in Seq(C)
  PROVE  \E g \in PartsTo(s, X) : IsFold(F, b, s, g) /\ Folded(F, b, s) = g[DOMAIN s]
<1>1. PICK g \in PartsTo(s, X) : IsFold(F, b, s, g)
  BY FoldExists
<1>2. PICK k : IsFold(F, b, s, k) /\ Folded(F, b, s) = k[DOMAIN s]
  BY <1>1 DEF Folded
<1>3. g[DOMAIN s] = k[DOMAIN s]
  BY <1>1, <1>2, FoldUnique
<1> QED
  BY <1>1, <1>2, <1>3

LEMMA FoldedType ==
  ASSUME NEW X, NEW C, NEW F \in RoundsOf(X, C), NEW b \in X, NEW s \in Seq(C)
  PROVE  Folded(F, b, s) \in X
<1>1. PICK g \in PartsTo(s, X) : IsFold(F, b, s, g) /\ Folded(F, b, s) = g[DOMAIN s]
  BY FoldedByParts
<1>2. DOMAIN s \in SUBSET (DOMAIN s)
  OBVIOUS
<1> QED
  BY <1>1, <1>2 DEF PartsTo

LEMMA FoldedGoesOn ==
  ASSUME NEW X, NEW C, NEW F \in RoundsOf(X, C), NEW b \in X, NEW s \in Seq(C), NEW c \in C
  PROVE  Folded(F, b, Append(s, c)) = F[<<Folded(F, b, s), c>>]
<1> DEFINE r == Append(s, c)
<1>1. r \in Seq(C)
  BY AppendProperties
<1>2. \E h : IsFold(F, b, r, h)
  <2> HIDE DEF r
  <2> QED
    BY <1>1, FoldExists
<1>3. \E g : IsFold(F, b, s, g)
  BY FoldExists
<1> QED
  BY <1>2, <1>3, FoldOfAppend

LEMMA LastElement ==
  ASSUME NEW C, NEW s \in Seq(C), NEW S \in SUBSET (DOMAIN s), S # {}
  PROVE  s[Max(S)] \in C
<1>1. DOMAIN s = 1..Len(s) /\ Len(s) \in Nat
  BY LenProperties
<1>2. Max(S) \in S
  BY <1>1, MaxOf
<1> QED
  BY <1>1, <1>2, ElementOfSeq

LEMMA Beginning ==
  ASSUME NEW C, NEW s \in Seq(C), NEW n \in Nat, n < Len(s)
  PROVE  /\ 1..n + 1 \in SUBSET (DOMAIN s) /\ 1..n + 1 # {}
         /\ Max(1..n + 1) = n + 1 /\ (1..n + 1) \ {n + 1} = 1..n
<1>1. DOMAIN s = 1..Len(s) /\ Len(s) \in Nat
  BY LenProperties
<1>2. 1..n + 1 \in SUBSET (DOMAIN s)
  BY <1>1
<1> QED
  BY <1>2, MaxOfAll

\* One that is given otherwise ends with the same.
Alike(F, X, s, h) ==
    \A S \in SUBSET (DOMAIN s) : S # {} /\ h[S \ {Max(S)}] \in X =>
        h[S] = F[<<h[S \ {Max(S)}], s[Max(S)]>>]

LEMMA FoldedOtherwise ==
  ASSUME NEW X, NEW C, NEW F \in RoundsOf(X, C), NEW b \in X, NEW s \in Seq(C),
         NEW h, h[{}] = b, Alike(F, X, s, h)
  PROVE  h[DOMAIN s] = Folded(F, b, s)
<1>1. PICK g \in PartsTo(s, X) : IsFold(F, b, s, g) /\ Folded(F, b, s) = g[DOMAIN s]
  BY FoldedByParts
<1>2. g[{}] = h[{}]
  BY <1>1, FoldBegins
<1>3. ASSUME NEW n \in Nat, n < Len(s), g[1..n] = h[1..n] PROVE g[1..n + 1] = h[1..n + 1]
  <2> DEFINE S == 1..n + 1
  <2>1. S \in SUBSET (DOMAIN s) /\ S # {} /\ Max(S) = n + 1 /\ S \ {n + 1} = 1..n
    BY <1>3, Beginning
  <2> HIDE DEF S
  <2>2. g[1..n] \in X
    BY <1>1, <2>1 DEF PartsTo
  <2>3. h[S] = F[<<h[1..n], s[n + 1]>>]
    BY <1>3, <2>1, <2>2 DEF Alike
  <2>4. g[S] = F[<<g[1..n], s[n + 1]>>]
    BY <1>1, <2>1 DEF IsFold
  <2> QED
    BY <1>3, <2>3, <2>4 DEF S
<1>4. \A n \in 0..Len(s) : g[1..n] = h[1..n]
  BY <1>2, <1>3, FoldsAgree
<1> QED
  BY <1>1, <1>4, LenProperties

LEMMA PartsTyped ==
  ASSUME NEW X, NEW C, NEW s \in Seq(C), NEW g \in PartsTo(s, X), NEW S \in SUBSET (DOMAIN s), S # {}
  PROVE  g[S \ {Max(S)}] \in X /\ s[Max(S)] \in C
BY LastElement DEF PartsTo

---------------------------------------------------------------------------
(* ParseRcloneArgs.                                                        *)

Scanners == [out : Seq(Seq(Characters)), b : Seq(Characters),
             inSingle : BOOLEAN, inDouble : BOOLEAN, escaped : BOOLEAN]

ScanRound == [p \in Scanners \X Characters |-> Scan(p[1], p[2])]

LEMMA FlushType ==
  ASSUME NEW t \in Scanners
  PROVE  flush(t) \in Scanners
BY EmptySeq, AppendProperties DEF Scanners, flush

LEMMA ScanType ==
  ASSUME NEW t \in Scanners, NEW c \in Characters
  PROVE  Scan(t, c) \in Scanners
<1>1. Append(t.b, c) \in Seq(Characters)
  BY AppendProperties DEF Scanners
<1>2. flush(t) \in Scanners
  BY FlushType
<1> QED
  BY <1>1, <1>2 DEF Scanners, Scan

LEMMA ScanRoundType == ScanRound \in RoundsOf(Scanners, Characters)
BY ScanType DEF ScanRound, RoundsOf

Scanned(b, s) == FoldLeft(Scan, b, s)

LEMMA ScanFolded ==
  ASSUME NEW b \in Scanners, NEW s \in Seq(Characters)
  PROVE  Scanned(b, s) = Folded(ScanRound, b, s)
<1>1. PICK g \in PartsTo(s, Scanners) : IsFold(ScanRound, b, s, g)
  BY ScanRoundType, FoldExists
<1>2. g = [S \in SUBSET (DOMAIN s) |-> IF S = {} THEN b ELSE Scan(g[S \ {Max(S)}], s[Max(S)])]
  <2>1. ASSUME NEW S \in SUBSET (DOMAIN s)
        PROVE  g[S] = IF S = {} THEN b ELSE Scan(g[S \ {Max(S)}], s[Max(S)])
    <3>1. S # {} => g[S \ {Max(S)}] \in Scanners /\ s[Max(S)] \in Characters
      BY PartsTyped
    <3> QED
      BY <1>1, <3>1 DEF IsFold, ScanRound
  <2> QED
    BY <1>1, <2>1 DEF PartsTo
<1>3. PICK h : /\ Scanned(b, s) = h[DOMAIN s]
               /\ h = [S \in SUBSET (DOMAIN s) |-> IF S = {} THEN b ELSE Scan(h[S \ {Max(S)}], s[Max(S)])]
  BY <1>2 DEF Scanned, FoldLeft, MapThenFoldSet
<1>4. h[{}] = b
  BY <1>3
<1>5. Alike(ScanRound, Scanners, s, h)
  BY <1>3, LastElement DEF ScanRound, Alike
<1>6. h[DOMAIN s] = Folded(ScanRound, b, s)
  BY <1>4, <1>5, ScanRoundType, FoldedOtherwise
<1> QED
  BY <1>3, <1>6

LEMMA ScanNothing ==
  ASSUME NEW b \in Scanners
  PROVE  Scanned(b, <<>>) = b
<1>1. <<>> \in Seq(Characters)
  BY EmptySeq
<1>2. Folded(ScanRound, b, <<>>) = b
  BY ScanRoundType, FoldedBegins
<1>3. Scanned(b, <<>>) = Folded(ScanRound, b, <<>>)
  BY <1>1, ScanFolded
<1> QED
  BY <1>2, <1>3

LEMMA ScannedType ==
  ASSUME NEW b \in Scanners, NEW s \in Seq(Characters)
  PROVE  Scanned(b, s) \in Scanners
<1>1. Folded(ScanRound, b, s) \in Scanners
  BY ScanRoundType, FoldedType
<1> QED
  BY <1>1, ScanFolded

LEMMA ScanMore ==
  ASSUME NEW b \in Scanners, NEW s \in Seq(Characters), NEW c \in Characters
  PROVE  Scanned(b, Append(s, c)) = Scan(Scanned(b, s), c)
<1> DEFINE r == Append(s, c)
<1>1. r \in Seq(Characters)
  BY AppendProperties
<1>2. Folded(ScanRound, b, r) = ScanRound[<<Folded(ScanRound, b, s), c>>]
  BY ScanRoundType, FoldedGoesOn
<1>3. Folded(ScanRound, b, s) \in Scanners
  BY ScanRoundType, FoldedType
<1> HIDE DEF r
<1>4. Scanned(b, r) = Folded(ScanRound, b, r)
  BY <1>1, ScanFolded
<1>5. Scanned(b, s) = Folded(ScanRound, b, s)
  BY ScanFolded
<1> QED
  BY <1>2, <1>3, <1>4, <1>5 DEF r, ScanRound

---------------------------------------------------------------------------
(* The rounds of the other folds.                                          *)

LEMMA SetOfAppend ==
  ASSUME NEW S, NEW s \in Seq(S), NEW e \in S
  PROVE  ToSet(Append(s, e)) = ToSet(s) \cup {e}
<1> DEFINE r == Append(s, e)
<1>1. /\ DOMAIN s = 1..Len(s) /\ Len(s) \in Nat /\ DOMAIN r = 1..Len(s) + 1
      /\ r[Len(s) + 1] = e /\ \A i \in 1..Len(s) : r[i] = s[i]
  BY AppendProperties, LenProperties
<1> HIDE DEF r
<1>2. ToSet(r) = ToSet(s) \cup {e}
  BY <1>1 DEF ToSet
<1> QED
  BY <1>2 DEF r

Escaped(b, s) == FoldLeft(Escape, b, s)

EscapeRound == [p \in Seq(Characters) \X Characters |-> Escape(p[1], p[2])]

LEMMA EscapeRoundType == EscapeRound \in RoundsOf(Seq(Characters), Characters)
<1>1. ASSUME NEW t \in Seq(Characters), NEW c \in Characters PROVE Escape(t, c) \in Seq(Characters)
  <2> DEFINE e == IF c \in {"double", "backslash"} THEN <<"backslash", c>> ELSE <<c>>
  <2>1. e \in Seq(Characters)
    <3>1. "backslash" \in Characters
      BY DEF Characters
    <3> QED
      BY <3>1
  <2>2. Escape(t, c) = t \o e
    BY DEF Escape
  <2> HIDE DEF e
  <2> QED
    BY <2>1, <2>2, ConcatProperties
<1> QED
  BY <1>1 DEF EscapeRound, RoundsOf

LEMMA EscapeFolded ==
  ASSUME NEW b \in Seq(Characters), NEW s \in Seq(Characters)
  PROVE  Escaped(b, s) = Folded(EscapeRound, b, s)
<1>1. PICK g \in PartsTo(s, Seq(Characters)) : IsFold(EscapeRound, b, s, g)
  BY EscapeRoundType, FoldExists
<1>2. g = [S \in SUBSET (DOMAIN s) |-> IF S = {} THEN b ELSE Escape(g[S \ {Max(S)}], s[Max(S)])]
  <2>1. ASSUME NEW S \in SUBSET (DOMAIN s)
        PROVE  g[S] = IF S = {} THEN b ELSE Escape(g[S \ {Max(S)}], s[Max(S)])
    <3>1. S # {} => g[S \ {Max(S)}] \in Seq(Characters) /\ s[Max(S)] \in Characters
      BY PartsTyped
    <3> QED
      BY <1>1, <3>1 DEF IsFold, EscapeRound
  <2> QED
    BY <1>1, <2>1 DEF PartsTo
<1>3. PICK h : /\ Escaped(b, s) = h[DOMAIN s]
               /\ h = [S \in SUBSET (DOMAIN s) |-> IF S = {} THEN b ELSE Escape(h[S \ {Max(S)}], s[Max(S)])]
  BY <1>2 DEF Escaped, FoldLeft, MapThenFoldSet
<1>4. h[{}] = b
  BY <1>3
<1>5. Alike(EscapeRound, Seq(Characters), s, h)
  BY <1>3, LastElement DEF EscapeRound, Alike
<1>6. h[DOMAIN s] = Folded(EscapeRound, b, s)
  BY <1>4, <1>5, EscapeRoundType, FoldedOtherwise
<1> QED
  BY <1>3, <1>6

LEMMA EscapeNothing ==
  ASSUME NEW b \in Seq(Characters)
  PROVE  Escaped(b, <<>>) = b
<1>1. <<>> \in Seq(Characters)
  BY EmptySeq
<1>2. Folded(EscapeRound, b, <<>>) = b
  BY EscapeRoundType, FoldedBegins
<1>3. Escaped(b, <<>>) = Folded(EscapeRound, b, <<>>)
  BY <1>1, EscapeFolded
<1> QED
  BY <1>2, <1>3

LEMMA EscapedType ==
  ASSUME NEW b \in Seq(Characters), NEW s \in Seq(Characters)
  PROVE  Escaped(b, s) \in Seq(Characters)
<1>1. Folded(EscapeRound, b, s) \in Seq(Characters)
  BY EscapeRoundType, FoldedType
<1> QED
  BY <1>1, EscapeFolded

LEMMA EscapeMore ==
  ASSUME NEW b \in Seq(Characters), NEW s \in Seq(Characters), NEW c \in Characters
  PROVE  Escaped(b, Append(s, c)) = Escape(Escaped(b, s), c)
<1> DEFINE r == Append(s, c)
<1>1. r \in Seq(Characters)
  BY AppendProperties
<1>2. Folded(EscapeRound, b, r) = EscapeRound[<<Folded(EscapeRound, b, s), c>>]
  BY EscapeRoundType, FoldedGoesOn
<1>3. Folded(EscapeRound, b, s) \in Seq(Characters)
  BY EscapeRoundType, FoldedType
<1> HIDE DEF r
<1>4. Escaped(b, r) = Folded(EscapeRound, b, r)
  BY <1>1, EscapeFolded
<1>5. Escaped(b, s) = Folded(EscapeRound, b, s)
  BY EscapeFolded
<1> QED
  BY <1>2, <1>3, <1>4, <1>5 DEF r, EscapeRound

\* Of options of any kind.
Omitted(keys, b, s) == FoldLeft(LAMBDA t, o : Omit(keys, t, o), b, s)

OmitRound(keys, O) == [p \in Seq(O) \X O |-> Omit(keys, p[1], p[2])]

LEMMA OmitRoundType ==
  ASSUME NEW keys, NEW O
  PROVE  OmitRound(keys, O) \in RoundsOf(Seq(O), O)
BY AppendProperties DEF OmitRound, Omit, RoundsOf

LEMMA OmitFolded ==
  ASSUME NEW keys, NEW O, NEW b \in Seq(O), NEW s \in Seq(O)
  PROVE  Omitted(keys, b, s) = Folded(OmitRound(keys, O), b, s)
<1>1. PICK g \in PartsTo(s, Seq(O)) : IsFold(OmitRound(keys, O), b, s, g)
  BY OmitRoundType, FoldExists
<1>2. g = [S \in SUBSET (DOMAIN s) |-> IF S = {} THEN b ELSE Omit(keys, g[S \ {Max(S)}], s[Max(S)])]
  <2>1. ASSUME NEW S \in SUBSET (DOMAIN s)
        PROVE  g[S] = IF S = {} THEN b ELSE Omit(keys, g[S \ {Max(S)}], s[Max(S)])
    <3>1. S # {} => g[S \ {Max(S)}] \in Seq(O) /\ s[Max(S)] \in O
      BY PartsTyped
    <3> QED
      BY <1>1, <3>1 DEF IsFold, OmitRound
  <2> QED
    BY <1>1, <2>1 DEF PartsTo
<1>3. PICK h : /\ Omitted(keys, b, s) = h[DOMAIN s]
               /\ h = [S \in SUBSET (DOMAIN s) |-> IF S = {} THEN b ELSE Omit(keys, h[S \ {Max(S)}], s[Max(S)])]
  BY <1>2 DEF Omitted, FoldLeft, MapThenFoldSet
<1>4. h[{}] = b
  BY <1>3
<1>5. Alike(OmitRound(keys, O), Seq(O), s, h)
  BY <1>3, LastElement DEF OmitRound, Alike
<1>6. h[DOMAIN s] = Folded(OmitRound(keys, O), b, s)
  BY <1>4, <1>5, OmitRoundType, FoldedOtherwise
<1> QED
  BY <1>3, <1>6

LEMMA OmitNothing ==
  ASSUME NEW keys, NEW O, NEW b \in Seq(O)
  PROVE  Omitted(keys, b, <<>>) = b
<1>1. <<>> \in Seq(O)
  BY EmptySeq
<1>2. Folded(OmitRound(keys, O), b, <<>>) = b
  BY OmitRoundType, FoldedBegins
<1>3. Omitted(keys, b, <<>>) = Folded(OmitRound(keys, O), b, <<>>)
  BY <1>1, OmitFolded
<1> QED
  BY <1>2, <1>3

LEMMA OmittedType ==
  ASSUME NEW keys, NEW O, NEW b \in Seq(O), NEW s \in Seq(O)
  PROVE  Omitted(keys, b, s) \in Seq(O)
<1>1. Folded(OmitRound(keys, O), b, s) \in Seq(O)
  BY OmitRoundType, FoldedType
<1> QED
  BY <1>1, OmitFolded

LEMMA OmitMore ==
  ASSUME NEW keys, NEW O, NEW b \in Seq(O), NEW s \in Seq(O), NEW c \in O
  PROVE  Omitted(keys, b, Append(s, c)) = Omit(keys, Omitted(keys, b, s), c)
<1> DEFINE r == Append(s, c)
<1>1. r \in Seq(O)
  BY AppendProperties
<1>2. Folded(OmitRound(keys, O), b, r) = OmitRound(keys, O)[<<Folded(OmitRound(keys, O), b, s), c>>]
  BY OmitRoundType, FoldedGoesOn
<1>3. Folded(OmitRound(keys, O), b, s) \in Seq(O)
  BY OmitRoundType, FoldedType
<1> HIDE DEF r
<1>4. Omitted(keys, b, r) = Folded(OmitRound(keys, O), b, r)
  BY <1>1, OmitFolded
<1>5. Omitted(keys, b, s) = Folded(OmitRound(keys, O), b, s)
  BY OmitFolded
<1> QED
  BY <1>2, <1>3, <1>4, <1>5 DEF r, OmitRound

\* Of arguments of any kind.
Keepers(A) == [out : Seq(A), skip : BOOLEAN]

Kept(blocked, valued, b, s) == FoldLeft(LAMBDA t, a : Keep(blocked, valued, t, a), b, s)

KeepRound(blocked, valued, A) == [p \in Keepers(A) \X A |-> Keep(blocked, valued, p[1], p[2])]

LEMMA KeepRoundType ==
  ASSUME NEW blocked, NEW valued, NEW A
  PROVE  KeepRound(blocked, valued, A) \in RoundsOf(Keepers(A), A)
<1>1. ASSUME NEW t \in Keepers(A), NEW a \in A PROVE Keep(blocked, valued, t, a) \in Keepers(A)
  BY AppendProperties DEF Keepers, Keep
<1> QED
  BY <1>1 DEF KeepRound, RoundsOf

LEMMA KeepFolded ==
  ASSUME NEW blocked, NEW valued, NEW A, NEW b \in Keepers(A), NEW s \in Seq(A)
  PROVE  Kept(blocked, valued, b, s) = Folded(KeepRound(blocked, valued, A), b, s)
<1>1. PICK g \in PartsTo(s, Keepers(A)) : IsFold(KeepRound(blocked, valued, A), b, s, g)
  BY KeepRoundType, FoldExists
<1>2. g = [S \in SUBSET (DOMAIN s) |-> IF S = {} THEN b ELSE Keep(blocked, valued, g[S \ {Max(S)}], s[Max(S)])]
  <2>1. ASSUME NEW S \in SUBSET (DOMAIN s)
        PROVE  g[S] = IF S = {} THEN b ELSE Keep(blocked, valued, g[S \ {Max(S)}], s[Max(S)])
    <3>1. S # {} => g[S \ {Max(S)}] \in Keepers(A) /\ s[Max(S)] \in A
      BY PartsTyped
    <3> QED
      BY <1>1, <3>1 DEF IsFold, KeepRound
  <2> QED
    BY <1>1, <2>1 DEF PartsTo
<1>3. PICK h : /\ Kept(blocked, valued, b, s) = h[DOMAIN s]
               /\ h = [S \in SUBSET (DOMAIN s) |-> IF S = {} THEN b ELSE Keep(blocked, valued, h[S \ {Max(S)}], s[Max(S)])]
  BY <1>2 DEF Kept, FoldLeft, MapThenFoldSet
<1>4. h[{}] = b
  BY <1>3
<1>5. Alike(KeepRound(blocked, valued, A), Keepers(A), s, h)
  BY <1>3, LastElement DEF KeepRound, Alike
<1>6. h[DOMAIN s] = Folded(KeepRound(blocked, valued, A), b, s)
  BY <1>4, <1>5, KeepRoundType, FoldedOtherwise
<1> QED
  BY <1>3, <1>6

LEMMA KeepNothing ==
  ASSUME NEW blocked, NEW valued, NEW A, NEW b \in Keepers(A)
  PROVE  Kept(blocked, valued, b, <<>>) = b
<1>1. <<>> \in Seq(A)
  BY EmptySeq
<1>2. Folded(KeepRound(blocked, valued, A), b, <<>>) = b
  BY KeepRoundType, FoldedBegins
<1>3. Kept(blocked, valued, b, <<>>) = Folded(KeepRound(blocked, valued, A), b, <<>>)
  BY <1>1, KeepFolded
<1> QED
  BY <1>2, <1>3

LEMMA KeptType ==
  ASSUME NEW blocked, NEW valued, NEW A, NEW b \in Keepers(A), NEW s \in Seq(A)
  PROVE  Kept(blocked, valued, b, s) \in Keepers(A)
<1>1. Folded(KeepRound(blocked, valued, A), b, s) \in Keepers(A)
  BY KeepRoundType, FoldedType
<1> QED
  BY <1>1, KeepFolded

LEMMA KeepMore ==
  ASSUME NEW blocked, NEW valued, NEW A, NEW b \in Keepers(A), NEW s \in Seq(A), NEW c \in A
  PROVE  Kept(blocked, valued, b, Append(s, c)) = Keep(blocked, valued, Kept(blocked, valued, b, s), c)
<1> DEFINE r == Append(s, c)
<1>1. r \in Seq(A)
  BY AppendProperties
<1>2. Folded(KeepRound(blocked, valued, A), b, r) = KeepRound(blocked, valued, A)[<<Folded(KeepRound(blocked, valued, A), b, s), c>>]
  BY KeepRoundType, FoldedGoesOn
<1>3. Folded(KeepRound(blocked, valued, A), b, s) \in Keepers(A)
  BY KeepRoundType, FoldedType
<1> HIDE DEF r
<1>4. Kept(blocked, valued, b, r) = Folded(KeepRound(blocked, valued, A), b, r)
  BY <1>1, KeepFolded
<1>5. Kept(blocked, valued, b, s) = Folded(KeepRound(blocked, valued, A), b, s)
  BY KeepFolded
<1> QED
  BY <1>2, <1>3, <1>4, <1>5 DEF r, KeepRound

LEMMA FrontLast ==
  ASSUME NEW S, NEW s \in Seq(S), s # <<>>
  PROVE  Front(s) \in Seq(S) /\ Last(s) \in S /\ s = Append(Front(s), Last(s))
BY DEF Front, Last

LEMMA FrontLastOfAppend ==
  ASSUME NEW S, NEW s \in Seq(S), NEW e \in S
  PROVE  Front(Append(s, e)) = s /\ Last(Append(s, e)) = e
BY DEF Front, Last

LEMMA OneMore ==
  ASSUME NEW S, NEW s \in Seq(S), Len(s) = 1, NEW e \in S
  PROVE  Append(s, e) \in Seq(S) /\ Len(Append(s, e)) = 2 /\ Append(s, e)[1] = s[1] /\ Append(s, e)[2] = e
<1> DEFINE r == Append(s, e)
<1>1. /\ r \in Seq(S) /\ Len(r) = Len(s) + 1 /\ r[Len(s) + 1] = e
      /\ \A i \in 1..Len(s) : r[i] = s[i]
  <2> SUFFICES ASSUME NEW t \in Seq(S)
               PROVE  /\ Append(t, e) \in Seq(S) /\ Len(Append(t, e)) = Len(t) + 1
                      /\ Append(t, e)[Len(t) + 1] = e
                      /\ \A i \in 1..Len(t) : Append(t, e)[i] = t[i]
    OBVIOUS
  <2> QED
    BY AppendProperties
<1> HIDE DEF r
<1>2. r \in Seq(S) /\ Len(r) = 2 /\ r[1] = s[1] /\ r[2] = e
  BY <1>1
<1> QED
  BY <1>2 DEF r

Items(A) == {o \in Seq(A) : Len(o) \in 1..2}

\* An option that is open is the last, and has no value yet.
Readers(A) == {t \in [out : Seq(Items(A)), open : BOOLEAN] :
                  t.open => t.out # <<>> /\ Len(Last(t.out)) = 1}

Reads(b, s) == FoldLeft(Read, b, s)

ReadRound(A) == [p \in Readers(A) \X A |-> Read(p[1], p[2])]

LEMMA ReadRoundType ==
  ASSUME NEW A
  PROVE  ReadRound(A) \in RoundsOf(Readers(A), A)
<1>1. ASSUME NEW t \in Readers(A), NEW a \in A PROVE Read(t, a) \in Readers(A)
  <2>1. CASE t.open
    <3> DEFINE f == Front(t.out)
               l == Last(t.out)
               o == Append(l, a)
    <3>1. f \in Seq(Items(A)) /\ Last(t.out) \in Items(A) /\ Len(Last(t.out)) = 1
      BY <2>1, FrontLast DEF Readers
    <3>2. o \in Items(A)
      <4>1. l \in Seq(A) /\ Len(l) = 1
        BY <3>1 DEF Items
      <4>2. o \in Seq(A) /\ Len(o) = 2
        <5> HIDE DEF l
        <5> QED
          BY <4>1, OneMore
      <4> QED
        BY <4>2 DEF Items
    <3>3. Append(f, o) \in Seq(Items(A))
      BY <3>1, <3>2, AppendProperties
    <3>4. Read(t, a) = [out |-> Append(f, o), open |-> FALSE]
      BY <2>1 DEF Readers, Read
    <3> QED
      BY <3>3, <3>4 DEF Readers
  <2>2. CASE ~t.open
    <3>1. <<a>> \in Items(A) /\ Len(<<a>>) = 1
      BY DEF Items
    <3>2. Append(t.out, <<a>>) \in Seq(Items(A)) /\ Append(t.out, <<a>>) # <<>> /\ Last(Append(t.out, <<a>>)) = <<a>>
      BY <3>1, FrontLastOfAppend, AppendProperties DEF Readers
    <3>3. /\ Read(t, a) = [out |-> Append(t.out, <<a>>), open |-> ~a.eq /\ TakesValue(a.key)]
          /\ (~a.eq /\ TakesValue(a.key)) \in BOOLEAN
      BY <2>2 DEF Read
    <3> DEFINE p == Append(t.out, <<a>>)
               q == ~a.eq /\ TakesValue(a.key)
    <3>4. p \in Seq(Items(A)) /\ p # <<>> /\ Len(Last(p)) = 1 /\ q \in BOOLEAN
      BY <3>1, <3>2
    <3> HIDE DEF p, q
    <3>5. [out |-> p, open |-> q] \in Readers(A)
      BY <3>4 DEF Readers
    <3> QED
      BY <3>3, <3>5 DEF p, q
  <2> QED
    BY <2>1, <2>2 DEF Readers
<1> QED
  BY <1>1 DEF ReadRound, RoundsOf

LEMMA ReadFolded ==
  ASSUME NEW A, NEW b \in Readers(A), NEW s \in Seq(A)
  PROVE  Reads(b, s) = Folded(ReadRound(A), b, s)
<1>1. PICK g \in PartsTo(s, Readers(A)) : IsFold(ReadRound(A), b, s, g)
  BY ReadRoundType, FoldExists
<1>2. g = [S \in SUBSET (DOMAIN s) |-> IF S = {} THEN b ELSE Read(g[S \ {Max(S)}], s[Max(S)])]
  <2>1. ASSUME NEW S \in SUBSET (DOMAIN s)
        PROVE  g[S] = IF S = {} THEN b ELSE Read(g[S \ {Max(S)}], s[Max(S)])
    <3>1. S # {} => g[S \ {Max(S)}] \in Readers(A) /\ s[Max(S)] \in A
      BY PartsTyped
    <3> QED
      BY <1>1, <3>1 DEF IsFold, ReadRound
  <2> QED
    BY <1>1, <2>1 DEF PartsTo
<1>3. PICK h : /\ Reads(b, s) = h[DOMAIN s]
               /\ h = [S \in SUBSET (DOMAIN s) |-> IF S = {} THEN b ELSE Read(h[S \ {Max(S)}], s[Max(S)])]
  BY <1>2 DEF Reads, FoldLeft, MapThenFoldSet
<1>4. h[{}] = b
  BY <1>3
<1>5. Alike(ReadRound(A), Readers(A), s, h)
  BY <1>3, LastElement DEF ReadRound, Alike
<1>6. h[DOMAIN s] = Folded(ReadRound(A), b, s)
  BY <1>4, <1>5, ReadRoundType, FoldedOtherwise
<1> QED
  BY <1>3, <1>6

LEMMA ReadNothing ==
  ASSUME NEW A, NEW b \in Readers(A)
  PROVE  Reads(b, <<>>) = b
<1>1. <<>> \in Seq(A)
  BY EmptySeq
<1>2. Folded(ReadRound(A), b, <<>>) = b
  BY ReadRoundType, FoldedBegins
<1>3. Reads(b, <<>>) = Folded(ReadRound(A), b, <<>>)
  BY <1>1, ReadFolded
<1> QED
  BY <1>2, <1>3

LEMMA ReadsType ==
  ASSUME NEW A, NEW b \in Readers(A), NEW s \in Seq(A)
  PROVE  Reads(b, s) \in Readers(A)
<1>1. Folded(ReadRound(A), b, s) \in Readers(A)
  BY ReadRoundType, FoldedType
<1> QED
  BY <1>1, ReadFolded

LEMMA ReadMore ==
  ASSUME NEW A, NEW b \in Readers(A), NEW s \in Seq(A), NEW c \in A
  PROVE  Reads(b, Append(s, c)) = Read(Reads(b, s), c)
<1> DEFINE r == Append(s, c)
<1>1. r \in Seq(A)
  BY AppendProperties
<1>2. Folded(ReadRound(A), b, r) = ReadRound(A)[<<Folded(ReadRound(A), b, s), c>>]
  BY ReadRoundType, FoldedGoesOn
<1>3. Folded(ReadRound(A), b, s) \in Readers(A)
  BY ReadRoundType, FoldedType
<1> HIDE DEF r
<1>4. Reads(b, r) = Folded(ReadRound(A), b, r)
  BY <1>1, ReadFolded
<1>5. Reads(b, s) = Folded(ReadRound(A), b, s)
  BY ReadFolded
<1> QED
  BY <1>2, <1>3, <1>4, <1>5 DEF r, ReadRound

---------------------------------------------------------------------------
(* ParsesQuoted.                                                           *)

\* A scanner that has no backslash pending.
Scanning(o, w, s, d) == [out |-> o, b |-> w, inSingle |-> s, inDouble |-> d, escaped |-> FALSE]

LEMMA AtType ==
  ASSUME NEW o \in Seq(Seq(Characters)), NEW w \in Seq(Characters), NEW s \in BOOLEAN, NEW d \in BOOLEAN
  PROVE  Scanning(o, w, s, d) \in Scanners
BY DEF Scanning, Scanners

\* What is scanned piece by piece.
LEMMA ScannedJoin ==
  ASSUME NEW b \in Scanners, NEW s \in Seq(Characters), NEW u \in Seq(Characters)
  PROVE  Scanned(b, s \o u) = Scanned(Scanned(b, s), u)
<1> DEFINE P == {v \in Seq(Characters) : Scanned(b, s \o v) = Scanned(Scanned(b, s), v)}
<1>1. Scanned(b, s) \in Scanners
  BY ScannedType
<1>2. <<>> \in P
  <2>1. <<>> \in Seq(Characters) /\ s \o <<>> = s
    BY EmptySeq, ConcatEmptySeq
  <2>2. Scanned(Scanned(b, s), <<>>) = Scanned(b, s)
    BY <1>1, ScanNothing
  <2> QED
    BY <2>1, <2>2
<1>3. ASSUME NEW v \in P, NEW c \in Characters PROVE Append(v, c) \in P
  <2>1. v \in Seq(Characters) /\ Scanned(b, s \o v) = Scanned(Scanned(b, s), v)
    OBVIOUS
  <2> DEFINE r == s \o v
  <2>2. r \in Seq(Characters)
    BY <2>1, ConcatProperties
  <2>3. s \o Append(v, c) = Append(r, c)
    BY <2>1
  <2>4. Append(v, c) \in Seq(Characters)
    BY <2>1, AppendProperties
  <2> HIDE DEF r
  <2>5. Scanned(b, Append(r, c)) = Scan(Scanned(b, r), c)
    BY <2>2, ScanMore
  <2>6. Scanned(Scanned(b, s), Append(v, c)) = Scan(Scanned(Scanned(b, s), v), c)
    BY <1>1, <2>1, ScanMore
  <2> QED
    BY <2>1, <2>3, <2>4, <2>5, <2>6 DEF r
<1>4. P = Seq(Characters)
  <2> HIDE DEF P
  <2>1. P \in SUBSET Seq(Characters)
    BY DEF P
  <2> QED
    BY <1>2, <1>3, <2>1, SequencesAll
<1> QED
  BY <1>4

LEMMA ScannedOne ==
  ASSUME NEW b \in Scanners, NEW c \in Characters
  PROVE  Scanned(b, <<c>>) = Scan(b, c)
<1>1. <<>> \in Seq(Characters) /\ <<c>> = Append(<<>>, c)
  BY EmptySeq
<1>2. Scanned(b, Append(<<>>, c)) = Scan(Scanned(b, <<>>), c)
  BY <1>1, ScanMore
<1> QED
  BY <1>1, <1>2, ScanNothing

LEMMA ScannedTwo ==
  ASSUME NEW b \in Scanners, NEW c \in Characters, NEW d \in Characters
  PROVE  Scanned(b, <<c, d>>) = Scan(Scan(b, c), d)
<1>1. <<c>> \in Seq(Characters) /\ <<c, d>> = Append(<<c>>, d)
  OBVIOUS
<1>2. Scanned(b, Append(<<c>>, d)) = Scan(Scanned(b, <<c>>), d)
  BY <1>1, ScanMore
<1> QED
  BY <1>1, <1>2, ScannedOne

\* Within double quotes, what is escaped comes out as it was.
LEMMA InDouble ==
  ASSUME NEW o \in Seq(Seq(Characters)), NEW u \in Seq(Characters)
  PROVE  Scanned(Scanning(o, <<>>, FALSE, TRUE), Escaped(<<>>, u)) = Scanning(o, u, FALSE, TRUE)
<1> DEFINE b == Scanning(o, <<>>, FALSE, TRUE)
           P == {v \in Seq(Characters) : Scanned(b, Escaped(<<>>, v)) = Scanning(o, v, FALSE, TRUE)}
<1>1. <<>> \in Seq(Characters) /\ b \in Scanners
  BY EmptySeq, AtType
<1> HIDE DEF b
<1>2. <<>> \in P
  BY <1>1, EscapeNothing, ScanNothing DEF b
<1>3. ASSUME NEW v \in P, NEW c \in Characters PROVE Append(v, c) \in P
  <2> DEFINE e == IF c \in {"double", "backslash"} THEN <<"backslash", c>> ELSE <<c>>
             w == Scanning(o, v, FALSE, TRUE)
             x == Escaped(<<>>, v)
  <2>1. v \in Seq(Characters) /\ Scanned(b, x) = w
    OBVIOUS
  <2>2. Append(v, c) \in Seq(Characters)
    BY <2>1, AppendProperties
  <2>3. w \in Scanners
    BY <2>1, AtType
  <2>4. e \in Seq(Characters)
    <3>1. "backslash" \in Characters
      BY DEF Characters
    <3> QED
      BY <3>1
  <2>5. Scanned(w, e) = Scanning(o, Append(v, c), FALSE, TRUE)
    <3>1. CASE c \in {"double", "backslash"}
      <4>1. Scanned(w, e) = Scan(Scan(w, "backslash"), c)
        <5>1. "backslash" \in Characters
          BY DEF Characters
        <5> HIDE DEF w
        <5> QED
          BY <2>3, <3>1, <5>1, ScannedTwo
      <4>2. Scan(w, "backslash") = [w EXCEPT !.escaped = TRUE]
        BY DEF Scan, Scanning
      <4> QED
        BY <4>1, <4>2 DEF Scan, Scanning
    <3>2. CASE c \notin {"double", "backslash"}
      <4>1. Scanned(w, e) = Scan(w, c)
        <5> HIDE DEF w
        <5> QED
          BY <2>3, <3>2, ScannedOne
      <4> QED
        BY <3>2, <4>1 DEF Scan, Scanning
    <3> QED
      BY <3>1, <3>2
  <2>6. x \in Seq(Characters)
    BY <1>1, <2>1, EscapedType
  <2>7. Escaped(<<>>, Append(v, c)) = x \o e
    BY <1>1, <2>1, EscapeMore DEF Escape
  <2>8. Scanned(b, x \o e) = Scanned(w, e)
    <3> HIDE DEF e, x, w
    <3> QED
      BY <1>1, <2>1, <2>4, <2>6, ScannedJoin
  <2> QED
    BY <2>2, <2>5, <2>7, <2>8
<1>4. P = Seq(Characters)
  <2> HIDE DEF P
  <2>1. P \in SUBSET Seq(Characters)
    BY DEF P
  <2> QED
    BY <1>2, <1>3, <2>1, SequencesAll
<1> QED
  BY <1>4 DEF b

\* Within single quotes, all comes out as it was.
LEMMA ScanInSingle ==
  ASSUME NEW o, NEW w, NEW c, c # "single"
  PROVE  Scan(Scanning(o, w, TRUE, FALSE), c) = Scanning(o, Append(w, c), TRUE, FALSE)
BY DEF Scan, Scanning

LEMMA InSingle ==
  ASSUME NEW o \in Seq(Seq(Characters)), NEW u \in Seq(Characters), "single" \notin ToSet(u)
  PROVE  Scanned(Scanning(o, <<>>, TRUE, FALSE), u) = Scanning(o, u, TRUE, FALSE)
<1> DEFINE b == Scanning(o, <<>>, TRUE, FALSE)
           P == {v \in Seq(Characters) : "single" \notin ToSet(v) => Scanned(b, v) = Scanning(o, v, TRUE, FALSE)}
<1>1. <<>> \in Seq(Characters) /\ b \in Scanners
  BY EmptySeq, AtType
<1> HIDE DEF b
<1>2. <<>> \in P
  BY <1>1, ScanNothing DEF b
<1>3. ASSUME NEW v \in P, NEW c \in Characters PROVE Append(v, c) \in P
  <2>1. v \in Seq(Characters) /\ Append(v, c) \in Seq(Characters)
    BY AppendProperties
  <2> SUFFICES ASSUME "single" \notin ToSet(Append(v, c))
               PROVE  Scanned(b, Append(v, c)) = Scanning(o, Append(v, c), TRUE, FALSE)
    BY <2>1
  <2>2. c # "single" /\ "single" \notin ToSet(v)
    BY <2>1, SetOfAppend
  <2>3. Scanned(b, v) = Scanning(o, v, TRUE, FALSE)
    BY <2>2
  <2>4. Scanned(b, Append(v, c)) = Scan(Scanned(b, v), c)
    BY <1>1, <2>1, ScanMore
  <2> QED
    BY <2>2, <2>3, <2>4, ScanInSingle
<1>4. P = Seq(Characters)
  <2> HIDE DEF P
  <2>1. P \in SUBSET Seq(Characters)
    BY DEF P
  <2> QED
    BY <1>2, <1>3, <2>1, SequencesAll
<1> QED
  BY <1>4 DEF b
\* A quoted text is scanned as it was; it is not empty and has a quote at
\* either end.
Quoted(q, u) ==
    /\ q \in Seq(Characters) /\ Len(q) > 1 /\ q[1] # "space" /\ q[Len(q)] # "space"
    /\ \A o \in Seq(Seq(Characters)) : Scanned(Scanning(o, <<>>, FALSE, FALSE), q) = Scanning(o, u, FALSE, FALSE)

\* A text between two quotes, by what the scanner makes of each.
LEMMA BetweenQuotes ==
  ASSUME NEW k \in {"single", "double"}, NEW e \in Seq(Characters), NEW u \in Seq(Characters),
         \A o \in Seq(Seq(Characters)) :
            Scanned(Scanning(o, <<>>, k = "single", k = "double"), e) = Scanning(o, u, k = "single", k = "double")
  PROVE  Quoted(<<k>> \o e \o <<k>>, u)
<1> DEFINE q == (<<k>> \o e) \o <<k>>
<1>1. k \in Characters /\ <<k>> \in Seq(Characters) /\ <<>> \in Seq(Characters)
  BY DEF Characters
<1>2. /\ <<k>> \o e \in Seq(Characters) /\ Len(<<k>> \o e) = 1 + Len(e) /\ (<<k>> \o e)[1] = k
      /\ Len(e) \in Nat
  BY <1>1, LenProperties, ConcatProperties
<1>3. q \in Seq(Characters) /\ Len(q) = 2 + Len(e) /\ q[1] = k /\ q[2 + Len(e)] = k
  BY <1>1, <1>2
<1>4. ASSUME NEW o \in Seq(Seq(Characters))
      PROVE  Scanned(Scanning(o, <<>>, FALSE, FALSE), q) = Scanning(o, u, FALSE, FALSE)
  <2> DEFINE b == Scanning(o, <<>>, FALSE, FALSE)
             d == Scanning(o, <<>>, k = "single", k = "double")
             w == Scanning(o, u, k = "single", k = "double")
  <2>1. b \in Scanners /\ d \in Scanners /\ w \in Scanners
    BY <1>1, AtType
  <2>2. Scan(b, k) = d
    BY DEF Scan, Scanning
  <2>3. Scan(w, k) = Scanning(o, u, FALSE, FALSE)
    BY DEF Scan, Scanning
  <2>4. Scanned(d, e) = w
    OBVIOUS
  <2> HIDE DEF b, d, w
  <2>5. Scanned(b, <<k>> \o e) = w
    <3>1. Scanned(b, <<k>>) = d
      BY <1>1, <2>1, <2>2, ScannedOne
    <3>2. Scanned(b, <<k>> \o e) = Scanned(Scanned(b, <<k>>), e)
      BY <1>1, <2>1, ScannedJoin
    <3> QED
      BY <2>4, <3>1, <3>2
  <2>6. Scanned(w, <<k>>) = Scanning(o, u, FALSE, FALSE)
    BY <1>1, <2>1, <2>3, ScannedOne
  <2> DEFINE r == <<k>> \o e
  <2>7. r \in Seq(Characters) /\ Scanned(b, r) = w
    BY <1>2, <2>5
  <2> HIDE DEF r
  <2>8. Scanned(b, r \o <<k>>) = Scanned(Scanned(b, r), <<k>>)
    BY <1>1, <2>1, <2>7, ScannedJoin
  <2> QED
    BY <2>6, <2>7, <2>8 DEF r, b
<1> HIDE DEF q
<1>5. Quoted(q, u)
  <2>1. Len(q) > 1 /\ q[1] # "space" /\ q[Len(q)] # "space"
    BY <1>2, <1>3
  <2> QED
    BY <1>3, <1>4, <2>1 DEF Quoted
<1> QED
  BY <1>5 DEF q

LEMMA DoubleIsQuoted ==
  ASSUME NEW u \in Seq(Characters)
  PROVE  Quoted(DoubleQuoted(u), u)
<1> DEFINE e == Escaped(<<>>, u)
<1>1. e \in Seq(Characters)
  <2>1. <<>> \in Seq(Characters)
    BY EmptySeq
  <2> QED
    BY <2>1, EscapedType
<1>2. \A o \in Seq(Seq(Characters)) :
         Scanned(Scanning(o, <<>>, "double" = "single", "double" = "double"), e)
           = Scanning(o, u, "double" = "single", "double" = "double")
  BY InDouble
<1>3. DoubleQuoted(u) = <<"double">> \o e \o <<"double">>
  BY DEF DoubleQuoted, Escaped
<1> HIDE DEF e
<1> QED
  BY <1>1, <1>2, <1>3, BetweenQuotes

LEMMA SingleIsQuoted ==
  ASSUME NEW u \in Seq(Characters), "single" \notin ToSet(u)
  PROVE  Quoted(SingleQuoted(u), u)
<1>1. \A o \in Seq(Seq(Characters)) :
         Scanned(Scanning(o, <<>>, "single" = "single", "single" = "double"), u)
           = Scanning(o, u, "single" = "single", "single" = "double")
  BY InSingle
<1> QED
  BY <1>1, BetweenQuotes DEF SingleQuoted

\* Of a space at the end, nothing else is trimmed when there is none before.
LEMMA TrimmedAtEnd ==
  ASSUME NEW s \in Seq(Characters), Len(s) > 0, s[1] # "space", s[Len(s)] # "space"
  PROVE  TrimSpace(s \o <<"space">>) = s
<1> DEFINE r == s \o <<"space">>
           n == Len(s)
           solid == {i \in DOMAIN r : r[i] # "space"}
<1>1. /\ n \in Nat \ {0} /\ r \in Seq(Characters) /\ Len(r) = n + 1 /\ r[n + 1] = "space"
      /\ \A i \in 1..n : r[i] = s[i]
  <2>1. <<"space">> \in Seq(Characters)
    BY DEF Characters
  <2> QED
    BY <2>1, LenProperties
<1>2. SubSeq(r, 1, n) = s
  BY <1>1, LenProperties
<1> HIDE DEF r, n
<1>3. DOMAIN r = 1..n + 1
  BY <1>1, LenProperties
<1>4. 1 \in solid /\ n \in solid /\ \A i \in solid : i \in Nat /\ 1 <= i /\ i <= n
  BY <1>1, <1>3 DEF n
<1> HIDE DEF solid
<1>5. (CHOOSE i \in solid : \A k \in solid : i <= k) = 1
  <2>1. \A i \in solid : (\A k \in solid : i <= k) <=> i = 1
    BY <1>1, <1>4
  <2> QED
    BY <1>4, <2>1
<1>6. (CHOOSE i \in solid : \A k \in solid : i >= k) = n
  <2>1. \A i \in solid : (\A k \in solid : i >= k) <=> i = n
    BY <1>1, <1>4
  <2> QED
    BY <1>4, <2>1
<1>7. TrimSpace(r) = SubSeq(r, 1, n)
  BY <1>4, <1>5, <1>6 DEF TrimSpace, solid
<1> QED
  BY <1>2, <1>7 DEF r

LEMMA FlushAt ==
  ASSUME NEW o, NEW w
  PROVE  flush(Scanning(o, w, FALSE, FALSE)) = Scanning(IF w = <<>> THEN o ELSE Append(o, w), <<>>, FALSE, FALSE)
BY DEF flush, Scanning

LEMMA ScanSpace ==
  ASSUME NEW o, NEW w
  PROVE  Scan(Scanning(o, w, FALSE, FALSE), "space") = Scanning(IF w = <<>> THEN o ELSE Append(o, w), <<>>, FALSE, FALSE)
<1>1. Scan(Scanning(o, w, FALSE, FALSE), "space") = flush(Scanning(o, w, FALSE, FALSE))
  BY DEF Scan, Scanning
<1> QED
  BY <1>1, FlushAt

LEMMA AppendOne ==
  ASSUME NEW S, NEW c \in S, NEW d \in S
  PROVE  Append(<<>>, c) = <<c>> /\ Append(<<c>>, d) = <<c, d>>
<1>1. <<>> \in Seq(S) /\ <<c>> = Append(<<>>, c)
  BY EmptySeq
<1>2. <<c>> \in Seq(S) /\ <<c, d>> = Append(<<c>>, d)
  OBVIOUS
<1> QED
  BY <1>1, <1>2

\* Two texts that are quoted, with spaces after each.
LEMMA QuotedLine ==
  ASSUME NEW u \in Seq(Characters), NEW p, Quoted(p, u), NEW q, Quoted(q, u)
  PROVE  ParseRcloneArgs(p \o <<"space", "space">> \o q \o <<"space">>)
           = [ok |-> TRUE, args |-> IF u = <<>> THEN <<>> ELSE <<u, u>>]
<1> DEFINE sp  == <<"space", "space">>
           ps  == p \o sp
           out == IF u = <<>> THEN <<>> ELSE <<u>>
           all == ps \o q
<1>1. /\ "space" \in Characters /\ sp \in Seq(Characters) /\ Len(sp) = 2
      /\ <<>> \in Seq(Characters) /\ <<>> \in Seq(Seq(Characters)) /\ out \in Seq(Seq(Characters))
  <2>1. "space" \in Characters
    BY DEF Characters
  <2>2. <<u>> \in Seq(Seq(Characters)) /\ <<>> \in Seq(Seq(Characters)) /\ <<>> \in Seq(Characters)
    OBVIOUS
  <2> QED
    BY <2>1, <2>2
<1>2. p \in Seq(Characters) /\ q \in Seq(Characters)
  BY DEF Quoted
<1>3. /\ ps \in Seq(Characters) /\ Len(ps) = Len(p) + 2 /\ ps[1] = p[1]
  BY <1>1, <1>2 DEF Quoted
<1>4. /\ all \in Seq(Characters) /\ Len(all) = Len(ps) + Len(q)
      /\ all[1] = ps[1] /\ all[Len(ps) + Len(q)] = q[Len(q)] /\ Len(all) > 0
  <2> HIDE DEF ps
  <2>1. Len(ps) > 0 /\ Len(ps) \in Nat /\ Len(q) > 1 /\ Len(q) \in Nat
    BY <1>2, <1>3, LenProperties DEF Quoted
  <2>2. /\ all \in Seq(Characters) /\ Len(all) = Len(ps) + Len(q)
        /\ \A i \in 1..Len(ps) + Len(q) : all[i] = IF i <= Len(ps) THEN ps[i] ELSE q[i - Len(ps)]
    BY <1>2, <1>3, ConcatProperties
  <2> HIDE DEF all
  <2> QED
    BY <2>1, <2>2
<1>5. TrimSpace(all \o <<"space">>) = all
  <2> HIDE DEF all, ps
  <2>1. all[1] # "space" /\ all[Len(all)] # "space"
    BY <1>3, <1>4 DEF Quoted
  <2> QED
    BY <1>4, <2>1, TrimmedAtEnd
<1>6. Scanned(Scanner, p) = Scanning(<<>>, u, FALSE, FALSE)
  BY <1>1 DEF Quoted, Scanner, Scanning
<1>7. Scanned(Scanning(<<>>, u, FALSE, FALSE), sp) = Scanning(out, <<>>, FALSE, FALSE)
  <2> DEFINE b == Scanning(<<>>, u, FALSE, FALSE)
  <2>1. b \in Scanners
    BY <1>1, AtType
  <2>2. Scan(Scan(b, "space"), "space") = Scanning(out, <<>>, FALSE, FALSE)
    <3>1. Scan(b, "space") = Scanning(out, <<>>, FALSE, FALSE)
      BY ScanSpace, AppendOne
    <3> QED
      BY <3>1, ScanSpace
  <2> HIDE DEF b, out
  <2>3. Scanned(b, sp) = Scan(Scan(b, "space"), "space")
    BY <1>1, <2>1, ScannedTwo
  <2> QED
    BY <2>2, <2>3 DEF b
<1>8. Scanner \in Scanners
  BY <1>1 DEF Scanner, Scanners
<1>9. Scanned(Scanner, ps) = Scanning(out, <<>>, FALSE, FALSE)
  <2> HIDE DEF sp, out
  <2>1. Scanned(Scanner, p \o sp) = Scanned(Scanned(Scanner, p), sp)
    BY <1>1, <1>2, <1>8, ScannedJoin
  <2> QED
    BY <1>6, <1>7, <2>1
<1>10. Scanned(Scanner, all) = Scanning(out, u, FALSE, FALSE)
  <2>1. Scanned(Scanning(out, <<>>, FALSE, FALSE), q) = Scanning(out, u, FALSE, FALSE)
    <3> HIDE DEF out
    <3> QED
      BY <1>1 DEF Quoted
  <2> HIDE DEF ps, out
  <2>2. Scanned(Scanner, ps \o q) = Scanned(Scanned(Scanner, ps), q)
    BY <1>2, <1>3, <1>8, ScannedJoin
  <2> QED
    BY <1>9, <2>1, <2>2
<1>11. flush(Scanning(out, u, FALSE, FALSE)).out = IF u = <<>> THEN <<>> ELSE <<u, u>>
  <2>1. Append(<<u>>, u) = <<u, u>>
    BY AppendOne
  <2>2. flush(Scanning(out, u, FALSE, FALSE)) = Scanning(IF u = <<>> THEN out ELSE Append(out, u), <<>>, FALSE, FALSE)
    BY FlushAt
  <2> QED
    BY <2>1, <2>2 DEF Scanning
<1>12. ParseRcloneArgs(all \o <<"space">>) = [ok |-> TRUE, args |-> IF u = <<>> THEN <<>> ELSE <<u, u>>]
  <2> HIDE DEF all, out
  <2>1. FoldLeft(Scan, Scanner, TrimSpace(all \o <<"space">>)) = Scanning(out, u, FALSE, FALSE)
    BY <1>5, <1>10 DEF Scanned
  <2>2. ~(Scanning(out, u, FALSE, FALSE).escaped \/ Scanning(out, u, FALSE, FALSE).inSingle \/ Scanning(out, u, FALSE, FALSE).inDouble)
    BY DEF Scanning
  <2> QED
    BY <1>11, <2>1, <2>2 DEF ParseRcloneArgs
<1> QED
  BY <1>12

\* Whatever the characters of a text: what is quoted is parsed as it was.
THEOREM QuotingParses ==
  ASSUME text \in Seq(Characters)
  PROVE  ParsesQuoted
<1> DEFINE meant == [ok |-> TRUE, args |-> IF text = <<>> THEN <<>> ELSE <<text, text>>]
<1>1. ParseRcloneArgs(DoubleQuoted(text) \o <<"space", "space">> \o DoubleQuoted(text) \o <<"space">>) = meant
  BY DoubleIsQuoted, QuotedLine
<1>2. "single" \notin ToSet(text) =>
         ParseRcloneArgs(SingleQuoted(text) \o <<"space", "space">> \o DoubleQuoted(text) \o <<"space">>) = meant
  BY DoubleIsQuoted, SingleIsQuoted, QuotedLine
<1> QED
  BY <1>1, <1>2 DEF ParsesQuoted
---------------------------------------------------------------------------
(* Options that are taken out of a sequence of options.                    *)

LEMMA WithoutNothing ==
  ASSUME NEW keys
  PROVE  Without(keys, <<>>) = <<>>
<1> DEFINE b == <<>>
<1>1. b \in Seq({})
  BY EmptySeq
<1> HIDE DEF b
<1>2. Omitted(keys, b, <<>>) = b
  BY <1>1, OmitNothing
<1> QED
  BY <1>2 DEF b, Without, Omitted

LEMMA WithoutType ==
  ASSUME NEW keys, NEW O, NEW s \in Seq(O)
  PROVE  Without(keys, s) \in Seq(O)
<1> DEFINE b == <<>>
<1>1. b \in Seq(O)
  BY EmptySeq
<1> HIDE DEF b
<1>2. Omitted(keys, b, s) \in Seq(O)
  BY <1>1, OmittedType
<1> QED
  BY <1>2 DEF b, Without, Omitted

LEMMA WithoutMore ==
  ASSUME NEW keys, NEW O, NEW s \in Seq(O), NEW c \in O
  PROVE  Without(keys, Append(s, c)) = Omit(keys, Without(keys, s), c)
<1> DEFINE b == <<>>
<1>1. b \in Seq(O)
  BY EmptySeq
<1> HIDE DEF b
<1>2. Omitted(keys, b, Append(s, c)) = Omit(keys, Omitted(keys, b, s), c)
  BY <1>1, OmitMore
<1> QED
  BY <1>2 DEF b, Without, Omitted

\* Those that are left are those with other keys.
LEMMA WithoutSet ==
  ASSUME NEW keys, NEW O, NEW s \in Seq(O)
  PROVE  ToSet(Without(keys, s)) = {o \in ToSet(s) : o[1].key \notin keys}
<1> DEFINE P == {v \in Seq(O) : ToSet(Without(keys, v)) = {o \in ToSet(v) : o[1].key \notin keys}}
<1>1. <<>> \in Seq(O)
  BY EmptySeq
<1>2. <<>> \in P
  <2>1. Without(keys, <<>>) = <<>>
    BY <1>1, WithoutNothing
  <2> QED
    BY <1>1, <2>1 DEF ToSet
<1>3. ASSUME NEW v \in P, NEW c \in O PROVE Append(v, c) \in P
  <2> DEFINE w == Without(keys, v)
  <2>1. /\ v \in Seq(O) /\ Append(v, c) \in Seq(O)
        /\ ToSet(w) = {o \in ToSet(v) : o[1].key \notin keys}
    BY AppendProperties
  <2>2. w \in Seq(O)
    BY <2>1, WithoutType
  <2>3. Without(keys, Append(v, c)) = Omit(keys, w, c)
    BY <2>1, WithoutMore
  <2>4. ToSet(Append(v, c)) = ToSet(v) \cup {c}
    BY <2>1, SetOfAppend
  <2> HIDE DEF w
  <2>5. ToSet(Append(w, c)) = ToSet(w) \cup {c}
    BY <2>2, SetOfAppend
  <2> QED
    BY <2>1, <2>3, <2>4, <2>5 DEF Omit
<1>4. P = Seq(O)
  <2> HIDE DEF P
  <2>1. P \in SUBSET Seq(O)
    BY DEF P
  <2> QED
    BY <1>2, <1>3, <2>1, SequencesAll
<1> QED
  BY <1>4

\* It is the keys that matter, of the options there are.
LEMMA WithoutSame ==
  ASSUME NEW j, NEW k, NEW O, NEW s \in Seq(O), \A o \in O : o[1].key \in j <=> o[1].key \in k
  PROVE  Without(j, s) = Without(k, s)
<1> DEFINE P == {v \in Seq(O) : Without(j, v) = Without(k, v)}
<1>1. <<>> \in Seq(O)
  BY EmptySeq
<1>2. <<>> \in P
  BY <1>1, WithoutNothing
<1>3. ASSUME NEW v \in P, NEW c \in O PROVE Append(v, c) \in P
  <2>1. /\ v \in Seq(O) /\ Append(v, c) \in Seq(O) /\ Without(j, v) = Without(k, v)
    BY AppendProperties
  <2>2. Without(j, Append(v, c)) = Omit(j, Without(j, v), c)
    BY <2>1, WithoutMore
  <2>3. Without(k, Append(v, c)) = Omit(k, Without(k, v), c)
    BY <2>1, WithoutMore
  <2> QED
    BY <2>1, <2>2, <2>3 DEF Omit
<1>4. P = Seq(O)
  <2> HIDE DEF P
  <2>1. P \in SUBSET Seq(O)
    BY DEF P
  <2> QED
    BY <1>2, <1>3, <2>1, SequencesAll
<1> QED
  BY <1>4

\* Twice is once, with the keys of both.
LEMMA WithoutTwice ==
  ASSUME NEW j, NEW k, NEW l, NEW O, NEW s \in Seq(O),
         \A o \in O : o[1].key \in l <=> o[1].key \in j \/ o[1].key \in k
  PROVE  Without(k, Without(j, s)) = Without(l, s)
<1> DEFINE P == {v \in Seq(O) : Without(k, Without(j, v)) = Without(l, v)}
<1>1. <<>> \in Seq(O)
  BY EmptySeq
<1>2. <<>> \in P
  BY <1>1, WithoutNothing
<1>3. ASSUME NEW v \in P, NEW c \in O PROVE Append(v, c) \in P
  <2> DEFINE w == Without(j, v)
  <2>1. /\ v \in Seq(O) /\ Append(v, c) \in Seq(O) /\ Without(k, w) = Without(l, v)
    BY AppendProperties
  <2>2. w \in Seq(O)
    BY <2>1, WithoutType
  <2>3. Without(j, Append(v, c)) = Omit(j, w, c)
    BY <2>1, WithoutMore
  <2>4. Without(l, Append(v, c)) = Omit(l, Without(l, v), c)
    BY <2>1, WithoutMore
  <2> HIDE DEF w
  <2>5. Without(k, Append(w, c)) = Omit(k, Without(k, w), c)
    BY <2>2, WithoutMore
  <2> QED
    BY <2>1, <2>3, <2>4, <2>5 DEF Omit
<1>4. P = Seq(O)
  <2> HIDE DEF P
  <2>1. P \in SUBSET Seq(O)
    BY DEF P
  <2> QED
    BY <1>2, <1>3, <2>1, SequencesAll
<1> QED
  BY <1>4

---------------------------------------------------------------------------
(* ListWithoutFilters.                                                     *)

NoneKept == [out |-> <<>>, skip |-> FALSE]

LEMMA NoneKeptType == ASSUME NEW A PROVE NoneKept \in Keepers(A)
BY EmptySeq DEF NoneKept, Keepers

LEMMA SanitizedIsKept ==
  ASSUME NEW s, NEW blocked, NEW valued
  PROVE  Sanitized(s, blocked, valued) = Kept(blocked, valued, NoneKept, s).out
BY DEF Sanitized, Kept, NoneKept

LEMMA SanitizedType ==
  ASSUME NEW A, NEW s \in Seq(A), NEW blocked, NEW valued
  PROVE  Sanitized(s, blocked, valued) \in Seq(A)
<1>1. Kept(blocked, valued, NoneKept, s) \in Keepers(A)
  BY NoneKeptType, KeptType
<1> QED
  BY <1>1, SanitizedIsKept DEF Keepers

\* No key that is blocked is left.
LEMMA SanitizedKeys ==
  ASSUME NEW A, NEW s \in Seq(A), NEW blocked, NEW valued
  PROVE  \A a \in ToSet(Sanitized(s, blocked, valued)) : a.key \notin blocked
<1> DEFINE P == {v \in Seq(A) : \A a \in ToSet(Kept(blocked, valued, NoneKept, v).out) : a.key \notin blocked}
<1>1. <<>> \in P
  <2>1. Kept(blocked, valued, NoneKept, <<>>) = NoneKept
    BY NoneKeptType, KeepNothing
  <2> QED
    BY <2>1, EmptySeq DEF NoneKept, ToSet
<1>2. ASSUME NEW v \in P, NEW c \in A PROVE Append(v, c) \in P
  <2> DEFINE t == Kept(blocked, valued, NoneKept, v)
  <2>1. v \in Seq(A) /\ Append(v, c) \in Seq(A) /\ \A a \in ToSet(t.out) : a.key \notin blocked
    BY AppendProperties
  <2>2. Kept(blocked, valued, NoneKept, Append(v, c)) = Keep(blocked, valued, t, c)
    BY <2>1, NoneKeptType, KeepMore
  <2>3. t \in Keepers(A)
    BY <2>1, NoneKeptType, KeptType
  <2> HIDE DEF t
  <2>4. ToSet(Append(t.out, c)) = ToSet(t.out) \cup {c}
    BY <2>3, SetOfAppend DEF Keepers
  <2>5. \A a \in ToSet(Keep(blocked, valued, t, c).out) : a.key \notin blocked
    BY <2>1, <2>3, <2>4 DEF Keep, Keepers
  <2> QED
    BY <2>1, <2>2, <2>5
<1>3. P = Seq(A)
  <2> HIDE DEF P
  <2>1. P \in SUBSET Seq(A)
    BY DEF P
  <2> QED
    BY <1>1, <1>2, <2>1, SequencesAll
<1> QED
  BY <1>3, SanitizedIsKept

LEMMA SetOfConcat ==
  ASSUME NEW S, NEW s \in Seq(S), NEW u \in Seq(S)
  PROVE  ToSet(s \o u) = ToSet(s) \cup ToSet(u)
<1> DEFINE r == s \o u
<1>1. /\ DOMAIN s = 1..Len(s) /\ Len(s) \in Nat /\ DOMAIN u = 1..Len(u) /\ Len(u) \in Nat
      /\ DOMAIN r = 1..Len(s) + Len(u)
      /\ \A i \in 1..Len(s) + Len(u) : r[i] = IF i <= Len(s) THEN s[i] ELSE u[i - Len(s)]
  BY ConcatProperties, LenProperties
<1> HIDE DEF r
<1>2. \A i \in DOMAIN s : s[i] \in ToSet(r)
  BY <1>1 DEF ToSet
<1>3. ASSUME NEW i \in DOMAIN u PROVE u[i] \in ToSet(r)
  <2>1. Len(s) + i \in DOMAIN r /\ r[Len(s) + i] = u[i]
    BY <1>1
  <2> QED
    BY <2>1 DEF ToSet
<1>4. ToSet(r) \subseteq ToSet(s) \cup ToSet(u)
  BY <1>1 DEF ToSet
<1>5. ToSet(r) = ToSet(s) \cup ToSet(u)
  BY <1>2, <1>3, <1>4 DEF ToSet
<1> QED
  BY <1>5 DEF r

LEMMA SetOfSeq ==
  ASSUME NEW A, NEW s \in Seq(A)
  PROVE  s \in Seq(ToSet(s)) /\ ToSet(s) \subseteq A
BY LenProperties DEF ToSet

LEMMA SanitizedSubset ==
  ASSUME NEW A, NEW s \in Seq(A), NEW blocked, NEW valued
  PROVE  ToSet(Sanitized(s, blocked, valued)) \subseteq ToSet(s)
<1>1. s \in Seq(ToSet(s))
  BY SetOfSeq
<1>2. Sanitized(s, blocked, valued) \in Seq(ToSet(s))
  BY <1>1, SanitizedType
<1> QED
  BY <1>2, SetOfSeq

\* Whatever a user writes.
THEOREM NoFilterWithList ==
  ASSUME NEW A, args \in Seq(A)
  PROVE  ListWithoutFilters
<1> DEFINE san     == SanitizeRcloneArgs(args)
           blocked == {k \in Keys(san) : isRcloneFilterKey(k)}
           valued  == {k \in Keys(san) : rcloneFilterNeedsValue(k)}
           all     == UserArgs(TRUE, args)
<1>1. all = Sanitized(san, blocked, valued)
  BY DEF UserArgs, SanitizeRcloneFilterArgs
<1>2. san \in Seq(A)
  BY SanitizedType DEF SanitizeRcloneArgs
<1> HIDE DEF san
<1>3. ToSet(Sanitized(san, blocked, valued)) \subseteq ToSet(san)
  <2> HIDE DEF blocked, valued
  <2> QED
    BY <1>2, SanitizedSubset
<1>4. \A a \in ToSet(Sanitized(san, blocked, valued)) : a.key \notin blocked
  <2> HIDE DEF blocked, valued
  <2> QED
    BY <1>2, SanitizedKeys
<1> HIDE DEF all
<1>5. \A k \in Keys(all) : ~isRcloneFilterKey(k)
  BY <1>1, <1>3, <1>4 DEF Keys
<1>6. Filters \cap Keys(all) = {}
  BY <1>5 DEF Filters, isRcloneFilterKey
<1>7. ASSUME NEW minSize \in BOOLEAN, NEW ignored \in BOOLEAN
      PROVE  Filters \cap ToSet(Own(TRUE, minSize, ignored)) = {}
  <2> DEFINE own  == <<"--stats", "--rc", "--rc-no-auth", "--rc-addr", "--log-file", "--log-level",
                       "--transfers", "--checkers">>
             list == <<"--files-from-raw">>
  <2>0. PICK S : {"--stats", "--rc", "--rc-no-auth", "--rc-addr", "--log-file", "--log-level",
                  "--transfers", "--checkers", "--files-from-raw"} \subseteq S
    OBVIOUS
  <2>1. own \in Seq(S) /\ list \in Seq(S)
    BY <2>0
  <2>2. Filters \cap ToSet(own) = {} /\ Filters \cap ToSet(list) = {}
    BY DEF ToSet, Filters, Patterns
  <2>3. Own(TRUE, minSize, ignored) = own \o list \o <<>> \o <<>>
    BY DEF Own
  <2> HIDE DEF own, list
  <2>4. own \o list \in Seq(S) /\ own \o list \o <<>> \o <<>> = own \o list
    BY <2>1, ConcatProperties, ConcatEmptySeq
  <2>5. ToSet(own \o list) = ToSet(own) \cup ToSet(list)
    BY <2>1, SetOfConcat
  <2> QED
    BY <2>2, <2>3, <2>4, <2>5
<1> QED
  BY <1>6, <1>7 DEF ListWithoutFilters, all
---------------------------------------------------------------------------
(* SanitizedAsMeant.                                                       *)

NoneRead == [out |-> <<>>, open |-> FALSE]

LEMMA NoneReadType == ASSUME NEW A PROVE NoneRead \in Readers(A)
BY EmptySeq DEF NoneRead, Readers

LEMMA OptionsAreRead == ASSUME NEW s PROVE Options(s) = Reads(NoneRead, s)
BY DEF Options, Reads, NoneRead

\* WellFormed, of what has been read so far.
Meant(o) == o[1] \notin {Value, Blank} /\ (Len(o) = 2 => o[2] = Value)

AllMeant(t) == \A o \in ToSet(t.out) : Meant(o)

\* What has been read before an argument was meant, if it is with it.
LEMMA MeantBefore ==
  ASSUME NEW A, NEW t \in Readers(A), NEW c \in A, AllMeant(Read(t, c))
  PROVE  AllMeant(t)
<1>1. CASE t.open
  <2> DEFINE f == Front(t.out)
             l == Last(t.out)
             n == Append(l, c)
  <2>1. f \in Seq(Items(A)) /\ l \in Items(A) /\ t.out = Append(f, l) /\ Len(l) = 1
    BY <1>1, FrontLast DEF Readers
  <2>2. Read(t, c).out = Append(f, n)
    BY <1>1 DEF Read, Readers
  <2> HIDE DEF f, l
  <2>3. l \in Seq(A)
    BY <2>1 DEF Items
  <2>4. n \in Seq(A) /\ Len(n) = 2 /\ n[1] = l[1]
    BY <2>1, <2>3, OneMore
  <2>5. n \in Items(A)
    BY <2>4 DEF Items
  <2> HIDE DEF n
  <2>6. ToSet(t.out) = ToSet(f) \cup {l} /\ ToSet(Read(t, c).out) = ToSet(f) \cup {n}
    BY <2>1, <2>2, <2>5, SetOfAppend
  <2>7. Meant(n) => Meant(l)
    BY <2>1, <2>4 DEF Meant
  <2> QED
    BY <2>6, <2>7 DEF AllMeant
<1>2. CASE ~t.open
  <2>1. Read(t, c).out = Append(t.out, <<c>>)
    BY <1>2 DEF Read
  <2>2. <<c>> \in Items(A) /\ t.out \in Seq(Items(A))
    BY DEF Items, Readers
  <2>3. ToSet(Read(t, c).out) = ToSet(t.out) \cup {<<c>>}
    BY <2>1, <2>2, SetOfAppend
  <2> QED
    BY <2>3 DEF AllMeant
<1> QED
  BY <1>1, <1>2 DEF Readers

\* What has been read of a line (r), what a sanitizer has kept of it (k), and
\* what is read of that (q).
InStep(blocked, r, k, q) ==
    /\ k.skip <=> (r.open /\ Last(r.out)[1].key \in blocked)
    /\ q.open <=> (r.open /\ Last(r.out)[1].key \notin blocked)
    /\ q.out = Without(blocked, r.out)

\* What a sanitizer has to know of the arguments.
Knows(A, blocked, valued) ==
    /\ "value" \notin blocked
    /\ \A a \in A : a.key \in blocked => (a.key \in valued <=> TakesValue(a.key))

\* An argument after an option that is open.
LEMMA StepWithOpen ==
  ASSUME NEW A, NEW blocked, NEW valued, Knows(A, blocked, valued),
         NEW r \in Readers(A), NEW k \in Keepers(A), NEW q \in Readers(A), NEW c \in A,
         InStep(blocked, r, k, q), AllMeant(Read(r, c)), r.open
  PROVE  InStep(blocked, Read(r, c), Keep(blocked, valued, k, c),
                IF k.skip \/ c = Blank \/ c.key \in blocked THEN q ELSE Read(q, c))
<1> DEFINE f == Front(r.out)
           l == Last(r.out)
           n == Append(l, c)
<1>1. f \in Seq(Items(A)) /\ l \in Items(A) /\ r.out = Append(f, l) /\ Len(l) = 1
  BY FrontLast DEF Readers
<1>2. Read(r, c) = [out |-> Append(f, n), open |-> FALSE]
  BY DEF Read, Readers
<1> HIDE DEF f
<1>3. InStep(blocked, r, k, q) /\ (k.skip <=> l[1].key \in blocked) /\ (q.open <=> l[1].key \notin blocked)
  BY DEF InStep
<1> HIDE DEF l
<1>4. l \in Seq(A)
  BY <1>1 DEF Items
<1>5. n \in Seq(A) /\ Len(n) = 2
  BY <1>1, <1>4, OneMore
<1>6. n[1] = l[1] /\ n[2] = c
  BY <1>1, <1>4, OneMore
<1>7. n \in Items(A)
  BY <1>5 DEF Items
<1> HIDE DEF n
<1>8. ToSet(Append(f, n)) = ToSet(f) \cup {n}
  BY <1>1, <1>7, SetOfAppend
<1>9. c = Value
  BY <1>2, <1>5, <1>6, <1>8 DEF AllMeant, Meant
<1>10. c # Blank /\ c.key \notin blocked
  BY <1>9 DEF Value, Blank, Knows
<1> DEFINE w == Without(blocked, f)
<1>11. w \in Seq(Items(A))
  BY <1>1, WithoutType
<1>12. Without(blocked, Append(f, n)) = Omit(blocked, w, n)
  BY <1>1, <1>7, WithoutMore
<1>13. q.out = Omit(blocked, w, l)
  BY <1>1, WithoutMore DEF InStep
<1> HIDE DEF w
<1>14. CASE l[1].key \in blocked
  <2>1. k.skip /\ ~q.open
    BY <1>3, <1>14
  <2>2. Keep(blocked, valued, k, c).skip = FALSE
    BY <2>1 DEF Keep, Keepers
  <2>3. q.out = w /\ Without(blocked, Append(f, n)) = w
    BY <1>6, <1>12, <1>13, <1>14 DEF Omit
  <2> QED
    BY <1>2, <2>1, <2>2, <2>3 DEF InStep
<1>15. CASE l[1].key \notin blocked
  <2>1. ~k.skip /\ q.open
    BY <1>3, <1>15
  <2>2. Keep(blocked, valued, k, c).skip = FALSE
    BY <1>10, <2>1 DEF Keep, Keepers
  <2>3. q.out = Append(w, l) /\ Without(blocked, Append(f, n)) = Append(w, n)
    BY <1>6, <1>12, <1>13, <1>15 DEF Omit
  <2>4. Front(q.out) = w /\ Last(q.out) = l
    BY <1>1, <1>11, <2>3, FrontLastOfAppend
  <2>5. Read(q, c).out = Append(w, n) /\ Read(q, c).open = FALSE
    BY <2>1, <2>4 DEF Read, Readers, n
  <2>6. InStep(blocked, Read(r, c), Keep(blocked, valued, k, c), Read(q, c))
    BY <1>2, <2>2, <2>3, <2>5 DEF InStep
  <2> QED
    BY <1>10, <2>1, <2>6
<1> QED
  BY <1>14, <1>15

\* An argument that begins an option.
LEMMA StepWithNoneOpen ==
  ASSUME NEW A, NEW blocked, NEW valued, Knows(A, blocked, valued),
         NEW r \in Readers(A), NEW k \in Keepers(A), NEW q \in Readers(A), NEW c \in A,
         InStep(blocked, r, k, q), AllMeant(Read(r, c)), ~r.open
  PROVE  InStep(blocked, Read(r, c), Keep(blocked, valued, k, c),
                IF k.skip \/ c = Blank \/ c.key \in blocked THEN q ELSE Read(q, c))
<1> DEFINE n == <<c>>
           opens == ~c.eq /\ TakesValue(c.key)
<1>1. Read(r, c) = [out |-> Append(r.out, n), open |-> opens]
  BY DEF Read
<1>2. n \in Items(A) /\ n[1] = c /\ r.out \in Seq(Items(A)) /\ q.out \in Seq(Items(A))
  BY DEF Items, Readers
<1>3. ~k.skip /\ ~q.open /\ q.out = Without(blocked, r.out)
  BY DEF InStep
<1> HIDE DEF n
<1>4. ToSet(Append(r.out, n)) = ToSet(r.out) \cup {n} /\ Last(Append(r.out, n)) = n
  BY <1>2, SetOfAppend, FrontLastOfAppend
<1>5. c # Blank
  BY <1>1, <1>2, <1>4 DEF AllMeant, Meant
<1>6. Without(blocked, Append(r.out, n)) = Omit(blocked, q.out, n)
  BY <1>2, <1>3, WithoutMore
<1>7. CASE c.key \in blocked
  <2>1. Keep(blocked, valued, k, c).skip <=> opens
    BY <1>3, <1>5, <1>7 DEF Keep, Keepers, Knows
  <2>2. Without(blocked, Append(r.out, n)) = q.out
    BY <1>2, <1>6, <1>7 DEF Omit
  <2> HIDE DEF opens
  <2> QED
    BY <1>1, <1>2, <1>3, <1>4, <1>7, <2>1, <2>2 DEF InStep
<1>8. CASE c.key \notin blocked
  <2>1. Keep(blocked, valued, k, c).skip = FALSE
    BY <1>3, <1>5, <1>8 DEF Keep, Keepers
  <2>2. Without(blocked, Append(r.out, n)) = Append(q.out, n)
    BY <1>2, <1>6, <1>8 DEF Omit
  <2>3. Read(q, c) = [out |-> Append(q.out, n), open |-> opens]
    BY <1>3 DEF Read, n
  <2> HIDE DEF opens
  <2>4. InStep(blocked, Read(r, c), Keep(blocked, valued, k, c), Read(q, c))
    BY <1>1, <1>2, <1>4, <1>8, <2>1, <2>2, <2>3 DEF InStep
  <2> QED
    BY <1>3, <1>5, <1>8, <2>4
<1> QED
  BY <1>7, <1>8
\* A sanitizer keeps of a line as it is meant the options that it does not
\* block; what it keeps is again as it is meant.
LEMMA SanitizedInStep ==
  ASSUME NEW A, NEW blocked, NEW valued, Knows(A, blocked, valued), NEW s \in Seq(A),
         AllMeant(Reads(NoneRead, s))
  PROVE  InStep(blocked, Reads(NoneRead, s), Kept(blocked, valued, NoneKept, s),
                Reads(NoneRead, Kept(blocked, valued, NoneKept, s).out))
<1> DEFINE R(v) == Reads(NoneRead, v)
           K(v) == Kept(blocked, valued, NoneKept, v)
           P == {v \in Seq(A) : AllMeant(R(v)) => InStep(blocked, R(v), K(v), R(K(v).out))}
<1>1. <<>> \in P
  <2>1. R(<<>>) = NoneRead /\ K(<<>>) = NoneKept
    <3>1. NoneRead \in Readers(A) /\ NoneKept \in Keepers(A)
      BY NoneReadType, NoneKeptType
    <3>2. R(<<>>) = NoneRead
      BY <3>1, ReadNothing
    <3>3. K(<<>>) = NoneKept
      BY <3>1, KeepNothing
    <3> QED
      BY <3>2, <3>3
  <2>2. InStep(blocked, NoneRead, NoneKept, NoneRead)
    BY WithoutNothing DEF InStep, NoneRead, NoneKept
  <2>3. NoneKept.out = <<>> /\ <<>> \in Seq(A)
    BY EmptySeq DEF NoneKept
  <2> HIDE DEF R, K
  <2> QED
    BY <2>1, <2>2, <2>3
<1>2. ASSUME NEW v \in P, NEW c \in A PROVE Append(v, c) \in P
  <2> DEFINE r == R(v)
             k == K(v)
             q == R(k.out)
  <2>1. v \in Seq(A) /\ Append(v, c) \in Seq(A) /\ (AllMeant(r) => InStep(blocked, r, k, q))
    BY AppendProperties
  <2>2. R(Append(v, c)) = Read(r, c)
    <3>1. v \in Seq(A) /\ NoneRead \in Readers(A)
      BY NoneReadType
    <3> QED
      BY <3>1, ReadMore
  <2>3. K(Append(v, c)) = Keep(blocked, valued, k, c)
    BY <2>1, NoneKeptType, KeepMore
  <2>4. r \in Readers(A)
    BY <2>1, NoneReadType, ReadsType
  <2>5. k \in Keepers(A)
    BY <2>1, NoneKeptType, KeptType
  <2>6. k.out \in Seq(A)
    BY <2>5 DEF Keepers
  <2> HIDE DEF k
  <2>7. q \in Readers(A)
    BY <2>6, NoneReadType, ReadsType
  <2>8. R(Append(k.out, c)) = Read(q, c)
    BY <2>6, NoneReadType, ReadMore
  <2>9. Keep(blocked, valued, k, c).out = IF k.skip \/ c = Blank \/ c.key \in blocked THEN k.out ELSE Append(k.out, c)
    BY <2>5 DEF Keep, Keepers
  <2>10. R(Keep(blocked, valued, k, c).out) = IF k.skip \/ c = Blank \/ c.key \in blocked THEN q ELSE Read(q, c)
    <3> HIDE DEF R
    <3>1. CASE k.skip \/ c = Blank \/ c.key \in blocked
      BY <2>9, <3>1 DEF q
    <3>2. CASE ~(k.skip \/ c = Blank \/ c.key \in blocked)
      BY <2>8, <2>9, <3>2
    <3> QED
      BY <3>1, <3>2
  <2> HIDE DEF r, q, R, K
  <2>11. ASSUME AllMeant(Read(r, c))
         PROVE  InStep(blocked, Read(r, c), Keep(blocked, valued, k, c),
                       R(Keep(blocked, valued, k, c).out))
    <3>1. AllMeant(r)
      BY <2>4, <2>11, MeantBefore
    <3>2. InStep(blocked, r, k, q)
      BY <2>1, <3>1
    <3>3. r.open \in BOOLEAN
      BY <2>4 DEF Readers
    <3>4. CASE r.open
      BY <2>4, <2>5, <2>7, <2>10, <2>11, <3>2, <3>4, StepWithOpen
    <3>5. CASE ~r.open
      BY <2>4, <2>5, <2>7, <2>10, <2>11, <3>2, <3>5, StepWithNoneOpen
    <3> QED
      BY <3>3, <3>4, <3>5
  <2> QED
    BY <2>1, <2>2, <2>3, <2>11
<1>3. P = Seq(A)
  <2> HIDE DEF P
  <2>1. P \in SUBSET Seq(A)
    BY DEF P
  <2> QED
    BY <1>1, <1>2, <2>1, SequencesAll
<1> QED
  BY <1>3
LEMMA WellFormedIsMeant ==
  ASSUME NEW A, NEW s \in Seq(A)
  PROVE  WellFormed(s) <=> ~Reads(NoneRead, s).open /\ AllMeant(Reads(NoneRead, s))
<1> DEFINE t == Reads(NoneRead, s)
<1>1. t \in Readers(A)
  <2>1. NoneRead \in Readers(A)
    BY NoneReadType
  <2> QED
    BY <2>1, ReadsType
<1>2. Options(s) = t
  BY OptionsAreRead
<1> HIDE DEF t
<1>3. ASSUME NEW i \in DOMAIN t.out PROVE Head(t.out[i]) = t.out[i][1]
  <2>1. t.out[i] \in Items(A)
    BY <1>1, LenProperties DEF Readers
  <2> QED
    BY <2>1 DEF Items
<1>4. AllMeant(t) <=> \A i \in DOMAIN t.out : Meant(t.out[i])
  BY DEF AllMeant, ToSet
<1>5. WellFormed(s) <=> ~t.open /\ \A i \in DOMAIN t.out : Meant(t.out[i])
  BY <1>2, <1>3 DEF WellFormed, Meant
<1> QED
  BY <1>4, <1>5 DEF t

LEMMA SanitizedWellFormed ==
  ASSUME NEW A, NEW blocked, NEW valued, Knows(A, blocked, valued), NEW s \in Seq(A), WellFormed(s)
  PROVE  /\ Options(Sanitized(s, blocked, valued)).out = Without(blocked, Options(s).out)
         /\ WellFormed(Sanitized(s, blocked, valued))
<1> DEFINE r == Reads(NoneRead, s)
           v == Sanitized(s, blocked, valued)
           q == Reads(NoneRead, v)
<1>1. ~r.open /\ AllMeant(r)
  BY WellFormedIsMeant
<1>2. InStep(blocked, r, Kept(blocked, valued, NoneKept, s), q)
  BY <1>1, SanitizedInStep, SanitizedIsKept
<1>3. ~q.open /\ q.out = Without(blocked, r.out)
  BY <1>1, <1>2 DEF InStep
<1>4. NoneRead \in Readers(A)
  BY NoneReadType
<1>5. r.out \in Seq(Items(A))
  <2>1. r \in Readers(A)
    BY <1>4, ReadsType
  <2> QED
    BY <2>1 DEF Readers
<1>6. v \in Seq(A)
  BY SanitizedType
<1> HIDE DEF r, v, q
<1>7. AllMeant(q)
  BY <1>1, <1>3, <1>5, WithoutSet DEF AllMeant
<1>8. WellFormed(v)
  BY <1>3, <1>6, <1>7, WellFormedIsMeant DEF q
<1>9. Options(v).out = Without(blocked, Options(s).out)
  BY <1>3, OptionsAreRead DEF r, q
<1> QED
  BY <1>8, <1>9 DEF v

\* The options of a line are made of its arguments.
LEMMA OptionsType ==
  ASSUME NEW A, NEW s \in Seq(A)
  PROVE  Options(s).out \in Seq(Items(A)) /\ \A o \in Items(A) : o[1] \in A
<1>1. NoneRead \in Readers(A)
  BY NoneReadType
<1>2. Reads(NoneRead, s) \in Readers(A)
  BY <1>1, ReadsType
<1>3. \A o \in Items(A) : o[1] \in A
  BY LenProperties DEF Items
<1> QED
  BY <1>2, <1>3, OptionsAreRead DEF Readers

\* Whatever a user means.
THEOREM SanitizersAsMeant ==
  ASSUME NEW B, args \in Seq(B)
  PROVE  SanitizedAsMeant
<1> SUFFICES ASSUME WellFormed(args), \A i \in DOMAIN args : args[i].key \notin Misread
             PROVE  \A list \in BOOLEAN :
                      LET removed == {k \in Keys(args) : k \in Managed \/ (list /\ isRcloneFilterKey(k))}
                      IN  Options(UserArgs(list, args)).out = Without(removed, Options(args).out)
  BY DEF SanitizedAsMeant
<1> DEFINE A       == ToSet(args)
           san     == SanitizeRcloneArgs(args)
           needs   == {k \in Keys(args) : optionNeedsValue(k)}
           filters == {k \in Keys(san) : isRcloneFilterKey(k)}
           valued  == {k \in Keys(san) : rcloneFilterNeedsValue(k)}
           opts    == Options(args).out
<1>1. args \in Seq(A) /\ \A a \in A : a.key \in Keys(args) \ Misread
  <2>1. \A a \in A : a.key \notin Misread
    BY DEF ToSet
  <2> QED
    BY <2>1, SetOfSeq DEF Keys
<1>2. Knows(A, Managed, needs)
  <2>1. "value" \notin Managed
    BY DEF Managed, RcFamily, StatsFamily
  <2>2. ASSUME NEW k \in Keys(args) \ Misread, k \in Managed
        PROVE  k \in needs <=> TakesValue(k)
    BY <2>2 DEF Managed, RcFamily, StatsFamily, Misread, optionNeedsValue, TakesValue, Patterns
  <2> HIDE DEF needs, A
  <2> QED
    BY <1>1, <2>1, <2>2 DEF Knows
<1>3. san = Sanitized(args, Managed, needs)
  BY DEF SanitizeRcloneArgs
<1> HIDE DEF A, san, needs
<1>4. Options(san).out = Without(Managed, opts) /\ WellFormed(san)
  BY <1>1, <1>2, <1>3, SanitizedWellFormed
<1>5. san \in Seq(A)
  BY <1>1, <1>3, SanitizedType
<1>6. opts \in Seq(Items(A)) /\ \A o \in Items(A) : o[1].key \in Keys(args)
  BY <1>1, OptionsType
<1> HIDE DEF opts
<1>7. ASSUME NEW removed, removed = {k \in Keys(args) : k \in Managed \/ (FALSE /\ isRcloneFilterKey(k))}
      PROVE  Options(UserArgs(FALSE, args)).out = Without(removed, opts)
  <2>1. UserArgs(FALSE, args) = san
    BY DEF UserArgs, san
  <2>2. \A o \in Items(A) : o[1].key \in Managed <=> o[1].key \in removed
    BY <1>6, <1>7
  <2>3. Without(Managed, opts) = Without(removed, opts)
    BY <1>6, <2>2, WithoutSame
  <2> QED
    BY <1>4, <2>1, <2>3
<1>8. ASSUME NEW removed, removed = {k \in Keys(args) : k \in Managed \/ (TRUE /\ isRcloneFilterKey(k))}
      PROVE  Options(UserArgs(TRUE, args)).out = Without(removed, opts)
  <2> DEFINE S   == ToSet(san)
             all == {k \in Keys(args) : isRcloneFilterKey(k)}
  <2>1. san \in Seq(S) /\ S \subseteq A /\ \A a \in S : a.key \in Keys(san)
    BY <1>5, SetOfSeq DEF Keys
  <2>2. Knows(S, filters, valued)
    <3>1. "value" \notin filters
      BY DEF isRcloneFilterKey, Patterns
    <3>2. ASSUME NEW k \in Keys(san), k \in filters
          PROVE  k \in valued <=> TakesValue(k)
      BY <3>2 DEF isRcloneFilterKey, rcloneFilterNeedsValue, TakesValue, Patterns
    <3> HIDE DEF filters, valued, S
    <3> QED
      BY <2>1, <3>1, <3>2 DEF Knows
  <2>3. UserArgs(TRUE, args) = Sanitized(san, filters, valued)
    BY DEF UserArgs, SanitizeRcloneFilterArgs, san
  <2>4. \A o \in Items(S) : o[1].key \in filters <=> o[1].key \in all
    <3>1. \A o \in Items(S) : o[1] \in S
      BY <2>1, OptionsType
    <3>2. Keys(san) \subseteq Keys(args)
      BY <2>1 DEF Keys, A
    <3> QED
      BY <2>1, <3>1, <3>2
  <2> HIDE DEF S, filters, valued
  <2>5. Options(UserArgs(TRUE, args)).out = Without(filters, Options(san).out)
    <3>1. WellFormed(san) /\ san \in Seq(S)
      BY <1>4, <2>1
    <3>2. Options(Sanitized(san, filters, valued)).out = Without(filters, Options(san).out)
      BY <2>2, <3>1, SanitizedWellFormed
    <3> QED
      BY <2>3, <3>2
  <2>6. Options(san).out \in Seq(Items(S))
    BY <2>1, OptionsType
  <2>7. \A o \in Items(A) : o[1].key \in removed <=> o[1].key \in Managed \/ o[1].key \in all
    BY <1>6, <1>8
  <2> HIDE DEF all
  <2>8. Without(filters, Options(san).out) = Without(all, Options(san).out)
    BY <2>4, <2>6, WithoutSame
  <2>9. Without(all, Without(Managed, opts)) = Without(removed, opts)
    BY <1>6, <2>7, WithoutTwice
  <2> QED
    BY <1>4, <2>5, <2>8, <2>9
<1> QED
  BY <1>7, <1>8 DEF opts
=============================================================================
