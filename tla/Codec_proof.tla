---------------------------- MODULE Codec_proof ----------------------------
(***************************************************************************)
(* Theorems about Codec and the coders, streams and ciphers it is built    *)
(* from, for every value of its constants.                                 *)
(***************************************************************************)
EXTENDS Codec, FiniteSetTheorems, SequenceTheorems, TLAPS

-----------------------------------------------------------------------------
(***************************************************************************)
(* Induction, and folds.  The library's induction theorems take a          *)
(* predicate, which the provers do not instantiate; that a well-founded    *)
(* relation has least members is stated of sets.                           *)
(***************************************************************************)
\* Every set of numbers has a least one.
LEMMA Least ==
    ASSUME NEW T \in SUBSET Nat, T # {}
    PROVE  \E n \in T : \A m \in T : n <= m
<1> DEFINE R == OpToRel(<, Nat)
<1>1. IsWellFoundedOn(R, Nat)
  BY NatLessThanWellFounded
<1>2. \A m, n \in Nat : m < n => <<m, n>> \in R
  BY DEF OpToRel
<1> HIDE DEF R
<1>3. PICK n \in T : \A m \in T : ~(<<m, n>> \in R)
  BY <1>1, WFMin, Zenon
<1>4. \A m \in T : ~(m < n)
  BY <1>2, <1>3, Zenon
<1>5. \A m \in T : n <= m
  BY <1>4
<1>6. QED
  BY <1>5, Zenon

\* Induction up to N.
LEMMA UpTo ==
    ASSUME NEW N \in Nat, NEW T, 0 \in T, \A n \in 1..N : n - 1 \in T => n \in T
    PROVE  \A n \in 0..N : n \in T
<1> SUFFICES ASSUME NEW k \in 0..N, k \notin T PROVE FALSE
  OBVIOUS
<1> DEFINE R == {n \in 0..N : n \notin T}
<1>1. R # {} /\ R \subseteq Nat
  OBVIOUS
<1>2. PICK n \in R : \A m \in R : n <= m
  BY <1>1, Least
<1>3. n # 0 /\ n - 1 \in 0..N /\ n - 1 \notin R
  BY <1>2
<1>4. QED
  BY <1>2, <1>3

FoldsBy(it, N, S, base, F, c) ==
    /\ it \in [SUBSET (1..N) -> S]
    /\ \A s \in SUBSET (1..N) : it[s] = IF s = {} THEN base ELSE F[c[s]][it[s \ {c[s]}]]

\* A fold that takes the members of a set in the order c gives has a value: F[i] is what
\* member i does to it.
LEMMA Recursion ==
    ASSUME NEW N \in Nat, NEW S, NEW base \in S, NEW F \in [1..N -> [S -> S]],
           NEW c, \A s \in SUBSET (1..N) : s # {} => c[s] \in s
    PROVE  \E it : FoldsBy(it, N, S, base, F, c)
<1> DEFINE Small(k)     == {s \in SUBSET (1..N) : Cardinality(s) <= k}
           Folds(it, k) == /\ it \in [Small(k) -> S]
                           /\ \A s \in Small(k) :
                                 it[s] = IF s = {} THEN base ELSE F[c[s]][it[s \ {c[s]}]]
           T == {k \in 0..N : \E it : Folds(it, k)}
<1>1. ASSUME NEW s \in SUBSET (1..N)
      PROVE  /\ IsFiniteSet(s) /\ Cardinality(s) \in Nat /\ Cardinality(s) <= N
             /\ Cardinality(s) = 0 <=> s = {}
             /\ \A x \in s : Cardinality(s \ {x}) = Cardinality(s) - 1
  <2>1. IsFiniteSet(1..N) /\ Cardinality(1..N) = N
    BY FS_Interval
  <2>2. IsFiniteSet(s) /\ Cardinality(s) <= Cardinality(1..N)
    BY <2>1, FS_Subset
  <2>3. Cardinality(s) \in Nat /\ (Cardinality(s) = 0 <=> s = {})
    BY <2>2, FS_CardinalityType, FS_EmptySet
  <2>4. \A x \in s : Cardinality(s \ {x}) = Cardinality(s) - 1
    BY <2>2, FS_RemoveElement
  <2>5. QED
    BY <2>1, <2>2, <2>3, <2>4
<1>2. 0 \in T
  <2> DEFINE it == [s \in Small(0) |-> base]
  <2>1. \A s \in Small(0) : s = {}
    BY <1>1
  <2>2. Folds(it, 0)
    BY <2>1
  <2> HIDE DEF Folds
  <2>3. QED
    BY <2>2
<1>3. ASSUME NEW k \in 1..N, k - 1 \in T PROVE k \in T
  <2>1. PICK it : Folds(it, k - 1)
    <3> HIDE DEF Folds
    <3>1. QED
      BY <1>3
  <2> DEFINE Step(s) == IF s = {} THEN base ELSE F[c[s]][it[s \ {c[s]}]]
             new == [s \in Small(k) |-> Step(s)]
  <2>2. ASSUME NEW s \in Small(k), s # {} PROVE c[s] \in 1..N /\ s \ {c[s]} \in Small(k - 1)
    <3>1. c[s] \in s /\ Cardinality(s \ {c[s]}) = Cardinality(s) - 1
      BY <1>1, <2>2
    <3>2. Cardinality(s) <= k /\ Cardinality(s) \in Nat
      BY <1>1
    <3>3. s \in SUBSET (1..N) /\ s \ {c[s]} \in SUBSET (1..N)
      OBVIOUS
    <3>4. Cardinality(s \ {c[s]}) <= k - 1
      <4> DEFINE size == Cardinality(s)
                 less == Cardinality(s \ {c[s]})
      <4>1. size \in Nat /\ size <= k /\ less = size - 1
        BY <3>1, <3>2
      <4> HIDE DEF size, less
      <4>2. less <= k - 1
        BY <4>1
      <4>3. QED
        BY <4>2 DEF less
    <3>5. QED
      BY <3>1, <3>3, <3>4
  <2>3. ASSUME NEW s \in Small(k - 1) PROVE s \in Small(k) /\ Step(s) = it[s]
    <3>1. s \in Small(k)
      BY <1>1
    <3>2. QED
      BY <2>1, <3>1
  <2>4. \A s \in Small(k) : Step(s) \in S
    <3> SUFFICES ASSUME NEW s \in Small(k), s # {} PROVE F[c[s]][it[s \ {c[s]}]] \in S
      OBVIOUS
    <3>1. c[s] \in 1..N /\ s \ {c[s]} \in Small(k - 1)
      BY <2>2
    <3> HIDE DEF Small
    <3>2. it[s \ {c[s]}] \in S
      BY <2>1, <3>1
    <3>3. QED
      BY <3>1, <3>2
  <2>5. ASSUME NEW s \in Small(k)
        PROVE  new[s] = IF s = {} THEN base ELSE F[c[s]][new[s \ {c[s]}]]
    <3>1. s # {} => new[s \ {c[s]}] = it[s \ {c[s]}]
      <4> HIDE DEF Small, Step
      <4>1. QED
        BY <2>2, <2>3
    <3>2. QED
      BY <3>1
  <2>6. Folds(new, k)
    <3> HIDE DEF Small, Step
    <3>1. QED
      BY <2>4, <2>5
  <2> HIDE DEF Folds, new
  <2>7. QED
    BY <2>6
<1>4. \E it : Folds(it, N)
  <2> HIDE DEF Folds
  <2>1. \A n \in 0..N : n \in T
    <3> HIDE DEF T
    <3>1. QED
      BY <1>2, <1>3, UpTo
  <2>2. QED
    BY <2>1
<1>5. Small(N) = SUBSET (1..N)
  BY <1>1
<1>6. QED
  BY <1>4, <1>5 DEF FoldsBy

\* The members of 1..N come from the last to the first, or from the first to the last.
LEMMA Extremes ==
    ASSUME NEW N \in Nat
    PROVE  /\ \A s \in SUBSET (1..N) : s # {} => Max(s) \in s /\ Min(s) \in s
           /\ \A k \in 1..N : /\ Max(1..k) = k /\ (1..k) \ {Max(1..k)} = 1..(k - 1)
                              /\ Min(k..N) = k /\ (k..N) \ {Min(k..N)} = (k + 1)..N
<1>1. ASSUME NEW s \in SUBSET (1..N), s # {} PROVE Min(s) \in s
  <2>1. PICK n \in s : \A m \in s : n <= m
    BY <1>1, Least
  <2>2. QED
    BY <2>1 DEF Min
<1>2. ASSUME NEW s \in SUBSET (1..N), s # {} PROVE Max(s) \in s
  <2> DEFINE R == {N - i : i \in s}
  <2>1. R \subseteq Nat /\ R # {}
    <3>1. PICK i \in s : TRUE
      BY <1>2
    <3>2. N - i \in R
      BY <3>1
    <3>3. \A j \in s : N - j \in Nat
      OBVIOUS
    <3>4. QED
      BY <3>2, <3>3
  <2>2. PICK n \in R : \A m \in R : n <= m
    BY <2>1, Least
  <2>3. N - n \in s /\ \A i \in s : N - i \in R
    BY <2>2
  <2>4. \A i \in s : N - n >= i
    BY <2>2, <2>3
  <2>5. QED
    BY <2>3, <2>4 DEF Max
<1>3. ASSUME NEW k \in 1..N PROVE Max(1..k) = k /\ Min(k..N) = k
  BY DEF Max, Min
<1>4. QED
  BY <1>1, <1>2, <1>3

\* How a fold from left to right goes on, by steps that F stands for.
Steps(w, N, S, base, F) ==
    w \in [0..N -> S] /\ w[0] = base /\ \A n \in 1..N : w[n] = F[n][w[n - 1]]

LastFirst(N) == [s \in SUBSET (1..N) |-> Max(s)]
FirstFirst(N) == [s \in SUBSET (1..N) |-> Min(s)]

LEMMA LeftFold ==
    ASSUME NEW N \in Nat, NEW S, NEW base \in S, NEW F \in [1..N -> [S -> S]]
    PROVE  \E it : FoldsBy(it, N, S, base, F, LastFirst(N))
<1>1. \A s \in SUBSET (1..N) : s # {} => LastFirst(N)[s] \in s
  BY Extremes DEF LastFirst
<1>2. QED
  BY <1>1, Recursion

LEMMA RightFold ==
    ASSUME NEW N \in Nat, NEW S, NEW base \in S, NEW F \in [1..N -> [S -> S]]
    PROVE  \E it : FoldsBy(it, N, S, base, F, FirstFirst(N))
<1>1. \A s \in SUBSET (1..N) : s # {} => FirstFirst(N)[s] \in s
  BY Extremes DEF FirstFirst
<1>2. QED
  BY <1>1, Recursion

GoesLeft(it, N, S, base, F) ==
    /\ it[{}] = base
    /\ \A n \in 1..N : it[1..(n - 1)] \in S => it[1..n] = F[n][it[1..(n - 1)]]

LEMMA LeftSteps ==
    ASSUME NEW N \in Nat, NEW S, NEW base \in S, NEW F \in [1..N -> [S -> S]], NEW it,
           GoesLeft(it, N, S, base, F)
    PROVE  \E w : Steps(w, N, S, base, F) /\ w[N] = it[1..N]
<1> DEFINE w == [n \in 0..N |-> it[1..n]]
           T == {n \in 0..N : w[n] \in S}
<1> USE DEF GoesLeft
<1>1. w[0] = base
  BY 1..0 = {}
<1>2. ASSUME NEW n \in 1..N, n - 1 \in T PROVE w[n] = F[n][w[n - 1]] /\ n \in T
  <2>1. n \in 0..N /\ n - 1 \in 0..N
    OBVIOUS
  <2>2. w[n] = it[1..n] /\ w[n - 1] = it[1..(n - 1)]
    BY <2>1
  <2>3. w[n - 1] \in S
    BY <1>2
  <2> HIDE DEF w
  <2>4. w[n] = F[n][w[n - 1]] /\ w[n] \in S
    BY <2>2, <2>3
  <2>5. QED
    BY <2>1, <2>4
<1>3. 0 \in T
  BY <1>1
<1>4. \A n \in 0..N : n \in T
  <2> HIDE DEF T, w
  <2>1. QED
    BY <1>2, <1>3, UpTo
<1>5. Steps(w, N, S, base, F)
  BY <1>1, <1>2, <1>4 DEF Steps
<1>6. QED
  BY <1>5

-----------------------------------------------------------------------------
(***************************************************************************)
(* Streams.                                                                *)
(***************************************************************************)
Strm == {s \in [buf : Seq(Int), pos : Nat, error : BOOLEAN] : s.pos <= Len(s.buf)}

LEMMA Joined ==
    ASSUME NEW a \in Seq(Int), NEW b \in Seq(Int)
    PROVE  /\ a \o b \in Seq(Int) /\ Len(a \o b) = Len(a) + Len(b)
           /\ \A i \in 1..Len(a) : (a \o b)[i] = a[i]
           /\ \A i \in 1..Len(b) : (a \o b)[Len(a) + i] = b[i]
OBVIOUS

Concat(c, a, b, m, n) ==
    /\ c \in Seq(Int) /\ Len(c) = m + n
    /\ \A i \in 1..m : c[i] = a[i]
    /\ \A i \in 1..n : c[m + i] = b[i]

LEMMA JoinedAs ==
    ASSUME NEW a \in Seq(Int), NEW b \in Seq(Int), NEW m, NEW n, Len(a) = m, Len(b) = n
    PROVE  Concat(a \o b, a, b, m, n)
BY Joined DEF Concat

LEMMA WriteType ==
    ASSUME NEW s \in Strm, NEW bytes \in Seq(Int)
    PROVE  /\ Write(s, bytes) \in Strm
           /\ Len(Write(s, bytes).buf) = Len(s.buf)
           /\ s.error => Write(s, bytes).error
           /\ ~s.error => (Write(s, bytes).error <=> s.pos + Len(bytes) > Len(s.buf))
           /\ ~Write(s, bytes).error =>
                 /\ Write(s, bytes).pos = s.pos + Len(bytes)
                 /\ \A i \in 1..s.pos : Write(s, bytes).buf[i] = s.buf[i]
                 /\ \A i \in 1..Len(bytes) : Write(s, bytes).buf[s.pos + i] = bytes[i]
<1> DEFINE n    == Len(bytes)
           tail == SubSeq(s.buf, s.pos + n + 1, Len(s.buf))
           new  == Written(s) \o bytes \o tail
<1>1. s.buf \in Seq(Int) /\ s.pos \in Nat /\ s.pos <= Len(s.buf) /\ s.error \in BOOLEAN
      /\ n \in Nat /\ Len(s.buf) \in Nat /\ s \in [buf : Seq(Int), pos : Nat, error : BOOLEAN]
  BY DEF Strm
<1>2. CASE ~Fits(s, n)
  <2>1. Write(s, bytes) = [s EXCEPT !.error = TRUE]
    BY <1>2 DEF Write
  <2>2. Write(s, bytes).buf = s.buf /\ Write(s, bytes).pos = s.pos /\ Write(s, bytes).error
        /\ Write(s, bytes) \in [buf : Seq(Int), pos : Nat, error : BOOLEAN]
    BY <2>1 DEF Strm
  <2>3. ~s.error => s.pos + Len(bytes) > Len(s.buf)
    BY <1>1, <1>2 DEF Fits, Remaining
  <2>4. QED
    BY <1>1, <2>2, <2>3 DEF Strm
<1>3. CASE Fits(s, n)
  <2>1. ~s.error /\ s.pos + n <= Len(s.buf)
    BY <1>1, <1>3 DEF Fits, Remaining
  <2>2. Written(s) \in Seq(Int) /\ Len(Written(s)) = s.pos
        /\ \A i \in 1..s.pos : Written(s)[i] = s.buf[i]
    BY <1>1 DEF Written
  <2>3. tail \in Seq(Int) /\ Len(tail) = Len(s.buf) - s.pos - n
    BY <1>1, <2>1
  <2> HIDE DEF tail
  <2>4. /\ new \in Seq(Int) /\ Len(new) = Len(s.buf)
        /\ \A i \in 1..s.pos : new[i] = s.buf[i]
        /\ \A i \in 1..n : new[s.pos + i] = bytes[i]
    <3> DEFINE head == Written(s)
               both == head \o bytes
    <3>1. /\ both \in Seq(Int) /\ Len(both) = s.pos + n
          /\ \A i \in 1..s.pos : both[i] = s.buf[i]
          /\ \A i \in 1..n : both[s.pos + i] = bytes[i]
      <4>1. /\ both \in Seq(Int) /\ Len(both) = Len(head) + n
            /\ \A i \in 1..Len(head) : both[i] = head[i]
            /\ \A i \in 1..n : both[Len(head) + i] = bytes[i]
        <5> HIDE DEF head
        <5>1. QED
          BY <2>2, Joined DEF head
      <4> HIDE DEF both
      <4>2. QED
        BY <2>2, <4>1
    <3> HIDE DEF both
    <3>2. /\ both \o tail \in Seq(Int) /\ Len(both \o tail) = Len(s.buf)
          /\ \A i \in 1..(s.pos + n) : (both \o tail)[i] = both[i]
      <4>1. Len(both) + Len(tail) = Len(s.buf)
        BY <1>1, <2>1, <2>3, <3>1, SMTT(30)
      <4>2. QED
        BY <2>3, <3>1, <4>1, Joined
    <3>3. new = both \o tail
      BY DEF both
    <3> HIDE DEF new
    <3>4. /\ \A i \in 1..s.pos : i \in 1..(s.pos + n)
          /\ \A i \in 1..n : s.pos + i \in 1..(s.pos + n)
      BY <1>1
    <3>5. QED
      BY <3>1, <3>2, <3>3, <3>4
  <2>5. Write(s, bytes) = [s EXCEPT !.buf = new, !.pos = s.pos + n]
    BY <1>3 DEF Write, tail
  <2> HIDE DEF new
  <2>6. Write(s, bytes).buf = new /\ Write(s, bytes).pos = s.pos + n /\ ~Write(s, bytes).error
        /\ Write(s, bytes) \in [buf : Seq(Int), pos : Nat, error : BOOLEAN]
    <3>1. s.pos + n \in Nat
      BY <1>1
    <3>2. QED
      BY <1>1, <2>1, <2>4, <2>5, <3>1
  <2>7. Write(s, bytes) \in Strm
    BY <1>1, <2>1, <2>4, <2>6 DEF Strm
  <2> DEFINE r == Write(s, bytes)
  <2>8. /\ r \in Strm /\ r.buf = new /\ r.pos = s.pos + n /\ ~r.error
        /\ ~(s.pos + n > Len(s.buf))
    BY <1>1, <2>1, <2>6, <2>7
  <2> HIDE DEF r
  <2>9. QED
    BY <2>1, <2>4, <2>8, Zenon DEF r
<1>4. QED
  BY <1>2, <1>3

\* The streams between the pieces that are written.
Writes(w, s, pieces) ==
    /\ w \in [0..Len(pieces) -> Strm] /\ w[0] = s
    /\ \A n \in 1..Len(pieces) : w[n] = Write(w[n - 1], pieces[n])
    /\ WriteAll(s, pieces) = w[Len(pieces)]

LEMMA WriteAllSteps ==
    ASSUME NEW s \in Strm, NEW pieces \in Seq(Seq(Int))
    PROVE  \E w : Writes(w, s, pieces)
<1> DEFINE N == Len(pieces)
           Eq(it) == it = [t \in SUBSET DOMAIN pieces |->
                              IF t = {} THEN s
                              ELSE Write(it[t \ {Max(t)}], pieces[Max(t)])]
           it == CHOOSE g : Eq(g)
           F == [i \in 1..N |-> [t \in Strm |-> Write(t, pieces[i])]]
<1>1. WriteAll(s, pieces) = it[DOMAIN pieces]
  BY DEF WriteAll, FoldLeft, MapThenFoldSet
<1>2. N \in Nat /\ DOMAIN pieces = 1..N /\ F \in [1..N -> [Strm -> Strm]]
  BY WriteType
<1>3. Eq(it)
  <2>1. PICK g : FoldsBy(g, N, Strm, s, F, LastFirst(N))
    <3> HIDE DEF N, F
    <3>1. QED
      BY <1>2, LeftFold
  <2>2. Eq(g)
    BY <1>2, <2>1, Extremes DEF FoldsBy, LastFirst
  <2>3. QED
    BY <2>2
<1>4. GoesLeft(it, N, Strm, s, F)
  <2> HIDE DEF it
  <2>1. ASSUME NEW n \in 1..N PROVE it[1..n] = Write(it[1..(n - 1)], pieces[n])
    <3>1. Max(1..n) = n /\ (1..n) \ {Max(1..n)} = 1..(n - 1) /\ 1..n \in SUBSET DOMAIN pieces
      BY <1>2, Extremes
    <3>2. 1..n # {}
      BY n \in 1..n
    <3>3. QED
      BY <1>3, <3>1, <3>2, Zenon
  <2>2. it[{}] = s
    BY <1>3
  <2>3. QED
    BY <1>2, <2>1, <2>2 DEF GoesLeft
<1>5. PICK w : Steps(w, N, Strm, s, F) /\ w[N] = it[1..N]
  <2> HIDE DEF N, F, it
  <2>1. QED
    <3>1. N \in Nat /\ s \in Strm /\ F \in [1..N -> [Strm -> Strm]]
      BY <1>2
    <3>2. QED
      BY <1>4, <3>1, LeftSteps
<1>6. QED
  <2>1. \A n \in 1..N : n - 1 \in 0..N
    BY <1>2
  <2>2. \A n \in 1..N : w[n] = Write(w[n - 1], pieces[n])
    BY <1>2, <1>5, <2>1 DEF Steps
  <2> HIDE DEF it, F
  <2>3. w \in [0..N -> Strm] /\ w[0] = s /\ WriteAll(s, pieces) = w[N]
    BY <1>1, <1>2, <1>5 DEF Steps
  <2>4. QED
    BY <2>2, <2>3 DEF Writes

\* Where the pieces lie.
Places(at, first, pieces) ==
    /\ at \in [0..Len(pieces) -> Nat] /\ at[0] = first
    /\ \A n \in 1..Len(pieces) : at[n] = at[n - 1] + Len(pieces[n])

\* What WriteAll() leaves: the error if the pieces do not fit together, and else each of them
\* at its place and what was there before.
Holds(r, s, pieces, at, n) ==
    /\ r \in Strm /\ Len(r.buf) = Len(s.buf)
    /\ s.error => r.error
    /\ ~s.error => (r.error <=> at[n] > Len(s.buf))
    /\ ~r.error =>
          /\ r.pos = at[n]
          /\ \A i \in 1..s.pos : r.buf[i] = s.buf[i]
          /\ \A m \in 1..n : \A i \in 1..Len(pieces[m]) : r.buf[at[m - 1] + i] = pieces[m][i]

\* What a write of some bytes does, whether or not it is done at once.
Wrote(r, s, bytes) ==
    /\ r \in Strm /\ Len(r.buf) = Len(s.buf)
    /\ s.error => r.error
    /\ ~s.error => (r.error <=> s.pos + Len(bytes) > Len(s.buf))
    /\ ~r.error =>
          /\ r.pos = s.pos + Len(bytes)
          /\ \A i \in 1..s.pos : r.buf[i] = s.buf[i]
          /\ \A i \in 1..Len(bytes) : r.buf[s.pos + i] = bytes[i]

\* The streams between such writes.
Writing(w, s, pieces) ==
    w[0] = s /\ \A n \in 1..Len(pieces) : Wrote(w[n], w[n - 1], pieces[n])

LEMMA PiecesOneByOne ==
    ASSUME NEW s \in Strm, NEW pieces \in Seq(Seq(Int)), NEW at, Places(at, s.pos, pieces),
           NEW w, Writing(w, s, pieces)
    PROVE  Holds(w[Len(pieces)], s, pieces, at, Len(pieces))
<1> DEFINE N == Len(pieces)
<1>2. /\ N \in Nat /\ \A n \in 1..N : pieces[n] \in Seq(Int) /\ Len(pieces[n]) \in Nat
      /\ s.pos \in Nat /\ s.pos <= Len(s.buf) /\ Len(s.buf) \in Nat
      /\ at[0] = s.pos /\ \A n \in 0..N : at[n] \in Nat
      /\ \A n \in 1..N : at[n] = at[n - 1] + Len(pieces[n])
  <2>1. N \in Nat /\ \A n \in 1..N : pieces[n] \in Seq(Int) /\ Len(pieces[n]) \in Nat
    OBVIOUS
  <2>2. s.pos \in Nat /\ s.pos <= Len(s.buf) /\ Len(s.buf) \in Nat
    BY DEF Strm
  <2>3. QED
    BY <2>1, <2>2 DEF Places
<1>3. /\ w[0] = s /\ \A n \in 0..N : w[n] \in Strm
      /\ \A n \in 1..N : Wrote(w[n], w[n - 1], pieces[n])
  <2>1. w[0] = s /\ \A n \in 1..N : Wrote(w[n], w[n - 1], pieces[n])
    BY DEF Writing
  <2>2. ASSUME NEW n \in 0..N PROVE w[n] \in Strm
    <3>1. CASE n = 0
      BY <2>1, <3>1
    <3>2. CASE n # 0
      <4>1. n \in 1..N
        BY <1>2, <3>2
      <4>2. QED
        BY <2>1, <4>1 DEF Wrote
    <3>3. QED
      BY <3>1, <3>2
  <2>3. QED
    BY <2>1, <2>2
<1> HIDE DEF N
<1> DEFINE Inv(n) == /\ Holds(w[n], s, pieces, at, n)
                     /\ \A m \in 0..n : at[m] <= at[n]
           T == {n \in 0..N : Inv(n)}
<1>4. 0 \in T
  <2>1. at[0] <= Len(s.buf) /\ at[0] <= at[0]
    BY <1>2
  <2>2. Holds(s, s, pieces, at, 0)
    BY <1>2, <2>1 DEF Holds
  <2>3. Inv(0)
    BY <1>2, <1>3, <2>1, <2>2
  <2>4. QED
    BY <1>2, <2>3
<1>5. ASSUME NEW n \in 1..N, n - 1 \in T PROVE n \in T
  <2> DEFINE p == w[n - 1]
             r == w[n]
             b == pieces[n]
  <2>1. n \in 0..N /\ n - 1 \in 0..N /\ n - 1 \in Nat /\ n \in Nat
    BY <1>2
  <2>2. p \in Strm /\ b \in Seq(Int) /\ Len(b) \in Nat /\ Wrote(r, p, b)
        /\ at[n] = at[n - 1] + Len(b)
        /\ at[n] \in Nat /\ at[n - 1] \in Nat
    BY <1>2, <1>3, <2>1
  <2>3. Inv(n - 1)
    BY <1>5
  <2> HIDE DEF p, r, b
  <2>4. /\ r \in Strm
        /\ Len(r.buf) = Len(p.buf)
        /\ p.error => r.error
        /\ ~p.error => (r.error <=> p.pos + Len(b) > Len(p.buf))
        /\ ~r.error =>
              /\ r.pos = p.pos + Len(b)
              /\ \A i \in 1..p.pos : r.buf[i] = p.buf[i]
              /\ \A i \in 1..Len(b) : r.buf[p.pos + i] = b[i]
    BY <2>2 DEF Wrote
  <2>5. Holds(p, s, pieces, at, n - 1) /\ \A m \in 0..(n - 1) : at[m] <= at[n - 1]
    BY <2>3 DEF p
  <2>6. \A m \in 0..n : at[m] <= at[n]
    BY <1>2, <2>1, <2>2, <2>5
  <2>7. /\ Len(r.buf) = Len(s.buf) /\ (s.error => r.error)
        /\ ~s.error => (r.error <=> at[n] > Len(s.buf))
    BY <1>2, <2>1, <2>2, <2>4, <2>5 DEF Holds
  <2>8. ASSUME ~r.error
        PROVE  /\ r.pos = at[n]
               /\ \A i \in 1..s.pos : r.buf[i] = s.buf[i]
               /\ \A m \in 1..n : \A i \in 1..Len(pieces[m]) : r.buf[at[m - 1] + i] = pieces[m][i]
    <3>1. /\ ~p.error /\ p.pos = at[n - 1] /\ r.pos = at[n]
          /\ \A i \in 1..at[n - 1] : r.buf[i] = p.buf[i]
          /\ \A i \in 1..Len(b) : r.buf[at[n - 1] + i] = b[i]
      BY <2>2, <2>4, <2>5, <2>8 DEF Holds
    <3>2. /\ \A i \in 1..s.pos : p.buf[i] = s.buf[i]
          /\ \A m \in 1..(n - 1) : \A i \in 1..Len(pieces[m]) : p.buf[at[m - 1] + i] = pieces[m][i]
      BY <2>5, <3>1 DEF Holds
    <3>3. \A i \in 1..s.pos : i \in 1..at[n - 1]
      <4>1. s.pos <= at[n - 1]
        <5>1. 0 \in 0..(n - 1) /\ at[0] = s.pos
          BY <1>2, <2>1
        <5>2. QED
          BY <2>5, <5>1
      <4>2. QED
        BY <1>2, <2>2, <4>1
    <3>4. ASSUME NEW m \in 1..(n - 1), NEW i \in 1..Len(pieces[m])
          PROVE  r.buf[at[m - 1] + i] = pieces[m][i]
      <4>1. m \in 1..N /\ m \in 0..(n - 1) /\ m - 1 \in 0..N
        BY <1>2, <2>1
      <4>2. at[m] = at[m - 1] + Len(pieces[m]) /\ at[m] <= at[n - 1] /\ at[m - 1] \in Nat
            /\ Len(pieces[m]) \in Nat
        BY <1>2, <2>5, <4>1
      <4>3. at[m - 1] + i \in 1..at[n - 1]
        <5> DEFINE u == at[m - 1]
                   v == at[n - 1]
                   l == Len(pieces[m])
        <5>1. u \in Nat /\ v \in Nat /\ l \in Nat /\ i \in 1..l /\ u + l <= v
          BY <2>2, <4>2
        <5> HIDE DEF u, v, l
        <5>2. u + i \in 1..v
          BY <5>1
        <5>3. QED
          BY <5>2 DEF u, v
      <4>4. QED
        BY <3>1, <3>2, <4>3
    <3>5. ASSUME NEW m \in 1..n, NEW i \in 1..Len(pieces[m])
          PROVE  r.buf[at[m - 1] + i] = pieces[m][i]
      <4>1. m = n \/ m \in 1..(n - 1)
        BY <2>1
      <4>2. QED
        BY <3>1, <3>4, <4>1 DEF b
    <3>6. QED
      BY <3>1, <3>2, <3>3, <3>5
  <2>9. Holds(r, s, pieces, at, n)
    BY <2>4, <2>7, <2>8 DEF Holds
  <2>10. QED
    BY <2>1, <2>6, <2>9 DEF r
<1>6. N \in T
  <2> HIDE DEF T
  <2>1. \A n \in 0..N : n \in T
    BY <1>2, <1>4, <1>5, UpTo
  <2>2. QED
    BY <1>2, <2>1
<1>7. QED
  BY <1>3, <1>6 DEF N

LEMMA PiecesWritten ==
    ASSUME NEW s \in Strm, NEW pieces \in Seq(Seq(Int)), NEW at, Places(at, s.pos, pieces)
    PROVE  Holds(WriteAll(s, pieces), s, pieces, at, Len(pieces))
<1>1. PICK w : Writes(w, s, pieces)
  BY WriteAllSteps
<1>2. /\ w[0] = s /\ WriteAll(s, pieces) = w[Len(pieces)]
      /\ \A n \in 1..Len(pieces) : w[n - 1] \in Strm /\ w[n] = Write(w[n - 1], pieces[n])
  <2>1. \A n \in 1..Len(pieces) : n - 1 \in 0..Len(pieces)
    <3>1. Len(pieces) \in Nat
      OBVIOUS
    <3>2. QED
      BY <3>1
  <2>2. QED
    BY <1>1, <2>1 DEF Writes
<1>3. ASSUME NEW t \in Strm, NEW bytes \in Seq(Int) PROVE Wrote(Write(t, bytes), t, bytes)
  BY WriteType DEF Wrote
<1>4. \A n \in 1..Len(pieces) : Wrote(w[n], w[n - 1], pieces[n])
  BY <1>2, <1>3
<1>5. Writing(w, s, pieces)
  BY <1>2, <1>4 DEF Writing
<1>6. Holds(w[Len(pieces)], s, pieces, at, Len(pieces))
  BY <1>5, PiecesOneByOne
<1>7. QED
  BY <1>2, <1>6

-----------------------------------------------------------------------------
(***************************************************************************)
(* Numbers as bytes.                                                       *)
(***************************************************************************)
\* A number of up to four bytes.
LEMMA NumberValue ==
    ASSUME NEW b \in Seq(Int)
    PROVE  /\ Len(b) = 1 => Number(b) = b[1]
           /\ Len(b) = 2 => Number(b) = b[1] + 256 * b[2]
           /\ Len(b) = 3 => Number(b) = b[1] + 256 * (b[2] + 256 * b[3])
           /\ Len(b) = 4 => Number(b) = b[1] + 256 * (b[2] + 256 * (b[3] + 256 * b[4]))
<1> DEFINE N == Len(b)
           Eq(it) == it = [t \in SUBSET DOMAIN b |->
                              IF t = {} THEN 0 ELSE b[Min(t)] + 256 * it[t \ {Min(t)}]]
           it == CHOOSE g : Eq(g)
           F == [i \in 1..N |-> [x \in Int |-> b[i] + 256 * x]]
<1>1. Number(b) = it[DOMAIN b]
  BY DEF Number, FoldRight, MapThenFoldSet
<1>2. N \in Nat /\ DOMAIN b = 1..N /\ F \in [1..N -> [Int -> Int]] /\ 0 \in Int
      /\ \A i \in 1..N : b[i] \in Int
  OBVIOUS
<1>3. Eq(it)
  <2>1. PICK g : FoldsBy(g, N, Int, 0, F, FirstFirst(N))
    <3> HIDE DEF N, F
    <3>1. QED
      BY <1>2, RightFold
  <2>2. ASSUME NEW t \in SUBSET (1..N)
        PROVE  g[t] = IF t = {} THEN 0 ELSE b[Min(t)] + 256 * g[t \ {Min(t)}]
    <3>1. g[t] = IF t = {} THEN 0 ELSE F[Min(t)][g[t \ {Min(t)}]]
      BY <2>1 DEF FoldsBy, FirstFirst
    <3>2. t # {} => Min(t) \in 1..N /\ t \ {Min(t)} \in SUBSET (1..N)
      BY <1>2, Extremes
    <3>3. t # {} => g[t \ {Min(t)}] \in Int
      BY <2>1, <3>2 DEF FoldsBy
    <3>4. QED
      BY <3>1, <3>2, <3>3
  <2>3. Eq(g)
    BY <1>2, <2>1, <2>2 DEF FoldsBy
  <2>4. QED
    BY <2>3
<1> HIDE DEF it
<1>4. it[{}] = 0
  BY <1>3
<1>5. ASSUME NEW k \in 1..N PROVE it[k..N] = b[k] + 256 * it[(k + 1)..N]
  <2>1. Min(k..N) = k /\ (k..N) \ {Min(k..N)} = (k + 1)..N /\ k..N \in SUBSET DOMAIN b
    BY <1>2, Extremes
  <2>2. k..N # {}
    BY k \in k..N
  <2>3. QED
    BY <1>3, <2>1, <2>2, Zenon
<1> DEFINE val == [k \in 1..(N + 1) |-> it[k..N]]
<1>6. val[N + 1] = 0 /\ (\A k \in 1..N : val[k] = b[k] + 256 * val[k + 1]) /\ Number(b) = val[1]
  <2>1. (N + 1)..N = {} /\ N + 1 \in 1..(N + 1) /\ 1 \in 1..(N + 1)
    BY <1>2
  <2>2. \A k \in 1..N : k \in 1..(N + 1) /\ k + 1 \in 1..(N + 1)
    BY <1>2
  <2>3. Number(b) = it[1..N]
    BY <1>1, <1>2
  <2> HIDE DEF N, Eq, F
  <2>4. val[N + 1] = 0 /\ val[1] = it[1..N]
    BY <1>4, <2>1
  <2>5. ASSUME NEW k \in 1..N PROVE val[k] = b[k] + 256 * val[k + 1]
    <3>1. val[k] = it[k..N] /\ val[k + 1] = it[(k + 1)..N]
      BY <2>2
    <3> HIDE DEF val
    <3>2. QED
      BY <1>5, <3>1
  <2>6. QED
    BY <2>3, <2>4, <2>5
<1> HIDE DEF N, Eq, F, val
<1>7. ASSUME N = 1 PROVE Number(b) = b[1]
  BY <1>2, <1>6, <1>7, SMTT(30)
<1>8. ASSUME N = 2 PROVE Number(b) = b[1] + 256 * b[2]
  <2>1. /\ val[3] = 0 /\ val[2] = b[2] + 256 * val[3]
        /\ val[1] = b[1] + 256 * val[2]
    BY <1>6, <1>8
  <2>2. b[1] \in Int /\ b[2] \in Int
    BY <1>2, <1>8
  <2>3. QED
    BY <1>6, <1>8, <2>1, <2>2
<1>9. ASSUME N = 3 PROVE Number(b) = b[1] + 256 * (b[2] + 256 * b[3])
  <2>1. /\ val[4] = 0 /\ val[3] = b[3] + 256 * val[4]
        /\ val[2] = b[2] + 256 * val[3] /\ val[1] = b[1] + 256 * val[2]
    BY <1>6, <1>9
  <2>2. b[1] \in Int /\ b[2] \in Int /\ b[3] \in Int
    BY <1>2, <1>9
  <2>3. QED
    BY <1>6, <1>9, <2>1, <2>2
<1>10. ASSUME N = 4 PROVE Number(b) = b[1] + 256 * (b[2] + 256 * (b[3] + 256 * b[4]))
  <2>1. /\ val[5] = 0 /\ val[4] = b[4] + 256 * val[5]
        /\ val[3] = b[3] + 256 * val[4] /\ val[2] = b[2] + 256 * val[3]
           /\ val[1] = b[1] + 256 * val[2]
    BY <1>6, <1>10
  <2>2. b[1] \in Int /\ b[2] \in Int /\ b[3] \in Int /\ b[4] \in Int
    BY <1>2, <1>10
  <2>3. QED
    BY <1>6, <1>10, <2>1, <2>2
<1>11. QED
  BY <1>7, <1>8, <1>9, <1>10 DEF N

\* The bytes of a number, the lowest first.
ByteOf(v, i) == (v \div 256^(i - 1)) % 256

LEMMA BytesOf ==
    ASSUME NEW v \in Nat, NEW n \in Nat
    PROVE  /\ LE(v, n) \in Seq(Int) /\ Len(LE(v, n)) = n
           /\ \A i \in 1..n : LE(v, n)[i] = ByteOf(v, i)
<1>1. \A i \in 1..n : (v \div 256^(i - 1)) % 256 \in Int
  OBVIOUS
<1>2. QED
  BY <1>1 DEF LE, ByteOf

\* A number read back from the bytes it was written as.
LEMMA NumberOfBytes ==
    ASSUME NEW v \in Nat
    PROVE  /\ v < 256 => Number(LE(v, 1)) = v
           /\ v < 65536 => Number(LE(v, 2)) = v
           /\ v < 16777216 => Number(LE(v, 3)) = v
           /\ v < 4294967296 => Number(LE(v, 4)) = v
<1>1. /\ Number(LE(v, 1)) = ByteOf(v, 1)
      /\ Number(LE(v, 2)) = ByteOf(v, 1) + 256 * ByteOf(v, 2)
      /\ Number(LE(v, 3)) = ByteOf(v, 1) + 256 * (ByteOf(v, 2) + 256 * ByteOf(v, 3))
      /\ Number(LE(v, 4)) = ByteOf(v, 1)
             + 256 * (ByteOf(v, 2) + 256 * (ByteOf(v, 3) + 256 * ByteOf(v, 4)))
  <2>1. \A n \in 1..4 : LE(v, n) \in Seq(Int) /\ Len(LE(v, n)) = n
                           /\ \A i \in 1..n : LE(v, n)[i] = ByteOf(v, i)
    <3>1. \A n \in 1..4 : n \in Nat
      OBVIOUS
    <3>2. QED
      BY <3>1, BytesOf
  <2>2. Number(LE(v, 1)) = ByteOf(v, 1)
    BY <2>1, NumberValue
  <2>3. Number(LE(v, 2)) = ByteOf(v, 1) + 256 * ByteOf(v, 2)
    BY <2>1, NumberValue
  <2>4. Number(LE(v, 3)) = ByteOf(v, 1) + 256 * (ByteOf(v, 2) + 256 * ByteOf(v, 3))
    BY <2>1, NumberValue
  <2>5. Number(LE(v, 4)) = ByteOf(v, 1)
           + 256 * (ByteOf(v, 2) + 256 * (ByteOf(v, 3) + 256 * ByteOf(v, 4)))
    BY <2>1, NumberValue
  <2>6. QED
    BY <2>2, <2>3, <2>4, <2>5
<1>2. /\ ByteOf(v, 1) = v % 256 /\ ByteOf(v, 2) = (v \div 256) % 256
      /\ ByteOf(v, 3) = (v \div 65536) % 256 /\ ByteOf(v, 4) = (v \div 16777216) % 256
  <2>1. 256^0 = 1 /\ 256^1 = 256 /\ 256^2 = 65536 /\ 256^3 = 16777216
    OBVIOUS
  <2>2. QED
    BY <2>1 DEF ByteOf
<1>3. v < 256 => ByteOf(v, 1) = v
  BY <1>2
<1>4. v < 65536 => ByteOf(v, 1) + 256 * ByteOf(v, 2) = v
  <2>1. v < 65536 => (v % 256) + 256 * ((v \div 256) % 256) = v
    OBVIOUS
  <2>2. QED
    BY <1>2, <2>1
<1>5. v < 16777216 => ByteOf(v, 1) + 256 * (ByteOf(v, 2) + 256 * ByteOf(v, 3)) = v
  <2>1. v < 16777216 =>
           (v % 256) + 256 * (((v \div 256) % 256) + 256 * ((v \div 65536) % 256)) = v
    OBVIOUS
  <2>2. QED
    BY <1>2, <2>1
<1>6. v < 4294967296 =>
         ByteOf(v, 1) + 256 * (ByteOf(v, 2) + 256 * (ByteOf(v, 3) + 256 * ByteOf(v, 4))) = v
  <2>1. v < 4294967296 =>
           (v % 256) + 256 * (((v \div 256) % 256) + 256 * (((v \div 65536) % 256)
                               + 256 * ((v \div 16777216) % 256))) = v
    OBVIOUS
  <2>2. QED
    BY <1>2, <2>1
<1>7. QED
  BY <1>1, <1>3, <1>4, <1>5, <1>6

-----------------------------------------------------------------------------
(***************************************************************************)
(* Reading.                                                                *)
(***************************************************************************)
\* A part of a sequence.
LEMMA PartFacts ==
    ASSUME NEW b \in Seq(Int), NEW p \in Nat, NEW n \in Nat, p + n <= Len(b)
    PROVE  /\ SubSeq(b, p + 1, p + n) \in Seq(Int) /\ Len(SubSeq(b, p + 1, p + n)) = n
           /\ \A i \in 1..n : SubSeq(b, p + 1, p + n)[i] = b[p + i]
<1>1. \A i \in (p + 1)..(p + n) : b[i] \in Int
  OBVIOUS
<1>2. /\ SubSeq(b, p + 1, p + n) \in Seq(Int)
      /\ Len(SubSeq(b, p + 1, p + n)) = IF p + 1 <= p + n THEN (p + n) - (p + 1) + 1 ELSE 0
      /\ \A i \in 1..((p + n) - (p + 1) + 1) : SubSeq(b, p + 1, p + n)[i] = b[(p + 1) + i - 1]
  BY <1>1, SubSeqProperties
<1>3. (p + n) - (p + 1) + 1 = n /\ \A i \in 1..n : (p + 1) + i - 1 = p + i
  OBVIOUS
<1>4. QED
  BY <1>2, <1>3

\* A sequence is its members.
LEMMA SameSeq ==
    ASSUME NEW a \in Seq(Int), NEW b \in Seq(Int), Len(a) = Len(b),
           \A i \in 1..Len(a) : a[i] = b[i]
    PROVE  a = b
BY SeqEqual

Size(s, n) == s \in Seq(Int) /\ Len(s) = n

\* The bytes of c come after the first p of b.
HasAt(b, p, c) ==
    c \in Seq(Int) /\ p + Len(c) <= Len(b) /\ \A i \in 1..Len(c) : b[p + i] = c[i]

Slice(b, p, n, c) == SubSeq(b, p + 1, p + n) = c

LEMMA SliceIs ==
    ASSUME NEW b, NEW k, Size(b, k), NEW p \in Nat, NEW c, HasAt(b, p, c), NEW n, Size(c, n)
    PROVE  Slice(b, p, n, c)
<1> DEFINE part == SubSeq(b, p + 1, p + n)
<1>1. /\ c \in Seq(Int) /\ n \in Nat /\ p + n <= Len(b) /\ \A i \in 1..n : b[p + i] = c[i]
      /\ b \in Seq(Int)
  BY DEF HasAt, Size
<1>2. part \in Seq(Int) /\ Len(part) = n /\ \A i \in 1..n : part[i] = b[p + i]
  BY <1>1, PartFacts
<1> HIDE DEF part
<1>3. \A i \in 1..n : part[i] = c[i]
  BY <1>1, <1>2
<1>4. Len(c) = n
  BY DEF Size
<1>5. part = c
  BY <1>1, <1>2, <1>3, <1>4, SameSeq
<1>6. QED
  BY <1>5 DEF part, Slice

Both(all, a, c, m, k) == Size(all, k) /\ HasAt(all, m, c) /\ HasAt(all, 0, a)

LEMMA HasJoined ==
    ASSUME NEW a, NEW c, NEW m, Size(a, m), NEW n, Size(c, n), NEW k, k = m + n
    PROVE  Both(a \o c, a, c, m, k)
<1> DEFINE all == a \o c
<1>7. a \in Seq(Int) /\ c \in Seq(Int) /\ Len(a) = m /\ Len(c) = n
  BY DEF Size
<1>1. Concat(all, a, c, m, n)
  BY <1>7, JoinedAs
<1> HIDE DEF all
<1>2. all \in Seq(Int) /\ Len(all) = k
  BY <1>1 DEF Concat
<1>3. m \in Nat /\ n \in Nat
  BY <1>7
<1>4. HasAt(all, m, c)
  BY <1>1, <1>2, <1>3, <1>7 DEF Concat, HasAt
<1>5. HasAt(all, 0, a)
  BY <1>1, <1>2, <1>3, <1>7 DEF Concat, HasAt
<1>6. QED
  BY <1>2, <1>4, <1>5 DEF Both, Size, all

\* What comes after p bytes in what comes after q bytes.
LEMMA HasWithin ==
    ASSUME NEW b, NEW a, NEW c, NEW p \in Nat, NEW q \in Nat, HasAt(b, q, a), HasAt(a, p, c),
           NEW r, r = q + p, Len(b) \in Nat
    PROVE  HasAt(b, r, c)
<1> DEFINE n == Len(c)
<1>1. c \in Seq(Int) /\ n \in Nat /\ a \in Seq(Int) /\ p + n <= Len(a) /\ q + Len(a) <= Len(b)
      /\ Len(a) \in Nat
  BY DEF HasAt
<1> HIDE DEF n
<1>2. ASSUME NEW i \in 1..n PROVE b[r + i] = c[i]
  <2>1. p + i \in 1..Len(a) /\ q + (p + i) = r + i
    BY <1>1
  <2>2. b[q + (p + i)] = a[p + i]
    BY <2>1 DEF HasAt
  <2>3. a[p + i] = c[i]
    BY DEF HasAt, n
  <2>4. QED
    BY <2>1, <2>2, <2>3
<1>3. r + n <= Len(b)
  BY <1>1
<1>4. QED
  BY <1>1, <1>2, <1>3 DEF HasAt, n

LEMMA HasStill ==
    ASSUME NEW b, NEW k, Size(b, k), NEW a, HasAt(b, 0, a), NEW p \in Nat, NEW c, HasAt(a, p, c)
    PROVE  HasAt(b, p, c)
<1>1. 0 \in Nat /\ p = 0 + p /\ Len(b) \in Nat
  BY DEF Size
<1>2. QED
  BY <1>1, HasWithin, SMTT(30)

\* The first m bytes of b are those of w.
Begins(b, w, m) == m <= Len(b) /\ \A i \in 1..m : b[i] = w[i]

LEMMA HasBegun ==
    ASSUME NEW b, NEW k, Size(b, k), NEW w, NEW m \in Nat, Begins(b, w, m),
           NEW p \in Nat, NEW c, HasAt(w, p, c), p + Len(c) <= m
    PROVE  HasAt(b, p, c)
<1> DEFINE n == Len(c)
<1>1. c \in Seq(Int) /\ n \in Nat /\ p + n <= m /\ m <= Len(b) /\ Len(b) \in Nat
  BY DEF HasAt, Begins, Size
<1> HIDE DEF n
<1>2. ASSUME NEW i \in 1..n PROVE b[p + i] = c[i]
  <2>1. p + i \in 1..m
    BY <1>1
  <2>2. w[p + i] = c[i]
    BY DEF HasAt, n
  <2>3. QED
    BY <2>1, <2>2 DEF Begins
<1>3. p + n <= Len(b)
  BY <1>1
<1>4. QED
  BY <1>1, <1>2, <1>3 DEF HasAt, n

LEMMA BegunAt ==
    ASSUME NEW b, NEW k, Size(b, k), NEW w, NEW m \in Nat, Begins(b, w, m),
           NEW p \in Nat, NEW c, HasAt(w, p, c), NEW n, Size(c, n), p + n <= m
    PROVE  HasAt(b, p, c)
<1>1. p + Len(c) <= m
  BY DEF Size
<1>2. QED
  BY <1>1, HasBegun

\* A stream over b without an error, at position p.
At(b, p) == [buf |-> b, pos |-> p, error |-> FALSE]

LEMMA AtFacts ==
    ASSUME NEW b \in Seq(Int), NEW p \in Nat, p <= Len(b)
    PROVE  /\ At(b, p) \in Strm /\ At(b, p).buf = b /\ At(b, p).pos = p /\ ~At(b, p).error
           /\ Remaining(At(b, p)) = Len(b) - p
           /\ Stream(b) = At(b, 0)
BY DEF At, Strm, Remaining, Stream

\* A read that fits.
LEMMA ReadAt ==
    ASSUME NEW b \in Seq(Int), NEW p \in Nat, NEW n \in Nat, p + n <= Len(b)
    PROVE  /\ Read(At(b, p), n) = At(b, p + n)
           /\ Got(At(b, p), n) = Number(SubSeq(b, p + 1, p + n))
<1>1. Fits(At(b, p), n)
  BY DEF At, Fits, Remaining
<1>2. QED
  BY <1>1 DEF Read, Got, At

\* The error stays.
LEMMA ReadFails ==
    ASSUME NEW s \in Strm, NEW n \in Nat
    PROVE  /\ Read(s, n) \in Strm /\ Read(s, n).buf = s.buf
           /\ ~Read(s, n).error => /\ ~s.error /\ s.pos + n <= Len(s.buf)
                                   /\ Read(s, n).pos = s.pos + n
<1>1. s \in [buf : Seq(Int), pos : Nat, error : BOOLEAN] /\ s.pos <= Len(s.buf)
      /\ Len(s.buf) \in Nat
      /\ s.pos \in Nat
  BY DEF Strm
<1>2. CASE Fits(s, n)
  <2>1. Read(s, n) = [s EXCEPT !.pos = s.pos + n]
    BY <1>2, Zenon DEF Read
  <2>2. s.pos + n \in Nat
    BY <1>1
  <2>3. /\ Read(s, n) \in [buf : Seq(Int), pos : Nat, error : BOOLEAN]
        /\ Read(s, n).buf = s.buf /\ Read(s, n).pos = s.pos + n
    BY <1>1, <2>1, <2>2
  <2>4. ~s.error /\ s.pos + n <= Len(s.buf)
    BY <1>1, <1>2 DEF Fits, Remaining
  <2>5. Read(s, n) \in Strm
    BY <1>1, <2>3, <2>4 DEF Strm
  <2>6. QED
    BY <1>1, <2>3, <2>4, <2>5
<1>3. CASE ~Fits(s, n)
  <2>1. Read(s, n) = [s EXCEPT !.error = TRUE]
    BY <1>3 DEF Read
  <2>2. /\ Read(s, n) \in [buf : Seq(Int), pos : Nat, error : BOOLEAN]
        /\ Read(s, n).buf = s.buf /\ Read(s, n).pos = s.pos /\ Read(s, n).error
    BY <1>1, <2>1
  <2>3. QED
    BY <1>1, <2>2 DEF Strm
<1>4. QED
  BY <1>2, <1>3

\* A seek forward.
LEMMA SeekForward ==
    ASSUME NEW s \in Strm, NEW n \in 0..255, Len(s.buf) <= 255
    PROVE  SeekCur(s, n) = IF s.pos + n <= Len(s.buf) THEN [s EXCEPT !.pos = s.pos + n] ELSE s
<1> DEFINE off == IF n >= 0 THEN n ELSE -(n % 256)
           to  == (s.pos + off) % 256
           in  == s.pos + n \in 0..Len(s.buf)
           fit == s.pos + n <= Len(s.buf)
<1>1. off = n
  OBVIOUS
<1>2. SeekCur(s, n) = IF in THEN [s EXCEPT !.pos = to] ELSE s
  BY Zenon DEF SeekCur
<1> HIDE DEF off
<1>3. s.pos \in Nat /\ Len(s.buf) \in Nat
  BY DEF Strm
<1>4. in <=> fit
  BY <1>3
<1>5. fit => to = s.pos + n
  <2>1. fit => s.pos + n \in 0..255
    <3> DEFINE p == s.pos
               l == Len(s.buf)
    <3>1. p \in Nat /\ l \in Nat /\ l <= 255
      BY <1>3
    <3> HIDE DEF p, l
    <3>2. p + n <= l => p + n \in 0..255
      BY <3>1
    <3>3. QED
      BY <3>2 DEF p, l
  <2>2. \A m \in 0..255 : m % 256 = m
    OBVIOUS
  <2>3. QED
    BY <1>1, <2>1, <2>2
<1> HIDE DEF in, to, fit
<1>6. SeekCur(s, n) = IF fit THEN [s EXCEPT !.pos = s.pos + n] ELSE s
  BY <1>2, <1>4, <1>5, Zenon
<1>7. QED
  BY <1>6, Zenon DEF fit

LEMMA Moved ==
    ASSUME NEW b, NEW p, NEW q
    PROVE  [At(b, p) EXCEPT !.pos = q] = At(b, q)
<1>1. ASSUME NEW c, c PROVE (IF c THEN [At(b, p) EXCEPT !.pos = q] ELSE At(b, p)) = At(b, q)
  BY <1>1 DEF At
<1>2. (IF TRUE THEN [At(b, p) EXCEPT !.pos = q] ELSE At(b, p)) = At(b, q)
  BY <1>1
<1>3. QED
  BY <1>2

LEMMA SeekAt ==
    ASSUME NEW b \in Seq(Int), NEW p \in Nat, NEW n \in 0..255, p <= Len(b), Len(b) <= 255
    PROVE  SeekCur(At(b, p), n) = At(b, IF p + n <= Len(b) THEN p + n ELSE p)
<1>1. At(b, p) \in Strm /\ At(b, p).buf = b /\ At(b, p).pos = p
  BY AtFacts
<1>2. SeekCur(At(b, p), n) = IF p + n <= Len(b) THEN [At(b, p) EXCEPT !.pos = p + n] ELSE At(b, p)
  BY <1>1, SeekForward
<1>3. [At(b, p) EXCEPT !.pos = p + n] = At(b, p + n)
  BY Moved
<1>4. CASE p + n <= Len(b)
  BY <1>2, <1>3, <1>4
<1>5. CASE ~(p + n <= Len(b))
  BY <1>2, <1>5
<1>6. QED
  BY <1>4, <1>5

LEMMA SeekFails ==
    ASSUME NEW s \in Strm, NEW n \in 0..255, Len(s.buf) <= 255
    PROVE  SeekCur(s, n) \in Strm /\ SeekCur(s, n).buf = s.buf /\ SeekCur(s, n).error = s.error
<1>1. s \in [buf : Seq(Int), pos : Nat, error : BOOLEAN] /\ s.pos <= Len(s.buf)
      /\ Len(s.buf) \in Nat
      /\ s.pos \in Nat
  BY DEF Strm
<1> DEFINE r == SeekCur(s, n)
<1>2. CASE s.pos + n <= Len(s.buf)
  <2>1. r = [s EXCEPT !.pos = s.pos + n]
    BY <1>2, SeekForward
  <2> HIDE DEF r
  <2>2. s.pos + n \in Nat
    BY <1>1
  <2>3. /\ r \in [buf : Seq(Int), pos : Nat, error : BOOLEAN]
        /\ r.buf = s.buf /\ r.pos = s.pos + n /\ r.error = s.error
    BY <1>1, <2>1, <2>2
  <2>4. r \in Strm /\ r.buf = s.buf /\ r.error = s.error
    BY <1>2, <2>3 DEF Strm
  <2>5. QED
    BY <2>4 DEF r
<1>3. CASE ~(s.pos + n <= Len(s.buf))
  <2>1. SeekCur(s, n) = s
    BY <1>3, SeekForward
  <2>2. QED
    BY <2>1
<1>4. QED
  BY <1>2, <1>3

-----------------------------------------------------------------------------
(***************************************************************************)
(* Keys.                                                                   *)
(***************************************************************************)
Store   == [KeyNames -> [root : RootKeys, i : Nat, block : Nat]]
Updates == [key : KeyNames, root : KeyNames, i : Nat]

LEMMA SlotType ==
    ASSUME NEW a \in BOOLEAN, NEW name \in KeyNames
    PROVE  Slot(a, name) \in KeyNames
BY DEF Slot, ArduinoSlot, DefaultSlot, KeyNames, RootKeys, SessionKeys, JoinKeys

LEMMA UpdateType ==
    ASSUME NEW a \in BOOLEAN, NEW block \in Nat, NEW k \in Store, NEW u \in Updates
    PROVE  Update(a, block, k, u) \in Store
<1>1. Slot(a, u.root) \in KeyNames
  BY SlotType DEF Updates
<1>2. Derived(k[Slot(a, u.root)], u.i, block) \in [root : RootKeys, i : Nat, block : Nat]
  BY <1>1 DEF Derived, Store, Updates
<1>3. QED
  BY <1>2 DEF Update, Store

\* The stores between the updates.
Updated(w, a, block, keys0, us) ==
    /\ w \in [0..Len(us) -> Store] /\ w[0] = keys0
    /\ \A n \in 1..Len(us) : w[n] = Update(a, block, w[n - 1], us[n])
    /\ UpdateAll(a, block, keys0, us) = w[Len(us)]

LEMMA UpdateSteps ==
    ASSUME NEW a \in BOOLEAN, NEW block \in Nat, NEW k \in Store, NEW us \in Seq(Updates)
    PROVE  \E w : Updated(w, a, block, k, us)
<1> DEFINE N == Len(us)
           Eq(it) == it = [t \in SUBSET DOMAIN us |->
                              IF t = {} THEN k
                              ELSE Update(a, block, it[t \ {Max(t)}], us[Max(t)])]
           it == CHOOSE g : Eq(g)
           F == [i \in 1..N |-> [s \in Store |-> Update(a, block, s, us[i])]]
<1>1. UpdateAll(a, block, k, us) = it[DOMAIN us]
  BY DEF UpdateAll, FoldLeft, MapThenFoldSet
<1>2. N \in Nat /\ DOMAIN us = 1..N /\ F \in [1..N -> [Store -> Store]]
  BY UpdateType
<1>3. Eq(it)
  <2>1. PICK g : FoldsBy(g, N, Store, k, F, LastFirst(N))
    <3> HIDE DEF N, F
    <3>1. QED
      BY <1>2, LeftFold
  <2>2. Eq(g)
    BY <1>2, <2>1, Extremes DEF FoldsBy, LastFirst
  <2>3. QED
    BY <2>2
<1>4. GoesLeft(it, N, Store, k, F)
  <2> HIDE DEF it
  <2>1. ASSUME NEW n \in 1..N PROVE it[1..n] = Update(a, block, it[1..(n - 1)], us[n])
    <3>1. Max(1..n) = n /\ (1..n) \ {Max(1..n)} = 1..(n - 1) /\ 1..n \in SUBSET DOMAIN us
      BY <1>2, Extremes
    <3>2. 1..n # {}
      BY n \in 1..n
    <3>3. QED
      BY <1>3, <3>1, <3>2, Zenon
  <2>2. it[{}] = k
    BY <1>3
  <2>3. QED
    BY <1>2, <2>1, <2>2 DEF GoesLeft
<1>5. PICK w : Steps(w, N, Store, k, F) /\ w[N] = it[1..N]
  <2> HIDE DEF N, F, it
  <2>1. N \in Nat /\ k \in Store /\ F \in [1..N -> [Store -> Store]]
    BY <1>2
  <2>2. QED
    BY <1>4, <2>1, LeftSteps, SMTT(60)
<1>6. \A n \in 1..N : n - 1 \in 0..N
  BY <1>2
<1>7. \A n \in 1..N : w[n] = Update(a, block, w[n - 1], us[n])
  BY <1>2, <1>5, <1>6 DEF Steps
<1> HIDE DEF it, F
<1>8. w \in [0..N -> Store] /\ w[0] = k /\ UpdateAll(a, block, k, us) = w[N]
  BY <1>1, <1>2, <1>5 DEF Steps
<1>9. QED
  BY <1>7, <1>8 DEF Updated

Names(a, k, v, j) ==
    /\ k[Slot(a, "NWK")].i = 0 /\ (v = 1 => k[Slot(a, "APP")] = Root("APP"))
    /\ k[Slot(a, "APPS")] = [root |-> IF v = 1 THEN "APP" ELSE "NWK", i |-> 2, block |-> j]
    /\ k[Slot(a, "FNWKSINT")] = [root |-> "NWK", i |-> 1, block |-> j]
    /\ k[Slot(a, "SNWKSINT")] = [root |-> "NWK", i |-> IF v = 1 THEN 3 ELSE 1, block |-> j]
    /\ k[Slot(a, "NWKSENC")]  = [root |-> "NWK", i |-> IF v = 1 THEN 4 ELSE 1, block |-> j]

\* The roots are where getKey() looks for them; the wrapper has one for both.
Rooted(a, k) ==
    /\ k \in Store /\ k[Slot(a, "NWK")] = Root("NWK")
    /\ ~a => k[Slot(a, "APP")] = Root("APP")

LEMMA OneUpdate ==
    ASSUME NEW a, NEW block, NEW k, NEW key, NEW root, NEW i, key \notin RootKeys
    PROVE  Update(a, block, k, U(key, root, i))
              = [k EXCEPT ![Slot(a, key)] = Derived(k[Slot(a, root)], i, block)]
BY DEF Update, U

LEMMA DerivedRoot ==
    ASSUME NEW name, NEW i, NEW block
    PROVE  Derived(Root(name), i, block) = [root |-> name, i |-> i, block |-> block]
BY DEF Derived, Root

\* Whichever keys share a slot, LDL_OPS_deriveKeys() leaves each as named, and the
\* roots as they were.
LEMMA DeriveNames ==
    ASSUME NEW a \in BOOLEAN, NEW block \in Nat, NEW k, Rooted(a, k), NEW v \in {0, 1}, a => v = 0
    PROVE  /\ Rooted(a, DeriveKeys(a, block, k, v))
           /\ Names(a, DeriveKeys(a, block, k, v), v, block)
<1> DEFINE us == IF v = 0
                   THEN <<U("APPS", "NWK", 2), U("FNWKSINT", "NWK", 1), U("SNWKSINT", "NWK", 1),
                          U("NWKSENC", "NWK", 1)>>
                   ELSE <<U("FNWKSINT", "NWK", 1), U("APPS", "APP", 2), U("SNWKSINT", "NWK", 3),
                          U("NWKSENC", "NWK", 4)>>
           d  == DeriveKeys(a, block, k, v)
<1>1. us \in Seq(Updates) /\ Len(us) = 4
  <2>1. \A key, root \in KeyNames, i \in Nat : U(key, root, i) \in Updates
    BY DEF U, Updates
  <2>2. {"APPS", "FNWKSINT", "SNWKSINT", "NWKSENC", "NWK", "APP"} \subseteq KeyNames
    BY DEF KeyNames, RootKeys, SessionKeys
  <2>3. QED
    BY <2>1, <2>2
<1>2. k \in Store
  BY DEF Rooted
<1>3. PICK w : Updated(w, a, block, k, us)
  <2> HIDE DEF us
  <2>1. QED
    BY <1>1, <1>2, UpdateSteps
<1>4. /\ w[0] = k /\ w[0] \in Store /\ w[1] \in Store /\ w[2] \in Store /\ w[3] \in Store
         /\ w[4] \in Store
      /\ w[1] = Update(a, block, w[0], us[1]) /\ w[2] = Update(a, block, w[1], us[2])
      /\ w[3] = Update(a, block, w[2], us[3]) /\ w[4] = Update(a, block, w[3], us[4])
      /\ d = w[4]
  <2>1. UpdateAll(a, block, k, us) = d
    BY DEF DeriveKeys
  <2>2. \A n \in 1..4 : n \in 1..Len(us) /\ n - 1 \in 0..Len(us) /\ n \in 0..Len(us)
    BY <1>1
  <2> HIDE DEF us, d
  <2>3. /\ w[0] = k /\ (\A n \in 0..4 : w[n] \in Store) /\ d = w[4]
        /\ \A n \in 1..4 : w[n] = Update(a, block, w[n - 1], us[n])
    BY <1>1, <1>3, <2>1, <2>2 DEF Updated
  <2>4. 1 - 1 = 0 /\ 2 - 1 = 1 /\ 3 - 1 = 2 /\ 4 - 1 = 3
    OBVIOUS
  <2>5. QED
    BY <2>3, <2>4
<1>5. ASSUME NEW key \in {"APPS", "FNWKSINT", "SNWKSINT", "NWKSENC"}, NEW root, NEW i, NEW s
      PROVE  Update(a, block, s, U(key, root, i))
                = [s EXCEPT ![Slot(a, key)] = Derived(s[Slot(a, root)], i, block)]
  <2>1. key \notin RootKeys
    BY DEF RootKeys
  <2>2. QED
    BY <2>1, OneUpdate
<1> HIDE DEF d, us
<1>6. CASE a
  <2>1. v = 0
    BY <1>6
  <2>2. us[1] = U("APPS", "NWK", 2) /\ us[2] = U("FNWKSINT", "NWK", 1)
        /\ us[3] = U("SNWKSINT", "NWK", 1) /\ us[4] = U("NWKSENC", "NWK", 1)
    BY <2>1 DEF us
  <2>3. /\ Slot(a, "NWK") = "NWK" /\ Slot(a, "APP") = "NWK" /\ Slot(a, "APPS") = "APPS"
        /\ Slot(a, "FNWKSINT") = "NWKSENC" /\ Slot(a, "SNWKSINT") = "NWKSENC"
        /\ Slot(a, "NWKSENC") = "NWKSENC"
    BY <1>6 DEF Slot, ArduinoSlot, RootKeys
  <2>4. w[1] = [w[0] EXCEPT !["APPS"] = Derived(w[0]["NWK"], 2, block)]
    BY <1>4, <1>5, <2>2, <2>3
  <2>5. w[2] = [w[1] EXCEPT !["NWKSENC"] = Derived(w[1]["NWK"], 1, block)]
    BY <1>4, <1>5, <2>2, <2>3
  <2>6. w[3] = [w[2] EXCEPT !["NWKSENC"] = Derived(w[2]["NWK"], 1, block)]
    BY <1>4, <1>5, <2>2, <2>3
  <2>7. w[4] = [w[3] EXCEPT !["NWKSENC"] = Derived(w[3]["NWK"], 1, block)]
    BY <1>4, <1>5, <2>2, <2>3
  <2>8. k["NWK"] = Root("NWK")
    BY <2>3 DEF Rooted
  <2>9. \A n \in 0..4 : DOMAIN w[n] = KeyNames
    BY <1>4 DEF Store
  <2>10. {"APPS", "NWKSENC", "NWK"} \subseteq KeyNames
    BY DEF KeyNames, RootKeys, SessionKeys
  <2>11. /\ d["NWK"] = Root("NWK") /\ d["APPS"] = Derived(Root("NWK"), 2, block)
         /\ d["NWKSENC"] = Derived(Root("NWK"), 1, block)
    <3>1. /\ w[1]["NWK"] = Root("NWK")
          /\ w[1]["APPS"] = Derived(Root("NWK"), 2, block)
      BY <2>4, <2>9, <2>10, <1>4, <2>8
    <3>2. /\ w[2]["NWK"] = Root("NWK")
          /\ w[2]["APPS"] = Derived(Root("NWK"), 2, block)
          /\ w[2]["NWKSENC"] = Derived(Root("NWK"), 1, block)
      BY <2>5, <2>9, <2>10, <3>1
    <3>3. /\ w[3]["NWK"] = Root("NWK")
          /\ w[3]["APPS"] = Derived(Root("NWK"), 2, block)
          /\ w[3]["NWKSENC"] = Derived(Root("NWK"), 1, block)
      BY <2>6, <2>9, <2>10, <3>2
    <3>4. /\ w[4]["NWK"] = Root("NWK")
          /\ w[4]["APPS"] = Derived(Root("NWK"), 2, block)
          /\ w[4]["NWKSENC"] = Derived(Root("NWK"), 1, block)
      BY <2>7, <2>9, <2>10, <3>3
    <3>5. QED
      BY <1>4, <3>4
  <2>12. QED
    <3>1. d \in Store /\ Root("NWK").i = 0
      BY <1>4 DEF Root
    <3> HIDE DEF d
    <3>2. Rooted(a, d)
      BY <1>6, <2>3, <2>11, <3>1 DEF Rooted
    <3>3. v # 1
      BY <2>1
    <3>4. Derived(Root("NWK"), 2, block) = [root |-> "NWK", i |-> 2, block |-> block]
          /\ Derived(Root("NWK"), 1, block) = [root |-> "NWK", i |-> 1, block |-> block]
      BY DerivedRoot
    <3>5. Names(a, d, v, block)
      BY <2>3, <2>11, <3>1, <3>3, <3>4, Zenon DEF Names
    <3>6. QED
      BY <3>2, <3>5 DEF d
<1>7. CASE ~a /\ v = 0
  <2>2. us[1] = U("APPS", "NWK", 2) /\ us[2] = U("FNWKSINT", "NWK", 1)
        /\ us[3] = U("SNWKSINT", "NWK", 1) /\ us[4] = U("NWKSENC", "NWK", 1)
    BY <1>7 DEF us
  <2>3. \A name : Slot(a, name) = name
    BY <1>7 DEF Slot, DefaultSlot
  <2>4. w[1] = [w[0] EXCEPT !["APPS"] = Derived(w[0]["NWK"], 2, block)]
    BY <1>4, <1>5, <2>2, <2>3
  <2>5. w[2] = [w[1] EXCEPT !["FNWKSINT"] = Derived(w[1]["NWK"], 1, block)]
    BY <1>4, <1>5, <2>2, <2>3
  <2>6. w[3] = [w[2] EXCEPT !["SNWKSINT"] = Derived(w[2]["NWK"], 1, block)]
    BY <1>4, <1>5, <2>2, <2>3
  <2>7. w[4] = [w[3] EXCEPT !["NWKSENC"] = Derived(w[3]["NWK"], 1, block)]
    BY <1>4, <1>5, <2>2, <2>3
  <2>8. k["NWK"] = Root("NWK") /\ k["APP"] = Root("APP")
    BY <1>7, <2>3 DEF Rooted
  <2>9. \A n \in 0..4 : DOMAIN w[n] = KeyNames
    BY <1>4 DEF Store
  <2>10. {"APPS", "FNWKSINT", "SNWKSINT", "NWKSENC", "NWK", "APP"} \subseteq KeyNames
    BY DEF KeyNames, RootKeys, SessionKeys
  <2>11. /\ d["NWK"] = Root("NWK") /\ d["APP"] = Root("APP")
         /\ d["APPS"] = Derived(Root("NWK"), 2, block)
         /\ d["FNWKSINT"] = Derived(Root("NWK"), 1, block)
         /\ d["SNWKSINT"] = Derived(Root("NWK"), 1, block)
         /\ d["NWKSENC"] = Derived(Root("NWK"), 1, block)
    <3>1. /\ w[1]["NWK"] = Root("NWK")
          /\ w[1]["APP"] = Root("APP")
          /\ w[1]["APPS"] = Derived(Root("NWK"), 2, block)
      BY <2>4, <2>9, <2>10, <1>4, <2>8
    <3>2. /\ w[2]["NWK"] = Root("NWK")
          /\ w[2]["APP"] = Root("APP")
          /\ w[2]["APPS"] = Derived(Root("NWK"), 2, block)
          /\ w[2]["FNWKSINT"] = Derived(Root("NWK"), 1, block)
      BY <2>5, <2>9, <2>10, <3>1
    <3>3. /\ w[3]["NWK"] = Root("NWK")
          /\ w[3]["APP"] = Root("APP")
          /\ w[3]["APPS"] = Derived(Root("NWK"), 2, block)
          /\ w[3]["FNWKSINT"] = Derived(Root("NWK"), 1, block)
          /\ w[3]["SNWKSINT"] = Derived(Root("NWK"), 1, block)
      BY <2>6, <2>9, <2>10, <3>2
    <3>4. /\ w[4]["NWK"] = Root("NWK")
          /\ w[4]["APP"] = Root("APP")
          /\ w[4]["APPS"] = Derived(Root("NWK"), 2, block)
          /\ w[4]["FNWKSINT"] = Derived(Root("NWK"), 1, block)
          /\ w[4]["SNWKSINT"] = Derived(Root("NWK"), 1, block)
          /\ w[4]["NWKSENC"] = Derived(Root("NWK"), 1, block)
      BY <2>7, <2>9, <2>10, <3>3
    <3>5. QED
      BY <1>4, <3>4
  <2>12. QED
    <3>1. d \in Store /\ Root("NWK").i = 0
      BY <1>4 DEF Root
    <3>2. QED
      BY <1>7, <2>3, <2>11, <3>1, DerivedRoot DEF Rooted, Names, d
<1>8. CASE ~a /\ v = 1
  <2>2. us[1] = U("FNWKSINT", "NWK", 1) /\ us[2] = U("APPS", "APP", 2)
        /\ us[3] = U("SNWKSINT", "NWK", 3) /\ us[4] = U("NWKSENC", "NWK", 4)
    BY <1>8 DEF us
  <2>3. \A name : Slot(a, name) = name
    BY <1>8 DEF Slot, DefaultSlot
  <2>4. w[1] = [w[0] EXCEPT !["FNWKSINT"] = Derived(w[0]["NWK"], 1, block)]
    BY <1>4, <1>5, <2>2, <2>3
  <2>5. w[2] = [w[1] EXCEPT !["APPS"] = Derived(w[1]["APP"], 2, block)]
    BY <1>4, <1>5, <2>2, <2>3
  <2>6. w[3] = [w[2] EXCEPT !["SNWKSINT"] = Derived(w[2]["NWK"], 3, block)]
    BY <1>4, <1>5, <2>2, <2>3
  <2>7. w[4] = [w[3] EXCEPT !["NWKSENC"] = Derived(w[3]["NWK"], 4, block)]
    BY <1>4, <1>5, <2>2, <2>3
  <2>8. k["NWK"] = Root("NWK") /\ k["APP"] = Root("APP")
    BY <1>8, <2>3 DEF Rooted
  <2>9. \A n \in 0..4 : DOMAIN w[n] = KeyNames
    BY <1>4 DEF Store
  <2>10. {"APPS", "FNWKSINT", "SNWKSINT", "NWKSENC", "NWK", "APP"} \subseteq KeyNames
    BY DEF KeyNames, RootKeys, SessionKeys
  <2>11. /\ d["NWK"] = Root("NWK") /\ d["APP"] = Root("APP")
         /\ d["APPS"] = Derived(Root("APP"), 2, block)
         /\ d["FNWKSINT"] = Derived(Root("NWK"), 1, block)
         /\ d["SNWKSINT"] = Derived(Root("NWK"), 3, block)
         /\ d["NWKSENC"] = Derived(Root("NWK"), 4, block)
    <3>1. /\ w[1]["NWK"] = Root("NWK")
          /\ w[1]["APP"] = Root("APP")
          /\ w[1]["FNWKSINT"] = Derived(Root("NWK"), 1, block)
      BY <2>4, <2>9, <2>10, <1>4, <2>8
    <3>2. /\ w[2]["NWK"] = Root("NWK")
          /\ w[2]["APP"] = Root("APP")
          /\ w[2]["FNWKSINT"] = Derived(Root("NWK"), 1, block)
          /\ w[2]["APPS"] = Derived(Root("APP"), 2, block)
      BY <2>5, <2>9, <2>10, <3>1
    <3>3. /\ w[3]["NWK"] = Root("NWK")
          /\ w[3]["APP"] = Root("APP")
          /\ w[3]["FNWKSINT"] = Derived(Root("NWK"), 1, block)
          /\ w[3]["APPS"] = Derived(Root("APP"), 2, block)
          /\ w[3]["SNWKSINT"] = Derived(Root("NWK"), 3, block)
      BY <2>6, <2>9, <2>10, <3>2
    <3>4. /\ w[4]["NWK"] = Root("NWK")
          /\ w[4]["APP"] = Root("APP")
          /\ w[4]["FNWKSINT"] = Derived(Root("NWK"), 1, block)
          /\ w[4]["APPS"] = Derived(Root("APP"), 2, block)
          /\ w[4]["SNWKSINT"] = Derived(Root("NWK"), 3, block)
          /\ w[4]["NWKSENC"] = Derived(Root("NWK"), 4, block)
      BY <2>7, <2>9, <2>10, <3>3
    <3>5. QED
      BY <1>4, <3>4
  <2>12. QED
    <3>1. d \in Store /\ Root("NWK").i = 0
      BY <1>4 DEF Root
    <3>2. QED
      BY <1>8, <2>3, <2>11, <3>1, DerivedRoot DEF Rooted, Names, d
<1>9. QED
  BY <1>6, <1>7, <1>8

\* The keys of a join leave all others as they are.
LEMMA DeriveJoinKeysKeeps ==
    ASSUME NEW a \in BOOLEAN, ~a, NEW k \in Store
    PROVE  /\ DeriveJoinKeys(a, k) \in Store
           /\ \A name \in KeyNames \ JoinKeys : DeriveJoinKeys(a, k)[name] = k[name]
<1> DEFINE us == <<U("JSENC", "NWK", 5), U("JSINT", "NWK", 6)>>
           d  == DeriveJoinKeys(a, k)
<1>1. us \in Seq(Updates) /\ Len(us) = 2
  <2>1. \A key, root \in KeyNames, i \in Nat : U(key, root, i) \in Updates
    BY DEF U, Updates
  <2>2. {"JSENC", "JSINT", "NWK"} \subseteq KeyNames
    BY DEF KeyNames, RootKeys, JoinKeys
  <2>3. QED
    BY <2>1, <2>2
<1>2. 0 \in Nat
  OBVIOUS
<1>3. PICK w : Updated(w, a, 0, k, us)
  <2> HIDE DEF us
  <2>1. QED
    BY <1>1, <1>2, UpdateSteps
<1>4. /\ w[0] = k /\ w[0] \in Store /\ w[1] \in Store /\ w[2] \in Store
      /\ w[1] = Update(a, 0, w[0], us[1]) /\ w[2] = Update(a, 0, w[1], us[2]) /\ d = w[2]
  <2>1. UpdateAll(a, 0, k, us) = d
    BY DEF DeriveJoinKeys
  <2>2. \A n \in 1..2 : n \in 1..Len(us) /\ n - 1 \in 0..Len(us) /\ n \in 0..Len(us)
    BY <1>1
  <2> HIDE DEF us, d
  <2>3. /\ w[0] = k /\ (\A n \in 0..2 : w[n] \in Store) /\ d = w[2]
        /\ \A n \in 1..2 : w[n] = Update(a, 0, w[n - 1], us[n])
    BY <1>1, <1>3, <2>1, <2>2 DEF Updated
  <2>4. 1 \in 1..2 /\ 2 \in 1..2 /\ 0 \in 0..2 /\ 1 \in 0..2 /\ 2 \in 0..2
        /\ 1 - 1 = 0 /\ 2 - 1 = 1
    OBVIOUS
  <2>5. w[1] = Update(a, 0, w[1 - 1], us[1]) /\ w[2] = Update(a, 0, w[2 - 1], us[2])
    BY <2>3, <2>4, Zenon
  <2>6. QED
    BY <2>3, <2>4, <2>5
<1>5. us[1] = U("JSENC", "NWK", 5) /\ us[2] = U("JSINT", "NWK", 6)
  OBVIOUS
<1>6. \A name : Slot(a, name) = name
  BY DEF Slot, DefaultSlot
<1> HIDE DEF us, d
<1>7. ASSUME NEW key \in JoinKeys, NEW i, NEW s
      PROVE  Update(a, 0, s, U(key, "NWK", i)) = [s EXCEPT ![key] = Derived(s["NWK"], i, 0)]
  <2>1. key \notin RootKeys
    BY DEF RootKeys, JoinKeys
  <2>2. Update(a, 0, s, U(key, "NWK", i))
           = [s EXCEPT ![Slot(a, key)] = Derived(s[Slot(a, "NWK")], i, 0)]
    BY <2>1, OneUpdate
  <2>3. Slot(a, key) = key /\ Slot(a, "NWK") = "NWK"
    BY <1>6
  <2>4. QED
    BY <2>2, <2>3
<1>8. "JSENC" \in JoinKeys /\ "JSINT" \in JoinKeys
  BY DEF JoinKeys
<1>9. /\ w[1] = [w[0] EXCEPT !["JSENC"] = Derived(w[0]["NWK"], 5, 0)]
      /\ w[2] = [w[1] EXCEPT !["JSINT"] = Derived(w[1]["NWK"], 6, 0)]
  BY <1>4, <1>5, <1>7, <1>8
<1>10. ASSUME NEW name \in KeyNames \ JoinKeys PROVE d[name] = k[name]
  <2>1. name # "JSENC" /\ name # "JSINT" /\ DOMAIN w[0] = KeyNames /\ DOMAIN w[1] = KeyNames
    BY <1>4 DEF JoinKeys, Store
  <2>2. w[1][name] = w[0][name]
    BY <1>9, <2>1
  <2>3. w[2][name] = w[1][name]
    BY <1>9, <2>1
  <2>4. QED
    BY <1>4, <2>2, <2>3
<1>11. QED
  BY <1>4, <1>10 DEF d

-----------------------------------------------------------------------------
(***************************************************************************)
(* Join accepts.                                                           *)
(***************************************************************************)
\* Position p is the only one a stream over b can be at without an error.
OnlyAt(s, b, p) == s \in Strm /\ s.buf = b /\ (~s.error => s.pos = p /\ p <= Len(b))

LEMMA OnlyRead ==
    ASSUME NEW b, NEW s, NEW p \in Nat, NEW n \in Nat, NEW q, q = p + n, OnlyAt(s, b, p)
    PROVE  OnlyAt(Read(s, n), b, q)
<1> DEFINE r == Read(s, n)
<1>1. /\ r \in Strm /\ r.buf = s.buf
      /\ ~r.error => ~s.error /\ s.pos + n <= Len(s.buf) /\ r.pos = s.pos + n
  BY ReadFails DEF OnlyAt
<1> HIDE DEF r
<1>2. OnlyAt(r, b, q)
  BY <1>1 DEF OnlyAt
<1>3. QED
  BY <1>2 DEF r

LEMMA OnlySeek ==
    ASSUME NEW b, NEW s, NEW p \in Nat, NEW n \in 0..255, Len(b) <= 255, OnlyAt(s, b, p)
    PROVE  /\ SeekCur(s, n) \in Strm /\ SeekCur(s, n).buf = b
           /\ SeekCur(s, n).error = s.error
BY SeekFails DEF OnlyAt

LEMMA Latched ==
    ASSUME NEW s \in Strm, NEW n \in Nat, s.error
    PROVE  Read(s, n).error
<1>1. s \in [buf : Seq(Int), pos : Nat, error : BOOLEAN]
  BY DEF Strm
<1>2. ~Fits(s, n)
  BY DEF Fits
<1>3. Read(s, n) = [s EXCEPT !.error = TRUE]
  BY <1>2 DEF Read
<1>4. QED
  BY <1>1, <1>3

LEMMA ReadTo ==
    ASSUME NEW b \in Seq(Int), NEW p \in Nat, NEW n \in Nat, NEW q, q = p + n, q <= Len(b),
           NEW first, first = p + 1
    PROVE  /\ Read(At(b, p), n) = At(b, q)
           /\ Got(At(b, p), n) = Number(SubSeq(b, first, q))
BY ReadAt

LEMMA LastRead ==
    ASSUME NEW b \in Seq(Int), NEW p \in Nat, p <= Len(b), NEW n \in Nat, NEW q, q = p + n,
           ~Read(At(b, p), n).error
    PROVE  q <= Len(b) /\ Remaining(Read(At(b, p), n)) = Len(b) - q
<1>1. At(b, p) \in Strm /\ At(b, p).buf = b /\ At(b, p).pos = p
  BY AtFacts
<1>2. p + n <= Len(b)
  BY <1>1, ReadFails
<1>3. Read(At(b, p), n) = At(b, q)
  BY <1>2, ReadTo
<1>4. QED
  BY <1>2, <1>3, AtFacts

LEMMA SeekTo ==
    ASSUME NEW b \in Seq(Int), NEW p \in Nat, NEW n \in 0..255, NEW q, q = p + n,
           p <= Len(b), Len(b) <= 255
    PROVE  /\ q <= Len(b) => SeekCur(At(b, p), n) = At(b, q)
           /\ ~(q <= Len(b)) => SeekCur(At(b, p), n) = At(b, p)
BY SeekAt

\* What is decoded of b.
Accepted(f, b) ==
    /\ Len(b) = 17 \/ Len(b) = 33
    /\ f.joinNonce = Number(SubSeq(b, 2, 4)) /\ f.netID = Number(SubSeq(b, 5, 7))
    /\ f.devAddr = Number(SubSeq(b, 8, 11))
    /\ f.optNeg = (b[12] >= 128)
    /\ f.rx1DataRateOffset = (b[12] \div 16) % 8 /\ f.rx2DataRate = b[12] % 16
    /\ f.rxDelay = IF b[13] = 0 THEN 1 ELSE b[13]
    /\ f.cfList = IF Len(b) = 33 THEN Part(13, 16) ELSE Part(0, 0)

\* One byte read.
LEMMA ByteAt ==
    ASSUME NEW b \in Seq(Int), NEW p \in Nat, p < Len(b)
    PROVE  Read(At(b, p), 1) = At(b, p + 1) /\ Got(At(b, p), 1) = b[p + 1] /\ b[p + 1] \in Int
<1>1. p + 1 <= Len(b) /\ b[p + 1] \in Int
  OBVIOUS
<1>2. Read(At(b, p), 1) = At(b, p + 1) /\ Got(At(b, p), 1) = Number(SubSeq(b, p + 1, p + 1))
  BY <1>1, ReadAt
<1> DEFINE part == SubSeq(b, p + 1, p + 1)
<1>3. part \in Seq(Int) /\ Len(part) = 1 /\ part[1] = b[p + 1]
  <2>1. 1 \in Nat /\ p + 1 <= Len(b)
    BY <1>1
  <2>2. \A i \in 1..1 : part[i] = b[p + i]
    BY <2>1, PartFacts
  <2>3. part \in Seq(Int) /\ Len(part) = 1
    BY <2>1, PartFacts
  <2>4. QED
    BY <2>2, <2>3
<1>4. Number(part) = part[1]
  <2> HIDE DEF part
  <2>1. QED
    BY <1>3, NumberValue
<1>5. QED
  BY <1>1, <1>2, <1>3, <1>4

AcceptedOnly(f, b) == f.ok => Accepted(f, b)

LEMMA AcceptDecoded ==
    ASSUME NEW b \in Seq(Int), 1 <= Len(b), Len(b) <= 255
    PROVE  AcceptedOnly(DecodeJoinAccept(At(b, 1)), b)
<1> DEFINE s  == At(b, 1)
           s1 == Read(s, 3)
           s2 == Read(s1, 3)
           s3 == Read(s2, 4)
           s4 == Read(s3, 1)
           s5 == Read(s4, 1)
           listed == Remaining(s5) > MicSize
           s6 == IF listed THEN SeekCur(s5, 16) ELSE s5
           s7 == Read(s6, 4)
           settings == Got(s3, 1)
           f == DecodeJoinAccept(At(b, 1))
           g == [ok |-> TRUE, type |-> "JOIN_ACCEPT", joinNonce |-> Got(s, 3),
                 netID |-> Got(s1, 3), devAddr |-> Got(s2, 4),
                 optNeg |-> settings >= 128, rx1DataRateOffset |-> (settings \div 16) % 8,
                 rx2DataRate |-> settings % 16,
                 rxDelay |-> IF Got(s4, 1) = 0 THEN 1 ELSE Got(s4, 1),
                 cfList |-> IF listed THEN Part(s5.pos, 16) ELSE Part(0, 0),
                 mic |-> Got(s6, 4)]
           taken == ~s7.error /\ Remaining(s7) = 0
<1>1. f = IF s7.error \/ Remaining(s7) # 0 THEN Refused ELSE g
  BY Zenon DEF DecodeJoinAccept
<1>2. ~taken => AcceptedOnly(f, b)
  <2> HIDE DEF g, f, s7
  <2>1. ~taken => f = Refused
    BY <1>1
  <2>2. QED
    BY <2>1 DEF Refused, AcceptedOnly
<1> HIDE DEF taken, f, g, s, s1, s2, s3, s4, s5, s6, s7
<1>3. 1 \in Nat /\ 3 \in Nat /\ 4 \in Nat /\ 7 \in Nat /\ 11 \in Nat /\ 12 \in Nat
  OBVIOUS
<1>4. OnlyAt(s, b, 1)
  BY <1>3, AtFacts DEF s, OnlyAt
<1>5. OnlyAt(s1, b, 4)
  BY <1>3, <1>4, 4 = 1 + 3, OnlyRead, Zenon DEF s1
<1>6. OnlyAt(s2, b, 7)
  BY <1>3, <1>5, 7 = 4 + 3, OnlyRead, Zenon DEF s2
<1>7. OnlyAt(s3, b, 11)
  BY <1>3, <1>6, 11 = 7 + 4, OnlyRead, Zenon DEF s3
<1>8. OnlyAt(s4, b, 12)
  BY <1>3, <1>7, 12 = 11 + 1, OnlyRead, Zenon DEF s4
<1>9. OnlyAt(s5, b, 13)
  BY <1>3, <1>8, 13 = 12 + 1, OnlyRead, Zenon DEF s5
<1>10. s6 \in Strm /\ s6.buf = b /\ s6.error = s5.error
  <2>1. 16 \in 0..255 /\ 13 \in Nat
    OBVIOUS
  <2>2. SeekCur(s5, 16) \in Strm /\ SeekCur(s5, 16).buf = b /\ SeekCur(s5, 16).error = s5.error
    BY <1>9, <2>1, OnlySeek, SMTT(30)
  <2>3. s5 \in Strm /\ s5.buf = b
    BY <1>9 DEF OnlyAt
  <2>4. QED
    BY <2>2, <2>3 DEF s6
<1>11. taken => 13 <= Len(b)
  <2>1. ASSUME s6.error PROVE Read(s6, 4).error
    BY <1>3, <1>10, <2>1, Latched, Zenon
  <2>2. QED
    BY <1>9, <1>10, <2>1 DEF OnlyAt, taken, s7
<1>12. SUFFICES ASSUME 13 <= Len(b), ~s7.error, Remaining(s7) = 0, f = g PROVE Accepted(g, b)
  <2>1. CASE taken
    BY <1>1, <1>11, <2>1 DEF taken, AcceptedOnly, f
  <2>2. QED
    BY <1>2, <2>1 DEF f
<1>13. Len(b) \in Nat /\ b[12] \in Int /\ b[13] \in Int
  BY <1>12
<1> DEFINE len == Len(b)
<1>14. s1 = At(b, 4) /\ Got(s, 3) = Number(SubSeq(b, 2, 4))
  <2>1. 4 <= Len(b) /\ 2 = 1 + 1
    BY <1>12, <1>13
  <2>2. QED
    BY <1>3, <2>1, 4 = 1 + 3, ReadTo, SMTT(30) DEF s, s1
<1>15. s2 = At(b, 7) /\ Got(s1, 3) = Number(SubSeq(b, 5, 7))
  <2>1. 7 <= Len(b) /\ 5 = 4 + 1
    BY <1>12, <1>13
  <2>2. QED
    BY <1>3, <1>14, <2>1, 7 = 4 + 3, ReadTo, SMTT(30) DEF s2
<1>16. s3 = At(b, 11) /\ Got(s2, 4) = Number(SubSeq(b, 8, 11))
  <2>1. 11 <= Len(b) /\ 8 = 7 + 1
    BY <1>12, <1>13
  <2>2. QED
    BY <1>3, <1>15, <2>1, 11 = 7 + 4, ReadTo, SMTT(30) DEF s3
<1>17. s4 = At(b, 12) /\ settings = b[12]
  <2>1. 11 < Len(b) /\ 11 + 1 = 12
    BY <1>12, <1>13
  <2>2. QED
    BY <1>3, <1>16, <2>1, ByteAt, Zenon DEF s4
<1>18. s5 = At(b, 13) /\ Got(s4, 1) = b[13]
  <2>1. 12 < Len(b) /\ 12 + 1 = 13
    BY <1>12, <1>13
  <2>2. QED
    BY <1>3, <1>17, <2>1, ByteAt, Zenon DEF s5
<1>19. (listed <=> len > 17) /\ s5.pos = 13 /\ len \in Nat
  <2>1. 13 \in Nat
    OBVIOUS
  <2>2. Remaining(s5) = Len(b) - 13 /\ s5.pos = 13
    BY <1>12, <1>18, <2>1, AtFacts, Zenon
  <2>3. QED
    BY <1>13, <2>2 DEF MicSize
<1> HIDE DEF len
<1>20. ASSUME listed PROVE len = 33
  <2>1. s6 = SeekCur(At(b, 13), 16) /\ 13 \in Nat /\ 29 \in Nat /\ 16 \in 0..255 /\ 4 \in Nat
    BY <1>18, <1>20 DEF s6
  <2>2. CASE 29 <= Len(b)
    <3>1. s6 = At(b, 29)
      BY <1>12, <2>1, <2>2, 29 = 13 + 16, SeekTo
    <3>2. ~Read(At(b, 29), 4).error /\ Remaining(Read(At(b, 29), 4)) = 0
      BY <1>12, <3>1 DEF s7
    <3>3. 33 <= len /\ Remaining(Read(At(b, 29), 4)) = len - 33
      BY <2>1, <2>2, <3>2, 33 = 29 + 4, LastRead, SMTT(30) DEF len
    <3>4. QED
      BY <1>19, <3>2, <3>3
  <2>3. CASE ~(29 <= Len(b))
    <3>1. s6 = At(b, 13)
      BY <1>12, <2>1, <2>3, 29 = 13 + 16, SeekTo
    <3>2. ~Read(At(b, 13), 4).error /\ Remaining(Read(At(b, 13), 4)) = 0
      BY <1>12, <3>1 DEF s7
    <3>3. 17 <= len /\ Remaining(Read(At(b, 13), 4)) = len - 17
      BY <1>12, <2>1, <3>2, 17 = 13 + 4, LastRead, SMTT(30) DEF len
    <3>4. QED
      BY <1>19, <1>20, <3>2, <3>3
  <2>4. QED
    BY <2>2, <2>3
<1>21. ASSUME ~listed PROVE len = 17
  <2>1. s6 = At(b, 13) /\ 13 \in Nat /\ 4 \in Nat
    BY <1>18, <1>21 DEF s6
  <2>2. ~Read(At(b, 13), 4).error /\ Remaining(Read(At(b, 13), 4)) = 0
    BY <1>12, <2>1 DEF s7
  <2>3. 17 <= len /\ Remaining(Read(At(b, 13), 4)) = len - 17
    BY <1>12, <2>1, <2>2, 17 = 13 + 4, LastRead, SMTT(30) DEF len
  <2>4. QED
    BY <1>19, <2>2, <2>3
<1>22. (len = 17 \/ len = 33) /\ (listed <=> len = 33)
  BY <1>20, <1>21
<1>23. /\ g.joinNonce = Number(SubSeq(b, 2, 4)) /\ g.netID = Number(SubSeq(b, 5, 7))
       /\ g.devAddr = Number(SubSeq(b, 8, 11))
       /\ g.optNeg = (b[12] >= 128)
       /\ g.rx1DataRateOffset = (b[12] \div 16) % 8 /\ g.rx2DataRate = b[12] % 16
       /\ g.rxDelay = IF b[13] = 0 THEN 1 ELSE b[13]
       /\ g.cfList = IF listed THEN Part(13, 16) ELSE Part(0, 0)
  BY <1>14, <1>15, <1>16, <1>17, <1>18, <1>19 DEF g
<1>24. QED
  BY <1>22, <1>23, Zenon DEF Accepted, len

LEMMA DecodeAccept ==
    ASSUME NEW b \in Seq(Int), 1 <= Len(b), b[1] = 32
    PROVE  Decode(b) = DecodeJoinAccept(At(b, 1))
<1>1. Stream(b) = At(b, 0)
  BY DEF Stream, At
<1>2. 0 \in Nat /\ 0 < Len(b) /\ 1 = 0 + 1
  OBVIOUS
<1>3. Read(Stream(b), 1) = At(b, 1) /\ Got(Stream(b), 1) = b[1]
  BY <1>1, <1>2, ByteAt, SMTT(30)
<1>4. FrameType(b[1]) = "JOIN_ACCEPT"
  <2>1. 32 % 32 = 0 /\ 32 \div 32 < 7 /\ 32 \div 32 + 1 = 2
    OBVIOUS
  <2>2. QED
    BY <2>1 DEF FrameType, FrameTypes
<1>5. ~(Len(b) = 0)
  BY <1>2
<1> DEFINE type == FrameType(Got(Stream(b), 1))
<1>6. type = "JOIN_ACCEPT"
  BY <1>3, <1>4
<1>7. Decode(b) = CASE type = "JOIN_ACCEPT"  -> DecodeJoinAccept(Read(Stream(b), 1))
                    [] type \in DownTypes    -> DecodeData(type, Read(Stream(b), 1))
                    [] OTHER                 -> Refused
  BY <1>5, Zenon DEF Decode
<1> HIDE DEF type
<1>8. type \notin DownTypes
  BY <1>6 DEF DownTypes
<1>9. QED
  BY <1>3, <1>6, <1>7, <1>8

\* The bytes of a network's join accept.
Nonce    == <<31, 32, 33>>
NetID    == <<41, 42, 43>>
Settings(optNeg) == <<(IF optNeg THEN 128 ELSE 0) + 3 * 16 + 5, 0>>
Listed   == [i \in 1..16 |-> 50 + i]
AcceptBytes(w, m, optNeg, listed) ==
    /\ Size(w, m) /\ (IF listed THEN m = 33 ELSE m = 17)
    /\ HasAt(w, 0, <<32>>) /\ HasAt(w, 1, Nonce) /\ HasAt(w, 4, NetID)
    /\ HasAt(w, 7, LE(DevAddr, 4)) /\ HasAt(w, 11, Settings(optNeg))
    /\ listed => HasAt(w, 13, Listed)

LEMMA AcceptParts ==
    /\ Size(Nonce, 3) /\ Size(NetID, 3)
    /\ Size(LE(DevAddr, 4), 4)
    /\ Size(LE(MicBytes, 4), 4)
    /\ Size(Listed, 16)
    /\ Size(<<32>>, 1)
    /\ \A optNeg \in BOOLEAN : /\ Size(Settings(optNeg), 2)
                                /\ Settings(optNeg)[1] = (IF optNeg THEN 128 ELSE 0) + 53
                                /\ Settings(optNeg)[2] = 0
<1>1. DevAddr \in Nat /\ MicBytes \in Nat /\ 4 \in Nat
  BY DEF DevAddr, MicBytes
<1>2. /\ Size(LE(DevAddr, 4), 4)
      /\ Size(LE(MicBytes, 4), 4)
  BY <1>1, BytesOf DEF Size
<1>3. Size(Nonce, 3) /\ Size(NetID, 3)
  BY DEF Size, Nonce, NetID
<1>4. Size(Listed, 16) /\ Size(<<32>>, 1)
  BY DEF Size, Listed
<1>5. \A optNeg \in BOOLEAN : /\ Size(Settings(optNeg), 2)
                              /\ Settings(optNeg)[1] = (IF optNeg THEN 128 ELSE 0) + 53
                              /\ Settings(optNeg)[2] = 0
  BY DEF Size, Settings
<1>6. QED
  BY <1>2, <1>3, <1>4, <1>5

LEMMA AcceptSent ==
    ASSUME NEW optNeg \in BOOLEAN, NEW listed \in BOOLEAN
    PROVE  AcceptBytes(NetworkJoinAccept(optNeg, listed), IF listed THEN 33 ELSE 17, optNeg, listed)
<1> DEFINE head == <<32, 31, 32, 33, 41, 42, 43>>
           dev  == LE(DevAddr, 4)
           set  == Settings(optNeg)
           list == IF listed THEN Listed ELSE <<>>
           mic  == LE(MicBytes, 4)
           k    == IF listed THEN 16 ELSE 0
           m    == IF listed THEN 33 ELSE 17
           a    == head \o dev
           b    == a \o set
           c    == b \o list
           w    == c \o mic
<1>1. w = NetworkJoinAccept(optNeg, listed)
  BY Zenon DEF NetworkJoinAccept, Settings, Listed
<1>2. Size(head, 7)
  BY DEF Size
<1>3. HasAt(head, 0, <<32>>)
  BY DEF HasAt
<1>4. HasAt(head, 1, Nonce)
  BY DEF HasAt, Nonce
<1>5. HasAt(head, 4, NetID)
  BY DEF HasAt, NetID
<1>6. /\ Size(dev, 4) /\ Size(set, 2)
      /\ Size(mic, 4)
  BY AcceptParts
<1>7. Size(list, k)
  <2>1. CASE listed
    BY <2>1, AcceptParts
  <2>2. CASE ~listed
    BY <2>2 DEF Size
  <2>3. QED
    BY <2>1, <2>2
<1>8. k \in Nat /\ m = 13 + k + 4 /\ (IF listed THEN m = 33 ELSE m = 17)
  OBVIOUS
<1> DEFINE one == <<32>>
<1> HIDE DEF head, dev, set, list, mic, k, m, a, b, c, w, one
<1>9. Size(a, 11) /\ HasAt(a, 7, dev) /\ HasAt(a, 0, head)
  <2>1. Both(a, head, dev, 7, 11)
    BY <1>2, <1>6, 11 = 7 + 4, HasJoined, SMTT(30) DEF a
  <2>2. QED
    BY <2>1 DEF Both
<1>10. Size(b, 13) /\ HasAt(b, 11, set) /\ HasAt(b, 0, a)
  <2>1. Both(b, a, set, 11, 13)
    BY <1>6, <1>9, 13 = 11 + 2, HasJoined, SMTT(30) DEF b
  <2>2. QED
    BY <2>1 DEF Both
<1>11. Size(c, 13 + k) /\ HasAt(c, 13, list) /\ HasAt(c, 0, b)
  <2>1. Both(c, b, list, 13, 13 + k)
    BY <1>7, <1>10, HasJoined, SMTT(30) DEF c
  <2>2. QED
    BY <2>1 DEF Both
<1>12. Size(w, m) /\ HasAt(w, 0, c)
  <2>1. Both(w, c, mic, 13 + k, m)
    BY <1>6, <1>8, <1>11, HasJoined, SMTT(30) DEF w
  <2>2. QED
    BY <2>1 DEF Both
<1>13. ASSUME NEW p \in Nat, NEW x, HasAt(c, p, x) PROVE HasAt(w, p, x)
  BY <1>12, <1>13, HasStill
<1>14. ASSUME NEW p \in Nat, NEW x, HasAt(b, p, x) PROVE HasAt(w, p, x)
  BY <1>11, <1>13, <1>14, HasStill
<1>15. ASSUME NEW p \in Nat, NEW x, HasAt(a, p, x) PROVE HasAt(w, p, x)
  BY <1>10, <1>14, <1>15, HasStill
<1>16. ASSUME NEW p \in Nat, NEW x, HasAt(head, p, x) PROVE HasAt(w, p, x)
  BY <1>9, <1>15, <1>16, HasStill
<1>17. HasAt(w, 0, <<32>>) /\ HasAt(w, 1, Nonce) /\ HasAt(w, 4, NetID)
  BY <1>3, <1>4, <1>5, <1>16
<1>18. HasAt(w, 7, dev) /\ HasAt(w, 11, set)
  BY <1>9, <1>10, <1>14, <1>15
<1>19. listed => HasAt(w, 13, Listed)
  BY <1>11, <1>13 DEF list
<1>20. AcceptBytes(w, m, optNeg, listed)
  BY <1>8, <1>12, <1>17, <1>18, <1>19 DEF AcceptBytes, dev, set
<1>21. QED
  BY <1>1, <1>20 DEF m

\* What is read of a join accept of which len bytes arrive, b.
AcceptRight(f, b, len, optNeg, listed) ==
    f.ok =>
      /\ len = 17 \/ len = 33
      /\ f.cfList.len > 0 <=> len = 33
      /\ f.joinNonce = Number(Nonce) /\ f.netID = Number(NetID)
      /\ f.devAddr = DevAddr /\ f.optNeg = optNeg
      /\ f.rx1DataRateOffset = 3 /\ f.rx2DataRate = 5 /\ f.rxDelay = 1
      /\ f.cfList.len > 0 /\ listed => PartOf(b, f.cfList) = Listed

Arrived(whole, len) == SubSeq(whole \o [i \in 1..len |-> 99], 1, len)

LEMMA ArrivedBegins ==
    ASSUME NEW w, NEW m, Size(w, m), NEW len \in Nat, NEW n \in Nat, n <= m, n <= len
    PROVE  Size(Arrived(w, len), len) /\ Begins(Arrived(w, len), w, n)
<1> DEFINE junk == [i \in 1..len |-> 99]
           all  == w \o junk
           b    == Arrived(w, len)
<1>1. junk \in Seq(Int) /\ Len(junk) = len /\ m \in Nat /\ w \in Seq(Int) /\ Len(w) = m
  BY DEF Size
<1> HIDE DEF junk
<1>2. Concat(all, w, junk, m, len)
  BY <1>1, JoinedAs
<1>3. all \in Seq(Int) /\ Len(all) = m + len /\ \A i \in 1..m : all[i] = w[i]
  BY <1>2 DEF Concat
<1>4. b = SubSeq(all, 0 + 1, 0 + len)
  BY DEF Arrived, junk
<1> HIDE DEF all, b
<1>5. 0 + len <= Len(all) /\ 0 \in Nat
  BY <1>1, <1>3
<1>6. b \in Seq(Int) /\ Len(b) = len /\ \A i \in 1..len : b[i] = all[0 + i]
  BY <1>3, <1>4, <1>5, PartFacts
<1>7. \A i \in 1..n : b[i] = w[i]
  BY <1>1, <1>3, <1>6
<1>8. QED
  BY <1>6, <1>7 DEF b, Size, Begins

LEMMA AcceptFields ==
    ASSUME NEW optNeg \in BOOLEAN, NEW listed \in BOOLEAN, NEW len, len = 17 \/ len = 33,
           NEW w, NEW m, AcceptBytes(w, m, optNeg, listed), NEW b, Size(b, len),
           Begins(b, w, 17), listed /\ len = 33 => Begins(b, w, 33), NEW f, Accepted(f, b)
    PROVE  AcceptRight(f, b, len, optNeg, listed)
<1>1. 0 \in Nat /\ 1 \in Nat /\ 4 \in Nat /\ 7 \in Nat /\ 11 \in Nat /\ 13 \in Nat /\ 17 \in Nat
      /\ 33 \in Nat
  OBVIOUS
<1>2. /\ Len(Nonce) = 3 /\ Len(NetID) = 3 /\ Len(LE(DevAddr, 4)) = 4 /\ Len(Listed) = 16
      /\ Len(Settings(optNeg)) = 2
  BY AcceptParts DEF Size
<1>3. HasAt(b, 1, Nonce) /\ HasAt(b, 4, NetID)
  <2>1. HasAt(w, 1, Nonce) /\ HasAt(w, 4, NetID)
    BY DEF AcceptBytes
  <2>2. QED
    BY <1>1, <2>1, AcceptParts, BegunAt, SMTT(30)
<1>4. HasAt(b, 7, LE(DevAddr, 4)) /\ HasAt(b, 11, Settings(optNeg))
  <2>1. HasAt(w, 7, LE(DevAddr, 4)) /\ HasAt(w, 11, Settings(optNeg))
    BY Zenon DEF AcceptBytes
  <2>2. QED
    BY <1>1, <2>1, AcceptParts, BegunAt, SMTT(30)
<1>5. SubSeq(b, 2, 4) = Nonce /\ SubSeq(b, 5, 7) = NetID /\ SubSeq(b, 8, 11) = LE(DevAddr, 4)
  <2>1. 2 = 1 + 1 /\ 4 = 1 + 3 /\ 5 = 4 + 1 /\ 7 = 4 + 3 /\ 8 = 7 + 1 /\ 11 = 7 + 4
    OBVIOUS
  <2>2. Slice(b, 1, 3, Nonce) /\ Slice(b, 4, 3, NetID)
    BY <1>1, <1>3, AcceptParts, SliceIs, SMTT(30)
  <2>3. Slice(b, 7, 4, LE(DevAddr, 4))
    BY <1>1, <1>4, AcceptParts, SliceIs, SMTT(30)
  <2>4. QED
    BY <2>1, <2>2, <2>3 DEF Slice
<1>6. Number(LE(DevAddr, 4)) = DevAddr
  <2> DEFINE v == DevAddr
  <2>1. v \in Nat /\ v < 4294967296
    BY DEF DevAddr
  <2> HIDE DEF v
  <2>2. Number(LE(v, 4)) = v
    BY <2>1, NumberOfBytes
  <2>3. QED
    BY <2>2 DEF v
<1>7. b[12] = (IF optNeg THEN 128 ELSE 0) + 53 /\ b[13] = 0
  <2>1. 12 = 11 + 1 /\ 13 = 11 + 2 /\ 1 \in 1..2 /\ 2 \in 1..2
    OBVIOUS
  <2>2. \A i \in 1..2 : b[11 + i] = Settings(optNeg)[i]
    BY <1>2, <1>4 DEF HasAt
  <2>3. b[11 + 1] = Settings(optNeg)[1] /\ b[11 + 2] = Settings(optNeg)[2]
    BY <2>2
  <2>4. QED
    BY <2>1, <2>3, AcceptParts
<1>8. /\ (b[12] >= 128) = optNeg
      /\ (b[12] \div 16) % 8 = 3 /\ b[12] % 16 = 5
  BY <1>7
<1>9. /\ f.joinNonce = Number(SubSeq(b, 2, 4)) /\ f.netID = Number(SubSeq(b, 5, 7))
      /\ f.devAddr = Number(SubSeq(b, 8, 11))
      /\ f.optNeg = (b[12] >= 128)
      /\ f.rx1DataRateOffset = (b[12] \div 16) % 8 /\ f.rx2DataRate = b[12] % 16
      /\ f.rxDelay = IF b[13] = 0 THEN 1 ELSE b[13]
      /\ f.cfList = IF len = 33 THEN Part(13, 16) ELSE Part(0, 0)
  BY DEF Accepted, Size
<1>10. f.cfList.len > 0 <=> len = 33
  <2>1. CASE len = 33
    BY <1>9, <2>1 DEF Part
  <2>2. CASE len = 17
    BY <1>9, <2>2 DEF Part
  <2>3. QED
    BY <2>1, <2>2
<1>11. ASSUME len = 33, listed PROVE PartOf(b, f.cfList) = Listed
  <2>1. HasAt(w, 13, Listed) /\ 13 + Len(Listed) <= 33 /\ Begins(b, w, 33)
    BY <1>2, <1>11 DEF AcceptBytes
  <2>2. HasAt(b, 13, Listed)
    BY <1>1, <2>1, HasBegun, SMTT(30)
  <2>3. SubSeq(b, 13 + 1, 13 + 16) = Listed
    <3>1. Slice(b, 13, 16, Listed)
      BY <1>1, <2>2, AcceptParts, SliceIs, SMTT(30)
    <3>2. QED
      BY <3>1 DEF Slice
  <2>4. PartOf(b, f.cfList) = SubSeq(b, 13 + 1, 13 + 16)
    BY <1>9, <1>11 DEF PartOf, Part
  <2>5. QED
    BY <2>3, <2>4
<1>12. QED
  BY <1>5, <1>6, <1>7, <1>8, <1>9, <1>10, <1>11 DEF AcceptRight

LEMMA AcceptRead ==
    ASSUME NEW optNeg \in BOOLEAN, NEW listed \in BOOLEAN, NEW len \in 1..255,
           NEW b, b = Arrived(NetworkJoinAccept(optNeg, listed), len)
    PROVE  Size(b, len) /\ AcceptRight(Decode(b), b, len, optNeg, listed)
<1> DEFINE w == NetworkJoinAccept(optNeg, listed)
           m == IF listed THEN 33 ELSE 17
           f == Decode(b)
<1>1. AcceptBytes(w, m, optNeg, listed)
  BY AcceptSent
<1>2. b = Arrived(w, len)
  OBVIOUS
<1> HIDE DEF w, m, f
<1>3. Size(w, m) /\ m \in Nat /\ len \in Nat /\ 17 <= m /\ (listed => m = 33)
  BY <1>1 DEF AcceptBytes
<1>4. Size(b, len)
  <2>1. 0 \in Nat /\ 0 <= m /\ 0 <= len
    BY <1>3
  <2>2. QED
    BY <1>2, <1>3, <2>1, ArrivedBegins
<1>5. b[1] = 32
  <2>1. 1 \in Nat /\ 1 <= m /\ 1 <= len
    BY <1>3
  <2>2. Begins(b, w, 1)
    BY <1>2, <1>3, <2>1, ArrivedBegins
  <2>3. b[1] = w[1]
    BY <2>2 DEF Begins
  <2>4. HasAt(w, 0, <<32>>)
    BY <1>1 DEF AcceptBytes
  <2>5. w[1] = 32
    BY <2>4 DEF HasAt
  <2>6. QED
    BY <2>3, <2>5
<1>6. b \in Seq(Int) /\ 1 <= Len(b) /\ Len(b) <= 255
  BY <1>4 DEF Size
<1>7. f = DecodeJoinAccept(At(b, 1))
  BY <1>5, <1>6, DecodeAccept DEF f
<1>8. AcceptedOnly(f, b)
  BY <1>6, <1>7, AcceptDecoded
<1>9. ASSUME Accepted(f, b) PROVE AcceptRight(f, b, len, optNeg, listed)
  <2>1. len = 17 \/ len = 33
    BY <1>4, <1>9 DEF Accepted, Size
  <2>2. 17 \in Nat /\ 33 \in Nat /\ 17 <= len
    BY <2>1
  <2>3. Begins(b, w, 17)
    BY <1>2, <1>3, <2>2, ArrivedBegins
  <2>4. listed /\ len = 33 => Begins(b, w, 33)
    <3>1. listed /\ len = 33 => 33 <= m /\ 33 <= len
      BY <1>3
    <3>2. QED
      BY <1>2, <1>3, <2>2, <3>1, ArrivedBegins
  <2>5. QED
    BY <1>1, <1>4, <1>9, <2>1, <2>3, <2>4, AcceptFields
<1>10. QED
  <2>1. ASSUME ~f.ok PROVE AcceptRight(f, b, len, optNeg, listed)
    BY <2>1 DEF AcceptRight
  <2>2. QED
    BY <1>4, <1>8, <1>9, <2>1 DEF AcceptedOnly, f

-----------------------------------------------------------------------------
(***************************************************************************)
(* The keys of a session.                                                  *)
(***************************************************************************)
KeyInv ==
    /\ arduino \in BOOLEAN /\ version \in {0, 1} /\ joins \in Nat
    /\ arduino => version = 0
    /\ Rooted(arduino, keys)
    /\ joins > 0 => Names(arduino, keys, version, joins)

KeyVars == <<arduino, keys, version, joins>>

LEMMA KeyInit == Init => KeyInv
<1> SUFFICES ASSUME Init PROVE KeyInv
  OBVIOUS
<1>1. /\ arduino \in BOOLEAN /\ keys = InitialKeys /\ version = 0 /\ joins = 0
  BY CodecAssumption DEF Init
<1>2. InitialKeys \in Store
  <2>1. \A name \in KeyNames : (IF name \in RootKeys THEN Root(name) ELSE Root("NWK"))
                                  \in [root : RootKeys, i : Nat, block : Nat]
    BY DEF Root, RootKeys
  <2>2. QED
    BY <2>1 DEF InitialKeys, Store
<1>3. /\ Slot(arduino, "NWK") = "NWK" /\ InitialKeys["NWK"] = Root("NWK")
      /\ ~arduino => Slot(arduino, "APP") = "APP" /\ InitialKeys["APP"] = Root("APP")
  BY DEF Slot, ArduinoSlot, DefaultSlot, InitialKeys, KeyNames, RootKeys
<1>4. Rooted(arduino, keys)
  BY <1>1, <1>2, <1>3 DEF Rooted
<1>5. QED
  BY <1>1, <1>4 DEF KeyInv

LEMMA KeyStutter == KeyInv /\ UNCHANGED KeyVars => KeyInv'
BY DEF KeyInv, KeyVars

\* The keys of a join are no session keys.
LEMMA KeyJoinRequest == KeyInv /\ JoinRequest => KeyInv'
<1> SUFFICES ASSUME KeyInv, JoinRequest PROVE KeyInv'
  OBVIOUS
<1>1. /\ arduino' = arduino /\ version' = version /\ joins' = joins
      /\ arduino => keys' = keys
      /\ ~arduino => keys' = DeriveJoinKeys(arduino, keys)
  BY DEF JoinRequest
<1>2. CASE arduino
  BY <1>1, <1>2, KeyStutter DEF KeyVars
<1>3. CASE ~arduino
  <2>1. arduino \in BOOLEAN /\ keys \in Store /\ keys' = DeriveJoinKeys(arduino, keys)
    BY <1>1, <1>3 DEF KeyInv, Rooted
  <2>2. keys' \in Store /\ \A name \in KeyNames \ JoinKeys : keys'[name] = keys[name]
    BY <1>3, <2>1, DeriveJoinKeysKeeps
  <2>3. \A name : Slot(arduino, name) = name
    BY <1>3 DEF Slot, DefaultSlot
  <2>4. /\ keys'["NWK"] = keys["NWK"] /\ keys'["APP"] = keys["APP"] /\ keys'["APPS"] = keys["APPS"]
        /\ keys'["FNWKSINT"] = keys["FNWKSINT"] /\ keys'["SNWKSINT"] = keys["SNWKSINT"]
        /\ keys'["NWKSENC"] = keys["NWKSENC"]
    BY <2>2 DEF KeyNames, RootKeys, SessionKeys, JoinKeys
  <2>5. Rooted(arduino, keys')
    BY <2>2, <2>3, <2>4 DEF KeyInv, Rooted
  <2>6. joins > 0 => Names(arduino, keys', version, joins)
    BY <2>3, <2>4 DEF KeyInv, Names
  <2>7. QED
    BY <1>1, <2>5, <2>6 DEF KeyInv
<1>4. QED
  BY <1>2, <1>3

\* A join accept of the protocol's 1.1 is only read as that if it is one.
LEMMA KeyJoinAccept ==
    ASSUME KeyInv, NEW optNeg \in BOOLEAN, NEW listed \in BOOLEAN, NEW len \in JoinLengths,
           JoinAccept(optNeg, listed, len)
    PROVE  KeyInv'
<1> DEFINE whole == NetworkJoinAccept(optNeg, listed)
           b     == Arrived(whole, len)
           f     == Decode(b)
           taken == f.ok /\ len = Len(whole)
<1>1. /\ arduino' = arduino /\ (optNeg => ~arduino)
      /\ taken => /\ version' = (IF f.optNeg THEN 1 ELSE 0) /\ joins' = joins + 1
                  /\ keys' = DeriveKeys(arduino, joins', keys, version')
      /\ ~taken => UNCHANGED <<version, joins, keys>>
  BY DEF JoinAccept, Arrived
<1>2. len \in 1..255
  BY CodecAssumption
<1>3. b = Arrived(NetworkJoinAccept(optNeg, listed), len)
  OBVIOUS
<1> HIDE DEF b, f, whole
<1>4. AcceptRight(Decode(b), b, len, optNeg, listed)
  BY <1>2, <1>3, AcceptRead
<1>5. CASE ~taken
  BY <1>1, <1>5, KeyStutter DEF KeyVars
<1>6. CASE taken
  <2>1. f.optNeg = optNeg
    BY <1>4, <1>6 DEF AcceptRight, f
  <2>2. version' = (IF optNeg THEN 1 ELSE 0) /\ joins' = joins + 1
        /\ keys' = DeriveKeys(arduino, joins', keys, version')
    BY <1>1, <1>6, <2>1
  <2>3. /\ arduino \in BOOLEAN /\ joins' \in Nat /\ version' \in {0, 1}
        /\ (arduino => version' = 0) /\ Rooted(arduino, keys)
    BY <1>1, <2>2 DEF KeyInv
  <2>4. Rooted(arduino, keys') /\ Names(arduino, keys', version', joins')
    BY <2>2, <2>3, DeriveNames
  <2>5. QED
    BY <1>1, <2>3, <2>4 DEF KeyInv
<1>7. QED
  BY <1>5, <1>6

LEMMA KeyNext == KeyInv /\ [Next]_vars => KeyInv'
<1> SUFFICES ASSUME KeyInv, [Next]_vars PROVE KeyInv'
  OBVIOUS
<1>1. ASSUME Done PROVE KeyInv'
  BY <1>1, KeyStutter DEF Done, KeyVars
<1>2. ASSUME JoinRequest PROVE KeyInv'
  BY <1>2, KeyJoinRequest
<1>3. ASSUME NEW optNeg \in BOOLEAN, NEW listed \in BOOLEAN, NEW len \in JoinLengths,
             JoinAccept(optNeg, listed, len)
      PROVE  KeyInv'
  BY <1>3, KeyJoinAccept
<1>4. ASSUME NEW r \in Requests, Uplink(r) PROVE KeyInv'
  BY <1>4, KeyStutter DEF Uplink, KeyVars
<1>5. ASSUME NEW d \in Downlinks, NEW lost \in Lost, Downlink(d, lost) PROVE KeyInv'
  BY <1>5, KeyStutter DEF Downlink, KeyVars
<1>6. ASSUME GetCommand PROVE KeyInv'
  BY <1>6, KeyStutter DEF GetCommand, KeyVars
<1>7. ASSUME UNCHANGED vars PROVE KeyInv'
  BY <1>7, KeyStutter DEF vars, KeyVars
<1>8. QED
  BY <1>1, <1>2, <1>3, <1>4, <1>5, <1>6, <1>7 DEF Next

LEMMA KeyInvariant == Spec => []KeyInv
BY KeyInit, KeyNext, PTL DEF Spec

\* However many joins there are and of whichever version, and whether or not keys
\* share a slot, a session's keys are those their names stand for.
THEOREM KeysNamed == Spec => []KeysAsNamed
<1>1. KeyInv => KeysAsNamed
  BY DEF KeyInv, KeysAsNamed, Names, Key
<1>2. QED
  BY <1>1, KeyInvariant, PTL

-----------------------------------------------------------------------------
(***************************************************************************)
(* Joins.                                                                  *)
(***************************************************************************)
LEMMA OnceDeciphered ==
    ASSUME NEW len, len = 17 \/ len = 33, NEW p \in 1..len
    PROVE  Deciphered(len)[p] = (IF p = 1 THEN 0 ELSE 1)
<1> DEFINE starts == {1}
  \cup (IF len = SizeofJoinAccept(TRUE) THEN {SizeofJoinAccept(FALSE)} ELSE {})
           of     == {b \in starts : p \in (b + 1)..(b + BlockSize)}
<1>1. Deciphered(len)[p] = Cardinality(of)
  BY DEF Deciphered
<1>2. starts = IF len = 33 THEN {1, 17} ELSE {1}
  BY DEF SizeofJoinAccept
<1> HIDE DEF starts
<1>3. CASE p = 1
  <2>1. of = {}
    BY <1>2, <1>3 DEF BlockSize
  <2>2. QED
    BY <1>1, <1>3, <2>1, FS_EmptySet
<1>4. CASE p \in 2..17
  <2>1. of = {1}
    BY <1>2, <1>4 DEF BlockSize
  <2>2. QED
    BY <1>1, <1>4, <2>1, FS_Singleton
<1>5. CASE p \in 18..33
  <2>1. of = {17}
    BY <1>2, <1>5 DEF BlockSize
  <2>2. QED
    BY <1>1, <1>5, <2>1, FS_Singleton
<1>6. QED
  BY <1>3, <1>4, <1>5

LEMMA AcceptNext == JoinAcceptWhole /\ [Next]_vars => JoinAcceptWhole'
<1> SUFFICES ASSUME JoinAcceptWhole, [Next]_vars PROVE JoinAcceptWhole'
  OBVIOUS
<1>1. CASE last' = last
  BY <1>1 DEF JoinAcceptWhole, Is
<1>2. CASE last'.call # "JoinAccept"
  BY <1>2 DEF JoinAcceptWhole, Is
<1>3. ASSUME NEW optNeg \in BOOLEAN, NEW listed \in BOOLEAN, NEW len \in JoinLengths,
             JoinAccept(optNeg, listed, len)
      PROVE  JoinAcceptWhole'
  <2> DEFINE b == Arrived(NetworkJoinAccept(optNeg, listed), len)
             f == Decode(b)
  <2>1. /\ last'.len = len /\ last'.optNeg = optNeg /\ last'.listed = listed
        /\ last'.f = f /\ last'.bytes = b /\ last'.deciphered = Deciphered(len)
    BY <1>3 DEF JoinAccept, Arrived
  <2>2. len \in 1..255 /\ b = Arrived(NetworkJoinAccept(optNeg, listed), len)
    BY CodecAssumption
  <2> HIDE DEF b, f
  <2>3. AcceptRight(Decode(b), b, len, optNeg, listed)
    BY <2>2, AcceptRead
  <2>4. SUFFICES ASSUME f.ok PROVE JoinAcceptWhole'
    BY <2>1 DEF JoinAcceptWhole, Is
  <2>5. /\ len = 17 \/ len = 33
        /\ f.cfList.len > 0 <=> len = 33
        /\ f.joinNonce = Number(Nonce) /\ f.netID = Number(NetID)
        /\ f.devAddr = DevAddr /\ f.optNeg = optNeg
        /\ f.rx1DataRateOffset = 3 /\ f.rx2DataRate = 5 /\ f.rxDelay = 1
        /\ f.cfList.len > 0 /\ listed => PartOf(b, f.cfList) = Listed
    BY <2>3, <2>4 DEF AcceptRight, f
  <2>6. \A p \in 1..len : Deciphered(len)[p] = (IF p = 1 THEN 0 ELSE 1)
    BY <2>5, OnceDeciphered
  <2>7. QED
    BY <2>1, <2>5, <2>6 DEF JoinAcceptWhole, SizeofJoinAccept, Nonce, NetID, Listed
<1>4. CASE Done \/ JoinRequest \/ GetCommand
  BY <1>1, <1>2, <1>4 DEF Done, JoinRequest, GetCommand, NoCall
<1>5. ASSUME NEW r \in Requests, Uplink(r) PROVE JoinAcceptWhole'
  BY <1>2, <1>5 DEF Uplink
<1>6. ASSUME NEW d \in Downlinks, NEW lost \in Lost, Downlink(d, lost) PROVE JoinAcceptWhole'
  BY <1>2, <1>6 DEF Downlink
<1>7. CASE UNCHANGED vars
  BY <1>1, <1>7 DEF vars
<1>8. QED
  BY <1>3, <1>4, <1>5, <1>6, <1>7 DEF Next

\* A join accept is taken in its two sizes only, deciphered once, and read as it
\* was sent: LDL_OPS_receiveFrame() and LDL_Frame_decode() agree about the list.
THEOREM JoinAcceptsWhole == Spec => []JoinAcceptWhole
<1>1. Init => JoinAcceptWhole
  BY DEF Init, JoinAcceptWhole, Is, NoCall
<1>2. QED
  BY <1>1, AcceptNext, PTL DEF Spec

-----------------------------------------------------------------------------
(***************************************************************************)
(* What is written into a packet.                                          *)
(***************************************************************************)
LEMMA BegunOn ==
    ASSUME NEW b, NEW w, NEW m \in Nat, Begins(b, w, m), NEW c, HasAt(b, m, c), HasAt(w, m, c),
           NEW n, Size(c, n), NEW k, k = m + n, Len(b) \in Nat
    PROVE  Begins(b, w, k)
<1>1. n \in Nat /\ Len(c) = n
  BY DEF Size
<1>2. k <= Len(b)
  BY <1>1 DEF HasAt
<1>3. \A i \in 1..n : b[m + i] = w[m + i]
  BY <1>1 DEF HasAt
<1>4. ASSUME NEW i \in 1..k PROVE b[i] = w[i]
  <2>1. CASE i \in 1..m
    BY <2>1 DEF Begins
  <2>2. CASE i > m
    <3>1. i - m \in 1..n /\ m + (i - m) = i
      BY <1>1, <2>2
    <3>2. b[m + (i - m)] = w[m + (i - m)]
      BY <1>3, <3>1
    <3>3. QED
      BY <3>1, <3>2
  <2>3. QED
    BY <2>1, <2>2
<1>5. QED
  BY <1>2, <1>4 DEF Begins

LEMMA SameBytes ==
    ASSUME NEW b, NEW w, NEW n, Size(b, n), Size(w, n), Begins(b, w, n)
    PROVE  b = w
<1>1. b \in Seq(Int) /\ w \in Seq(Int) /\ Len(b) = n /\ Len(w) = n
  BY DEF Size
<1>2. \A i \in 1..n : b[i] = w[i]
  BY DEF Begins
<1>3. QED
  BY <1>1, <1>2, SameSeq

\* A packet is empty if its pieces do not fit, and else has them at their places.
Packed(pkt, max, pieces, at, N) ==
    /\ at[N] > max => pkt = <<>>
    /\ at[N] <= max =>
          /\ Size(pkt, at[N])
          /\ \A m \in 1..N : HasAt(pkt, at[m - 1], pieces[m])

LEMMA WholeWritten ==
    ASSUME NEW max \in Nat, NEW pieces \in Seq(Seq(Int)), NEW at, Places(at, 0, pieces),
           NEW N, N = Len(pieces)
    PROVE  Packed(Whole(WriteAll(Blank(max), pieces)), max, pieces, at, N)
<1> DEFINE s == Blank(max)
           r == WriteAll(s, pieces)
           pkt == Whole(r)
<1>1. s \in Strm /\ s.pos = 0 /\ Len(s.buf) = max /\ ~s.error
  BY DEF Blank, Stream, Strm
<1>2. N \in Nat /\ \A n \in 1..N : pieces[n] \in Seq(Int) /\ Len(pieces[n]) \in Nat
  OBVIOUS
<1>3. /\ \A n \in 0..N : at[n] \in Nat
      /\ \A n \in 1..N : at[n] = at[n - 1] + Len(pieces[n])
  BY DEF Places
<1> HIDE DEF s
<1>4. Holds(r, s, pieces, at, N)
  BY <1>1, PiecesWritten
<1> HIDE DEF r
<1>5. /\ r.buf \in Seq(Int) /\ Len(r.buf) = max /\ (r.error <=> at[N] > max) /\ at[N] \in Nat
      /\ ~r.error =>
          /\ r.pos = at[N]
          /\ \A m \in 1..N : \A i \in 1..Len(pieces[m]) : r.buf[at[m - 1] + i] = pieces[m][i]
  <2>1. /\ r.buf \in Seq(Int) /\ Len(r.buf) = max /\ (r.error <=> at[N] > max)
        /\ ~r.error =>
            /\ r.pos = at[N]
            /\ \A m \in 1..N : \A i \in 1..Len(pieces[m]) : r.buf[at[m - 1] + i] = pieces[m][i]
    BY <1>1, <1>4, SMTT(30) DEF Holds, Strm
  <2>2. at[N] \in Nat
    <3>1. N \in 0..N
      BY <1>2
    <3>2. QED
      BY <1>3, <3>1
  <2>3. QED
    BY <2>1, <2>2
<1>6. CASE at[N] > max
  <2>1. pkt = <<>>
    BY <1>5, <1>6 DEF Whole
  <2>2. ~(at[N] <= max)
    BY <1>5, <1>6
  <2> HIDE DEF pkt
  <2>3. Packed(pkt, max, pieces, at, N)
    BY <2>1, <2>2 DEF Packed
  <2>4. QED
    BY <2>3 DEF pkt, r, s
<1>7. CASE at[N] <= max
  <2>1. ~r.error /\ r.pos = at[N]
    BY <1>5, <1>7
  <2>2. pkt = SubSeq(r.buf, 0 + 1, 0 + at[N])
    BY <1>5, <2>1 DEF Whole, Written
  <2>3. 0 \in Nat /\ 0 + at[N] <= Len(r.buf)
    BY <1>5, <1>7
  <2>4. pkt \in Seq(Int) /\ Len(pkt) = at[N] /\ \A i \in 1..at[N] : pkt[i] = r.buf[0 + i]
    BY <1>5, <2>2, <2>3, PartFacts
  <2>5. ASSUME NEW m \in 1..N PROVE at[m] <= at[N]
    <3> DEFINE T == {n \in 0..N : n >= m => at[m] <= at[n]}
    <3>1. 0 \in T
      BY <1>2
    <3>2. ASSUME NEW n \in 1..N, n - 1 \in T PROVE n \in T
      <4>1. n \in 0..N /\ n - 1 \in 0..N /\ m \in 0..N
        BY <1>2
      <4>2. at[n] = at[n - 1] + Len(pieces[n]) /\ at[n] \in Nat /\ at[n - 1] \in Nat
            /\ at[m] \in Nat
            /\ Len(pieces[n]) \in Nat
        BY <1>2, <1>3, <4>1
      <4>3. at[n - 1] <= at[n]
        <5> DEFINE l == Len(pieces[n])
        <5>1. l \in Nat /\ at[n] = at[n - 1] + l
          BY <4>2
        <5> HIDE DEF l
        <5>2. QED
          BY <4>2, <5>1
      <4>4. CASE n = m
        BY <4>1, <4>2, <4>4
      <4>5. CASE n # m
        <5>1. n >= m => n - 1 >= m
          BY <1>2, <4>5
        <5>2. QED
          BY <3>2, <4>1, <4>2, <4>3, <5>1
      <4>6. QED
        BY <4>4, <4>5
    <3> HIDE DEF T
    <3>3. \A n \in 0..N : n \in T
      BY <1>2, <3>1, <3>2, UpTo
    <3>4. N \in 0..N /\ N >= m
      BY <1>2
    <3>5. QED
      BY <3>3, <3>4 DEF T
  <2> HIDE DEF pkt
  <2>6. ASSUME NEW m \in 1..N PROVE HasAt(pkt, at[m - 1], pieces[m])
    <3> DEFINE l == Len(pieces[m])
               u == at[m - 1]
               v == at[N]
    <3>1. l \in Nat /\ u \in Nat /\ v \in Nat /\ u + l <= v
      <4>1. m - 1 \in 0..N
        BY <1>2
      <4>2. QED
        BY <1>2, <1>3, <1>5, <2>5, <4>1
    <3>2. /\ Len(pkt) = v /\ \A i \in 1..v : pkt[i] = r.buf[0 + i]
          /\ \A i \in 1..l : r.buf[u + i] = pieces[m][i]
          /\ pieces[m] \in Seq(Int) /\ Len(pieces[m]) = l
      BY <1>2, <1>5, <2>1, <2>4
    <3> HIDE DEF l, u, v
    <3>3. ASSUME NEW i \in 1..l PROVE pkt[u + i] = pieces[m][i]
      <4>1. u + i \in 1..v /\ 0 + (u + i) = u + i
        BY <3>1
      <4>2. pkt[u + i] = r.buf[0 + (u + i)]
        BY <3>2, <4>1
      <4>3. QED
        BY <3>2, <4>1, <4>2
    <3>4. HasAt(pkt, u, pieces[m])
      BY <3>1, <3>2, <3>3 DEF HasAt
    <3>5. QED
      BY <3>4 DEF u
  <2>7. Size(pkt, at[N])
    BY <2>4 DEF Size
  <2>8. ~(at[N] > max)
    BY <1>5, <1>7
  <2>9. Packed(pkt, max, pieces, at, N)
    BY <2>6, <2>7, <2>8 DEF Packed
  <2>10. QED
    BY <2>9 DEF pkt, r, s
<1>8. QED
  BY <1>5, <1>6, <1>7

\* The MIC of a packet that has one takes the place of its last bytes.
Signed(q, pkt, n, mic) == Size(q, n) /\ Begins(q, pkt, n - 4) /\ HasAt(q, n - 4, LE(mic, 4))

LEMMA MicUpdated ==
    ASSUME NEW pkt, NEW n, Size(pkt, n), n > 4, NEW mic \in Nat
    PROVE  Signed(UpdateMIC(pkt, mic), pkt, n, mic)
<1> DEFINE s == SeekSet(Stream(pkt), n - 4)
           c == LE(mic, 4)
           r == Write(s, c)
           q == UpdateMIC(pkt, mic)
<1>1. pkt \in Seq(Int) /\ Len(pkt) = n /\ n \in Nat /\ n - 4 \in Nat /\ n - 4 <= n
  BY DEF Size
<1>2. s = At(pkt, n - 4)
  BY <1>1 DEF SeekSet, Stream, At
<1>3. q = r.buf
  BY <1>1 DEF UpdateMIC, MicSize
<1>4. s \in Strm /\ s.buf = pkt /\ s.pos = n - 4 /\ ~s.error
  <2>1. n - 4 <= Len(pkt)
    BY <1>1
  <2>2. QED
    BY <1>1, <1>2, <2>1, AtFacts
<1>5. c \in Seq(Int) /\ Len(c) = 4
  BY BytesOf
<1> HIDE DEF s, c
<1>6. /\ r \in Strm /\ Len(r.buf) = n
      /\ ~s.error => (r.error <=> n - 4 + 4 > n)
      /\ ~r.error => /\ \A i \in 1..(n - 4) : r.buf[i] = pkt[i]
                     /\ \A i \in 1..4 : r.buf[n - 4 + i] = c[i]
  <2>1. /\ r \in Strm /\ Len(r.buf) = Len(s.buf)
        /\ ~s.error => (r.error <=> s.pos + Len(c) > Len(s.buf))
        /\ ~r.error => /\ \A i \in 1..s.pos : r.buf[i] = s.buf[i]
                       /\ \A i \in 1..Len(c) : r.buf[s.pos + i] = c[i]
    BY <1>4, <1>5, WriteType
  <2> HIDE DEF r
  <2>2. QED
    BY <1>1, <1>4, <1>5, <2>1
<1> HIDE DEF r
<1>7. ~r.error
  BY <1>1, <1>4, <1>6
<1>8. r.buf \in Seq(Int)
  BY <1>6 DEF Strm
<1>9. Size(r.buf, n)
  BY <1>6, <1>8 DEF Size
<1>10. Begins(r.buf, pkt, n - 4)
  BY <1>1, <1>6, <1>7 DEF Begins
<1>11. HasAt(r.buf, n - 4, c)
  BY <1>1, <1>5, <1>6, <1>7 DEF HasAt
<1>12. QED
  BY <1>3, <1>9, <1>10, <1>11 DEF Signed, c

LEMMA HeaderOf ==
    /\ MHDR("JOIN_REQ") = <<0>>
    /\ MHDR("DATA_UNCONFIRMED_UP") = <<64>>
    /\ MHDR("DATA_CONFIRMED_UP") = <<128>>
<1>1. (CHOOSE i \in 0..6 : FrameTypes[i + 1] = "JOIN_REQ") = 0
  BY DEF FrameTypes
<1>2. (CHOOSE i \in 0..6 : FrameTypes[i + 1] = "DATA_UNCONFIRMED_UP") = 2
  BY DEF FrameTypes
<1>3. (CHOOSE i \in 0..6 : FrameTypes[i + 1] = "DATA_CONFIRMED_UP") = 4
  BY DEF FrameTypes
<1>4. MHDR("JOIN_REQ") = <<32 * 0>> /\ MHDR("DATA_UNCONFIRMED_UP") = <<32 * 2>>
      /\ MHDR("DATA_CONFIRMED_UP") = <<32 * 4>>
  BY <1>1, <1>2, <1>3, Zenon DEF MHDR
<1>5. QED
  BY <1>4

RequestBytes(nonce) ==
    <<0>> \o Reverse(JoinEUI) \o Reverse(DevEUI) \o LE(nonce, 2) \o LE(MicBytes, 4)

RequestParts(w, n, nonce) ==
    /\ Size(w, 23) /\ HasAt(w, 0, <<0>>) /\ HasAt(w, 1, Reverse(JoinEUI))
    /\ HasAt(w, 9, Reverse(DevEUI)) /\ HasAt(w, 17, LE(nonce, 2))
    /\ HasAt(w, 19, LE(n, 4))

LEMMA RequestSizes ==
    ASSUME NEW nonce \in Nat
    PROVE  /\ Size(<<0>>, 1)
           /\ Size(Reverse(JoinEUI), 8) /\ Size(Reverse(DevEUI), 8)
           /\ Size(LE(nonce, 2), 2) /\ Size(LE(0, 4), 4)
           /\ Size(LE(MicBytes, 4), 4)
<1>1. Size(<<0>>, 1)
  BY DEF Size
<1>2. Size(Reverse(JoinEUI), 8) /\ Size(Reverse(DevEUI), 8)
  BY DEF Size, Reverse, JoinEUI, DevEUI
<1>3. Size(LE(nonce, 2), 2) /\ Size(LE(0, 4), 4)
  BY BytesOf DEF Size
<1>4. QED
  BY <1>1, <1>2, <1>3, AcceptParts

LEMMA RequestWhole ==
    ASSUME NEW nonce \in Nat
    PROVE  RequestParts(RequestBytes(nonce), MicBytes, nonce)
<1> DEFINE head == <<0>>
           ej   == Reverse(JoinEUI)
           ed   == Reverse(DevEUI)
           no   == LE(nonce, 2)
           mic  == LE(MicBytes, 4)
           a == head \o ej
           b == a \o ed
           c == b \o no
           w == c \o mic
<1>1. w = RequestBytes(nonce)
  BY DEF RequestBytes
<1>2. Size(head, 1) /\ Size(ej, 8) /\ Size(ed, 8)
      /\ Size(no, 2) /\ Size(mic, 4)
  BY RequestSizes
<1> HIDE DEF head, ej, ed, no, mic, a, b, c, w
<1>3. Size(a, 9) /\ HasAt(a, 1, ej) /\ HasAt(a, 0, head)
  <2>1. Both(a, head, ej, 1, 9)
    BY <1>2, 9 = 1 + 8, HasJoined, SMTT(30) DEF a
  <2>2. QED
    BY <2>1 DEF Both
<1>4. Size(b, 17) /\ HasAt(b, 9, ed) /\ HasAt(b, 0, a)
  <2>1. Both(b, a, ed, 9, 17)
    BY <1>2, <1>3, 17 = 9 + 8, HasJoined, SMTT(30) DEF b
  <2>2. QED
    BY <2>1 DEF Both
<1>5. Size(c, 19) /\ HasAt(c, 17, no) /\ HasAt(c, 0, b)
  <2>1. Both(c, b, no, 17, 19)
    BY <1>2, <1>4, 19 = 17 + 2, HasJoined, SMTT(30) DEF c
  <2>2. QED
    BY <2>1 DEF Both
<1>6. Size(w, 23) /\ HasAt(w, 19, mic) /\ HasAt(w, 0, c)
  <2>1. Both(w, c, mic, 19, 23)
    BY <1>2, <1>5, 23 = 19 + 4, HasJoined, SMTT(30) DEF w
  <2>2. QED
    BY <2>1 DEF Both
<1>7. ASSUME NEW p \in Nat, NEW x, HasAt(c, p, x) PROVE HasAt(w, p, x)
  BY <1>6, <1>7, HasStill
<1>8. ASSUME NEW p \in Nat, NEW x, HasAt(b, p, x) PROVE HasAt(w, p, x)
  BY <1>5, <1>7, <1>8, HasStill
<1>9. ASSUME NEW p \in Nat, NEW x, HasAt(a, p, x) PROVE HasAt(w, p, x)
  BY <1>4, <1>8, <1>9, HasStill
<1>10. HasAt(w, 0, head) /\ HasAt(w, 1, ej) /\ HasAt(w, 9, ed) /\ HasAt(w, 17, no)
  BY <1>3, <1>4, <1>5, <1>7, <1>8, <1>9
<1>11. RequestParts(w, MicBytes, nonce)
  BY <1>6, <1>10 DEF RequestParts, head, ej, ed, no, mic
<1>12. QED
  BY <1>1, <1>11

\* The packet before its MIC.
RequestPieces(nonce) ==
    <<MHDR("JOIN_REQ"), PutEUI(JoinEUI), PutEUI(DevEUI), LE(nonce, 2), LE(0, 4)>>

LEMMA RequestWritten ==
    ASSUME NEW nonce \in Nat, NEW max \in Nat, 23 <= max
    PROVE  RequestParts(Whole(WriteAll(Blank(max), RequestPieces(nonce))), 0, nonce)
<1> DEFINE head == <<0>>
           ej   == Reverse(JoinEUI)
           ed   == Reverse(DevEUI)
           no   == LE(nonce, 2)
           mic  == LE(0, 4)
           ps   == <<head, ej, ed, no, mic>>
           at   == [n \in 0..5 |-> IF n = 0 THEN 0 ELSE IF n = 1 THEN 1 ELSE IF n = 2 THEN 9
                                   ELSE IF n = 3 THEN 17 ELSE IF n = 4 THEN 19 ELSE 23]
           pkt  == Whole(WriteAll(Blank(max), ps))
<1>1. ps = RequestPieces(nonce)
  BY HeaderOf DEF RequestPieces, PutEUI
<1>2. /\ Size(head, 1) /\ Size(ej, 8) /\ Size(ed, 8)
      /\ Size(no, 2) /\ Size(mic, 4)
  BY RequestSizes
<1> HIDE DEF head, ej, ed, no, mic
<1>3. ps \in Seq(Seq(Int)) /\ 5 = Len(ps)
      /\ ps[1] = head /\ ps[2] = ej /\ ps[3] = ed /\ ps[4] = no /\ ps[5] = mic
  BY <1>2 DEF Size
<1>4. /\ at \in [0..5 -> Nat] /\ at[0] = 0 /\ at[1] = 1 /\ at[2] = 9 /\ at[3] = 17
      /\ at[4] = 19 /\ at[5] = 23
  OBVIOUS
<1>5. Len(ps[1]) = 1 /\ Len(ps[2]) = 8 /\ Len(ps[3]) = 8 /\ Len(ps[4]) = 2 /\ Len(ps[5]) = 4
  BY <1>2, <1>3 DEF Size
<1> HIDE DEF ps, at
<1>6. Places(at, 0, ps)
  <2>1. \A n \in 1..5 : n = 1 \/ n = 2 \/ n = 3 \/ n = 4 \/ n = 5
    OBVIOUS
  <2>2. /\ at[1] = at[1 - 1] + Len(ps[1]) /\ at[2] = at[2 - 1] + Len(ps[2])
        /\ at[3] = at[3 - 1] + Len(ps[3]) /\ at[4] = at[4 - 1] + Len(ps[4])
        /\ at[5] = at[5 - 1] + Len(ps[5])
    <3>1. 1 - 1 = 0 /\ 2 - 1 = 1 /\ 3 - 1 = 2 /\ 4 - 1 = 3 /\ 5 - 1 = 4
      OBVIOUS
    <3>2. at[0] + 1 = 1 /\ at[1] + 8 = 9 /\ at[2] + 8 = 17 /\ at[3] + 2 = 19 /\ at[4] + 4 = 23
      BY <1>4
    <3>3. QED
      BY <1>4, <1>5, <3>1, <3>2
  <2>3. \A n \in 1..5 : at[n] = at[n - 1] + Len(ps[n])
    BY <2>1, <2>2
  <2>4. QED
    BY <1>3, <1>4, <2>3 DEF Places
<1>7. Packed(pkt, max, ps, at, 5)
  BY <1>3, <1>6, WholeWritten
<1> HIDE DEF pkt
<1>8. Size(pkt, 23) /\ \A m \in 1..5 : HasAt(pkt, at[m - 1], ps[m])
  BY <1>4, <1>7 DEF Packed
<1>9. /\ HasAt(pkt, at[1 - 1], ps[1]) /\ HasAt(pkt, at[2 - 1], ps[2])
      /\ HasAt(pkt, at[3 - 1], ps[3])
      /\ HasAt(pkt, at[4 - 1], ps[4]) /\ HasAt(pkt, at[5 - 1], ps[5])
  BY <1>8
<1>10. 1 - 1 = 0 /\ 2 - 1 = 1 /\ 3 - 1 = 2 /\ 4 - 1 = 3 /\ 5 - 1 = 4
  OBVIOUS
<1>11. HasAt(pkt, 0, head) /\ HasAt(pkt, 1, ej) /\ HasAt(pkt, 9, ed) /\ HasAt(pkt, 17, no)
       /\ HasAt(pkt, 19, mic)
  BY <1>3, <1>4, <1>9, <1>10
<1>12. RequestParts(pkt, 0, nonce)
  BY <1>8, <1>11 DEF RequestParts, head, ej, ed, no, mic
<1>13. QED
  BY <1>1, <1>12 DEF pkt

LEMMA RequestSent ==
    ASSUME NEW nonce \in Nat, NEW max \in Nat, 23 <= max
    PROVE  UpdateMIC(Whole(WriteAll(Blank(max), RequestPieces(nonce))), MicBytes)
              = RequestBytes(nonce)
<1> DEFINE pkt == Whole(WriteAll(Blank(max), RequestPieces(nonce)))
           q   == UpdateMIC(pkt, MicBytes)
           w   == RequestBytes(nonce)
           head == <<0>>
           ej   == Reverse(JoinEUI)
           ed   == Reverse(DevEUI)
           no   == LE(nonce, 2)
           mic  == LE(MicBytes, 4)
           v    == MicBytes
<1>1. RequestParts(pkt, 0, nonce) /\ RequestParts(w, v, nonce)
  BY RequestWritten, RequestWhole
<1>2. /\ Size(head, 1) /\ Size(ej, 8) /\ Size(ed, 8)
      /\ Size(no, 2) /\ Size(mic, 4)
  BY RequestSizes
<1>3. v \in Nat /\ 23 > 4 /\ 23 - 4 = 19
  BY DEF MicBytes
<1>4. Size(pkt, 23) /\ HasAt(pkt, 0, head) /\ HasAt(pkt, 1, ej) /\ HasAt(pkt, 9, ed)
      /\ HasAt(pkt, 17, no)
  BY <1>1 DEF RequestParts
<1>5. Size(w, 23) /\ HasAt(w, 0, head) /\ HasAt(w, 1, ej) /\ HasAt(w, 9, ed) /\ HasAt(w, 17, no)
      /\ HasAt(w, 19, mic)
  BY <1>1 DEF RequestParts
<1> HIDE DEF v, pkt, w
<1>6. Signed(UpdateMIC(pkt, v), pkt, 23, v)
  BY <1>3, <1>4, MicUpdated
<1>7. q = UpdateMIC(pkt, v) /\ mic = LE(v, 4)
  BY DEF v
<1> HIDE DEF q, head, ej, ed, no, mic
<1>8. Size(q, 23) /\ Begins(q, pkt, 19) /\ HasAt(q, 19, mic)
  BY <1>3, <1>6, <1>7 DEF Signed
<1>9. 0 \in Nat /\ 1 \in Nat /\ 9 \in Nat /\ 17 \in Nat /\ 19 \in Nat
  OBVIOUS
<1>10. HasAt(q, 0, head) /\ HasAt(q, 1, ej) /\ HasAt(q, 9, ed) /\ HasAt(q, 17, no)
  <2>1. 0 + 1 <= 19 /\ 1 + 8 <= 19 /\ 9 + 8 <= 19 /\ 17 + 2 <= 19
    OBVIOUS
  <2>2. HasAt(q, 0, head)
    BY <1>2, <1>4, <1>8, <1>9, <2>1, BegunAt, SMTT(30)
  <2>3. HasAt(q, 1, ej) /\ HasAt(q, 9, ed)
    BY <1>2, <1>4, <1>8, <1>9, <2>1, BegunAt, SMTT(30)
  <2>4. HasAt(q, 17, no)
    BY <1>2, <1>4, <1>8, <1>9, <2>1, BegunAt, SMTT(30)
  <2>5. QED
    BY <2>2, <2>3, <2>4
<1>11. Begins(q, w, 0) /\ Len(q) \in Nat
  BY <1>8 DEF Begins, Size
<1>12. Begins(q, w, 1)
  BY <1>2, <1>5, <1>9, <1>10, <1>11, 1 = 0 + 1, BegunOn, SMTT(30)
<1>13. Begins(q, w, 9)
  BY <1>2, <1>5, <1>9, <1>10, <1>11, <1>12, 9 = 1 + 8, BegunOn, SMTT(30)
<1>14. Begins(q, w, 17)
  BY <1>2, <1>5, <1>9, <1>10, <1>11, <1>13, 17 = 9 + 8, BegunOn, SMTT(30)
<1>15. Begins(q, w, 19)
  BY <1>2, <1>5, <1>9, <1>10, <1>11, <1>14, 19 = 17 + 2, BegunOn, SMTT(30)
<1>16. Begins(q, w, 23)
  BY <1>2, <1>5, <1>8, <1>9, <1>10, <1>11, <1>15, 23 = 19 + 4, BegunOn, SMTT(30)
<1>17. q = w
  BY <1>5, <1>8, <1>16, SameBytes
<1>18. QED
  BY <1>17 DEF q, w, pkt

RequestInv == (Is("JoinRequest") => stage = "JOINING") /\ JoinRequestReadBack

LEMMA RequestNext ==
    ASSUME 23 <= MaxPacket
    PROVE  KeyInv /\ RequestInv /\ [Next]_vars => RequestInv'
<1> SUFFICES ASSUME KeyInv, RequestInv, [Next]_vars PROVE RequestInv'
  OBVIOUS
<1>1. CASE UNCHANGED <<last, joins, stage>>
  BY <1>1 DEF RequestInv, JoinRequestReadBack, Is
<1>2. CASE last'.call # "JoinRequest"
  BY <1>2 DEF RequestInv, JoinRequestReadBack, Is
<1>3. ASSUME JoinRequest PROVE RequestInv'
  <2> DEFINE f == [joinEUI |-> JoinEUI, devEUI |-> DevEUI, devNonce |-> joins, mic |-> 0]
  <2>1. /\ last'.pkt = UpdateMIC(PutJoinRequest(f, MaxPacket), MicBytes)
        /\ stage' = "JOINING" /\ joins' = joins
    BY <1>3 DEF JoinRequest
  <2>2. joins \in Nat /\ MaxPacket \in Nat
    BY CodecAssumption DEF KeyInv
  <2>3. f.joinEUI = JoinEUI /\ f.devEUI = DevEUI /\ f.devNonce = joins /\ f.mic = 0
    OBVIOUS
  <2> HIDE DEF f
  <2>4. PutJoinRequest(f, MaxPacket) = Whole(WriteAll(Blank(MaxPacket), RequestPieces(joins)))
    BY <2>3, Zenon DEF PutJoinRequest, RequestPieces
  <2>5. last'.pkt = RequestBytes(joins)
    BY <2>1, <2>2, <2>4, RequestSent
  <2>6. QED
    BY <2>1, <2>5 DEF RequestInv, JoinRequestReadBack, RequestBytes
<1>4. ASSUME NEW optNeg \in BOOLEAN, NEW listed \in BOOLEAN, NEW len \in JoinLengths,
             JoinAccept(optNeg, listed, len)
      PROVE  RequestInv'
  BY <1>2, <1>4 DEF JoinAccept
<1>5. CASE Done
  BY <1>2, <1>5 DEF Done, NoCall
<1>6. CASE GetCommand
  <2>1. last' = last /\ stage = "COMMANDS"
    BY <1>6 DEF GetCommand
  <2>2. last'.call # "JoinRequest"
    BY <2>1 DEF RequestInv, Is
  <2>3. QED
    BY <1>2, <2>2
<1>7. ASSUME NEW r \in Requests, Uplink(r) PROVE RequestInv'
  BY <1>2, <1>7 DEF Uplink
<1>8. ASSUME NEW d \in Downlinks, NEW lost \in Lost, Downlink(d, lost) PROVE RequestInv'
  BY <1>2, <1>8 DEF Downlink
<1>9. CASE UNCHANGED vars
  BY <1>1, <1>9 DEF vars
<1>10. QED
  BY <1>3, <1>4, <1>5, <1>6, <1>7, <1>8, <1>9 DEF Next

\* A join request reads as what the network expects of one, if a packet has room
\* for it.
THEOREM JoinRequestsReadBack ==
    ASSUME 23 <= MaxPacket
    PROVE  Spec => []JoinRequestReadBack
<1>1. Init => RequestInv
  BY DEF Init, RequestInv, JoinRequestReadBack, Is, NoCall
<1>2. KeyInv /\ RequestInv /\ [Next]_vars => RequestInv'
  BY RequestNext
<1>3. RequestInv => JoinRequestReadBack
  BY DEF RequestInv
<1>4. QED
  BY <1>1, <1>2, <1>3, KeyInvariant, PTL DEF Spec

-----------------------------------------------------------------------------
(***************************************************************************)
(* CMAC.                                                                   *)
(***************************************************************************)
LEMMA BySixteen ==
    ASSUME NEW n \in Nat
    PROVE  /\ n \div 16 \in Nat /\ n % 16 \in 0..15
           /\ n = 16 * (n \div 16) + (n % 16)
<1>1. n \div 16 \in Nat
  OBVIOUS
<1>2. n % 16 \in 0..15
  OBVIOUS
<1>3. n = 16 * (n \div 16) + (n % 16)
  OBVIOUS
<1>4. QED
  BY <1>1, <1>2, <1>3

Block16(m, b) == SubSeq(m, (b - 1) * BlockSize + 1, b * BlockSize)

\* The blocks of a message of len bytes but the last, whole or not.
NotLast(len) == IF len = 0 THEN 0 ELSE (len - 1) \div BlockSize

LEMMA NotLastIs ==
    ASSUME NEW n \in Nat
    PROVE  /\ NotLast(n) \in Nat /\ 16 * NotLast(n) <= n
           /\ n = 0 => NotLast(n) = 0
           /\ n > 0 => n - 16 * NotLast(n) \in 1..16
<1>1. CASE n = 0
  BY <1>1 DEF NotLast
<1>2. CASE n > 0
  <2>1. n - 1 \in Nat /\ NotLast(n) = (n - 1) \div 16
    BY <1>2 DEF NotLast, BlockSize
  <2>2. /\ (n - 1) \div 16 \in Nat /\ (n - 1) % 16 \in 0..15
        /\ n - 1 = 16 * ((n - 1) \div 16) + ((n - 1) % 16)
    BY <2>1, BySixteen
  <2>3. QED
    BY <1>2, <2>1, <2>2
<1>3. QED
  BY <1>1, <1>2

\* c is the block of m after its first p bytes.
BlockOf(c, m, p) == Size(c, 16) /\ \A i \in 1..16 : c[i] = m[p + i]

LEMMA BlockIs ==
    ASSUME NEW c, NEW m \in Seq(Int), NEW b \in Nat, b > 0, NEW p, p = 16 * (b - 1),
           p + 16 <= Len(m)
    PROVE  /\ BlockOf(Block16(m, b), m, p)
           /\ BlockOf(c, m, p) => c = Block16(m, b)
<1> DEFINE d == Block16(m, b)
<1>1. p \in Nat /\ 16 \in Nat /\ (b - 1) * 16 + 1 = p + 1 /\ b * 16 = p + 16
  OBVIOUS
<1>2. d = SubSeq(m, p + 1, p + 16)
  BY <1>1 DEF Block16, BlockSize
<1>3. d \in Seq(Int) /\ Len(d) = 16 /\ \A i \in 1..16 : d[i] = m[p + i]
  BY <1>1, <1>2, PartFacts
<1> HIDE DEF d
<1>4. BlockOf(d, m, p)
  BY <1>3 DEF BlockOf, Size
<1>5. ASSUME BlockOf(c, m, p) PROVE c = d
  <2>1. Size(c, 16) /\ Size(d, 16)
    BY <1>4, <1>5 DEF BlockOf
  <2>2. \A i \in 1..16 : c[i] = d[i]
    BY <1>4, <1>5 DEF BlockOf
  <2>3. 16 <= Len(c)
    BY <2>1 DEF Size
  <2>4. Begins(c, d, 16)
    BY <2>2, <2>3 DEF Begins
  <2>5. QED
    BY <2>1, <2>4, SameBytes
<1>6. QED
  BY <1>4, <1>5 DEF d

\* c is the n bytes of b after its first p.
PartIs(c, b, p, n) == Size(c, n) /\ \A i \in 1..n : c[i] = b[p + i]

LEMMA PartOfSize ==
    ASSUME NEW b, NEW k, Size(b, k), NEW p \in Nat, NEW n \in Nat, p + n <= k
    PROVE  PartIs(SubSeq(b, p + 1, p + n), b, p, n)
<1>1. b \in Seq(Int) /\ p + n <= Len(b)
  BY DEF Size
<1>2. /\ SubSeq(b, p + 1, p + n) \in Seq(Int) /\ Len(SubSeq(b, p + 1, p + n)) = n
      /\ \A i \in 1..n : SubSeq(b, p + 1, p + n)[i] = b[p + i]
  BY <1>1, PartFacts
<1>3. QED
  BY <1>2 DEF PartIs, Size

\* The part of a block that is overwritten.
LEMMA Overwritten ==
    ASSUME NEW m, Size(m, 16), NEW part \in Nat, NEW in, NEW k, Size(in, k), part + k <= 16
    PROVE  /\ Size(Overwrite(m, part, in), 16)
           /\ \A i \in 1..part : Overwrite(m, part, in)[i] = m[i]
           /\ \A i \in 1..k : Overwrite(m, part, in)[part + i] = in[i]
<1> DEFINE a == SubSeq(m, 0 + 1, 0 + part)
           t == SubSeq(m, (part + k) + 1, (part + k) + (16 - (part + k)))
           h == a \o in
           o == h \o t
<1>1. k \in Nat /\ 0 \in Nat /\ part + k \in Nat /\ 16 - (part + k) \in Nat /\ Len(in) = k
  BY DEF Size
<1>2. o = Overwrite(m, part, in)
  <2>1. 0 + 1 = 1 /\ 0 + part = part /\ (part + k) + (16 - (part + k)) = 16
    BY <1>1
  <2>2. QED
    BY <1>1, <2>1 DEF Overwrite, BlockSize
<1>3. PartIs(a, m, 0, part)
  BY <1>1, 0 + part <= 16, PartOfSize
<1>4. Size(t, 16 - (part + k))
  <2> DEFINE u == part + k
             v == 16 - (part + k)
  <2>1. u \in Nat /\ v \in Nat /\ u + v <= 16
    BY <1>1
  <2>2. t = SubSeq(m, u + 1, u + v)
    OBVIOUS
  <2> HIDE DEF u, v, t
  <2>3. PartIs(t, m, u, v)
    BY <2>1, <2>2, PartOfSize
  <2>4. QED
    BY <2>3 DEF v, PartIs
<1> HIDE DEF a, t, h, o
<1>5. Concat(h, a, in, part, k)
  BY <1>3, JoinedAs DEF h, PartIs, Size
<1>6. h \in Seq(Int) /\ Len(h) = part + k
      /\ (\A i \in 1..part : h[i] = a[i]) /\ (\A i \in 1..k : h[part + i] = in[i])
  BY <1>5 DEF Concat
<1>7. Concat(o, h, t, part + k, 16 - (part + k))
  BY <1>4, <1>6, JoinedAs DEF o, Size
<1>8. o \in Seq(Int) /\ Len(o) = 16 /\ \A i \in 1..(part + k) : o[i] = h[i]
  BY <1>1, <1>7 DEF Concat
<1>9. ASSUME NEW i \in 1..part PROVE o[i] = m[i]
  <2>1. i \in 1..(part + k) /\ 0 + i = i
    BY <1>1
  <2>2. a[i] = m[0 + i]
    BY <1>3 DEF PartIs
  <2>3. QED
    BY <1>6, <1>8, <2>1, <2>2
<1>10. ASSUME NEW i \in 1..k PROVE o[part + i] = in[i]
  <2>1. part + i \in 1..(part + k)
    BY <1>1
  <2>2. QED
    BY <1>6, <1>8, <2>1
<1>11. Size(o, 16)
  BY <1>8 DEF Size
<1>12. QED
  BY <1>2, <1>9, <1>10, <1>11

\* What a context knows of a message of len bytes.
Absorbed(ctx, m, len) ==
    /\ ctx.x \in Seq(Seq(Int)) /\ Len(ctx.x) = NotLast(len)
    /\ \A b \in 1..NotLast(len) : ctx.x[b] = Block16(m, b)
    /\ Size(ctx.m, 16)
    /\ \A i \in 1..(len - 16 * NotLast(len)) : ctx.m[i] = m[16 * NotLast(len) + i]
    /\ ctx.size = len % 256

LEMMA JoinedBlocks ==
    ASSUME NEW a \in Seq(Seq(Int)), NEW b \in Seq(Seq(Int))
    PROVE  /\ a \o b \in Seq(Seq(Int)) /\ Len(a \o b) = Len(a) + Len(b)
           /\ \A i \in 1..Len(a) : (a \o b)[i] = a[i]
           /\ \A i \in 1..Len(b) : (a \o b)[Len(a) + i] = b[i]
OBVIOUS

\* The blocks of a message, after some that are cut off.
LEMMA Blocks ==
    ASSUME NEW m, NEW len \in Nat, NEW in, NEW k, Size(m, len), Size(in, k), NEW b \in Nat, b > 0,
           16 * b <= len
    PROVE  Block16(m \o in, b) = Block16(m, b)
<1> DEFINE mm == m \o in
           p  == 16 * (b - 1)
           c  == Block16(m, b)
<1>1. m \in Seq(Int) /\ p \in Nat /\ p + 16 <= Len(m) /\ k \in Nat /\ p = 16 * (b - 1)
  BY DEF Size
<1>2. BlockOf(c, m, p)
  BY <1>1, BlockIs
<1>3. Both(mm, m, in, len, len + k)
  BY HasJoined
<1> HIDE DEF mm, p, c
<1>4. mm \in Seq(Int) /\ Len(mm) = len + k /\ \A i \in 1..len : mm[0 + i] = m[i]
  BY <1>3 DEF Both, Size, HasAt
<1>5. p + 16 <= Len(mm) /\ p + 16 <= len
  BY <1>1, <1>4 DEF p
<1>6. \A i \in 1..16 : p + i \in 1..len /\ 0 + (p + i) = p + i
  BY <1>1, <1>5
<1>7. \A i \in 1..16 : m[p + i] = mm[p + i]
  BY <1>4, <1>6
<1>8. BlockOf(c, mm, p)
  BY <1>2, <1>7 DEF BlockOf
<1>9. c = Block16(mm, b)
  BY <1>1, <1>4, <1>5, <1>8, BlockIs
<1>10. QED
  BY <1>9 DEF mm, c

LEMMA CmacAbsorbs ==
    ASSUME NEW ctx, NEW m, NEW len \in 0..255, Size(m, len), Absorbed(ctx, m, len),
           NEW in, NEW k, Size(in, k), k > 0, NEW t, t = len + k
    PROVE  Absorbed(CmacUpdate(ctx, in), m \o in, t)
<1> DEFINE part     == ctx.size % BlockSize
           cached   == part = 0 /\ ctx.size > 0
           n        == NewBlocks(part, Len(in))
           Used(b)  == IF b = 0 THEN 0 ELSE BlockSize * b - part
           Block(b) == IF b = 1 THEN Overwrite(ctx.m, part, SubSeq(in, 1, Used(1)))
                                ELSE SubSeq(in, Used(b - 1) + 1, Used(b))
           old == NotLast(len)
           q   == len \div 16
           mm  == m \o in
           new == [b \in 1..n |-> Block(b)]
           mid == IF cached THEN <<ctx.m>> ELSE <<>>
           xm  == ctx.x \o mid
           x   == xm \o new
           rest == IF n > 0 THEN Overwrite(Block(n), 0, SubSeq(in, Used(n) + 1, Len(in)))
                            ELSE Overwrite(ctx.m, part, in)
           r   == [x |-> x, m |-> rest, size |-> (ctx.size + Len(in)) % 256]
<1>1. in # <<>> /\ k \in Nat /\ Len(in) = k
  BY DEF Size
<1>2. CmacUpdate(ctx, in) = r
  BY <1>1 DEF CmacUpdate
<1>3. len \in Nat /\ ctx.size = len /\ part = len % 16
  <2>1. len \in Nat /\ len % 256 = len
    OBVIOUS
  <2>2. ctx.size = len % 256
    BY DEF Absorbed
  <2>3. QED
    BY <2>1, <2>2 DEF BlockSize
<1>4. q \in Nat /\ part \in 0..15 /\ len = 16 * q + part
  <2>1. len \div 16 \in Nat /\ len % 16 \in 0..15 /\ len = 16 * (len \div 16) + (len % 16)
    BY <1>3, BySixteen
  <2>2. QED
    BY <1>3, <2>1
<1>5. n = (part + k - 1) \div 16
  BY <1>1 DEF NewBlocks, BlockSize
<1>6. cached <=> part = 0 /\ len > 0
  BY <1>3
<1>7. r.size = t % 256
  BY <1>1, <1>3
<1> HIDE DEF part, q
<1>8. n \in Nat /\ part + k - 16 * n \in 1..16
  <2> DEFINE z == part + k - 1
  <2>1. z \in Nat
    BY <1>1, <1>4
  <2>2. z \div 16 \in Nat /\ z % 16 \in 0..15 /\ z = 16 * (z \div 16) + (z % 16)
    BY <2>1, BySixteen
  <2>3. n = z \div 16
    BY <1>5
  <2> HIDE DEF z, n
  <2>4. n \in Nat /\ z - 16 * n \in 0..15
    BY <2>1, <2>2, <2>3
  <2>5. QED
    BY <1>1, <1>4, <2>4 DEF z
<1> HIDE DEF n
<1>9. t \in Nat /\ t > 0 /\ NotLast(t) = q + n
  <2>1. t \in Nat /\ t > 0
    BY <1>1, <1>3
  <2>2. NotLast(t) \in Nat /\ t - 16 * NotLast(t) \in 1..16
    BY <2>1, NotLastIs
  <2>3. t - 16 * (q + n) \in 1..16
    BY <1>1, <1>4, <1>8
  <2>4. QED
    BY <1>4, <1>8, <2>1, <2>2, <2>3
<1>10. /\ old \in Nat /\ (cached => q = old + 1 /\ len = 16 * q) /\ (~cached => q = old)
       /\ len = 0 => old = 0
  <2>1. NotLast(len) \in Nat /\ (len = 0 => NotLast(len) = 0)
        /\ (len > 0 => len - 16 * NotLast(len) \in 1..16)
    BY <1>3, NotLastIs
  <2> HIDE DEF old
  <2>2. old \in Nat /\ (len = 0 => old = 0) /\ (len > 0 => len - 16 * old \in 1..16)
    BY <2>1 DEF old
  <2>3. CASE len = 0
    BY <1>3, <1>4, <1>6, <2>2, <2>3
  <2>4. CASE len > 0
    BY <1>3, <1>4, <1>6, <2>2, <2>4
  <2>5. QED
    BY <1>3, <2>3, <2>4
<1>11. /\ Size(mm, t) /\ \A i \in 1..len : mm[i] = m[i]
       /\ \A i \in 1..k : mm[len + i] = in[i]
  <2>1. Both(mm, m, in, len, t)
    BY HasJoined
  <2> HIDE DEF mm
  <2>2. Size(mm, t) /\ \A i \in 1..k : mm[len + i] = in[i]
    BY <1>1, <2>1 DEF Both, HasAt
  <2>3. \A i \in 1..Len(m) : mm[0 + i] = m[i]
    BY <2>1 DEF Both, HasAt
  <2>4. Len(m) = len /\ \A i \in 1..len : 0 + i = i
    BY DEF Size
  <2>5. QED
    BY <2>2, <2>3, <2>4
<1>12. /\ Size(ctx.m, 16) /\ \A i \in 1..part : ctx.m[i] = mm[16 * q + i]
       /\ cached => \A i \in 1..16 : ctx.m[i] = m[16 * (q - 1) + i]
  <2> HIDE DEF old, mm, cached
  <2>1. Size(ctx.m, 16) /\ \A i \in 1..(len - 16 * old) : ctx.m[i] = m[16 * old + i]
    BY DEF Absorbed, old
  <2>2. ASSUME NEW i \in 1..part PROVE ctx.m[i] = mm[16 * q + i]
    <3>1. q = old
      BY <1>4, <1>6, <1>10, <2>2
    <3>2. i \in 1..(len - 16 * old) /\ 16 * q + i \in 1..len
      BY <1>4, <2>2, <3>1
    <3>3. ctx.m[i] = m[16 * q + i] /\ mm[16 * q + i] = m[16 * q + i]
      BY <1>11, <2>1, <3>1, <3>2
    <3>4. QED
      BY <3>3
  <2>3. ASSUME cached, NEW i \in 1..16 PROVE ctx.m[i] = m[16 * (q - 1) + i]
    <3>1. old = q - 1 /\ len - 16 * old = 16
      BY <1>4, <1>10, <2>3
    <3>2. QED
      BY <2>1, <3>1
  <2>4. QED
    BY <2>1, <2>2, <2>3
<1>13. ASSUME NEW b \in 1..n PROVE BlockOf(Block(b), mm, 16 * (q + b - 1))
  <2> HIDE DEF mm
  <2>1. b \in Nat /\ b >= 1 /\ 16 * b <= part + k - 1
    BY <1>1, <1>4, <1>8
  <2>2. CASE b = 1
    <3> DEFINE u == 16 - part
               c == SubSeq(in, 0 + 1, 0 + u)
               o == Overwrite(ctx.m, part, c)
    <3>1. u \in Nat /\ 0 \in Nat /\ 0 + u <= k /\ 0 + 1 = 1 /\ 0 + u = u
          /\ part \in Nat /\ part + u <= 16
      BY <1>1, <1>4, <2>1, <2>2
    <3>9. part + u = 16
      BY <1>4
    <3>2. Block(b) = o
      BY <2>2, <3>1 DEF BlockSize
    <3> HIDE DEF u
    <3>3. PartIs(c, in, 0, u)
      BY <3>1, PartOfSize
    <3> HIDE DEF c
    <3>4. Size(c, u) /\ \A j \in 1..u : c[j] = in[0 + j]
      BY <3>3 DEF PartIs
    <3>5. /\ Size(o, 16) /\ \A j \in 1..part : o[j] = ctx.m[j]
          /\ \A j \in 1..u : o[part + j] = c[j]
      <4>1. Size(ctx.m, 16) /\ Size(c, u) /\ part \in Nat /\ part + u <= 16
        BY <1>12, <3>1, <3>4
      <4>2. QED
        BY <4>1, Overwritten
    <3> HIDE DEF o
    <3>6. ASSUME NEW j \in 1..16 PROVE o[j] = mm[16 * q + j]
      <4>1. CASE j <= part
        <5>1. j \in 1..part
          BY <1>4, <4>1
        <5>2. QED
          BY <1>12, <3>5, <5>1
      <4>2. CASE j > part
        <5> DEFINE l == j - part
        <5>1. l \in 1..u /\ part + l = j /\ 0 + l = l /\ l \in 1..k /\ len + l = 16 * q + j
          BY <1>1, <1>4, <3>1, <3>9, <4>2
        <5> HIDE DEF l
        <5>2. o[part + l] = in[l]
          BY <3>4, <3>5, <5>1
        <5>3. mm[len + l] = in[l]
          BY <1>11, <5>1
        <5>4. QED
          BY <5>1, <5>2, <5>3
      <4>3. QED
        BY <1>4, <4>1, <4>2
    <3>7. 16 * (q + b - 1) = 16 * q
      BY <1>4, <2>2
    <3>8. BlockOf(o, mm, 16 * q)
      BY <3>5, <3>6 DEF BlockOf
    <3>10. QED
      BY <3>2, <3>7, <3>8
  <2>3. CASE b # 1
    <3> DEFINE p == 16 * (b - 1) - part
               c == SubSeq(in, p + 1, p + 16)
    <3>1. p \in Nat /\ p + 16 <= k /\ b - 1 # 0 /\ b # 0 /\ 16 \in Nat
          /\ len + p = 16 * (q + b - 1) /\ 16 * b - part = p + 16
      BY <1>1, <1>4, <2>1, <2>3
    <3>2. Block(b) = c
      <4>1. Used(b - 1) = p /\ Used(b) = p + 16
        BY <3>1 DEF BlockSize
      <4> HIDE DEF Used, p
      <4>2. QED
        BY <2>3, <4>1
    <3> HIDE DEF p
    <3>3. PartIs(c, in, p, 16)
      BY <3>1, PartOfSize
    <3> HIDE DEF c
    <3>4. ASSUME NEW j \in 1..16 PROVE c[j] = mm[16 * (q + b - 1) + j]
      <4>1. p + j \in 1..k /\ len + (p + j) = 16 * (q + b - 1) + j
        BY <1>1, <1>3, <3>1
      <4>2. mm[len + (p + j)] = in[p + j]
        BY <1>11, <4>1
      <4>3. QED
        BY <3>3, <4>1, <4>2 DEF PartIs
    <3>5. BlockOf(c, mm, 16 * (q + b - 1))
      BY <3>3, <3>4 DEF BlockOf, PartIs
    <3>6. QED
      BY <3>2, <3>5
  <2>4. QED
    BY <2>2, <2>3
<1>14. Size(rest, 16) /\ \A i \in 1..(t - 16 * (q + n)) : rest[i] = mm[16 * (q + n) + i]
  <2> HIDE DEF mm
  <2>1. CASE n > 0
    <3> DEFINE p == 16 * n - part
               l == part + k - 16 * n
               c == SubSeq(in, p + 1, p + l)
               d == Block(n)
               o == Overwrite(d, 0, c)
    <3>1. /\ p \in Nat /\ l \in Nat /\ l <= 16 /\ p + l = k /\ n # 0 /\ 0 \in Nat /\ 0 + l <= 16
          /\ len + p = 16 * (q + n) /\ t - 16 * (q + n) = l /\ n \in 1..n
      BY <1>1, <1>4, <1>8, <2>1
    <3>2. rest = o
      BY <1>1, <2>1, <3>1 DEF BlockSize
    <3>3. Size(d, 16)
      BY <1>13, <3>1 DEF BlockOf
    <3> HIDE DEF p, l, d
    <3>4. PartIs(c, in, p, l)
      BY <3>1, PartOfSize
    <3> HIDE DEF c
    <3>5. Size(c, l) /\ \A j \in 1..l : c[j] = in[p + j]
      BY <3>4 DEF PartIs
    <3>6. Size(o, 16) /\ \A j \in 1..l : o[0 + j] = c[j]
      BY <3>1, <3>3, <3>5, Overwritten
    <3> HIDE DEF o
    <3>7. ASSUME NEW j \in 1..l PROVE o[j] = mm[16 * (q + n) + j]
      <4>1. p + j \in 1..k /\ len + (p + j) = 16 * (q + n) + j /\ 0 + j = j
        BY <1>1, <1>3, <3>1
      <4>2. mm[len + (p + j)] = in[p + j]
        BY <1>11, <4>1
      <4>3. QED
        BY <3>5, <3>6, <4>1, <4>2
    <3> HIDE DEF rest
    <3>8. QED
      BY <3>1, <3>2, <3>6, <3>7
  <2>2. CASE n = 0
    <3> DEFINE o == Overwrite(ctx.m, part, in)
    <3>1. rest = o
      BY <2>2
    <3>2. part \in Nat /\ part + k <= 16 /\ t - 16 * (q + n) = part + k /\ 16 * (q + n) = 16 * q
      BY <1>1, <1>4, <1>8, <2>2
    <3>3. /\ Size(o, 16) /\ \A j \in 1..part : o[j] = ctx.m[j]
          /\ \A j \in 1..k : o[part + j] = in[j]
      BY <1>12, <3>2, Overwritten
    <3> HIDE DEF o
    <3>4. ASSUME NEW j \in 1..(part + k) PROVE o[j] = mm[16 * q + j]
      <4>1. CASE j <= part
        <5>1. j \in 1..part
          BY <1>4, <4>1
        <5>2. QED
          BY <1>12, <3>3, <5>1
      <4>2. CASE j > part
        <5> DEFINE l == j - part
        <5>1. part + l = j /\ l \in 1..k /\ len + l = 16 * q + j
          BY <1>1, <1>4, <4>2
        <5> HIDE DEF l
        <5>2. o[part + l] = in[l] /\ mm[len + l] = in[l]
          BY <1>11, <3>3, <5>1
        <5>3. QED
          BY <5>1, <5>2
      <4>3. QED
        BY <1>1, <1>4, <4>1, <4>2
    <3> HIDE DEF rest
    <3>5. QED
      BY <3>1, <3>2, <3>3, <3>4
  <2>3. QED
    BY <1>8, <2>1, <2>2
<1>15. x \in Seq(Seq(Int)) /\ Len(x) = q + n /\ \A c \in 1..(q + n) : x[c] = Block16(mm, c)
  <2> HIDE DEF mm
  <2>1. /\ ctx.x \in Seq(Seq(Int)) /\ Len(ctx.x) = old
        /\ \A c \in 1..old : ctx.x[c] = Block16(m, c)
    BY DEF Absorbed
  <2>2. \A b \in 1..n : Block(b) \in Seq(Int)
    BY <1>13 DEF BlockOf, Size
  <2> HIDE DEF Block, old, cached
  <2>3. new \in Seq(Seq(Int)) /\ Len(new) = n /\ \A b \in 1..n : new[b] = Block(b)
    BY <1>8, <2>2
  <2>4. /\ mid \in Seq(Seq(Int)) /\ Len(mid) = q - old
        /\ cached => mid[1] = ctx.m
    <3>1. ctx.m \in Seq(Int)
      BY <1>12 DEF Size
    <3>2. CASE cached
      <4>1. mid = <<ctx.m>> /\ q - old = 1
        BY <1>10, <3>2
      <4>2. QED
        BY <3>1, <4>1
    <3>3. CASE ~cached
      <4>1. mid = <<>> /\ q - old = 0
        BY <1>10, <3>3
      <4>2. QED
        BY <3>3, <4>1
    <3>4. QED
      BY <3>2, <3>3
  <2> HIDE DEF new, mid
  <2>5. xm \in Seq(Seq(Int)) /\ Len(xm) = Len(ctx.x) + Len(mid)
        /\ (\A i \in 1..Len(ctx.x) : xm[i] = ctx.x[i])
        /\ \A i \in 1..Len(mid) : xm[Len(ctx.x) + i] = mid[i]
    BY <2>1, <2>4, JoinedBlocks
  <2> HIDE DEF xm
  <2>6. x \in Seq(Seq(Int)) /\ Len(x) = Len(xm) + Len(new)
        /\ (\A i \in 1..Len(xm) : x[i] = xm[i])
        /\ \A i \in 1..Len(new) : x[Len(xm) + i] = new[i]
    BY <2>3, <2>5, JoinedBlocks
  <2> HIDE DEF x
  <2>7. Len(xm) = q /\ Len(x) = q + n
    BY <1>4, <1>8, <1>10, <2>1, <2>3, <2>4, <2>5, <2>6, SMTT(30)
  <2>8. /\ \A i \in 1..old : xm[i] = ctx.x[i]
        /\ \A i \in 1..(q - old) : xm[old + i] = mid[i]
        /\ \A i \in 1..q : x[i] = xm[i]
        /\ \A i \in 1..n : x[q + i] = Block(i)
    BY <2>1, <2>3, <2>4, <2>5, <2>6, <2>7
  <2>9. ASSUME NEW c \in 1..old PROVE x[c] = Block16(mm, c)
    <3>1. c \in Nat /\ c > 0 /\ 16 * c <= len /\ c \in 1..q
      BY <1>4, <1>10, <2>9
    <3>2. Block16(mm, c) = Block16(m, c)
      BY <1>3, <3>1, Blocks DEF mm
    <3>3. QED
      BY <2>1, <2>8, <2>9, <3>1, <3>2
  <2>10. ASSUME cached PROVE x[q] = Block16(mm, q)
    <3>1. q = old + 1 /\ len = 16 * q /\ q \in Nat /\ q > 0 /\ q \in 1..q /\ 1 \in 1..(q - old)
      BY <1>4, <1>10, <2>10
    <3>2. x[q] = ctx.m
      BY <2>4, <2>8, <2>10, <3>1
    <3> DEFINE p == 16 * (q - 1)
    <3>3. m \in Seq(Int) /\ p + 16 <= Len(m) /\ p = 16 * (q - 1)
      BY <1>3, <3>1 DEF Size
    <3>4. BlockOf(ctx.m, m, p)
      BY <1>12, <2>10 DEF BlockOf
    <3> HIDE DEF p
    <3>5. ctx.m = Block16(m, q)
      BY <3>1, <3>3, <3>4, BlockIs
    <3>6. Block16(mm, q) = Block16(m, q)
      <4>1. 16 * q <= len
        BY <3>1
      <4>2. QED
        BY <1>3, <3>1, <4>1, Blocks DEF mm
    <3>7. QED
      BY <3>2, <3>5, <3>6
  <2>11. ASSUME NEW b \in 1..n PROVE x[q + b] = Block16(mm, q + b)
    <3> DEFINE p == 16 * (q + b - 1)
               c == q + b
    <3>1. c \in Nat /\ c > 0 /\ p = 16 * (c - 1)
      BY <1>4, <1>8
    <3>2. BlockOf(Block(b), mm, p)
      BY <1>13
    <3>3. mm \in Seq(Int) /\ p + 16 <= Len(mm)
      <4>1. p + 16 <= t
        BY <1>1, <1>4, <1>8
      <4>2. QED
        BY <1>11, <4>1 DEF Size
    <3> HIDE DEF p, c
    <3>4. Block(b) = Block16(mm, c)
      BY <3>1, <3>2, <3>3, BlockIs
    <3>5. QED
      BY <2>8, <3>4 DEF c
  <2>12. ASSUME NEW c \in 1..(q + n) PROVE x[c] = Block16(mm, c)
    <3>1. CASE c <= old
      <4>1. c \in 1..old
        BY <1>4, <1>8, <1>10, <3>1
      <4>2. QED
        BY <2>9, <4>1
    <3>2. CASE c > old /\ c <= q
      <4>1. cached /\ c = q
        BY <1>4, <1>8, <1>10, <3>2
      <4>2. QED
        BY <2>10, <4>1
    <3>3. CASE c > q
      <4>1. c - q \in 1..n /\ q + (c - q) = c
        BY <1>4, <1>8, <3>3
      <4>2. QED
        BY <2>11, <4>1
    <3>4. QED
      BY <1>4, <1>8, <1>10, <3>1, <3>2, <3>3
  <2>13. QED
    BY <2>6, <2>7, <2>12
<1> HIDE DEF x, rest, mm
<1>16. r.x = x /\ r.m = rest
  OBVIOUS
<1> HIDE DEF r
<1>17. Absorbed(r, mm, t)
  BY <1>7, <1>9, <1>14, <1>15, <1>16 DEF Absorbed
<1>18. QED
  BY <1>2, <1>17 DEF mm

LEMMA CmacFinishes ==
    ASSUME NEW ctx, NEW m, NEW len \in 0..511, len # 256, Size(m, len), Absorbed(ctx, m, len)
    PROVE  CmacFinish(ctx) = Cmac(m)
<1> DEFINE n    == NotLast(len)
           l    == len - 16 * n
           rest == SubSeq(m, 16 * n + 1, 16 * n + l)
           xs   == [b \in 1..n |-> Block16(m, b)]
           part == ctx.size % BlockSize
<1>1. len \in Nat /\ Len(m) = len /\ (m = <<>> <=> len = 0)
  BY DEF Size
<1>2. /\ n \in Nat /\ 16 * n <= len
      /\ len = 0 => n = 0
      /\ len > 0 => len - 16 * n \in 1..16
  BY <1>1, NotLastIs
<1>3. ctx.size = len % 256 /\ (ctx.size = 0 <=> len = 0)
  <2>1. ctx.size = len % 256
    BY DEF Absorbed
  <2>2. len % 256 = 0 <=> len = 0
    OBVIOUS
  <2>3. QED
    BY <2>1, <2>2
<1>4. part = len % 16
  <2>1. (len % 256) % 16 = len % 16
    OBVIOUS
  <2>2. QED
    BY <1>3, <2>1 DEF BlockSize
<1>5. part \in 0..15 /\ (len > 0 => l = (IF part = 0 THEN 16 ELSE part))
      /\ (len = 0 => l = 0 /\ part = 0)
  <2>1. len \div 16 \in Nat /\ len % 16 \in 0..15 /\ len = 16 * (len \div 16) + (len % 16)
    BY <1>1, BySixteen
  <2> DEFINE q == len \div 16
  <2>2. q \in Nat /\ part \in 0..15 /\ len = 16 * q + part
    BY <1>4, <2>1
  <2> HIDE DEF q, part, n
  <2>3. QED
    BY <1>1, <1>2, <2>2
<1>6. Cmac(m) = [x |-> xs, last |-> rest, subkey |-> IF Len(rest) = BlockSize THEN "k1" ELSE "k2"]
  <2>1. n = IF m = <<>> THEN 0 ELSE (Len(m) - 1) \div BlockSize
    BY <1>1 DEF NotLast
  <2>2. 16 * n + 1 = n * BlockSize + 1 /\ 16 * n + l = Len(m)
    BY <1>1, <1>2 DEF BlockSize
  <2> HIDE DEF n, l
  <2>3. rest = SubSeq(m, n * BlockSize + 1, Len(m))
    BY <2>2
  <2> HIDE DEF rest
  <2>4. Cmac(m) = LET k == IF m = <<>> THEN 0 ELSE (Len(m) - 1) \div BlockSize
                      r == SubSeq(m, k * BlockSize + 1, Len(m))
                  IN [x |-> [b \in 1..k |-> Block16(m, b)], last |-> r,
                      subkey |-> IF Len(r) = BlockSize THEN "k1" ELSE "k2"]
    BY Zenon DEF Cmac, Block16
  <2>5. QED
    BY <2>1, <2>3, <2>4, Zenon
<1>7. PartIs(rest, m, 16 * n, l)
  <2> DEFINE p == 16 * n
  <2> HIDE DEF n
  <2>1. p \in Nat /\ l \in Nat /\ p + l <= len
    BY <1>1, <1>2
  <2> HIDE DEF p, l
  <2>2. PartIs(SubSeq(m, p + 1, p + l), m, p, l)
    BY <2>1, PartOfSize
  <2>3. QED
    BY <2>2 DEF p
<1> HIDE DEF part, n, l, rest, xs
<1>8. ctx.x = xs
  <2>1. /\ ctx.x \in Seq(Seq(Int)) /\ Len(ctx.x) = n
        /\ \A b \in 1..n : ctx.x[b] = Block16(m, b)
    BY DEF Absorbed, n
  <2>2. ctx.x = [b \in 1..n |-> ctx.x[b]]
    BY <2>1
  <2>3. QED
    BY <2>1, <2>2 DEF xs
<1>9. Size(ctx.m, 16) /\ \A i \in 1..l : ctx.m[i] = m[16 * n + i]
  BY DEF Absorbed, n, l
<1>10. Size(rest, l) /\ \A i \in 1..l : rest[i] = m[16 * n + i]
  BY <1>7 DEF PartIs
<1>11. CmacFinish(ctx) = IF ctx.size = 0 \/ part > 0
                           THEN [x |-> ctx.x, last |-> SubSeq(ctx.m, 1, part), subkey |-> "k2"]
                           ELSE [x |-> ctx.x, last |-> ctx.m, subkey |-> "k1"]
  BY DEF CmacFinish, part
<1>12. CASE ctx.size = 0 \/ part > 0
  <2>1. l = part /\ part \in Nat /\ part # 16 /\ part <= 16
    BY <1>1, <1>3, <1>5, <1>12
  <2> DEFINE c == SubSeq(ctx.m, 0 + 1, 0 + part)
  <2>2. PartIs(c, ctx.m, 0, part)
    <3>1. 0 \in Nat /\ 0 + part <= 16
      BY <2>1
    <3>2. QED
      BY <1>9, <2>1, <3>1, PartOfSize
  <2>3. c = SubSeq(ctx.m, 1, part)
    BY <2>1
  <2> HIDE DEF c
  <2>4. Size(c, l) /\ \A i \in 1..l : c[i] = rest[i]
    <3>1. Size(c, part) /\ \A i \in 1..part : c[i] = ctx.m[0 + i]
      BY <2>2 DEF PartIs
    <3>2. \A i \in 1..part : 0 + i = i
      BY <2>1
    <3>3. QED
      BY <1>9, <1>10, <2>1, <3>1, <3>2
  <2>5. c = rest
    <3>1. Begins(c, rest, l)
      <4>1. l <= Len(c)
        BY <2>1, <2>4 DEF Size
      <4>2. QED
        BY <2>4, <4>1 DEF Begins
    <3>2. QED
      BY <1>10, <2>4, <3>1, SameBytes
  <2>6. Len(rest) # BlockSize
    BY <1>10, <2>1 DEF Size, BlockSize
  <2>7. QED
    BY <1>6, <1>8, <1>11, <1>12, <2>3, <2>5, <2>6
<1>13. CASE ~(ctx.size = 0 \/ part > 0)
  <2>1. l = 16
    BY <1>1, <1>3, <1>5, <1>13
  <2>2. Size(rest, 16) /\ Begins(ctx.m, rest, 16)
    <3>1. 16 <= Len(ctx.m)
      BY <1>9 DEF Size
    <3>2. \A i \in 1..16 : ctx.m[i] = rest[i]
      BY <1>9, <1>10, <2>1
    <3>3. QED
      BY <1>10, <2>1, <3>1, <3>2 DEF Begins
  <2>3. ctx.m = rest
    BY <1>9, <2>2, SameBytes
  <2>4. Len(rest) = BlockSize
    BY <2>2 DEF Size, BlockSize
  <2>5. QED
    BY <1>6, <1>8, <1>11, <1>13, <2>3, <2>4
<1>14. QED
  BY <1>12, <1>13

LEMMA NothingAbsorbed == Absorbed(CmacInit, <<>>, 0) /\ Size(<<>>, 0)
<1>1. NotLast(0) = 0
  BY DEF NotLast
<1>2. Size([i \in 1..BlockSize |-> 0], 16)
  BY DEF Size, BlockSize
<1>3. 0 % 256 = 0
  OBVIOUS
<1>4. /\ CmacInit.x = <<>> /\ CmacInit.m = [i \in 1..BlockSize |-> 0] /\ CmacInit.size = 0
      /\ Size(<<>>, 0)
  BY DEF CmacInit, Size
<1>5. <<>> \in Seq(Seq(Int)) /\ Len(<<>>) = 0
  OBVIOUS
<1> DEFINE z == 0
<1>6. 0 - 16 * NotLast(z) = 0
  BY <1>1
<1> HIDE DEF z
<1>7. Absorbed(CmacInit, <<>>, z)
  BY <1>1, <1>2, <1>3, <1>4, <1>5, <1>6 DEF Absorbed, z
<1>8. QED
  BY <1>4, <1>7 DEF z

\* A MIC is over its header and its message.
LEMMA MicIs ==
    ASSUME NEW key, NEW hdr, NEW h \in 0..16, Size(hdr, h), NEW data, NEW d \in 0..255,
           Size(data, d), NEW n, n = h + d, n # 256
    PROVE  Mic(key, hdr, data).digest = Cmac(hdr \o data)
<1> DEFINE c1 == CmacUpdate(CmacInit, hdr)
           c2 == CmacUpdate(c1, data)
<1>1. Absorbed(c1, hdr, h)
  <2>1. CASE h = 0
    <3>1. hdr = <<>>
      BY <2>1 DEF Size
    <3>2. c1 = CmacInit
      BY <3>1 DEF CmacUpdate
    <3> HIDE DEF c1
    <3>3. QED
      BY <2>1, <3>1, <3>2, NothingAbsorbed
  <2>2. CASE h > 0
    <3> DEFINE z == 0
               e == <<>>
               u == z + h
    <3>1. e \o hdr = hdr /\ z \in 0..255 /\ u = h
      BY DEF Size
    <3>2. Absorbed(CmacInit, e, z) /\ Size(e, z)
      BY NothingAbsorbed
    <3>3. u = z + h
      OBVIOUS
    <3> HIDE DEF z, e, u
    <3>4. Absorbed(CmacUpdate(CmacInit, hdr), e \o hdr, u)
      BY <2>2, <3>1, <3>2, <3>3, CmacAbsorbs
    <3>5. QED
      BY <3>1, <3>4
  <2>3. QED
    BY <2>1, <2>2
<1> HIDE DEF c1
<1>2. Absorbed(c2, hdr \o data, n)
  <2>1. CASE d = 0
    <3>1. data = <<>> /\ n = h /\ hdr \o data = hdr
      BY <2>1 DEF Size
    <3>2. c2 = c1
      BY <3>1 DEF CmacUpdate
    <3>3. QED
      BY <1>1, <3>1, <3>2
  <2>2. CASE d > 0
    <3>1. h \in 0..255
      OBVIOUS
    <3>2. QED
      BY <1>1, <2>2, <3>1, CmacAbsorbs, SMTT(30)
  <2>3. QED
    BY <2>1, <2>2
<1> HIDE DEF c2
<1>3. Size(hdr \o data, n)
  BY HasJoined DEF Both
<1>4. n \in 0..511
  OBVIOUS
<1>5. CmacFinish(c2) = Cmac(hdr \o data)
  BY <1>2, <1>3, <1>4, CmacFinishes
<1>6. QED
  BY <1>5 DEF Mic, c1, c2

LEMMA MessageSize ==
    ASSUME NEW pkt, Len(pkt) \in Nat
    PROVE  \E d \in 0..255 : Size(Message(pkt), d)
<1> DEFINE d == (Len(pkt) - MicSize) % 256
<1>1. d \in 0..255
  <2> DEFINE z == Len(pkt) - MicSize
  <2>1. z \in Int
    BY DEF MicSize
  <2> HIDE DEF z
  <2>2. z % 256 \in 0..255
    BY <2>1
  <2>3. QED
    BY <2>2 DEF z
<1> HIDE DEF d
<1>2. Size([i \in 1..d |-> i], d)
  BY <1>1 DEF Size
<1>3. QED
  BY <1>1, <1>2 DEF Message, d

\* What a call made a MIC of.
MicOf(key, hdr, pkt) == [mic |-> Mic(key, hdr, Message(pkt)), of |-> hdr \o Message(pkt)]
Made(m)              == Len(m.of) # 256 => m.mic.digest = Cmac(m.of)

LEMMA MicRight ==
    ASSUME NEW key, NEW hdr, NEW h \in 0..16, Size(hdr, h), NEW pkt, Len(pkt) \in Nat
    PROVE  Made(MicOf(key, hdr, pkt))
<1> DEFINE msg == Message(pkt)
           g   == Mic(key, hdr, msg)
           of  == hdr \o msg
           n   == Len(of)
<1>1. PICK d \in 0..255 : Size(msg, d)
  BY MessageSize
<1>2. MicOf(key, hdr, pkt).of = of /\ MicOf(key, hdr, pkt).mic = g
  BY DEF MicOf
<1> HIDE DEF msg
<1>3. n = h + d
  <2>1. Both(hdr \o msg, hdr, msg, h, h + d)
    BY <1>1, HasJoined
  <2>2. QED
    BY <2>1 DEF Both, Size
<1> HIDE DEF n
<1>4. ASSUME n # 256 PROVE g.digest = Cmac(of)
  BY <1>1, <1>3, <1>4, MicIs, ZenonT(30)
<1> HIDE DEF g, of
<1>5. QED
  BY <1>2, <1>4 DEF Made, n

-----------------------------------------------------------------------------
(***************************************************************************)
(* Answers.                                                                *)
(***************************************************************************)
Types == {CommandTypes[i] : i \in 1..14}

\* A command's identifier tells its type, and the other way round.
LEMMA Tags ==
    ASSUME NEW i \in 1..14
    PROVE  /\ TypeToTag(CommandTypes[i]) = i + 1 /\ TagToType(i + 1) = CommandTypes[i]
           /\ CommandTypes[i] # "NONE" /\ Cid(CommandTypes[i]) = i + 1
<1>1. DOMAIN CommandTypes = 1..14
  BY DEF CommandTypes
<1>2. \A j \in 1..14 : CommandTypes[j] = CommandTypes[i] => j = i
  BY DEF CommandTypes
<1>3. (CHOOSE j \in DOMAIN CommandTypes : CommandTypes[j] = CommandTypes[i]) = i
  BY <1>1, <1>2
<1>4. CommandTypes[i] # "NONE"
  BY DEF CommandTypes
<1>5. (i + 1) - 1 = i
  OBVIOUS
<1>6. Cid(CommandTypes[i]) = i + 1
  BY DEF CommandTypes, Cid
<1>7. QED
  BY <1>1, <1>3, <1>4, <1>5, <1>6 DEF TypeToTag, TagToType

\* The flags between the first and the last.
Flagged(w, flags) ==
    /\ w \in [0..Len(flags) -> Nat] /\ w[0] = 0
    /\ \A n \in 1..Len(flags) : w[n] = 2 * w[n - 1] + (IF flags[n] THEN 1 ELSE 0)
    /\ Flags(flags) = w[Len(flags)]

LEMMA FlagSteps ==
    ASSUME NEW flags \in Seq(BOOLEAN)
    PROVE  \E w : Flagged(w, flags)
<1> DEFINE N == Len(flags)
           Next1(n, i) == 2 * n + (IF flags[i] THEN 1 ELSE 0)
           Eq(it) == it = [t \in SUBSET DOMAIN flags |->
                              IF t = {} THEN 0 ELSE Next1(it[t \ {Max(t)}], Max(t))]
           it == CHOOSE g : Eq(g)
           F == [i \in 1..N |-> [n \in Nat |-> Next1(n, i)]]
           zero == 0
           S == Nat
<1>1. Flags(flags) = it[DOMAIN flags]
  BY DEF Flags, FoldLeft, MapThenFoldSet
<1>2. N \in Nat /\ DOMAIN flags = 1..N /\ F \in [1..N -> [Nat -> Nat]]
  OBVIOUS
<1>3. Eq(it)
  <2>1. PICK g : FoldsBy(g, N, Nat, 0, F, LastFirst(N))
    <3> HIDE DEF N, F
    <3>1. QED
      BY <1>2, LeftFold
  <2>2. Eq(g)
    BY <1>2, <2>1, Extremes DEF FoldsBy, LastFirst
  <2>3. QED
    BY <2>2
<1>4. GoesLeft(it, N, S, zero, F)
  <2> HIDE DEF it
  <2>1. ASSUME NEW n \in 1..N PROVE it[1..n] = Next1(it[1..(n - 1)], n)
    <3>1. Max(1..n) = n /\ (1..n) \ {Max(1..n)} = 1..(n - 1) /\ 1..n \in SUBSET DOMAIN flags
      BY <1>2, Extremes
    <3>2. 1..n # {}
      BY n \in 1..n
    <3>3. QED
      BY <1>3, <3>1, <3>2, Zenon
  <2>2. it[{}] = 0
    BY <1>3
  <2>3. QED
    BY <1>2, <2>1, <2>2 DEF GoesLeft
<1>5. PICK w : Steps(w, N, S, zero, F) /\ w[N] = it[1..N]
  <2>1. zero \in S /\ F \in [1..N -> [S -> S]]
    BY <1>2
  <2> HIDE DEF N, F, it, zero, S
  <2>2. N \in Nat
    BY <1>2
  <2>3. QED
    BY <1>4, <2>1, <2>2, LeftSteps, SMTT(60)
<1>6. \A n \in 1..N : n - 1 \in 0..N
  BY <1>2
<1>7. \A n \in 1..N : w[n] = Next1(w[n - 1], n)
  BY <1>2, <1>5, <1>6 DEF Steps
<1> HIDE DEF it, F
<1>8. w \in [0..N -> Nat] /\ w[0] = 0 /\ Flags(flags) = w[N]
  BY <1>1, <1>2, <1>5 DEF Steps
<1>9. QED
  BY <1>7, <1>8 DEF Flagged

FlagBit(flag) == IF flag THEN 1 ELSE 0

\* Two and three flags.
LEMMA FewFlags ==
    ASSUME NEW ok, NEW n \in {2, 3}, ok \in [1..n -> BOOLEAN]
    PROVE  Flags(ok) = IF n = 2 THEN 2 * FlagBit(ok[1]) + FlagBit(ok[2])
                       ELSE 4 * FlagBit(ok[1]) + 2 * FlagBit(ok[2]) + FlagBit(ok[3])
<1>1. ok \in Seq(BOOLEAN) /\ Len(ok) = n
  OBVIOUS
<1>2. PICK w : Flagged(w, ok)
  BY <1>1, FlagSteps
<1>3. /\ w[0] = 0 /\ w[1] = 2 * w[0] + FlagBit(ok[1]) /\ w[2] = 2 * w[1] + FlagBit(ok[2])
      /\ Flags(ok) = w[n]
  <2>1. /\ w[0] = 0 /\ Flags(ok) = w[n]
        /\ \A m \in 1..n : w[m] = 2 * w[m - 1] + FlagBit(ok[m])
    BY <1>1, <1>2 DEF Flagged, FlagBit
  <2>2. 1 \in 1..n /\ 2 \in 1..n /\ 1 - 1 = 0 /\ 2 - 1 = 1
    OBVIOUS
  <2>3. QED
    BY <2>1, <2>2
<1>4. n = 3 => w[3] = 2 * w[2] + FlagBit(ok[3])
  <2>1. \A m \in 1..n : w[m] = 2 * w[m - 1] + FlagBit(ok[m])
    BY <1>1, <1>2 DEF Flagged, FlagBit
  <2>2. QED
    BY <2>1
<1>5. \A i \in 1..3 : FlagBit(ok[i]) \in Nat
  BY DEF FlagBit
<1>6. QED
  BY <1>3, <1>4, <1>5

\* An answer's bytes.
AnswerBytes(a) == <<TypeToTag(a.type)>> \o Payload(a)

LEMMA TagOfType ==
    ASSUME NEW type \in Types
    PROVE  TypeToTag(type) = Cid(type) /\ TypeToTag(type) \in 2..15
<1>1. PICK i \in 1..14 : type = CommandTypes[i]
  BY DEF Types
<1>2. QED
  BY <1>1, Tags

LEMMA PayloadIs ==
    ASSUME NEW a \in AnswerType
    PROVE  /\ a.type \in Types /\ SizeofCommandUp(a.type) \in 1..3
           /\ Payload(a) \in Seq(Int) /\ Len(Payload(a)) = SizeofCommandUp(a.type) - 1
<1> DEFINE Flagging(n) == a.ok \in [1..n -> BOOLEAN]
<1>1. CASE a.type \in {"LINK_ADR", "RX_PARAM_SETUP"} /\ a.ok \in [1..3 -> BOOLEAN]
  <2>1. Flags(a.ok) \in Int
    BY <1>1, FewFlags DEF FlagBit
  <2>2. Payload(a) = <<Flags(a.ok)>>
    BY <1>1 DEF Payload
  <2>3. a.type \in Types
    BY <1>1 DEF Types, CommandTypes
  <2>4. SizeofCommandUp(a.type) = 2
    BY <1>1 DEF SizeofCommandUp
  <2>5. QED
    BY <2>1, <2>2, <2>3, <2>4
<1>2. CASE a.type \in {"NEW_CHANNEL", "DL_CHANNEL", "REJOIN_PARAM_SETUP"}
      /\ a.ok \in [1..2 -> BOOLEAN]
  <2>1. Flags(a.ok) \in Int
    BY <1>2, FewFlags DEF FlagBit
  <2>2. Payload(a) = <<Flags(a.ok)>>
    BY <1>2 DEF Payload
  <2>3. a.type \in Types
    BY <1>2 DEF Types, CommandTypes
  <2>4. SizeofCommandUp(a.type) = 2
    BY <1>2 DEF SizeofCommandUp
  <2>5. QED
    BY <2>1, <2>2, <2>3, <2>4
<1>3. CASE a.type = "DEV_STATUS" /\ a.battery \in 0..255 /\ a.margin \in -128..127
  <2>1. a.margin % 64 \in Int /\ a.battery \in Int
    BY <1>3
  <2>2. Payload(a) = <<a.battery, a.margin % 64>>
    BY <1>3 DEF Payload
  <2>3. a.type \in Types
    BY <1>3 DEF Types, CommandTypes
  <2>4. SizeofCommandUp(a.type) = 3
    BY <1>3 DEF SizeofCommandUp
  <2>5. QED
    BY <2>1, <2>2, <2>3, <2>4
<1>4. CASE a.type = "REKEY" /\ a.version \in 0..255
  <2>2. Payload(a) = <<a.version>>
    BY <1>4 DEF Payload
  <2>3. a.type \in Types
    BY <1>4 DEF Types, CommandTypes
  <2>4. SizeofCommandUp(a.type) = 2
    BY <1>4 DEF SizeofCommandUp
  <2>5. QED
    BY <1>4, <2>2, <2>3, <2>4
<1>5. CASE a.type \in {"LINK_CHECK", "DUTY_CYCLE", "RX_TIMING_SETUP", "TX_PARAM_SETUP",
                       "ADR_PARAM_SETUP", "DEVICE_TIME"}
  <2>2. Payload(a) = <<>>
    BY <1>5 DEF Payload
  <2>3. a.type \in Types
    BY <1>5 DEF Types, CommandTypes
  <2>4. SizeofCommandUp(a.type) = 1
    BY <1>5 DEF SizeofCommandUp
  <2>5. QED
    BY <2>2, <2>3, <2>4
<1>6. QED
  BY <1>1, <1>2, <1>3, <1>4, <1>5 DEF AnswerType

LEMMA AnswerBytesAre ==
    ASSUME NEW a \in AnswerType
    PROVE  /\ AnswerBytes(a) \in Seq(Int) /\ Len(AnswerBytes(a)) = SizeofCommandUp(a.type)
           /\ Len(AnswerBytes(a)) = Len(Payload(a)) + 1 /\ AnswerBytes(a)[1] = Cid(a.type)
           /\ \A i \in 1..Len(Payload(a)) : AnswerBytes(a)[i + 1] = Payload(a)[i]
<1> DEFINE tag == TypeToTag(a.type)
           pay == Payload(a)
           n == SizeofCommandUp(a.type)
<1>1. pay \in Seq(Int) /\ Len(pay) = n - 1 /\ n \in 1..3 /\ tag \in Int /\ tag = Cid(a.type)
  BY PayloadIs, TagOfType
<1> HIDE DEF tag, pay, n
<1>2. /\ <<tag>> \o pay \in Seq(Int) /\ Len(<<tag>> \o pay) = 1 + Len(pay)
      /\ (<<tag>> \o pay)[1] = tag
      /\ \A i \in 1..Len(pay) : (<<tag>> \o pay)[1 + i] = pay[i]
  <2>1. <<tag>> \in Seq(Int) /\ Len(<<tag>>) = 1 /\ <<tag>>[1] = tag
    BY <1>1
  <2>2. QED
    BY <1>1, <2>1, Joined
<1>3. AnswerBytes(a) = <<tag>> \o pay
  BY DEF AnswerBytes, tag, pay
<1> DEFINE all == <<tag>> \o pay
<1> HIDE DEF all
<1>4. all \in Seq(Int) /\ Len(all) = n /\ Len(all) = Len(pay) + 1 /\ all[1] = Cid(a.type)
      /\ \A i \in 1..Len(pay) : all[i + 1] = pay[i]
  BY <1>1, <1>2 DEF all
<1>5. QED
  BY <1>3, <1>4 DEF all, pay, n

\* An answer is written byte by byte.
LEMMA AnswerPut ==
    ASSUME NEW s \in Strm, NEW a \in AnswerType
    PROVE  Wrote(PutAnswer(s, a), s, AnswerBytes(a))
<1> DEFINE b == AnswerBytes(a)
           n == Len(b)
           pieces == [i \in 1..n |-> <<b[i]>>]
           at == [i \in 0..n |-> s.pos + i]
           r == PutAnswer(s, a)
<1>1. b \in Seq(Int) /\ n \in Nat /\ n = Len(Payload(a)) + 1
  BY AnswerBytesAre
<1>2. r = WriteAll(s, pieces)
  BY <1>1 DEF PutAnswer, AnswerBytes
<1> HIDE DEF b, r
<1>3. /\ pieces \in Seq(Seq(Int)) /\ Len(pieces) = n
      /\ \A i \in 1..n : pieces[i] = <<b[i]>> /\ Len(pieces[i]) = 1 /\ pieces[i][1] = b[i]
  BY <1>1
<1>4. s.pos \in Nat
  BY DEF Strm
<1>5. Places(at, s.pos, pieces)
  <2>1. \A i \in 1..n : i - 1 \in 0..n /\ i \in 0..n
    BY <1>1
  <2>2. \A i \in 1..n : at[i] = at[i - 1] + 1
    BY <1>1, <1>4, <2>1
  <2>3. at \in [0..n -> Nat] /\ at[0] = s.pos
    BY <1>1, <1>4
  <2> HIDE DEF at, pieces
  <2>4. QED
    BY <1>3, <2>2, <2>3 DEF Places
<1>6. \A i \in 1..n : at[i - 1] + 1 = s.pos + i
  <2>1. \A i \in 1..n : i - 1 \in 0..n
    BY <1>1
  <2>2. QED
    BY <1>1, <1>4, <2>1
<1>7. at[n] = s.pos + n
  BY <1>1
<1> HIDE DEF at, pieces
<1>8. Holds(r, s, pieces, at, n)
  BY <1>2, <1>3, <1>5, PiecesWritten
<1> HIDE DEF n
<1>9. ASSUME ~r.error, NEW i \in 1..n PROVE r.buf[s.pos + i] = b[i]
  <2>1. \A m \in 1..n : \A k \in 1..Len(pieces[m]) : r.buf[at[m - 1] + k] = pieces[m][k]
    BY <1>8, <1>9 DEF Holds
  <2>2. 1 \in 1..Len(pieces[i])
    BY <1>3
  <2>3. r.buf[at[i - 1] + 1] = pieces[i][1]
    BY <2>1, <2>2
  <2>4. QED
    BY <1>3, <1>6, <2>3
<1>10. Wrote(r, s, b)
  BY <1>7, <1>8, <1>9 DEF Holds, Wrote, n
<1>11. QED
  BY <1>10 DEF r, b

\* The streams between the answers.
Answered(w, s, ans) ==
    /\ w \in [0..Len(ans) -> Strm] /\ w[0] = s
    /\ \A n \in 1..Len(ans) : w[n] = PutAnswer(w[n - 1], ans[n])
    /\ FoldLeft(PutAnswer, s, ans) = w[Len(ans)]

LEMMA AnswerSteps ==
    ASSUME NEW s \in Strm, NEW ans \in Seq(AnswerType)
    PROVE  \E w : Answered(w, s, ans)
<1> DEFINE N == Len(ans)
           Eq(it) == it = [t \in SUBSET DOMAIN ans |->
                              IF t = {} THEN s
                              ELSE PutAnswer(it[t \ {Max(t)}], ans[Max(t)])]
           it == CHOOSE g : Eq(g)
           F == [i \in 1..N |-> [t \in Strm |-> PutAnswer(t, ans[i])]]
<1>1. FoldLeft(PutAnswer, s, ans) = it[DOMAIN ans]
  BY DEF FoldLeft, MapThenFoldSet
<1>2. N \in Nat /\ DOMAIN ans = 1..N /\ F \in [1..N -> [Strm -> Strm]]
  <2>1. ASSUME NEW t \in Strm, NEW a \in AnswerType PROVE PutAnswer(t, a) \in Strm
    BY AnswerPut DEF Wrote
  <2>2. QED
    BY <2>1
<1>3. Eq(it)
  <2>1. PICK g : FoldsBy(g, N, Strm, s, F, LastFirst(N))
    <3> HIDE DEF N, F
    <3>1. QED
      BY <1>2, LeftFold
  <2>2. Eq(g)
    BY <1>2, <2>1, Extremes DEF FoldsBy, LastFirst
  <2>3. QED
    BY <2>2
<1>4. GoesLeft(it, N, Strm, s, F)
  <2> HIDE DEF it
  <2>1. ASSUME NEW n \in 1..N PROVE it[1..n] = PutAnswer(it[1..(n - 1)], ans[n])
    <3>1. Max(1..n) = n /\ (1..n) \ {Max(1..n)} = 1..(n - 1) /\ 1..n \in SUBSET DOMAIN ans
      BY <1>2, Extremes
    <3>2. 1..n # {}
      BY n \in 1..n
    <3>3. QED
      BY <1>3, <3>1, <3>2, Zenon
  <2>2. it[{}] = s
    BY <1>3
  <2>3. QED
    BY <1>2, <2>1, <2>2 DEF GoesLeft
<1>5. PICK w : Steps(w, N, Strm, s, F) /\ w[N] = it[1..N]
  <2> HIDE DEF N, F, it
  <2>1. N \in Nat /\ s \in Strm /\ F \in [1..N -> [Strm -> Strm]]
    BY <1>2
  <2>2. QED
    BY <1>4, <2>1, LeftSteps, SMTT(60)
<1>6. \A n \in 1..N : n - 1 \in 0..N
  BY <1>2
<1>7. \A n \in 1..N : w[n] = PutAnswer(w[n - 1], ans[n])
  BY <1>2, <1>5, <1>6 DEF Steps
<1> HIDE DEF it, F
<1>8. w \in [0..N -> Strm] /\ w[0] = s /\ FoldLeft(PutAnswer, s, ans) = w[N]
  BY <1>1, <1>2, <1>5 DEF Steps
<1>9. QED
  BY <1>7, <1>8 DEF Answered

Pieces(ans) == [i \in 1..Len(ans) |-> AnswerBytes(ans[i])]

\* Answers are written one after the other.
LEMMA AnswersWritten ==
    ASSUME NEW s \in Strm, NEW ans \in Seq(AnswerType), NEW at, Places(at, s.pos, Pieces(ans))
    PROVE  Holds(FoldLeft(PutAnswer, s, ans), s, Pieces(ans), at, Len(ans))
<1> DEFINE N == Len(ans)
           pieces == Pieces(ans)
<1>1. N \in Nat /\ \A n \in 1..N : ans[n] \in AnswerType
  OBVIOUS
<1>2. pieces \in Seq(Seq(Int)) /\ Len(pieces) = N /\ \A n \in 1..N : pieces[n] = AnswerBytes(ans[n])
  BY <1>1, AnswerBytesAre DEF Pieces
<1>3. PICK w : Answered(w, s, ans)
  BY AnswerSteps
<1>4. /\ w[0] = s /\ FoldLeft(PutAnswer, s, ans) = w[N]
      /\ \A n \in 1..N : w[n - 1] \in Strm /\ w[n] = PutAnswer(w[n - 1], ans[n])
  <2>1. \A n \in 1..N : n - 1 \in 0..N
    BY <1>1
  <2>2. QED
    BY <1>3, <2>1 DEF Answered
<1> HIDE DEF N, pieces
<1>5. \A n \in 1..N : Wrote(w[n], w[n - 1], pieces[n])
  BY <1>1, <1>2, <1>4, AnswerPut
<1>6. Places(at, s.pos, pieces)
  BY DEF pieces
<1>7. Writing(w, s, pieces)
  BY <1>2, <1>4, <1>5 DEF Writing
<1>8. pieces \in Seq(Seq(Int))
  BY <1>2
<1>9. Holds(w[Len(pieces)], s, pieces, at, Len(pieces))
  BY <1>6, <1>7, <1>8, PiecesOneByOne
<1>10. QED
  BY <1>2, <1>4, <1>9 DEF N, pieces

Macs(ans) == Written(FoldLeft(PutAnswer, Blank(MacsSize), ans))

\* Pieces have places.
LEMMA HavePlaces ==
    ASSUME NEW pieces \in Seq(Seq(Int)), NEW first \in Nat
    PROVE  \E at : Places(at, first, pieces)
<1> DEFINE N == Len(pieces)
           F == [i \in 1..N |-> [p \in Nat |-> p + Len(pieces[i])]]
           S == Nat
           base == first
<1>1. N \in Nat /\ F \in [1..N -> [S -> S]] /\ base \in S
  OBVIOUS
<1>2. PICK g : FoldsBy(g, N, S, base, F, LastFirst(N))
  <2> HIDE DEF N, F, S, base
  <2>1. QED
    BY <1>1, LeftFold
<1>3. GoesLeft(g, N, S, base, F)
  <2> HIDE DEF F, N, S, base
  <2>1. ASSUME NEW n \in 1..N PROVE g[1..n] = F[n][g[1..(n - 1)]]
    <3>1. Max(1..n) = n /\ (1..n) \ {Max(1..n)} = 1..(n - 1) /\ 1..n \in SUBSET (1..N)
      BY <1>1, Extremes
    <3>2. 1..n # {}
      BY n \in 1..n
    <3>3. LastFirst(N)[1..n] = n
      BY <3>1 DEF LastFirst
    <3>4. g[1..n] = F[LastFirst(N)[1..n]][g[(1..n) \ {LastFirst(N)[1..n]}]]
      BY <1>2, <3>1, <3>2, Zenon DEF FoldsBy
    <3>5. (1..n) \ {n} = 1..(n - 1)
      BY <3>1
    <3>6. QED
      BY <3>3, <3>4, <3>5
  <2>2. g[{}] = base
    BY <1>2 DEF FoldsBy
  <2>3. QED
    BY <2>1, <2>2 DEF GoesLeft
<1>4. PICK w : Steps(w, N, S, base, F) /\ w[N] = g[1..N]
  <2> HIDE DEF N, F, S, base
  <2>1. N \in Nat /\ base \in S /\ F \in [1..N -> [S -> S]]
    BY <1>1
  <2>2. QED
    BY <1>3, <2>1, LeftSteps, SMTT(60)
<1>5. \A n \in 1..N : n - 1 \in 0..N
  BY <1>1
<1>6. Places(w, first, pieces)
  BY <1>1, <1>4, <1>5 DEF Steps, Places
<1>7. QED
  BY <1>6

\* What is written of the answers.
LEMMA MacsAre ==
    ASSUME NEW ans \in Seq(AnswerType)
    PROVE  Macs(ans) \in Seq(Int) /\ Len(Macs(ans)) \in 0..30
<1> DEFINE s == Blank(MacsSize)
           r == FoldLeft(PutAnswer, s, ans)
<1>1. s \in Strm /\ s.pos = 0 /\ Len(s.buf) = 30
  BY DEF Blank, Stream, Strm, MacsSize
<1> HIDE DEF s
<1>2. Pieces(ans) \in Seq(Seq(Int))
  BY AnswerBytesAre DEF Pieces
<1>3. PICK at : Places(at, s.pos, Pieces(ans))
  BY <1>1, <1>2, HavePlaces
<1>4. r \in Strm /\ Len(r.buf) = 30
  BY <1>1, <1>3, AnswersWritten DEF Holds
<1> HIDE DEF r
<1>5. r.buf \in Seq(Int) /\ r.pos \in Nat /\ r.pos <= Len(r.buf)
  <2>1. r \in Strm
    BY <1>4
  <2>2. QED
    BY <2>1 DEF Strm
<1>6. Written(r) = SubSeq(r.buf, 0 + 1, 0 + r.pos)
  BY <1>5 DEF Written
<1>7. Written(r) \in Seq(Int) /\ Len(Written(r)) = r.pos
  BY <1>5, <1>6, PartFacts
<1>8. r.pos \in 0..30
  <2> DEFINE l == Len(r.buf)
             p == r.pos
  <2>1. l = 30 /\ p \in Nat /\ p <= l
    BY <1>4, <1>5
  <2> HIDE DEF l, p
  <2>2. p \in 0..30
    BY <2>1
  <2>3. QED
    BY <2>2 DEF p
<1>9. QED
  BY <1>7, <1>8 DEF Macs, r, s

-----------------------------------------------------------------------------
(***************************************************************************)
(* The frames of uplinks.                                                  *)
(***************************************************************************)
\* A frame without data and one with it: their pieces at their places.
Six(p, max, n, a, b, c, d, o, m) ==
    /\ n + 12 > max => p = <<>>
    /\ n + 12 <= max =>
          /\ Size(p, n + 12) /\ HasAt(p, 0, a) /\ HasAt(p, 1, b) /\ HasAt(p, 5, c)
          /\ HasAt(p, 6, d) /\ HasAt(p, 8, o) /\ HasAt(p, n + 8, m)

Eight(p, max, n, l, a, b, c, d, o, e, x, m) ==
    /\ n + l + 13 > max => p = <<>>
    /\ n + l + 13 <= max =>
          /\ Size(p, n + l + 13) /\ HasAt(p, 0, a) /\ HasAt(p, 1, b) /\ HasAt(p, 5, c)
          /\ HasAt(p, 6, d) /\ HasAt(p, 8, o) /\ HasAt(p, n + 8, e) /\ HasAt(p, n + 9, x)
          /\ HasAt(p, n + l + 9, m)

LEMMA SixPieces ==
    ASSUME NEW max \in Nat, NEW n \in Nat, NEW a, NEW b, NEW c, NEW d, NEW o, NEW m,
           Size(a, 1), Size(b, 4), Size(c, 1), Size(d, 2), Size(o, n), Size(m, 4)
    PROVE  Six(Whole(WriteAll(Blank(max), <<a, b, c, d, o, m>>)), max, n, a, b, c, d, o, m)
<1> DEFINE ps  == <<a, b, c, d, o, m>>
           at  == [i \in 0..6 |-> IF i = 0 THEN 0 ELSE IF i = 1 THEN 1 ELSE IF i = 2 THEN 5
                                  ELSE IF i = 3 THEN 6 ELSE IF i = 4 THEN 8
                                  ELSE IF i = 5 THEN n + 8 ELSE n + 12]
           pkt == Whole(WriteAll(Blank(max), ps))
<1>1. ps \in Seq(Seq(Int)) /\ 6 = Len(ps)
      /\ ps[1] = a /\ ps[2] = b /\ ps[3] = c /\ ps[4] = d /\ ps[5] = o /\ ps[6] = m
  BY DEF Size
<1>2. /\ at \in [0..6 -> Nat] /\ at[0] = 0 /\ at[1] = 1 /\ at[2] = 5 /\ at[3] = 6
      /\ at[4] = 8 /\ at[5] = n + 8 /\ at[6] = n + 12
  OBVIOUS
<1>3. /\ Len(ps[1]) = 1 /\ Len(ps[2]) = 4 /\ Len(ps[3]) = 1 /\ Len(ps[4]) = 2 /\ Len(ps[5]) = n
      /\ Len(ps[6]) = 4
  BY <1>1 DEF Size
<1> HIDE DEF ps, at
<1>4. Places(at, 0, ps)
  <2>1. \A i \in 1..6 : i = 1 \/ i = 2 \/ i = 3 \/ i = 4 \/ i = 5 \/ i = 6
    OBVIOUS
  <2>2. 1 - 1 = 0 /\ 2 - 1 = 1 /\ 3 - 1 = 2 /\ 4 - 1 = 3 /\ 5 - 1 = 4 /\ 6 - 1 = 5
    OBVIOUS
  <2>3. /\ at[0] + 1 = at[1] /\ at[1] + 4 = at[2] /\ at[2] + 1 = at[3] /\ at[3] + 2 = at[4]
        /\ at[4] + n = at[5] /\ at[5] + 4 = at[6]
    BY <1>2
  <2>4. /\ at[1] = at[1 - 1] + Len(ps[1]) /\ at[2] = at[2 - 1] + Len(ps[2])
        /\ at[3] = at[3 - 1] + Len(ps[3]) /\ at[4] = at[4 - 1] + Len(ps[4])
        /\ at[5] = at[5 - 1] + Len(ps[5]) /\ at[6] = at[6 - 1] + Len(ps[6])
    BY <1>3, <2>2, <2>3
  <2>5. \A i \in 1..6 : at[i] = at[i - 1] + Len(ps[i])
    BY <2>1, <2>4
  <2>6. QED
    BY <1>1, <1>2, <2>5 DEF Places
<1>5. Packed(pkt, max, ps, at, 6)
  BY <1>1, <1>4, WholeWritten
<1> HIDE DEF pkt
<1>6. /\ n + 12 > max => pkt = <<>>
      /\ n + 12 <= max => Size(pkt, n + 12) /\ \A i \in 1..6 : HasAt(pkt, at[i - 1], ps[i])
  BY <1>2, <1>5 DEF Packed
<1>7. ASSUME n + 12 <= max
      PROVE  /\ Size(pkt, n + 12) /\ HasAt(pkt, 0, a) /\ HasAt(pkt, 1, b) /\ HasAt(pkt, 5, c)
             /\ HasAt(pkt, 6, d) /\ HasAt(pkt, 8, o) /\ HasAt(pkt, n + 8, m)
  <2>1. Size(pkt, n + 12) /\ \A i \in 1..6 : HasAt(pkt, at[i - 1], ps[i])
    BY <1>6, <1>7
  <2>2. /\ HasAt(pkt, at[1 - 1], ps[1]) /\ HasAt(pkt, at[2 - 1], ps[2])
        /\ HasAt(pkt, at[3 - 1], ps[3]) /\ HasAt(pkt, at[4 - 1], ps[4])
        /\ HasAt(pkt, at[5 - 1], ps[5]) /\ HasAt(pkt, at[6 - 1], ps[6])
    BY <2>1
  <2>3. 1 - 1 = 0 /\ 2 - 1 = 1 /\ 3 - 1 = 2 /\ 4 - 1 = 3 /\ 5 - 1 = 4 /\ 6 - 1 = 5
    OBVIOUS
  <2>4. QED
    BY <1>1, <1>2, <2>1, <2>2, <2>3
<1>8. Six(pkt, max, n, a, b, c, d, o, m)
  BY <1>6, <1>7, Zenon DEF Six
<1>9. QED
  BY <1>8 DEF pkt, ps

LEMMA EightPieces ==
    ASSUME NEW max \in Nat, NEW n \in Nat, NEW l \in Nat, NEW a, NEW b, NEW c, NEW d, NEW o, NEW e,
           NEW x, NEW m,
           Size(a, 1), Size(b, 4), Size(c, 1), Size(d, 2), Size(o, n), Size(e, 1),
           Size(x, l), Size(m, 4)
    PROVE  Eight(Whole(WriteAll(Blank(max), <<a, b, c, d, o, e, x, m>>)), max, n, l,
                 a, b, c, d, o, e, x, m)
<1> DEFINE ps  == <<a, b, c, d, o, e, x, m>>
           at  == [i \in 0..8 |-> IF i = 0 THEN 0 ELSE IF i = 1 THEN 1 ELSE IF i = 2 THEN 5
                                  ELSE IF i = 3 THEN 6 ELSE IF i = 4 THEN 8
                                  ELSE IF i = 5 THEN n + 8 ELSE IF i = 6 THEN n + 9
                                  ELSE IF i = 7 THEN n + l + 9 ELSE n + l + 13]
           pkt == Whole(WriteAll(Blank(max), ps))
<1>1. ps \in Seq(Seq(Int)) /\ 8 = Len(ps)
      /\ ps[1] = a /\ ps[2] = b /\ ps[3] = c /\ ps[4] = d /\ ps[5] = o /\ ps[6] = e
      /\ ps[7] = x /\ ps[8] = m
  BY DEF Size
<1>2. /\ at \in [0..8 -> Nat] /\ at[0] = 0 /\ at[1] = 1 /\ at[2] = 5 /\ at[3] = 6
      /\ at[4] = 8 /\ at[5] = n + 8 /\ at[6] = n + 9 /\ at[7] = n + l + 9
      /\ at[8] = n + l + 13
  OBVIOUS
<1>3. /\ Len(ps[1]) = 1 /\ Len(ps[2]) = 4 /\ Len(ps[3]) = 1 /\ Len(ps[4]) = 2 /\ Len(ps[5]) = n
      /\ Len(ps[6]) = 1 /\ Len(ps[7]) = l /\ Len(ps[8]) = 4
  BY <1>1 DEF Size
<1> HIDE DEF ps, at
<1>4. Places(at, 0, ps)
  <2>1. \A i \in 1..8 : i = 1 \/ i = 2 \/ i = 3 \/ i = 4 \/ i = 5 \/ i = 6 \/ i = 7 \/ i = 8
    OBVIOUS
  <2>2. 1 - 1 = 0 /\ 2 - 1 = 1 /\ 3 - 1 = 2 /\ 4 - 1 = 3 /\ 5 - 1 = 4 /\ 6 - 1 = 5
        /\ 7 - 1 = 6 /\ 8 - 1 = 7
    OBVIOUS
  <2>3. /\ at[0] + 1 = at[1] /\ at[1] + 4 = at[2] /\ at[2] + 1 = at[3] /\ at[3] + 2 = at[4]
        /\ at[4] + n = at[5] /\ at[5] + 1 = at[6] /\ at[6] + l = at[7] /\ at[7] + 4 = at[8]
    BY <1>2
  <2>4. /\ at[1] = at[1 - 1] + Len(ps[1]) /\ at[2] = at[2 - 1] + Len(ps[2])
        /\ at[3] = at[3 - 1] + Len(ps[3]) /\ at[4] = at[4 - 1] + Len(ps[4])
        /\ at[5] = at[5 - 1] + Len(ps[5]) /\ at[6] = at[6 - 1] + Len(ps[6])
        /\ at[7] = at[7 - 1] + Len(ps[7]) /\ at[8] = at[8 - 1] + Len(ps[8])
    BY <1>3, <2>2, <2>3
  <2>5. \A i \in 1..8 : at[i] = at[i - 1] + Len(ps[i])
    BY <2>1, <2>4
  <2>6. QED
    BY <1>1, <1>2, <2>5 DEF Places
<1>5. Packed(pkt, max, ps, at, 8)
  BY <1>1, <1>4, WholeWritten
<1> HIDE DEF pkt
<1>6. /\ n + l + 13 > max => pkt = <<>>
      /\ n + l + 13 <= max => Size(pkt, n + l + 13) /\ \A i \in 1..8 : HasAt(pkt, at[i - 1], ps[i])
  BY <1>2, <1>5 DEF Packed
<1>7. ASSUME n + l + 13 <= max
      PROVE  /\ Size(pkt, n + l + 13) /\ HasAt(pkt, 0, a) /\ HasAt(pkt, 1, b) /\ HasAt(pkt, 5, c)
             /\ HasAt(pkt, 6, d) /\ HasAt(pkt, 8, o) /\ HasAt(pkt, n + 8, e)
             /\ HasAt(pkt, n + 9, x) /\ HasAt(pkt, n + l + 9, m)
  <2>1. Size(pkt, n + l + 13) /\ \A i \in 1..8 : HasAt(pkt, at[i - 1], ps[i])
    BY <1>6, <1>7
  <2>2. /\ HasAt(pkt, at[1 - 1], ps[1]) /\ HasAt(pkt, at[2 - 1], ps[2])
        /\ HasAt(pkt, at[3 - 1], ps[3]) /\ HasAt(pkt, at[4 - 1], ps[4])
        /\ HasAt(pkt, at[5 - 1], ps[5]) /\ HasAt(pkt, at[6 - 1], ps[6])
        /\ HasAt(pkt, at[7 - 1], ps[7]) /\ HasAt(pkt, at[8 - 1], ps[8])
    BY <2>1
  <2>3. 1 - 1 = 0 /\ 2 - 1 = 1 /\ 3 - 1 = 2 /\ 4 - 1 = 3 /\ 5 - 1 = 4 /\ 6 - 1 = 5
        /\ 7 - 1 = 6 /\ 8 - 1 = 7
    OBVIOUS
  <2>4. QED
    BY <1>1, <1>2, <2>1, <2>2, <2>3
<1>8. Eight(pkt, max, n, l, a, b, c, d, o, e, x, m)
  BY <1>6, <1>7, Zenon DEF Eight
<1>9. QED
  BY <1>8 DEF pkt, ps

\* What joins two sequences of anything.
Ends(w, u, v, h, k, S) ==
    /\ w \in Seq(S) /\ Len(w) = h + k
    /\ \A i \in 1..h : w[i] = u[i]
    /\ \A i \in 1..k : w[h + i] = v[i]

LEMMA EndsJoined ==
    ASSUME NEW S, NEW u \in Seq(S), NEW v \in Seq(S), NEW h, NEW k, Len(u) = h, Len(v) = k
    PROVE  Ends(u \o v, u, v, h, k, S)
<1>1. /\ u \o v \in Seq(S) /\ Len(u \o v) = Len(u) + Len(v)
      /\ \A i \in 1..Len(u) : (u \o v)[i] = u[i]
      /\ \A i \in 1..Len(v) : (u \o v)[Len(u) + i] = v[i]
  OBVIOUS
<1>2. QED
  BY <1>1 DEF Ends

AllListed(a, b, c, d, o, e, x, m) ==
    /\ <<a, b, c, d, o>> \o <<>> \o <<m>> = <<a, b, c, d, o, m>>
    /\ <<a, b, c, d, o>> \o <<e, x>> \o <<m>> = <<a, b, c, d, o, e, x, m>>

LEMMA Together ==
    ASSUME NEW S, NEW a \in S, NEW b \in S, NEW c \in S, NEW d \in S, NEW o \in S, NEW e \in S,
           NEW x \in S, NEW m \in S
    PROVE  AllListed(a, b, c, d, o, e, x, m)
<1> DEFINE p == <<a, b, c, d, o>>
           q == <<e, x>>
           r == <<m>>
           n == <<>>
<1>1. p \in Seq(S) /\ q \in Seq(S) /\ r \in Seq(S) /\ n \in Seq(S)
      /\ Len(p) = 5 /\ Len(q) = 2 /\ Len(r) = 1 /\ Len(n) = 0
  OBVIOUS
<1>2. p[1] = a /\ p[2] = b /\ p[3] = c /\ p[4] = d /\ p[5] = o /\ q[1] = e /\ q[2] = x /\ r[1] = m
  OBVIOUS
<1> HIDE DEF p, q, r, n
<1> DEFINE pn == p \o n
           pq == p \o q
           s6 == pn \o r
           s8 == pq \o r
<1>3. Ends(pn, p, n, 5, 0, S)
  BY <1>1, EndsJoined
<1>5. Ends(pq, p, q, 5, 2, S)
  BY <1>1, EndsJoined
<1> HIDE DEF pn, pq
<1>4. Ends(s6, pn, r, 5, 1, S)
  <2>1. pn \in Seq(S) /\ Len(pn) = 5
    BY <1>3 DEF Ends
  <2>2. QED
    BY <1>1, <2>1, EndsJoined
<1>6. Ends(s8, pq, r, 7, 1, S)
  <2>1. pq \in Seq(S) /\ Len(pq) = 7
    BY <1>5 DEF Ends
  <2>2. QED
    BY <1>1, <2>1, EndsJoined
<1> HIDE DEF s6, s8
<1> DEFINE six == <<a, b, c, d, o, m>>
           eight == <<a, b, c, d, o, e, x, m>>
<1>7. /\ six \in Seq(S) /\ Len(six) = 6 /\ six[1] = a /\ six[2] = b /\ six[3] = c /\ six[4] = d
      /\ six[5] = o /\ six[6] = m
  OBVIOUS
<1>8. /\ eight \in Seq(S) /\ Len(eight) = 8 /\ eight[1] = a /\ eight[2] = b /\ eight[3] = c
      /\ eight[4] = d /\ eight[5] = o /\ eight[6] = e /\ eight[7] = x /\ eight[8] = m
  OBVIOUS
<1> HIDE DEF six, eight
<1>9. s6 = six
  <2>1. s6 \in Seq(S) /\ Len(s6) = 6
    BY <1>4 DEF Ends
  <2>2. /\ \A i \in 1..5 : s6[i] = pn[i] /\ pn[i] = p[i]
        /\ \A i \in 1..1 : s6[5 + i] = r[i]
    BY <1>3, <1>4 DEF Ends
  <2>3. s6[1] = a /\ s6[2] = b /\ s6[3] = c /\ s6[4] = d /\ s6[5] = o
    BY <1>2, <2>2
  <2>4. s6[6] = m
    BY <1>2, <2>2, 5 + 1 = 6, 1 \in 1..1
  <2>5. \A i \in 1..6 : i = 1 \/ i = 2 \/ i = 3 \/ i = 4 \/ i = 5 \/ i = 6
    OBVIOUS
  <2>6. \A i \in 1..6 : s6[i] = six[i]
    BY <1>7, <2>3, <2>4, <2>5
  <2>7. QED
    BY <1>7, <2>1, <2>6, SeqEqual
<1>10. s8 = eight
  <2>1. s8 \in Seq(S) /\ Len(s8) = 8
    BY <1>6 DEF Ends
  <2>2. /\ \A i \in 1..7 : s8[i] = pq[i]
        /\ \A i \in 1..5 : pq[i] = p[i]
        /\ \A i \in 1..2 : pq[5 + i] = q[i]
        /\ \A i \in 1..1 : s8[7 + i] = r[i]
    BY <1>5, <1>6 DEF Ends
  <2>3. s8[1] = a /\ s8[2] = b /\ s8[3] = c /\ s8[4] = d /\ s8[5] = o
    BY <1>2, <2>2
  <2>4. s8[6] = e /\ s8[7] = x
    BY <1>2, <2>2, 5 + 1 = 6, 5 + 2 = 7, 1 \in 1..2, 2 \in 1..2
  <2>5. s8[8] = m
    BY <1>2, <2>2, 7 + 1 = 8, 1 \in 1..1
  <2>6. \A i \in 1..8 : i = 1 \/ i = 2 \/ i = 3 \/ i = 4 \/ i = 5 \/ i = 6 \/ i = 7 \/ i = 8
    OBVIOUS
  <2>7. \A i \in 1..8 : s8[i] = eight[i]
    BY <1>8, <2>3, <2>4, <2>5, <2>6
  <2>8. QED
    BY <1>8, <2>1, <2>7, SeqEqual
<1>11. QED
  BY <1>9, <1>10 DEF AllListed, p, q, r, n, pn, pq, six, eight, s6, s8

\* The frame's fields have their sizes.
Fielded(f, n, l) ==
    /\ Size(MHDR(f.type), 1) /\ f.devAddr \in Nat /\ Size(<<FCtrl(f)>>, 1) /\ f.counter \in Nat
    /\ Size(f.opts, n) /\ n <= 15 /\ Size(<<f.port>>, 1) /\ Size(f.data, l) /\ f.mic \in Nat

Without(p, f, max, n) ==
    Six(p, max, n, MHDR(f.type), LE(f.devAddr, 4), <<FCtrl(f)>>, LE(f.counter, 2), f.opts,
        LE(f.mic, 4))

With(p, f, max, n, l) ==
    Eight(p, max, n, l, MHDR(f.type), LE(f.devAddr, 4), <<FCtrl(f)>>, LE(f.counter, 2), f.opts,
          <<f.port>>, f.data, LE(f.mic, 4))

LEMMA DataWritten ==
    ASSUME NEW max \in Nat, NEW f, NEW n, NEW l, Fielded(f, n, l)
    PROVE  /\ f.dataPresent => With(PutData(f, max), f, max, n, l)
           /\ ~f.dataPresent => Without(PutData(f, max), f, max, n)
<1> DEFINE a == MHDR(f.type)
           b == LE(f.devAddr, 4)
           c == <<FCtrl(f)>>
           d == LE(f.counter, 2)
           o == f.opts
           e == <<f.port>>
           x == f.data
           m == LE(f.mic, 4)
           part == SubSeq(o, 1, Len(o) % 16)
<1>1. Size(a, 1) /\ Size(b, 4) /\ Size(c, 1) /\ Size(d, 2) /\ Size(o, n) /\ Size(e, 1) /\ Size(x, l)
      /\ Size(m, 4)
  BY BytesOf DEF Size, Fielded
<1>2. n \in 0..15 /\ l \in Nat
  <2>1. n <= 15
    BY DEF Fielded
  <2> HIDE DEF o, x
  <2>2. n \in Nat /\ l \in Nat
    BY <1>1 DEF Size
  <2>3. QED
    BY <2>1, <2>2
<1>3. part = o
  <2> HIDE DEF o
  <2>1. \A k \in 0..15 : k % 16 = k
    OBVIOUS
  <2>2. Len(o) = n /\ o \in Seq(Int)
    BY <1>1 DEF Size
  <2>3. Len(o) % 16 = Len(o)
    BY <1>2, <2>1, <2>2
  <2>4. SubSeq(o, 1, Len(o)) = o
    BY <2>2
  <2>5. QED
    BY <2>3, <2>4
<1>4. DataPieces(f) = <<a, b, c, d, part>> \o (IF f.dataPresent THEN <<e, x>> ELSE <<>>) \o <<m>>
  BY DEF DataPieces
<1>5. PutData(f, max) = Whole(WriteAll(Blank(max), DataPieces(f)))
  BY DEF PutData
<1>9. /\ a \in Seq(Int) /\ b \in Seq(Int) /\ c \in Seq(Int) /\ d \in Seq(Int)
      /\ o \in Seq(Int) /\ e \in Seq(Int) /\ x \in Seq(Int) /\ m \in Seq(Int)
  BY <1>1 DEF Size
<1>10. AllListed(a, b, c, d, o, e, x, m)
  <2> HIDE DEF a, b, c, d, o, e, x, m
  <2>1. QED
    BY <1>9, Together
<1>6. ASSUME f.dataPresent PROVE With(PutData(f, max), f, max, n, l)
  <2>1. DataPieces(f) = <<a, b, c, d, o>> \o <<e, x>> \o <<m>>
    BY <1>3, <1>4, <1>6
  <2> HIDE DEF a, b, c, d, o, e, x, m
  <2>2. <<a, b, c, d, o>> \o <<e, x>> \o <<m>> = <<a, b, c, d, o, e, x, m>>
    BY <1>10, Zenon DEF AllListed
  <2>3. Eight(Whole(WriteAll(Blank(max), <<a, b, c, d, o, e, x, m>>)), max, n, l,
              a, b, c, d, o, e, x, m)
    BY <1>1, <1>2, EightPieces
  <2>4. Eight(PutData(f, max), max, n, l, a, b, c, d, o, e, x, m)
    BY <1>5, <2>1, <2>2, <2>3, Zenon
  <2>5. QED
    BY <2>4 DEF With, a, b, c, d, o, e, x, m
<1>7. ASSUME ~f.dataPresent PROVE Without(PutData(f, max), f, max, n)
  <2>1. DataPieces(f) = <<a, b, c, d, o>> \o <<>> \o <<m>>
    BY <1>3, <1>4, <1>7
  <2> HIDE DEF a, b, c, d, o, e, x, m
  <2>2. <<a, b, c, d, o>> \o <<>> \o <<m>> = <<a, b, c, d, o, m>>
    BY <1>10, Zenon DEF AllListed
  <2>3. Six(Whole(WriteAll(Blank(max), <<a, b, c, d, o, m>>)), max, n, a, b, c, d, o, m)
    BY <1>1, <1>2, SixPieces
  <2>4. Six(PutData(f, max), max, n, a, b, c, d, o, m)
    BY <1>5, <2>1, <2>2, <2>3, Zenon
  <2>5. QED
    BY <2>4 DEF Without, a, b, c, d, o, m
<1>8. QED
  BY <1>6, <1>7

\* The data of a request.
Asked(r) == [i \in 1..r.len |-> 60 + (i % 60)]

\* The answers take the frame for themselves.
Alone(r, k) == k > 15 \/ DataOverhead + r.len + k > MaxPayload

Common(f, r) ==
    /\ f.devAddr = DevAddr /\ f.counter = Counter /\ f.mic = 0 /\ f.ack = FALSE
    /\ f.pending = FALSE /\ f.adr = r.adr /\ f.adrAckReq = r.adrAckReq

UpWhole(f, r, macs) ==
    /\ Common(f, r) /\ f.type = (IF r.confirmed THEN "DATA_CONFIRMED_UP" ELSE "DATA_UNCONFIRMED_UP")
    /\ f.opts = macs /\ f.dataPresent = r.hasData /\ f.port = r.port /\ f.data = Asked(r)

UpOpts(f, r, macs) ==
    /\ Common(f, r) /\ f.type = "DATA_UNCONFIRMED_UP"
    /\ f.opts = macs /\ f.dataPresent = FALSE /\ f.port = r.port /\ f.data = <<>>

UpZero(f, r, macs) ==
    /\ Common(f, r) /\ f.type = "DATA_UNCONFIRMED_UP"
    /\ f.opts = <<>> /\ f.dataPresent = TRUE /\ f.port = 0 /\ f.data = macs

LEMMA UplinkFields ==
    ASSUME NEW r, r.len \in Nat, NEW macs, NEW k, Size(macs, k)
    PROVE  /\ ~Alone(r, k) => UpWhole(UplinkFrame(r, macs), r, macs)
           /\ Alone(r, k) /\ k < 16 => UpOpts(UplinkFrame(r, macs), r, macs)
           /\ Alone(r, k) /\ ~(k < 16) => UpZero(UplinkFrame(r, macs), r, macs)
<1> DEFINE f == [type |-> IF r.confirmed THEN "DATA_CONFIRMED_UP" ELSE "DATA_UNCONFIRMED_UP",
                 devAddr |-> DevAddr, counter |-> Counter, adr |-> r.adr,
                 adrAckReq |-> r.adrAckReq, ack |-> FALSE, pending |-> FALSE, port |-> r.port,
                 opts |-> macs, dataPresent |-> r.hasData,
                 data |-> [i \in 1..r.len |-> 60 + (i % 60)], mic |-> 0]
           g == [f EXCEPT !.type = "DATA_UNCONFIRMED_UP", !.dataPresent = FALSE, !.data = <<>>]
           h == [f EXCEPT !.type = "DATA_UNCONFIRMED_UP", !.port = 0, !.opts = <<>>,
                          !.dataPresent = TRUE, !.data = macs]
           short == Len(macs) <= 15
           fits == DataOverhead + r.len + Len(macs) <= MaxPayload
<1>1. UplinkFrame(r, macs) = IF short /\ fits THEN f ELSE IF Len(macs) < 16 THEN g ELSE h
  BY Zenon DEF UplinkFrame
<1>2. UpWhole(f, r, macs)
  BY DEF UpWhole, Common, Asked
<1>3. UpOpts(g, r, macs)
  BY DEF UpOpts, Common
<1>4. UpZero(h, r, macs)
  BY DEF UpZero, Common
<1> HIDE DEF f, g, h
<1>5. Len(macs) = k /\ k \in Nat
  BY DEF Size
<1>6. Alone(r, k) <=> ~(short /\ fits)
  <2> DEFINE l == r.len
  <2>1. l \in Nat /\ MaxPayload \in Nat
    BY CodecAssumption
  <2> HIDE DEF l
  <2>2. k > 15 \/ DataOverhead + l + k > MaxPayload <=> ~(k <= 15 /\ DataOverhead + l + k <= MaxPayload)
    BY <1>5, <2>1 DEF DataOverhead
  <2>3. QED
    BY <1>5, <2>2 DEF Alone, l
<1>7. QED
  BY <1>1, <1>2, <1>3, <1>4, <1>5, <1>6, Zenon

Sized(r) == r.len \in 0..255 /\ r.port \in 1..223

LEMMA RequestIs ==
    ASSUME NEW r \in RequestType
    PROVE  Sized(r)
BY DEF RequestType, Sized

LEMMA RequestFlags ==
    ASSUME NEW r \in RequestType
    PROVE  /\ r.confirmed \in BOOLEAN /\ r.adr \in BOOLEAN /\ r.adrAckReq \in BOOLEAN
           /\ r.hasData \in BOOLEAN /\ (r.len > 0 => r.hasData)
BY DEF RequestType

LEMMA AskedIs ==
    ASSUME NEW r, NEW l \in Nat, r.len = l
    PROVE  Size(Asked(r), l)
<1>1. Asked(r) = [i \in 1..l |-> 60 + (i % 60)]
  BY DEF Asked
<1>2. \A i \in 1..l : 60 + (i % 60) \in Int
  OBVIOUS
<1>3. QED
  BY <1>1, <1>2 DEF Size

\* The flags of the control byte.
Asks(r) == (IF r.adr THEN 128 ELSE 0) + (IF r.adrAckReq THEN 64 ELSE 0)

LEMMA ControlByte ==
    ASSUME NEW f, NEW r, Common(f, r), NEW n, Size(f.opts, n), n <= 15
    PROVE  /\ FCtrl(f) = Asks(r) + n /\ FCtrl(f) \in Nat
           /\ FCtrl(f) % 16 = n
           /\ FCtrl(f) \div 16 = (IF r.adr THEN 8 ELSE 0) + (IF r.adrAckReq THEN 4 ELSE 0)
<1>1. Len(f.opts) = n /\ n \in 0..15
  <2> DEFINE o == f.opts
  <2>1. Size(o, n)
    OBVIOUS
  <2> HIDE DEF o
  <2>2. Len(o) = n /\ n \in Nat
    BY <2>1 DEF Size
  <2>3. QED
    BY <2>2 DEF o
<1>2. n % 16 = n
  BY <1>1
<1>3. Bit(f.adr, 128) = (IF r.adr THEN 128 ELSE 0)
      /\ Bit(f.adrAckReq, 64) = (IF r.adrAckReq THEN 64 ELSE 0)
  BY DEF Common, Bit
<1>4. Bit(f.ack, 32) = 0 /\ Bit(f.pending, 16) = 0
  BY DEF Common, Bit
<1>5. FCtrl(f) = Bit(f.adr, 128) + Bit(f.adrAckReq, 64) + Bit(f.ack, 32) + Bit(f.pending, 16)
                   + (Len(f.opts) % 16)
  BY Zenon DEF FCtrl
<1> DEFINE c == FCtrl(f)
           u == IF r.adr THEN 128 ELSE 0
           v == IF r.adrAckReq THEN 64 ELSE 0
<1>6. c = u + v + 0 + 0 + n
  BY <1>1, <1>2, <1>3, <1>4, <1>5
<1>7. u \in {0, 128} /\ v \in {0, 64}
  OBVIOUS
<1> HIDE DEF c, u, v
<1>8. c = u + v + n /\ c \in Nat
  BY <1>1, <1>6, <1>7
<1>9. c % 16 = n /\ c \div 16 = (u \div 16) + (v \div 16)
  <2>1. \A k \in 0..15 : /\ (0 + k) % 16 = k /\ (64 + k) % 16 = k /\ (128 + k) % 16 = k
                         /\ (192 + k) % 16 = k
                         /\ (0 + k) \div 16 = 0 /\ (64 + k) \div 16 = 4 /\ (128 + k) \div 16 = 8
                         /\ (192 + k) \div 16 = 12
    OBVIOUS
  <2>2. CASE u = 0 /\ v = 0
    BY <1>1, <1>8, <2>1, <2>2
  <2>3. CASE u = 0 /\ v = 64
    BY <1>1, <1>8, <2>1, <2>3
  <2>4. CASE u = 128 /\ v = 0
    BY <1>1, <1>8, <2>1, <2>4
  <2>5. CASE u = 128 /\ v = 64
    BY <1>1, <1>8, <2>1, <2>5
  <2>6. QED
    BY <1>7, <2>2, <2>3, <2>4, <2>5
<1>10. u \div 16 = (IF r.adr THEN 8 ELSE 0) /\ v \div 16 = (IF r.adrAckReq THEN 4 ELSE 0)
  <2>1. (r.adr => u = 128) /\ (~r.adr => u = 0) /\ (r.adrAckReq => v = 64)
        /\ (~r.adrAckReq => v = 0)
    BY DEF u, v
  <2>2. 128 \div 16 = 8 /\ 0 \div 16 = 0 /\ 64 \div 16 = 4
    OBVIOUS
  <2>3. QED
    BY <2>1, <2>2
<1>11. c = Asks(r) + n
  BY <1>8 DEF Asks, u, v
<1>12. QED
  BY <1>8, <1>9, <1>10, <1>11 DEF c

LEMMA CommonSizes ==
    ASSUME NEW f, NEW r, Common(f, r), NEW n, Size(f.opts, n), n <= 15, NEW l, Size(f.data, l),
           f.port \in Nat, f.type \in {"DATA_CONFIRMED_UP", "DATA_UNCONFIRMED_UP"}
    PROVE  Fielded(f, n, l)
<1>1. FCtrl(f) \in Nat
  BY ControlByte
<1>2. Size(<<FCtrl(f)>>, 1)
  <2> DEFINE c == FCtrl(f)
  <2>1. c \in Int
    BY <1>1
  <2> HIDE DEF c
  <2>2. Size(<<c>>, 1)
    BY <2>1 DEF Size
  <2>3. QED
    BY <2>2 DEF c
<1>3. Size(<<f.port>>, 1)
  BY DEF Size
<1>4. f.devAddr = DevAddr /\ f.counter = Counter /\ f.mic = 0
  BY DEF Common
<1>5. f.devAddr \in Nat /\ f.counter \in Nat /\ f.mic \in Nat
  BY <1>4 DEF DevAddr, Counter
<1>6. Size(MHDR(f.type), 1)
  <2>1. f.type = "DATA_CONFIRMED_UP" \/ f.type = "DATA_UNCONFIRMED_UP"
    OBVIOUS
  <2>2. Size(<<64>>, 1) /\ Size(<<128>>, 1)
    BY DEF Size
  <2>3. QED
    BY <2>1, <2>2, HeaderOf
<1>7. QED
  BY <1>2, <1>3, <1>5, <1>6 DEF Fielded

\* What the packet of an uplink is, in its three forms, before its MIC.
UplinkPacket(p, f, max, n, l) ==
    /\ f.dataPresent => With(p, f, max, n, l)
    /\ ~f.dataPresent => Without(p, f, max, n)

LEMMA UplinkWritten ==
    ASSUME NEW r \in RequestType, NEW macs, NEW k, Size(macs, k), k <= 30, NEW max \in Nat
    PROVE  LET f == UplinkFrame(r, macs)
               p == PutData(f, max)
           IN /\ ~Alone(r, k) => Fielded(f, k, r.len) /\ UplinkPacket(p, f, max, k, r.len)
              /\ Alone(r, k) /\ k < 16 => Fielded(f, k, 0) /\ UplinkPacket(p, f, max, k, 0)
              /\ Alone(r, k) /\ ~(k < 16) => Fielded(f, 0, k) /\ UplinkPacket(p, f, max, 0, k)
<1> DEFINE f == UplinkFrame(r, macs)
           len == r.len
<1>1. len \in 0..255 /\ r.port \in Nat
  <2>1. Sized(r)
    BY RequestIs
  <2>2. QED
    BY <2>1 DEF Sized
<1>2. Size(Asked(r), len)
  BY <1>1, AskedIs
<1>3. k \in Nat /\ Len(macs) = k
  BY DEF Size
<1>4. Size(<<>>, 0)
  BY DEF Size
<1>5. /\ ~Alone(r, k) => UpWhole(f, r, macs)
      /\ Alone(r, k) /\ k < 16 => UpOpts(f, r, macs)
      /\ Alone(r, k) /\ ~(k < 16) => UpZero(f, r, macs)
  BY <1>1, UplinkFields
<1> HIDE DEF f, len
<1>6. ASSUME ~Alone(r, k) PROVE Fielded(f, k, len)
  <2>1. UpWhole(f, r, macs)
    BY <1>5, <1>6
  <2>2. k <= 15
    BY <1>3, <1>6 DEF Alone
  <2>3. Common(f, r) /\ f.opts = macs /\ f.port = r.port /\ f.data = Asked(r)
        /\ f.type \in {"DATA_CONFIRMED_UP", "DATA_UNCONFIRMED_UP"}
    BY <2>1 DEF UpWhole
  <2>4. Size(f.opts, k) /\ Size(f.data, len) /\ f.port \in Nat
    BY <1>1, <1>2, <2>3
  <2>5. QED
    BY <2>2, <2>3, <2>4, CommonSizes
<1>7. ASSUME Alone(r, k), k < 16 PROVE Fielded(f, k, 0)
  <2>1. UpOpts(f, r, macs)
    BY <1>5, <1>7
  <2>2. k <= 15
    BY <1>3, <1>7
  <2>3. Common(f, r) /\ f.opts = macs /\ f.port = r.port /\ f.data = <<>>
        /\ f.type \in {"DATA_CONFIRMED_UP", "DATA_UNCONFIRMED_UP"}
    BY <2>1 DEF UpOpts
  <2>4. Size(f.opts, k) /\ Size(f.data, 0) /\ f.port \in Nat
    BY <1>1, <1>4, <2>3
  <2>5. QED
    BY <2>2, <2>3, <2>4, CommonSizes
<1>8. ASSUME Alone(r, k), ~(k < 16) PROVE Fielded(f, 0, k)
  <2>1. UpZero(f, r, macs)
    BY <1>5, <1>8
  <2>3. Common(f, r) /\ f.opts = <<>> /\ f.port = 0 /\ f.data = macs
        /\ f.type \in {"DATA_CONFIRMED_UP", "DATA_UNCONFIRMED_UP"}
    BY <2>1 DEF UpZero
  <2>4. Size(f.opts, 0) /\ Size(f.data, k) /\ f.port \in Nat
    BY <1>4, <2>3
  <2>5. 0 <= 15
    OBVIOUS
  <2>6. QED
    BY <2>3, <2>4, <2>5, CommonSizes
<1>9. ASSUME NEW n, NEW l, Fielded(f, n, l) PROVE UplinkPacket(PutData(f, max), f, max, n, l)
  BY <1>9, DataWritten DEF UplinkPacket
<1>10. QED
  BY <1>6, <1>7, <1>8, <1>9 DEF f, len

-----------------------------------------------------------------------------
(***************************************************************************)
(* The frames of a network.                                                *)
(***************************************************************************)
\* What is joined of the first members of a sequence, one after the other.
Strung(w, a) ==
    /\ w \in [0..Len(a) -> Seq(Int)] /\ w[0] = <<>>
    /\ \A i \in 1..Len(a) : w[i] = w[i - 1] \o a[i]

LEMMA StringsExist ==
    ASSUME NEW a \in Seq(Seq(Int))
    PROVE  \E w : Strung(w, a)
<1> DEFINE N == Len(a)
           S == Seq(Int)
           F == [i \in 1..N |-> [p \in S |-> p \o a[i]]]
           base == <<>>
<1>1. N \in Nat /\ F \in [1..N -> [S -> S]] /\ base \in S
  OBVIOUS
<1>2. PICK g : FoldsBy(g, N, S, base, F, LastFirst(N))
  <2> HIDE DEF N, F, S, base
  <2>1. QED
    BY <1>1, LeftFold
<1>3. GoesLeft(g, N, S, base, F)
  <2> HIDE DEF F, N, S, base
  <2>1. ASSUME NEW n \in 1..N PROVE g[1..n] = F[n][g[1..(n - 1)]]
    <3>1. Max(1..n) = n /\ (1..n) \ {Max(1..n)} = 1..(n - 1) /\ 1..n \in SUBSET (1..N)
      BY <1>1, Extremes
    <3>2. 1..n # {}
      BY n \in 1..n
    <3>3. LastFirst(N)[1..n] = n
      BY <3>1 DEF LastFirst
    <3>4. g[1..n] = F[LastFirst(N)[1..n]][g[(1..n) \ {LastFirst(N)[1..n]}]]
      BY <1>2, <3>1, <3>2, Zenon DEF FoldsBy
    <3>5. (1..n) \ {n} = 1..(n - 1)
      BY <3>1
    <3>6. QED
      BY <3>3, <3>4, <3>5
  <2>2. g[{}] = base
    BY <1>2 DEF FoldsBy
  <2>3. QED
    BY <2>1, <2>2 DEF GoesLeft
<1>4. PICK w : Steps(w, N, S, base, F) /\ w[N] = g[1..N]
  <2> HIDE DEF N, F, S, base
  <2>1. N \in Nat /\ base \in S /\ F \in [1..N -> [S -> S]]
    BY <1>1
  <2>2. QED
    BY <1>3, <2>1, LeftSteps, SMTT(60)
<1>5. \A n \in 1..N : n - 1 \in 0..N
  BY <1>1
<1>6. Strung(w, a)
  BY <1>1, <1>4, <1>5 DEF Steps, Strung
<1>7. QED
  BY <1>6

\* FlattenSeq() joins them all.
LEMMA Flattened ==
    ASSUME NEW a \in Seq(Seq(Int)), NEW w, Strung(w, a)
    PROVE  FlattenSeq(a) = w[Len(a)]
<1> DEFINE N == Len(a)
           Rec(g) == g = [i \in 1..N |-> IF i = 1 THEN a[i] ELSE g[i - 1] \o a[i]]
           f == CHOOSE g : Rec(g)
           v == [i \in 1..N |-> w[i]]
<1>1. CASE N = 0
  <2>1. FlattenSeq(a) = a
    BY <1>1 DEF FlattenSeq
  <2>2. a = <<>>
    BY <1>1
  <2>3. QED
    BY <1>1, <2>1, <2>2 DEF Strung
<1>2. CASE N # 0
  <2>1. FlattenSeq(a) = f[N]
    BY <1>2, Zenon DEF FlattenSeq
  <2>2. N \in Nat /\ \A i \in 1..N : a[i] \in Seq(Int) /\ i - 1 \in 0..N
        /\ (i # 1 => i - 1 \in 1..N)
    OBVIOUS
  <2>3. \A i \in 1..N : v[i] = IF i = 1 THEN a[i] ELSE v[i - 1] \o a[i]
    <3>1. SUFFICES ASSUME NEW i \in 1..N PROVE v[i] = IF i = 1 THEN a[i] ELSE v[i - 1] \o a[i]
      OBVIOUS
    <3>2. w[i] = w[i - 1] \o a[i] /\ v[i] = w[i]
      BY DEF Strung
    <3>3. CASE i = 1
      <4>1. w[i - 1] = <<>>
        BY <3>3 DEF Strung
      <4> DEFINE x == a[i]
      <4>2. x \in Seq(Int)
        BY <2>2
      <4> HIDE DEF x
      <4>3. <<>> \o x = x
        BY <4>2
      <4>4. QED
        BY <3>2, <3>3, <4>1, <4>3 DEF x
    <3>4. CASE i # 1
      <4>1. v[i - 1] = w[i - 1]
        BY <2>2, <3>4
      <4>2. QED
        BY <3>2, <3>4, <4>1
    <3>5. QED
      BY <3>3, <3>4
  <2>4. Rec(v)
    <3>1. [i \in 1..N |-> IF i = 1 THEN a[i] ELSE v[i - 1] \o a[i]] = [i \in 1..N |-> v[i]]
      <4> HIDE DEF v
      <4>1. QED
        BY <2>3
    <3>2. [i \in 1..N |-> v[i]] = v
      OBVIOUS
    <3>3. QED
      BY <3>1, <3>2
  <2>5. Rec(f)
    <3> HIDE DEF v, Rec
    <3>1. QED
      BY <2>4, Zenon
  <2>6. \A i \in 1..N : f[i] = IF i = 1 THEN a[i] ELSE f[i - 1] \o a[i]
    <3> HIDE DEF f
    <3>1. QED
      BY <2>5
  <2> DEFINE T == {n \in 0..N : n = 0 \/ f[n] = v[n]}
  <2>7. \A n \in 0..N : n \in T
    <3>1. 0 \in T
      BY <2>2
    <3>2. ASSUME NEW n \in 1..N, n - 1 \in T PROVE n \in T
      <4>1. f[n] = (IF n = 1 THEN a[n] ELSE f[n - 1] \o a[n])
            /\ v[n] = (IF n = 1 THEN a[n] ELSE v[n - 1] \o a[n])
        BY <2>3, <2>6
      <4> HIDE DEF f, v
      <4>2. n - 1 = 0 \/ f[n - 1] = v[n - 1]
        BY <3>2
      <4>3. f[n] = v[n]
        BY <4>1, <4>2
      <4>4. QED
        BY <4>3
    <3> HIDE DEF T
    <3>3. QED
      BY <2>2, <3>1, <3>2, UpTo
  <2>8. f[N] = v[N]
    <3> HIDE DEF f, v
    <3>1. N \in T
      BY <2>2, <2>7
    <3>2. QED
      BY <1>2, <3>1
  <2>9. v[N] = w[N]
    <3>1. N \in 1..N
      BY <1>2, <2>2
    <3>2. QED
      BY <3>1
  <2>10. QED
    BY <2>1, <2>8, <2>9
<1>3. QED
  BY <1>1, <1>2

\* What a network codes of a command, type by type.
Coded(t, v, p) ==
    /\ t = "LINK_CHECK" => p = <<v.margin, v.gwCount>>
    /\ t = "LINK_ADR" =>
          p = <<v.dataRate * 16 + v.txPower>> \o LE(v.channelMask, 2)
                 \o <<v.channelMaskControl * 16 + v.nbTrans>>
    /\ t = "DUTY_CYCLE" => p = <<v.maxDutyCycle>>
    /\ t = "RX_PARAM_SETUP" =>
          p = <<v.rx1DROffset * 16 + v.rx2DataRate>> \o LE(v.freq, 3)
    /\ t = "NEW_CHANNEL" =>
          p = <<v.chIndex>> \o LE(v.freq, 3) \o <<v.maxDR * 16 + v.minDR>>
    /\ t = "DL_CHANNEL" => p = <<v.chIndex>> \o LE(v.freq, 3)
    /\ t = "RX_TIMING_SETUP" => p = <<v.delay>>
    /\ t = "TX_PARAM_SETUP" =>
          p = <<Bit(v.downlinkDwell, 32) + Bit(v.uplinkDwell, 16) + v.maxEIRP>>
    /\ t = "REKEY" => p = <<v.version>>
    /\ t = "ADR_PARAM_SETUP" => p = <<v.limit_exp * 16 + v.delay_exp>>
    /\ t = "DEVICE_TIME" => p = LE(v.seconds, 4) \o <<v.fractions>>
    /\ t = "FORCE_REJOIN" =>
          p = LE(((v.period * 8 + v.max_retries) * 8 + v.rejoin_type) * 16 + v.dr, 2)
    /\ t = "REJOIN_PARAM_SETUP" => p = <<v.maxTimeN * 16 + v.maxCountN>>
    /\ t = "DEV_STATUS" => p = <<>>
    /\ t = "PROPRIETARY" => p = <<>>

LEMMA NetworkPayloadIs ==
    ASSUME NEW t, NEW v
    PROVE  Coded(t, v, NetworkPayload(t, v))
<1> DEFINE p == NetworkPayload(t, v)
<1>1. ASSUME t = "LINK_CHECK"
      PROVE  p = <<v.margin, v.gwCount>>
  BY <1>1, Zenon DEF NetworkPayload, p
<1>2. ASSUME t = "LINK_ADR"
      PROVE  p = <<v.dataRate * 16 + v.txPower>> \o LE(v.channelMask, 2)
                    \o <<v.channelMaskControl * 16 + v.nbTrans>>
  BY <1>2, Zenon DEF NetworkPayload, p
<1>3. ASSUME t = "DUTY_CYCLE"
      PROVE  p = <<v.maxDutyCycle>>
  BY <1>3, Zenon DEF NetworkPayload, p
<1>4. ASSUME t = "RX_PARAM_SETUP"
      PROVE  p = <<v.rx1DROffset * 16 + v.rx2DataRate>> \o LE(v.freq, 3)
  BY <1>4, Zenon DEF NetworkPayload, p
<1>5. ASSUME t = "NEW_CHANNEL"
      PROVE  p = <<v.chIndex>> \o LE(v.freq, 3) \o <<v.maxDR * 16 + v.minDR>>
  BY <1>5, Zenon DEF NetworkPayload, p
<1>6. ASSUME t = "DL_CHANNEL"
      PROVE  p = <<v.chIndex>> \o LE(v.freq, 3)
  BY <1>6, Zenon DEF NetworkPayload, p
<1>7. ASSUME t = "RX_TIMING_SETUP"
      PROVE  p = <<v.delay>>
  BY <1>7, Zenon DEF NetworkPayload, p
<1>8. ASSUME t = "TX_PARAM_SETUP"
      PROVE  p = <<Bit(v.downlinkDwell, 32) + Bit(v.uplinkDwell, 16) + v.maxEIRP>>
  BY <1>8, Zenon DEF NetworkPayload, p
<1>9. ASSUME t = "REKEY"
      PROVE  p = <<v.version>>
  BY <1>9, Zenon DEF NetworkPayload, p
<1>10. ASSUME t = "ADR_PARAM_SETUP"
      PROVE  p = <<v.limit_exp * 16 + v.delay_exp>>
  BY <1>10, Zenon DEF NetworkPayload, p
<1>11. ASSUME t = "DEVICE_TIME"
      PROVE  p = LE(v.seconds, 4) \o <<v.fractions>>
  BY <1>11, Zenon DEF NetworkPayload, p
<1>12. ASSUME t = "FORCE_REJOIN"
      PROVE  p = LE(((v.period * 8 + v.max_retries) * 8 + v.rejoin_type) * 16 + v.dr, 2)
  BY <1>12, Zenon DEF NetworkPayload, p
<1>13. ASSUME t = "REJOIN_PARAM_SETUP"
      PROVE  p = <<v.maxTimeN * 16 + v.maxCountN>>
  BY <1>13, Zenon DEF NetworkPayload, p
<1>14. ASSUME t = "DEV_STATUS"
      PROVE  p = <<>>
  BY <1>14, Zenon DEF NetworkPayload, p
<1>15. ASSUME t = "PROPRIETARY"
      PROVE  p = <<>>
  BY <1>15, Zenon DEF NetworkPayload, p
<1>16. QED
  BY <1>1, <1>2, <1>3, <1>4, <1>5, <1>6, <1>7, <1>8, <1>9, <1>10, <1>11, <1>12, <1>13, <1>14, <1>15,
     Zenon DEF Coded

LEMMA RecordOf ==
    ASSUME NEW T, NEW F, NEW c \in [type : T, fields : F]
    PROVE  c.type \in T /\ c.fields \in F
OBVIOUS

-----------------------------------------------------------------------------
(***************************************************************************)
(* What a command holds: no number, or one, two or three.                  *)
(***************************************************************************)
\* One, two, three numbers in their order.
One(x)         == Append(<<>>, x)
Two(x, y)      == Append(One(x), y)
Three(x, y, z) == Append(Two(x, y), z)

Extended(r, o, e, k, m) ==
    Size(r, m) /\ r[m] = e /\ \A i \in 1..k : r[i] = o[i]

LEMMA AppendedTo ==
    ASSUME NEW o, NEW k, Size(o, k), NEW e \in Int, NEW m, m = k + 1
    PROVE  Extended(Append(o, e), o, e, k, m)
<1>1. o \in Seq(Int) /\ Len(o) = k
  BY DEF Size
<1>2. /\ Append(o, e) \in Seq(Int) /\ Len(Append(o, e)) = Len(o) + 1
      /\ \A i \in 1..Len(o) : Append(o, e)[i] = o[i]
      /\ Append(o, e)[Len(o) + 1] = e
  BY <1>1, AppendProperties
<1>3. QED
  BY <1>1, <1>2 DEF Extended, Size

LEMMA InOrder ==
    ASSUME NEW x \in Int, NEW y \in Int, NEW z \in Int
    PROVE  /\ One(x)[1] = x
           /\ Two(x, y)[1] = x /\ Two(x, y)[2] = y
           /\ Three(x, y, z)[1] = x /\ Three(x, y, z)[2] = y /\ Three(x, y, z)[3] = z
<1> DEFINE n == <<>>
           o1 == One(x)
           o2 == Two(x, y)
           o3 == Three(x, y, z)
<1>1. Size(n, 0)
  BY DEF Size
<1>2. o1 = Append(n, x) /\ o2 = Append(o1, y) /\ o3 = Append(o2, z)
  BY DEF One, Two, Three
<1> HIDE DEF n, o1, o2, o3
<1>3. Extended(o1, n, x, 0, 1)
  BY <1>1, <1>2, AppendedTo, 1 = 0 + 1
<1>4. Extended(o2, o1, y, 1, 2)
  <2>1. Size(o1, 1)
    BY <1>3 DEF Extended
  <2>2. QED
    BY <1>2, <2>1, AppendedTo, 2 = 1 + 1
<1>5. Extended(o3, o2, z, 2, 3)
  <2>1. Size(o2, 2)
    BY <1>4 DEF Extended
  <2>2. QED
    BY <1>2, <2>1, AppendedTo, 3 = 2 + 1
<1>6. o1[1] = x /\ o2[1] = x /\ o2[2] = y
  BY <1>3, <1>4, 1 \in 1..1 DEF Extended
<1>7. o3[1] = x /\ o3[2] = y /\ o3[3] = z
  BY <1>5, <1>6, 1 \in 1..2, 2 \in 1..2 DEF Extended
<1>8. QED
  BY <1>6, <1>7 DEF o1, o2, o3

\* The numbers of each type, and what is made of them.
LaidOutAs(t, y) ==
    /\ t = "LINK_CHECK" => y = <<1, 1>>
    /\ t = "LINK_ADR" => y = <<1, 2, 1>>
    /\ t = "DUTY_CYCLE" => y = <<1>>
    /\ t = "RX_PARAM_SETUP" => y = <<1, 3>>
    /\ t = "DEV_STATUS" => y = <<>>
    /\ t = "NEW_CHANNEL" => y = <<1, 3, 1>>
    /\ t = "RX_TIMING_SETUP" => y = <<1>>
    /\ t = "TX_PARAM_SETUP" => y = <<1>>
    /\ t = "DL_CHANNEL" => y = <<1, 3>>
    /\ t = "REKEY" => y = <<1>>
    /\ t = "ADR_PARAM_SETUP" => y = <<1>>
    /\ t = "DEVICE_TIME" => y = <<4, 1>>
    /\ t = "FORCE_REJOIN" => y = <<2>>
    /\ t = "REJOIN_PARAM_SETUP" => y = <<1>>

LEMMA LayoutIs ==
    ASSUME NEW t
    PROVE  LaidOutAs(t, Layout(t))
<1> DEFINE y == Layout(t)
<1>1. ASSUME t = "LINK_CHECK" PROVE y = <<1, 1>>
  BY <1>1 DEF Layout, y
<1>2. ASSUME t = "LINK_ADR" PROVE y = <<1, 2, 1>>
  BY <1>2 DEF Layout, y
<1>3. ASSUME t \in {"RX_PARAM_SETUP", "DL_CHANNEL"} PROVE y = <<1, 3>>
  BY <1>3 DEF Layout, y
<1>4. ASSUME t = "DEV_STATUS" PROVE y = <<>>
  BY <1>4 DEF Layout, y
<1>5. ASSUME t = "NEW_CHANNEL" PROVE y = <<1, 3, 1>>
  BY <1>5 DEF Layout, y
<1>6. ASSUME t = "DEVICE_TIME" PROVE y = <<4, 1>>
  BY <1>6 DEF Layout, y
<1>7. ASSUME t = "FORCE_REJOIN" PROVE y = <<2>>
  BY <1>7 DEF Layout, y
<1>8. ASSUME t \in {"DUTY_CYCLE", "RX_TIMING_SETUP", "TX_PARAM_SETUP", "REKEY",
                    "ADR_PARAM_SETUP", "REJOIN_PARAM_SETUP"}
      PROVE  y = <<1>>
  BY <1>8 DEF Layout, y
<1> HIDE DEF y
<1>9. LaidOutAs(t, y)
  BY <1>1, <1>2, <1>3, <1>4, <1>5, <1>6, <1>7, <1>8, Zenon DEF LaidOutAs
<1>10. QED
  BY <1>9 DEF y

FieldedAs(t, n, r) ==
    /\ t = "LINK_CHECK" => r = [margin |-> n[1], gwCount |-> n[2]]
    /\ t = "LINK_ADR" => r = [dataRate |-> n[1] \div 16, txPower |-> n[1] % 16,
                              channelMask |-> n[2], channelMaskControl |-> (n[3] \div 16) % 8,
                              nbTrans |-> n[3] % 16]
    /\ t = "DUTY_CYCLE" => r = [maxDutyCycle |-> n[1] % 16]
    /\ t = "DEV_STATUS" => r = <<>>
    /\ t = "NEW_CHANNEL" => r = [chIndex |-> n[1], freq |-> n[2], maxDR |-> n[3] \div 16,
                                 minDR |-> n[3] % 16]
    /\ t = "DL_CHANNEL" => r = [chIndex |-> n[1], freq |-> n[2]]
    /\ t = "RX_TIMING_SETUP" => r = [delay |-> n[1] % 16]
    /\ t = "TX_PARAM_SETUP" => r = [downlinkDwell |-> (n[1] \div 32) % 2 = 1,
                                    uplinkDwell |-> (n[1] \div 16) % 2 = 1,
                                    maxEIRP |-> n[1] % 16]
    /\ t = "REKEY" => r = [version |-> n[1] % 16]
    /\ t = "ADR_PARAM_SETUP" => r = [limit_exp |-> n[1] \div 16, delay_exp |-> n[1] % 16]
    /\ t = "DEVICE_TIME" => r = [seconds |-> n[1], fractions |-> n[2]]
    /\ t = "FORCE_REJOIN" => r = [period |-> (n[1] \div 1024) % 8,
                                  max_retries |-> (n[1] \div 128) % 8,
                                  rejoin_type |-> (n[1] \div 16) % 8, dr |-> n[1] % 16]
    /\ t = "REJOIN_PARAM_SETUP" => r = [maxTimeN |-> n[1] \div 16, maxCountN |-> n[1] % 16]

LEMMA FieldsAre ==
    ASSUME NEW t, NEW n
    PROVE  FieldedAs(t, n, Fields(t, n))
<1> DEFINE r == Fields(t, n)
<1>1. ASSUME t = "LINK_CHECK" PROVE r = [margin |-> n[1], gwCount |-> n[2]]
  BY <1>1 DEF Fields, r
<1>2. ASSUME t = "LINK_ADR"
      PROVE  r = [dataRate |-> n[1] \div 16, txPower |-> n[1] % 16,
                  channelMask |-> n[2], channelMaskControl |-> (n[3] \div 16) % 8,
                  nbTrans |-> n[3] % 16]
  BY <1>2 DEF Fields, r
<1>3. ASSUME t = "DUTY_CYCLE" PROVE r = [maxDutyCycle |-> n[1] % 16]
  BY <1>3 DEF Fields, r
<1>4. ASSUME t = "DEV_STATUS" PROVE r = <<>>
  BY <1>4 DEF Fields, r
<1>5. ASSUME t = "NEW_CHANNEL"
      PROVE  r = [chIndex |-> n[1], freq |-> n[2], maxDR |-> n[3] \div 16, minDR |-> n[3] % 16]
  BY <1>5 DEF Fields, r
<1>6. ASSUME t = "DL_CHANNEL" PROVE r = [chIndex |-> n[1], freq |-> n[2]]
  BY <1>6 DEF Fields, r
<1>7. ASSUME t = "RX_TIMING_SETUP" PROVE r = [delay |-> n[1] % 16]
  BY <1>7 DEF Fields, r
<1>8. ASSUME t = "TX_PARAM_SETUP"
      PROVE  r = [downlinkDwell |-> (n[1] \div 32) % 2 = 1, uplinkDwell |-> (n[1] \div 16) % 2 = 1,
                  maxEIRP |-> n[1] % 16]
  BY <1>8 DEF Fields, r
<1>9. ASSUME t = "REKEY" PROVE r = [version |-> n[1] % 16]
  BY <1>9 DEF Fields, r
<1>10. ASSUME t = "ADR_PARAM_SETUP" PROVE r = [limit_exp |-> n[1] \div 16, delay_exp |-> n[1] % 16]
  BY <1>10 DEF Fields, r
<1>11. ASSUME t = "DEVICE_TIME" PROVE r = [seconds |-> n[1], fractions |-> n[2]]
  BY <1>11 DEF Fields, r
<1>12. ASSUME t = "FORCE_REJOIN"
       PROVE  r = [period |-> (n[1] \div 1024) % 8, max_retries |-> (n[1] \div 128) % 8,
                   rejoin_type |-> (n[1] \div 16) % 8, dr |-> n[1] % 16]
  BY <1>12 DEF Fields, r
<1>13. ASSUME t = "REJOIN_PARAM_SETUP"
       PROVE  r = [maxTimeN |-> n[1] \div 16, maxCountN |-> n[1] % 16]
  BY <1>13 DEF Fields, r
<1> HIDE DEF r
<1>14. FieldedAs(t, n, r)
  BY <1>1, <1>2, <1>3, <1>4, <1>5, <1>6, <1>7, <1>8, <1>9, <1>10, <1>11, <1>12, <1>13,
     Zenon DEF FieldedAs
<1>15. QED
  BY <1>14 DEF r

\* A byte is a number of one byte.
LEMMA OneByte ==
    ASSUME NEW x \in 0..255
    PROVE  <<x>> = LE(x, 1) /\ x \in Unsigned(1)
<1>1. x \in Nat /\ 1 \in Nat /\ x % 256 = x /\ x \div 1 = x /\ 256^0 = 1 /\ 1 - 1 = 0
  OBVIOUS
<1>2. LE(x, 1) \in Seq(Int) /\ Len(LE(x, 1)) = 1 /\ LE(x, 1)[1] = ByteOf(x, 1)
  <2>1. LE(x, 1) \in Seq(Int) /\ Len(LE(x, 1)) = 1 /\ \A i \in 1..1 : LE(x, 1)[i] = ByteOf(x, i)
    BY <1>1, BytesOf
  <2>2. QED
    BY <2>1, 1 \in 1..1
<1>3. ByteOf(x, 1) = x
  BY <1>1 DEF ByteOf
<1> DEFINE a == <<x>>
           b == LE(x, 1)
<1>4. a \in Seq(Int) /\ Len(a) = 1 /\ a[1] = x
  OBVIOUS
<1> HIDE DEF a
<1>5. a = b
  <2> HIDE DEF b
  <2>1. b \in Seq(Int) /\ Len(b) = 1 /\ b[1] = x
    BY <1>2, <1>3 DEF b
  <2>2. \A i \in 1..Len(a) : a[i] = b[i]
    BY <1>4, <2>1
  <2>3. QED
    BY <1>4, <2>1, <2>2, SameSeq
<1>6. x \in Unsigned(1)
  BY <1>1 DEF Unsigned
<1>7. QED
  BY <1>5, <1>6 DEF a, b

\* Two halves of a byte, and three bits and a half.
LEMMA HalvesOf ==
    ASSUME NEW x \in 0..15, NEW y \in 0..15
    PROVE  /\ x * 16 + y \in 0..255 /\ (x * 16 + y) \div 16 = x /\ (x * 16 + y) % 16 = y
           /\ x < 8 => ((x * 16 + y) \div 16) % 8 = x
OBVIOUS

RejoinRead(x, g, h, i, j) ==
    /\ x \in Nat /\ x < 65536 /\ (x \div 1024) % 8 = g /\ (x \div 128) % 8 = h
    /\ (x \div 16) % 8 = i /\ x % 16 = j

LEMMA RejoinParts ==
    ASSUME NEW g \in 0..7, NEW h \in 0..7, NEW i \in 0..7, NEW j \in 0..15,
           NEW x, x = ((g * 8 + h) * 8 + i) * 16 + j
    PROVE  RejoinRead(x, g, h, i, j)
BY DEF RejoinRead

LEMMA DwellParts ==
    ASSUME NEW a \in BOOLEAN, NEW b \in BOOLEAN, NEW e \in 0..15,
           NEW x, x = Bit(a, 32) + Bit(b, 16) + e
    PROVE  /\ x \in 0..255 /\ ((x \div 32) % 2 = 1) = a /\ ((x \div 16) % 2 = 1) = b /\ x % 16 = e
<1>1. CASE a = TRUE /\ b = TRUE
  <2>1. x = 32 + 16 + e
    BY <1>1 DEF Bit
  <2>2. x \in 0..255 /\ (x \div 32) % 2 = 1 /\ (x \div 16) % 2 = 1 /\ x % 16 = e
    BY <2>1
  <2>3. QED
    BY <1>1, <2>2
<1>2. CASE a = TRUE /\ b = FALSE
  <2>1. x = 32 + e
    BY <1>2 DEF Bit
  <2>2. x \in 0..255 /\ (x \div 32) % 2 = 1 /\ (x \div 16) % 2 = 0 /\ x % 16 = e
    BY <2>1
  <2>3. ((x \div 32) % 2 = 1) = TRUE
    BY <2>2
  <2>4. ((x \div 16) % 2 = 1) = FALSE
    BY <2>2
  <2>5. QED
    BY <1>2, <2>2, <2>3, <2>4
<1>3. CASE a = FALSE /\ b = TRUE
  <2>1. x = 16 + e
    BY <1>3 DEF Bit
  <2>2. x \in 0..255 /\ (x \div 32) % 2 = 0 /\ (x \div 16) % 2 = 1 /\ x % 16 = e
    BY <2>1
  <2>3. ((x \div 32) % 2 = 1) = FALSE
    BY <2>2
  <2>4. ((x \div 16) % 2 = 1) = TRUE
    BY <2>2
  <2>5. QED
    BY <1>3, <2>2, <2>3, <2>4
<1>4. CASE a = FALSE /\ b = FALSE
  <2>1. x = e
    BY <1>4 DEF Bit
  <2>2. x \in 0..255 /\ (x \div 32) % 2 = 0 /\ (x \div 16) % 2 = 0 /\ x % 16 = e
    BY <2>1
  <2>3. QED
    BY <1>4, <2>2
<1>5. QED
  BY <1>1, <1>2, <1>3, <1>4

\* What is made of the numbers n is what was meant; the first byte of RXParamSetupReq is not
\* taken apart.
Meant(t, n, v) == t # "RX_PARAM_SETUP" => Fields(t, n) = v

BareForm(t, p, v) == Layout(t) = <<>> /\ p = <<>> /\ Meant(t, <<>>, v)

SingleForm(t, p, v, l, x) ==
    /\ Layout(t) = <<l>> /\ p = LE(x, l) /\ Meant(t, One(x), v)
    /\ l \in 1..4 /\ x \in Unsigned(l)

DoubleForm(t, p, v, l, x, m, y) ==
    /\ Layout(t) = <<l, m>> /\ p = LE(x, l) \o LE(y, m) /\ Meant(t, Two(x, y), v)
    /\ l \in 1..4 /\ x \in Unsigned(l) /\ m \in 1..4 /\ y \in Unsigned(m)

TripleForm(t, p, v, l, x, m, y, n, z) ==
    /\ Layout(t) = <<l, m, n>> /\ p = LE(x, l) \o LE(y, m) \o LE(z, n)
    /\ Meant(t, Three(x, y, z), v)
    /\ l \in 1..4 /\ x \in Unsigned(l) /\ m \in 1..4 /\ y \in Unsigned(m)
    /\ n \in 1..4 /\ z \in Unsigned(n)

Formed(t, p, v) ==
    \/ BareForm(t, p, v)
    \/ \E l, x : SingleForm(t, p, v, l, x)
    \/ \E l, x, m, y : DoubleForm(t, p, v, l, x, m, y)
    \/ \E l, x, m, y, n, z : TripleForm(t, p, v, l, x, m, y, n, z)

LEMMA PairJoined ==
    ASSUME NEW x \in Int, NEW y \in Int
    PROVE  <<x, y>> = <<x>> \o <<y>>
<1> DEFINE a == <<x>>
           b == <<y>>
           c == <<x, y>>
           d == a \o b
<1>1. /\ a \in Seq(Int) /\ Len(a) = 1 /\ a[1] = x /\ b \in Seq(Int) /\ Len(b) = 1 /\ b[1] = y
      /\ c \in Seq(Int) /\ Len(c) = 2 /\ c[1] = x /\ c[2] = y
  OBVIOUS
<1> HIDE DEF a, b, c
<1>2. Concat(d, a, b, 1, 1)
  BY <1>1, JoinedAs
<1> HIDE DEF d
<1>3. d \in Seq(Int) /\ Len(d) = 2 /\ d[1] = x /\ d[2] = y
  BY <1>1, <1>2, 1 + 1 = 2, 1 \in 1..1 DEF Concat
<1>4. \A i \in 1..Len(c) : c[i] = d[i]
  BY <1>1, <1>3
<1>5. c = d
  BY <1>1, <1>3, <1>4, SameSeq
<1>6. QED
  BY <1>5 DEF a, b, c, d

LEMMA LinkCheckFormed ==
    ASSUME NEW p, NEW v \in [margin : 0..255, gwCount : 0..255], Coded("LINK_CHECK", v, p)
    PROVE  Formed("LINK_CHECK", p, v)
<1> DEFINE t == "LINK_CHECK"
           g1 == v.margin
           g2 == v.gwCount
<1>1. /\ g1 \in 0..255 /\ g2 \in 0..255
      /\ v = [margin |-> g1, gwCount |-> g2]
  OBVIOUS
<1>2. p = <<g1, g2>>
  BY Zenon DEF Coded
<1>3. Layout(t) = <<1, 1>>
  <2>1. LaidOutAs(t, Layout(t))
    BY LayoutIs, Zenon
  <2>2. QED
    BY <2>1, Zenon DEF LaidOutAs
<1> HIDE DEF g1, g2
<1> DEFINE x1 == g1
           x2 == g2
           n == Two(x1, x2)
<1>4. x1 \in 0..255
  BY <1>1
<1>5. x2 \in 0..255
  BY <1>1
<1> HIDE DEF x1, x2
<1>6. x1 \in Unsigned(1) /\ <<x1>> = LE(x1, 1) /\ x2 \in Unsigned(1) /\ <<x2>> = LE(x2, 1)
  BY <1>4, <1>5, OneByte
<1>7. p = LE(x1, 1) \o LE(x2, 1)
  <2>1. <<x1, x2>> = <<x1>> \o <<x2>>
    BY <1>4, <1>5, PairJoined
  <2>2. p = <<x1, x2>>
    BY <1>2 DEF x1, x2
  <2>3. QED
    BY <1>6, <2>1, <2>2
<1>8. n[1] = x1 /\ n[2] = x2
  <2>1. x1 \in Int /\ x2 \in Int
    BY <1>4, <1>5
  <2>2. QED
    BY <2>1, InOrder
<1> HIDE DEF n
<1>9. Fields(t, n) = [margin |-> n[1], gwCount |-> n[2]]
  <2>1. FieldedAs(t, n, Fields(t, n))
    BY FieldsAre, Zenon
  <2>2. QED
    BY <2>1 DEF FieldedAs
<1>10. n[1] = g1 /\ n[2] = g2
  BY <1>1, <1>8, <1>4, <1>5 DEF x1, x2
<1>11. Meant(t, n, v)
  BY <1>1, <1>9, <1>10, Zenon DEF Meant
<1> HIDE DEF t
<1>12. DoubleForm(t, p, v, 1, x1, 1, x2)
  BY <1>3, <1>7, <1>11, <1>4, <1>5, <1>6, 1 \in 1..4 DEF DoubleForm, n
<1>13. Formed(t, p, v)
  BY <1>12, Zenon DEF Formed
<1>14. QED
  BY <1>13 DEF t

LEMMA LinkADRFormed ==
    ASSUME NEW p, NEW v \in [dataRate : 0..15, txPower : 0..15, channelMask : Unsigned(2),
                             channelMaskControl : 0..7, nbTrans : 0..15], Coded("LINK_ADR", v, p)
    PROVE  Formed("LINK_ADR", p, v)
<1> DEFINE t == "LINK_ADR"
           g1 == v.dataRate
           g2 == v.txPower
           g3 == v.channelMask
           g4 == v.channelMaskControl
           g5 == v.nbTrans
<1>1. /\ g1 \in 0..15 /\ g2 \in 0..15 /\ g3 \in Unsigned(2) /\ g4 \in 0..7 /\ g5 \in 0..15
      /\ v = [dataRate |-> g1, txPower |-> g2, channelMask |-> g3, channelMaskControl |-> g4,
              nbTrans |-> g5]
  OBVIOUS
<1>2. p = <<g1 * 16 + g2>> \o LE(g3, 2) \o <<g4 * 16 + g5>>
  BY Zenon DEF Coded
<1>3. Layout(t) = <<1, 2, 1>>
  <2>1. LaidOutAs(t, Layout(t))
    BY LayoutIs, Zenon
  <2>2. QED
    BY <2>1, Zenon DEF LaidOutAs
<1> HIDE DEF g1, g2, g3, g4, g5
<1> DEFINE x1 == g1 * 16 + g2
           x2 == g3
           x3 == g4 * 16 + g5
           n == Three(x1, x2, x3)
<1>4. x1 \in 0..255 /\ x1 \div 16 = g1 /\ x1 % 16 = g2
  BY <1>1, HalvesOf
<1>5. x2 \in Unsigned(2) /\ x2 \in Int
  BY <1>1 DEF Unsigned
<1>6. x3 \in 0..255 /\ x3 \div 16 = g4 /\ x3 % 16 = g5 /\ (x3 \div 16) % 8 = g4
  <2>1. g4 \in 0..15 /\ g4 < 8 /\ g5 \in 0..15
    BY <1>1
  <2>2. QED
    BY <2>1, HalvesOf
<1> HIDE DEF x1, x2, x3
<1>7. x1 \in Unsigned(1) /\ <<x1>> = LE(x1, 1) /\ x2 \in Unsigned(2) /\ x3 \in Unsigned(1)
      /\ <<x3>> = LE(x3, 1)
  BY <1>4, <1>5, <1>6, OneByte
<1>8. p = LE(x1, 1) \o LE(x2, 2) \o LE(x3, 1)
  <2>1. p = <<x1>> \o LE(x2, 2) \o <<x3>>
    BY <1>2, Zenon DEF x1, x2, x3
  <2>2. QED
    BY <1>7, <2>1, Zenon
<1>9. n[1] = x1 /\ n[2] = x2 /\ n[3] = x3
  <2>1. x1 \in Int /\ x2 \in Int /\ x3 \in Int
    BY <1>4, <1>5, <1>6
  <2>2. QED
    BY <2>1, InOrder
<1> HIDE DEF n
<1>10. Fields(t, n) = [dataRate |-> n[1] \div 16, txPower |-> n[1] % 16, channelMask |-> n[2],
                       channelMaskControl |-> (n[3] \div 16) % 8, nbTrans |-> n[3] % 16]
  <2>1. FieldedAs(t, n, Fields(t, n))
    BY FieldsAre, Zenon
  <2>2. QED
    BY <2>1 DEF FieldedAs
<1>11. n[1] \div 16 = g1 /\ n[1] % 16 = g2 /\ n[2] = g3 /\ (n[3] \div 16) % 8 = g4 /\ n[3] % 16 = g5
  BY <1>1, <1>9, <1>4, <1>5, <1>6 DEF x1, x2, x3
<1>12. Meant(t, n, v)
  BY <1>1, <1>10, <1>11, Zenon DEF Meant
<1> HIDE DEF t
<1>13. TripleForm(t, p, v, 1, x1, 2, x2, 1, x3)
  BY <1>3, <1>8, <1>12, <1>4, <1>5, <1>6, <1>7, 1 \in 1..4, 2 \in 1..4 DEF TripleForm, n
<1>14. Formed(t, p, v)
  BY <1>13, Zenon DEF Formed
<1>15. QED
  BY <1>14 DEF t

LEMMA DutyCycleFormed ==
    ASSUME NEW p, NEW v \in [maxDutyCycle : 0..15], Coded("DUTY_CYCLE", v, p)
    PROVE  Formed("DUTY_CYCLE", p, v)
<1> DEFINE t == "DUTY_CYCLE"
           g1 == v.maxDutyCycle
<1>1. /\ g1 \in 0..15
      /\ v = [maxDutyCycle |-> g1]
  OBVIOUS
<1>2. p = <<g1>>
  BY Zenon DEF Coded
<1>3. Layout(t) = <<1>>
  <2>1. LaidOutAs(t, Layout(t))
    BY LayoutIs, Zenon
  <2>2. QED
    BY <2>1, Zenon DEF LaidOutAs
<1> HIDE DEF g1
<1> DEFINE x1 == g1
           n == One(x1)
<1>4. x1 \in 0..255 /\ x1 % 16 = g1
  BY <1>1
<1> HIDE DEF x1
<1>5. x1 \in Unsigned(1) /\ <<x1>> = LE(x1, 1)
  BY <1>4, OneByte
<1>6. p = LE(x1, 1)
  <2>1. p = <<x1>>
    BY <1>2, Zenon DEF x1
  <2>2. QED
    BY <1>5, <2>1, Zenon
<1>7. n[1] = x1
  <2>1. x1 \in Int
    BY <1>4
  <2>2. QED
    BY <2>1, InOrder
<1> HIDE DEF n
<1>8. Fields(t, n) = [maxDutyCycle |-> n[1] % 16]
  <2>1. FieldedAs(t, n, Fields(t, n))
    BY FieldsAre, Zenon
  <2>2. QED
    BY <2>1 DEF FieldedAs
<1>9. n[1] % 16 = g1
  BY <1>1, <1>7, <1>4 DEF x1
<1>10. Meant(t, n, v)
  BY <1>1, <1>8, <1>9, Zenon DEF Meant
<1> HIDE DEF t
<1>11. SingleForm(t, p, v, 1, x1)
  BY <1>3, <1>6, <1>10, <1>4, <1>5, 1 \in 1..4 DEF SingleForm, n
<1>12. Formed(t, p, v)
  BY <1>11, Zenon DEF Formed
<1>13. QED
  BY <1>12 DEF t

LEMMA RxParamFormed ==
    ASSUME NEW p, NEW v \in [rx1DROffset : 0..7, rx2DataRate : 0..15, freq : Unsigned(3)],
           Coded("RX_PARAM_SETUP", v, p)
    PROVE  Formed("RX_PARAM_SETUP", p, v)
<1> DEFINE t == "RX_PARAM_SETUP"
           g1 == v.rx1DROffset
           g2 == v.rx2DataRate
           g3 == v.freq
<1>1. /\ g1 \in 0..7 /\ g2 \in 0..15 /\ g3 \in Unsigned(3)
      /\ v = [rx1DROffset |-> g1, rx2DataRate |-> g2, freq |-> g3]
  OBVIOUS
<1>2. p = <<g1 * 16 + g2>> \o LE(g3, 3)
  BY Zenon DEF Coded
<1>3. Layout(t) = <<1, 3>>
  <2>1. LaidOutAs(t, Layout(t))
    BY LayoutIs, Zenon
  <2>2. QED
    BY <2>1, Zenon DEF LaidOutAs
<1> HIDE DEF g1, g2, g3
<1> DEFINE x1 == g1 * 16 + g2
           x2 == g3
           n == Two(x1, x2)
<1>4. x1 \in 0..255 /\ x1 \div 16 = g1 /\ x1 % 16 = g2
  <2>1. g1 \in 0..15 /\ g1 < 8 /\ g2 \in 0..15
    BY <1>1
  <2>2. QED
    BY <2>1, HalvesOf
<1>5. x2 \in Unsigned(3) /\ x2 \in Int
  BY <1>1 DEF Unsigned
<1> HIDE DEF x1, x2
<1>6. x1 \in Unsigned(1) /\ <<x1>> = LE(x1, 1) /\ x2 \in Unsigned(3)
  BY <1>4, <1>5, OneByte
<1>7. p = LE(x1, 1) \o LE(x2, 3)
  <2>1. p = <<x1>> \o LE(x2, 3)
    BY <1>2, Zenon DEF x1, x2
  <2>2. QED
    BY <1>6, <2>1, Zenon
<1>8. Meant(t, n, v)
  BY DEF Meant
<1> HIDE DEF n
<1> HIDE DEF t
<1>9. DoubleForm(t, p, v, 1, x1, 3, x2)
  BY <1>3, <1>7, <1>8, <1>4, <1>5, <1>6, 1 \in 1..4, 3 \in 1..4 DEF DoubleForm, n
<1>10. Formed(t, p, v)
  BY <1>9, Zenon DEF Formed
<1>11. QED
  BY <1>10 DEF t

LEMMA NewChannelFormed ==
    ASSUME NEW p, NEW v \in [chIndex : 0..255, freq : Unsigned(3), maxDR : 0..15, minDR : 0..15],
           Coded("NEW_CHANNEL", v, p)
    PROVE  Formed("NEW_CHANNEL", p, v)
<1> DEFINE t == "NEW_CHANNEL"
           g1 == v.chIndex
           g2 == v.freq
           g3 == v.maxDR
           g4 == v.minDR
<1>1. /\ g1 \in 0..255 /\ g2 \in Unsigned(3) /\ g3 \in 0..15 /\ g4 \in 0..15
      /\ v = [chIndex |-> g1, freq |-> g2, maxDR |-> g3, minDR |-> g4]
  OBVIOUS
<1>2. p = <<g1>> \o LE(g2, 3) \o <<g3 * 16 + g4>>
  BY Zenon DEF Coded
<1>3. Layout(t) = <<1, 3, 1>>
  <2>1. LaidOutAs(t, Layout(t))
    BY LayoutIs, Zenon
  <2>2. QED
    BY <2>1, Zenon DEF LaidOutAs
<1> HIDE DEF g1, g2, g3, g4
<1> DEFINE x1 == g1
           x2 == g2
           x3 == g3 * 16 + g4
           n == Three(x1, x2, x3)
<1>4. x1 \in 0..255
  BY <1>1
<1>5. x2 \in Unsigned(3) /\ x2 \in Int
  BY <1>1 DEF Unsigned
<1>6. x3 \in 0..255 /\ x3 \div 16 = g3 /\ x3 % 16 = g4
  BY <1>1, HalvesOf
<1> HIDE DEF x1, x2, x3
<1>7. x1 \in Unsigned(1) /\ <<x1>> = LE(x1, 1) /\ x2 \in Unsigned(3) /\ x3 \in Unsigned(1)
      /\ <<x3>> = LE(x3, 1)
  BY <1>4, <1>5, <1>6, OneByte
<1>8. p = LE(x1, 1) \o LE(x2, 3) \o LE(x3, 1)
  <2>1. p = <<x1>> \o LE(x2, 3) \o <<x3>>
    BY <1>2, Zenon DEF x1, x2, x3
  <2>2. QED
    BY <1>7, <2>1, Zenon
<1>9. n[1] = x1 /\ n[2] = x2 /\ n[3] = x3
  <2>1. x1 \in Int /\ x2 \in Int /\ x3 \in Int
    BY <1>4, <1>5, <1>6
  <2>2. QED
    BY <2>1, InOrder
<1> HIDE DEF n
<1>10. Fields(t, n) = [chIndex |-> n[1], freq |-> n[2], maxDR |-> n[3] \div 16, minDR |-> n[3] % 16]
  <2>1. FieldedAs(t, n, Fields(t, n))
    BY FieldsAre, Zenon
  <2>2. QED
    BY <2>1 DEF FieldedAs
<1>11. n[1] = g1 /\ n[2] = g2 /\ n[3] \div 16 = g3 /\ n[3] % 16 = g4
  BY <1>1, <1>9, <1>4, <1>5, <1>6 DEF x1, x2, x3
<1>12. Meant(t, n, v)
  BY <1>1, <1>10, <1>11, Zenon DEF Meant
<1> HIDE DEF t
<1>13. TripleForm(t, p, v, 1, x1, 3, x2, 1, x3)
  BY <1>3, <1>8, <1>12, <1>4, <1>5, <1>6, <1>7, 1 \in 1..4, 3 \in 1..4 DEF TripleForm, n
<1>14. Formed(t, p, v)
  BY <1>13, Zenon DEF Formed
<1>15. QED
  BY <1>14 DEF t

LEMMA RxTimingFormed ==
    ASSUME NEW p, NEW v \in [delay : 0..15], Coded("RX_TIMING_SETUP", v, p)
    PROVE  Formed("RX_TIMING_SETUP", p, v)
<1> DEFINE t == "RX_TIMING_SETUP"
           g1 == v.delay
<1>1. /\ g1 \in 0..15
      /\ v = [delay |-> g1]
  OBVIOUS
<1>2. p = <<g1>>
  BY Zenon DEF Coded
<1>3. Layout(t) = <<1>>
  <2>1. LaidOutAs(t, Layout(t))
    BY LayoutIs, Zenon
  <2>2. QED
    BY <2>1, Zenon DEF LaidOutAs
<1> HIDE DEF g1
<1> DEFINE x1 == g1
           n == One(x1)
<1>4. x1 \in 0..255 /\ x1 % 16 = g1
  BY <1>1
<1> HIDE DEF x1
<1>5. x1 \in Unsigned(1) /\ <<x1>> = LE(x1, 1)
  BY <1>4, OneByte
<1>6. p = LE(x1, 1)
  <2>1. p = <<x1>>
    BY <1>2, Zenon DEF x1
  <2>2. QED
    BY <1>5, <2>1, Zenon
<1>7. n[1] = x1
  <2>1. x1 \in Int
    BY <1>4
  <2>2. QED
    BY <2>1, InOrder
<1> HIDE DEF n
<1>8. Fields(t, n) = [delay |-> n[1] % 16]
  <2>1. FieldedAs(t, n, Fields(t, n))
    BY FieldsAre, Zenon
  <2>2. QED
    BY <2>1 DEF FieldedAs
<1>9. n[1] % 16 = g1
  BY <1>1, <1>7, <1>4 DEF x1
<1>10. Meant(t, n, v)
  BY <1>1, <1>8, <1>9, Zenon DEF Meant
<1> HIDE DEF t
<1>11. SingleForm(t, p, v, 1, x1)
  BY <1>3, <1>6, <1>10, <1>4, <1>5, 1 \in 1..4 DEF SingleForm, n
<1>12. Formed(t, p, v)
  BY <1>11, Zenon DEF Formed
<1>13. QED
  BY <1>12 DEF t

LEMMA TxParamFormed ==
    ASSUME NEW p, NEW v \in [downlinkDwell : BOOLEAN, uplinkDwell : BOOLEAN, maxEIRP : 0..15],
           Coded("TX_PARAM_SETUP", v, p)
    PROVE  Formed("TX_PARAM_SETUP", p, v)
<1> DEFINE t == "TX_PARAM_SETUP"
           g1 == v.downlinkDwell
           g2 == v.uplinkDwell
           g3 == v.maxEIRP
<1>1. /\ g1 \in BOOLEAN /\ g2 \in BOOLEAN /\ g3 \in 0..15
      /\ v = [downlinkDwell |-> g1, uplinkDwell |-> g2, maxEIRP |-> g3]
  OBVIOUS
<1>2. p = <<Bit(g1, 32) + Bit(g2, 16) + g3>>
  BY Zenon DEF Coded
<1>3. Layout(t) = <<1>>
  <2>1. LaidOutAs(t, Layout(t))
    BY LayoutIs, Zenon
  <2>2. QED
    BY <2>1, Zenon DEF LaidOutAs
<1> HIDE DEF g1, g2, g3
<1> DEFINE x1 == Bit(g1, 32) + Bit(g2, 16) + g3
           n == One(x1)
<1>4. /\ x1 \in 0..255 /\ ((x1 \div 32) % 2 = 1) = g1 /\ ((x1 \div 16) % 2 = 1) = g2
      /\ x1 % 16 = g3
  BY <1>1, DwellParts
<1> HIDE DEF x1
<1>5. x1 \in Unsigned(1) /\ <<x1>> = LE(x1, 1)
  BY <1>4, OneByte
<1>6. p = LE(x1, 1)
  <2>1. p = <<x1>>
    BY <1>2, Zenon DEF x1
  <2>2. QED
    BY <1>5, <2>1, Zenon
<1>7. n[1] = x1
  <2>1. x1 \in Int
    BY <1>4
  <2>2. QED
    BY <2>1, InOrder
<1> HIDE DEF n
<1>8. Fields(t, n) = [downlinkDwell |-> (n[1] \div 32) % 2 = 1,
                      uplinkDwell |-> (n[1] \div 16) % 2 = 1, maxEIRP |-> n[1] % 16]
  <2>1. FieldedAs(t, n, Fields(t, n))
    BY FieldsAre, Zenon
  <2>2. QED
    BY <2>1 DEF FieldedAs
<1>9. ((n[1] \div 32) % 2 = 1) = g1 /\ ((n[1] \div 16) % 2 = 1) = g2 /\ n[1] % 16 = g3
  BY <1>1, <1>7, <1>4 DEF x1
<1>10. Meant(t, n, v)
  BY <1>1, <1>8, <1>9, Zenon DEF Meant
<1> HIDE DEF t
<1>11. SingleForm(t, p, v, 1, x1)
  BY <1>3, <1>6, <1>10, <1>4, <1>5, 1 \in 1..4 DEF SingleForm, n
<1>12. Formed(t, p, v)
  BY <1>11, Zenon DEF Formed
<1>13. QED
  BY <1>12 DEF t

LEMMA DlChannelFormed ==
    ASSUME NEW p, NEW v \in [chIndex : 0..255, freq : Unsigned(3)], Coded("DL_CHANNEL", v, p)
    PROVE  Formed("DL_CHANNEL", p, v)
<1> DEFINE t == "DL_CHANNEL"
           g1 == v.chIndex
           g2 == v.freq
<1>1. /\ g1 \in 0..255 /\ g2 \in Unsigned(3)
      /\ v = [chIndex |-> g1, freq |-> g2]
  OBVIOUS
<1>2. p = <<g1>> \o LE(g2, 3)
  BY Zenon DEF Coded
<1>3. Layout(t) = <<1, 3>>
  <2>1. LaidOutAs(t, Layout(t))
    BY LayoutIs, Zenon
  <2>2. QED
    BY <2>1, Zenon DEF LaidOutAs
<1> HIDE DEF g1, g2
<1> DEFINE x1 == g1
           x2 == g2
           n == Two(x1, x2)
<1>4. x1 \in 0..255
  BY <1>1
<1>5. x2 \in Unsigned(3) /\ x2 \in Int
  BY <1>1 DEF Unsigned
<1> HIDE DEF x1, x2
<1>6. x1 \in Unsigned(1) /\ <<x1>> = LE(x1, 1) /\ x2 \in Unsigned(3)
  BY <1>4, <1>5, OneByte
<1>7. p = LE(x1, 1) \o LE(x2, 3)
  <2>1. p = <<x1>> \o LE(x2, 3)
    BY <1>2, Zenon DEF x1, x2
  <2>2. QED
    BY <1>6, <2>1, Zenon
<1>8. n[1] = x1 /\ n[2] = x2
  <2>1. x1 \in Int /\ x2 \in Int
    BY <1>4, <1>5
  <2>2. QED
    BY <2>1, InOrder
<1> HIDE DEF n
<1>9. Fields(t, n) = [chIndex |-> n[1], freq |-> n[2]]
  <2>1. FieldedAs(t, n, Fields(t, n))
    BY FieldsAre, Zenon
  <2>2. QED
    BY <2>1 DEF FieldedAs
<1>10. n[1] = g1 /\ n[2] = g2
  BY <1>1, <1>8, <1>4, <1>5 DEF x1, x2
<1>11. Meant(t, n, v)
  BY <1>1, <1>9, <1>10, Zenon DEF Meant
<1> HIDE DEF t
<1>12. DoubleForm(t, p, v, 1, x1, 3, x2)
  BY <1>3, <1>7, <1>11, <1>4, <1>5, <1>6, 1 \in 1..4, 3 \in 1..4 DEF DoubleForm, n
<1>13. Formed(t, p, v)
  BY <1>12, Zenon DEF Formed
<1>14. QED
  BY <1>13 DEF t

LEMMA RekeyFormed ==
    ASSUME NEW p, NEW v \in [version : 0..15], Coded("REKEY", v, p)
    PROVE  Formed("REKEY", p, v)
<1> DEFINE t == "REKEY"
           g1 == v.version
<1>1. /\ g1 \in 0..15
      /\ v = [version |-> g1]
  OBVIOUS
<1>2. p = <<g1>>
  BY Zenon DEF Coded
<1>3. Layout(t) = <<1>>
  <2>1. LaidOutAs(t, Layout(t))
    BY LayoutIs, Zenon
  <2>2. QED
    BY <2>1, Zenon DEF LaidOutAs
<1> HIDE DEF g1
<1> DEFINE x1 == g1
           n == One(x1)
<1>4. x1 \in 0..255 /\ x1 % 16 = g1
  BY <1>1
<1> HIDE DEF x1
<1>5. x1 \in Unsigned(1) /\ <<x1>> = LE(x1, 1)
  BY <1>4, OneByte
<1>6. p = LE(x1, 1)
  <2>1. p = <<x1>>
    BY <1>2, Zenon DEF x1
  <2>2. QED
    BY <1>5, <2>1, Zenon
<1>7. n[1] = x1
  <2>1. x1 \in Int
    BY <1>4
  <2>2. QED
    BY <2>1, InOrder
<1> HIDE DEF n
<1>8. Fields(t, n) = [version |-> n[1] % 16]
  <2>1. FieldedAs(t, n, Fields(t, n))
    BY FieldsAre, Zenon
  <2>2. QED
    BY <2>1 DEF FieldedAs
<1>9. n[1] % 16 = g1
  BY <1>1, <1>7, <1>4 DEF x1
<1>10. Meant(t, n, v)
  BY <1>1, <1>8, <1>9, Zenon DEF Meant
<1> HIDE DEF t
<1>11. SingleForm(t, p, v, 1, x1)
  BY <1>3, <1>6, <1>10, <1>4, <1>5, 1 \in 1..4 DEF SingleForm, n
<1>12. Formed(t, p, v)
  BY <1>11, Zenon DEF Formed
<1>13. QED
  BY <1>12 DEF t

LEMMA AdrParamFormed ==
    ASSUME NEW p, NEW v \in [limit_exp : 0..15, delay_exp : 0..15], Coded("ADR_PARAM_SETUP", v, p)
    PROVE  Formed("ADR_PARAM_SETUP", p, v)
<1> DEFINE t == "ADR_PARAM_SETUP"
           g1 == v.limit_exp
           g2 == v.delay_exp
<1>1. /\ g1 \in 0..15 /\ g2 \in 0..15
      /\ v = [limit_exp |-> g1, delay_exp |-> g2]
  OBVIOUS
<1>2. p = <<g1 * 16 + g2>>
  BY Zenon DEF Coded
<1>3. Layout(t) = <<1>>
  <2>1. LaidOutAs(t, Layout(t))
    BY LayoutIs, Zenon
  <2>2. QED
    BY <2>1, Zenon DEF LaidOutAs
<1> HIDE DEF g1, g2
<1> DEFINE x1 == g1 * 16 + g2
           n == One(x1)
<1>4. x1 \in 0..255 /\ x1 \div 16 = g1 /\ x1 % 16 = g2
  BY <1>1, HalvesOf
<1> HIDE DEF x1
<1>5. x1 \in Unsigned(1) /\ <<x1>> = LE(x1, 1)
  BY <1>4, OneByte
<1>6. p = LE(x1, 1)
  <2>1. p = <<x1>>
    BY <1>2, Zenon DEF x1
  <2>2. QED
    BY <1>5, <2>1, Zenon
<1>7. n[1] = x1
  <2>1. x1 \in Int
    BY <1>4
  <2>2. QED
    BY <2>1, InOrder
<1> HIDE DEF n
<1>8. Fields(t, n) = [limit_exp |-> n[1] \div 16, delay_exp |-> n[1] % 16]
  <2>1. FieldedAs(t, n, Fields(t, n))
    BY FieldsAre, Zenon
  <2>2. QED
    BY <2>1 DEF FieldedAs
<1>9. n[1] \div 16 = g1 /\ n[1] % 16 = g2
  BY <1>1, <1>7, <1>4 DEF x1
<1>10. Meant(t, n, v)
  BY <1>1, <1>8, <1>9, Zenon DEF Meant
<1> HIDE DEF t
<1>11. SingleForm(t, p, v, 1, x1)
  BY <1>3, <1>6, <1>10, <1>4, <1>5, 1 \in 1..4 DEF SingleForm, n
<1>12. Formed(t, p, v)
  BY <1>11, Zenon DEF Formed
<1>13. QED
  BY <1>12 DEF t

LEMMA DeviceTimeFormed ==
    ASSUME NEW p, NEW v \in [seconds : Unsigned(4), fractions : 0..255], Coded("DEVICE_TIME", v, p)
    PROVE  Formed("DEVICE_TIME", p, v)
<1> DEFINE t == "DEVICE_TIME"
           g1 == v.seconds
           g2 == v.fractions
<1>1. /\ g1 \in Unsigned(4) /\ g2 \in 0..255
      /\ v = [seconds |-> g1, fractions |-> g2]
  OBVIOUS
<1>2. p = LE(g1, 4) \o <<g2>>
  BY Zenon DEF Coded
<1>3. Layout(t) = <<4, 1>>
  <2>1. LaidOutAs(t, Layout(t))
    BY LayoutIs, Zenon
  <2>2. QED
    BY <2>1, Zenon DEF LaidOutAs
<1> HIDE DEF g1, g2
<1> DEFINE x1 == g1
           x2 == g2
           n == Two(x1, x2)
<1>4. x1 \in Unsigned(4) /\ x1 \in Int
  BY <1>1 DEF Unsigned
<1>5. x2 \in 0..255
  BY <1>1
<1> HIDE DEF x1, x2
<1>6. x1 \in Unsigned(4) /\ x2 \in Unsigned(1) /\ <<x2>> = LE(x2, 1)
  BY <1>4, <1>5, OneByte
<1>7. p = LE(x1, 4) \o LE(x2, 1)
  <2>1. p = LE(x1, 4) \o <<x2>>
    BY <1>2, Zenon DEF x1, x2
  <2>2. QED
    BY <1>6, <2>1, Zenon
<1>8. n[1] = x1 /\ n[2] = x2
  <2>1. x1 \in Int /\ x2 \in Int
    BY <1>4, <1>5
  <2>2. QED
    BY <2>1, InOrder
<1> HIDE DEF n
<1>9. Fields(t, n) = [seconds |-> n[1], fractions |-> n[2]]
  <2>1. FieldedAs(t, n, Fields(t, n))
    BY FieldsAre, Zenon
  <2>2. QED
    BY <2>1 DEF FieldedAs
<1>10. n[1] = g1 /\ n[2] = g2
  BY <1>1, <1>8, <1>4, <1>5 DEF x1, x2
<1>11. Meant(t, n, v)
  BY <1>1, <1>9, <1>10, Zenon DEF Meant
<1> HIDE DEF t
<1>12. DoubleForm(t, p, v, 4, x1, 1, x2)
  BY <1>3, <1>7, <1>11, <1>4, <1>5, <1>6, 1 \in 1..4, 4 \in 1..4 DEF DoubleForm, n
<1>13. Formed(t, p, v)
  BY <1>12, Zenon DEF Formed
<1>14. QED
  BY <1>13 DEF t

LEMMA ForceRejoinFormed ==
    ASSUME NEW p, NEW v \in [period : 0..7, max_retries : 0..7, rejoin_type : 0..7, dr : 0..15],
           Coded("FORCE_REJOIN", v, p)
    PROVE  Formed("FORCE_REJOIN", p, v)
<1> DEFINE t == "FORCE_REJOIN"
           g1 == v.period
           g2 == v.max_retries
           g3 == v.rejoin_type
           g4 == v.dr
<1>1. /\ g1 \in 0..7 /\ g2 \in 0..7 /\ g3 \in 0..7 /\ g4 \in 0..15
      /\ v = [period |-> g1, max_retries |-> g2, rejoin_type |-> g3, dr |-> g4]
  OBVIOUS
<1>2. p = LE(((g1 * 8 + g2) * 8 + g3) * 16 + g4, 2)
  BY Zenon DEF Coded
<1>3. Layout(t) = <<2>>
  <2>1. LaidOutAs(t, Layout(t))
    BY LayoutIs, Zenon
  <2>2. QED
    BY <2>1, Zenon DEF LaidOutAs
<1> HIDE DEF g1, g2, g3, g4
<1> DEFINE x1 == ((g1 * 8 + g2) * 8 + g3) * 16 + g4
           n == One(x1)
<1>4. /\ x1 \in Nat /\ x1 < 65536 /\ (x1 \div 1024) % 8 = g1 /\ (x1 \div 128) % 8 = g2
      /\ (x1 \div 16) % 8 = g3 /\ x1 % 16 = g4
  <2>1. x1 = ((g1 * 8 + g2) * 8 + g3) * 16 + g4
    OBVIOUS
  <2> HIDE DEF t, n, x1
  <2>2. RejoinRead(x1, g1, g2, g3, g4)
    BY <1>1, <2>1, RejoinParts, Zenon
  <2>3. QED
    BY <2>2 DEF RejoinRead
<1>5. x1 \in Unsigned(2)
  <2> HIDE DEF x1
  <2>1. x1 \div 256^(2 - 1) < 256
    <3>1. 256^(2 - 1) = 256
      OBVIOUS
    <3>2. x1 \div 256 < 256
      BY <1>4
    <3>3. QED
      BY <3>1, <3>2
  <2>2. QED
    BY <1>4, <2>1 DEF Unsigned
<1> HIDE DEF x1
<1>6. p = LE(x1, 2)
  BY <1>2, Zenon DEF x1
<1>7. n[1] = x1
  <2>1. x1 \in Int
    BY <1>4, <1>5
  <2>2. QED
    BY <2>1, InOrder
<1> HIDE DEF n
<1>8. Fields(t, n) = [period |-> (n[1] \div 1024) % 8, max_retries |-> (n[1] \div 128) % 8,
                      rejoin_type |-> (n[1] \div 16) % 8, dr |-> n[1] % 16]
  <2>1. FieldedAs(t, n, Fields(t, n))
    BY FieldsAre, Zenon
  <2>2. QED
    BY <2>1 DEF FieldedAs
<1>9. (n[1] \div 1024) % 8 = g1 /\ (n[1] \div 128) % 8 = g2 /\ (n[1] \div 16) % 8 = g3
      /\ n[1] % 16 = g4
  BY <1>1, <1>7, <1>4, <1>5 DEF x1
<1>10. Meant(t, n, v)
  BY <1>1, <1>8, <1>9, ZenonT(40) DEF Meant
<1> HIDE DEF t
<1>11. SingleForm(t, p, v, 2, x1)
  BY <1>3, <1>6, <1>10, <1>4, <1>5, 2 \in 1..4 DEF SingleForm, n
<1>12. Formed(t, p, v)
  BY <1>11, Zenon DEF Formed
<1>13. QED
  BY <1>12 DEF t

LEMMA RejoinParamFormed ==
    ASSUME NEW p, NEW v \in [maxTimeN : 0..15, maxCountN : 0..15], Coded("REJOIN_PARAM_SETUP", v, p)
    PROVE  Formed("REJOIN_PARAM_SETUP", p, v)
<1> DEFINE t == "REJOIN_PARAM_SETUP"
           g1 == v.maxTimeN
           g2 == v.maxCountN
<1>1. /\ g1 \in 0..15 /\ g2 \in 0..15
      /\ v = [maxTimeN |-> g1, maxCountN |-> g2]
  OBVIOUS
<1>2. p = <<g1 * 16 + g2>>
  BY Zenon DEF Coded
<1>3. Layout(t) = <<1>>
  <2>1. LaidOutAs(t, Layout(t))
    BY LayoutIs, Zenon
  <2>2. QED
    BY <2>1, Zenon DEF LaidOutAs
<1> HIDE DEF g1, g2
<1> DEFINE x1 == g1 * 16 + g2
           n == One(x1)
<1>4. x1 \in 0..255 /\ x1 \div 16 = g1 /\ x1 % 16 = g2
  BY <1>1, HalvesOf
<1> HIDE DEF x1
<1>5. x1 \in Unsigned(1) /\ <<x1>> = LE(x1, 1)
  BY <1>4, OneByte
<1>6. p = LE(x1, 1)
  <2>1. p = <<x1>>
    BY <1>2, Zenon DEF x1
  <2>2. QED
    BY <1>5, <2>1, Zenon
<1>7. n[1] = x1
  <2>1. x1 \in Int
    BY <1>4
  <2>2. QED
    BY <2>1, InOrder
<1> HIDE DEF n
<1>8. Fields(t, n) = [maxTimeN |-> n[1] \div 16, maxCountN |-> n[1] % 16]
  <2>1. FieldedAs(t, n, Fields(t, n))
    BY FieldsAre, Zenon
  <2>2. QED
    BY <2>1 DEF FieldedAs
<1>9. n[1] \div 16 = g1 /\ n[1] % 16 = g2
  BY <1>1, <1>7, <1>4 DEF x1
<1>10. Meant(t, n, v)
  BY <1>1, <1>8, <1>9, Zenon DEF Meant
<1> HIDE DEF t
<1>11. SingleForm(t, p, v, 1, x1)
  BY <1>3, <1>6, <1>10, <1>4, <1>5, 1 \in 1..4 DEF SingleForm, n
<1>12. Formed(t, p, v)
  BY <1>11, Zenon DEF Formed
<1>13. QED
  BY <1>12 DEF t

LEMMA CommandFormed ==
    ASSUME NEW c \in CommandType, c.type # "PROPRIETARY"
    PROVE  Formed(c.type, NetworkPayload(c.type, c.fields), c.fields)
<1> DEFINE t == c.type
           v == c.fields
           p == NetworkPayload(t, v)
<1> DEFINE K1 == [type : {"LINK_CHECK"}, fields : [margin : 0..255, gwCount : 0..255]]
           K2 == [type : {"LINK_ADR"}, fields : [dataRate : 0..15, txPower : 0..15,
                                                 channelMask : Unsigned(2),
                                                 channelMaskControl : 0..7, nbTrans : 0..15]]
           K3 == [type : {"DUTY_CYCLE"}, fields : [maxDutyCycle : 0..15]]
           K4 == [type : {"RX_PARAM_SETUP"}, fields : [rx1DROffset : 0..7, rx2DataRate : 0..15,
                                                       freq : Unsigned(3)]]
           K5 == [type : {"DEV_STATUS", "PROPRIETARY"}, fields : {<<>>}]
           K6 == [type : {"NEW_CHANNEL"}, fields : [chIndex : 0..255, freq : Unsigned(3),
                                                    maxDR : 0..15, minDR : 0..15]]
           K7 == [type : {"RX_TIMING_SETUP"}, fields : [delay : 0..15]]
           K8 == [type : {"TX_PARAM_SETUP"}, fields : [downlinkDwell : BOOLEAN,
                                                       uplinkDwell : BOOLEAN, maxEIRP : 0..15]]
           K9 == [type : {"DL_CHANNEL"}, fields : [chIndex : 0..255, freq : Unsigned(3)]]
           K10 == [type : {"REKEY"}, fields : [version : 0..15]]
           K11 == [type : {"ADR_PARAM_SETUP"}, fields : [limit_exp : 0..15, delay_exp : 0..15]]
           K12 == [type : {"DEVICE_TIME"}, fields : [seconds : Unsigned(4), fractions : 0..255]]
           K13 == [type : {"FORCE_REJOIN"}, fields : [period : 0..7, max_retries : 0..7,
                                                      rejoin_type : 0..7, dr : 0..15]]
           K14 == [type : {"REJOIN_PARAM_SETUP"}, fields : [maxTimeN : 0..15, maxCountN : 0..15]]
<1>0. Coded(t, v, p)
  BY NetworkPayloadIs, Zenon
<1>1. ASSUME c \in K1 PROVE Formed(t, p, v)
  <2>1. t = "LINK_CHECK" /\ v \in [margin : 0..255, gwCount : 0..255]
    BY <1>1, RecordOf, Zenon
  <2> HIDE DEF t, v, p
  <2>2. Coded("LINK_CHECK", v, p)
    BY <1>0, <2>1
  <2>3. Formed("LINK_CHECK", p, v)
    BY <2>1, <2>2, LinkCheckFormed, Zenon
  <2>4. QED
    BY <2>1, <2>3
<1>2. ASSUME c \in K2 PROVE Formed(t, p, v)
  <2>1. t = "LINK_ADR" /\ v \in [dataRate : 0..15, txPower : 0..15, channelMask : Unsigned(2),
                                 channelMaskControl : 0..7, nbTrans : 0..15]
    BY <1>2, RecordOf, Zenon
  <2> HIDE DEF t, v, p
  <2>2. Coded("LINK_ADR", v, p)
    BY <1>0, <2>1
  <2>3. Formed("LINK_ADR", p, v)
    BY <2>1, <2>2, LinkADRFormed, Zenon
  <2>4. QED
    BY <2>1, <2>3
<1>3. ASSUME c \in K3 PROVE Formed(t, p, v)
  <2>1. t = "DUTY_CYCLE" /\ v \in [maxDutyCycle : 0..15]
    BY <1>3, RecordOf, Zenon
  <2> HIDE DEF t, v, p
  <2>2. Coded("DUTY_CYCLE", v, p)
    BY <1>0, <2>1
  <2>3. Formed("DUTY_CYCLE", p, v)
    BY <2>1, <2>2, DutyCycleFormed, Zenon
  <2>4. QED
    BY <2>1, <2>3
<1>4. ASSUME c \in K4 PROVE Formed(t, p, v)
  <2>1. t = "RX_PARAM_SETUP" /\ v \in [rx1DROffset : 0..7, rx2DataRate : 0..15, freq : Unsigned(3)]
    BY <1>4, RecordOf, Zenon
  <2> HIDE DEF t, v, p
  <2>2. Coded("RX_PARAM_SETUP", v, p)
    BY <1>0, <2>1
  <2>3. Formed("RX_PARAM_SETUP", p, v)
    BY <2>1, <2>2, RxParamFormed, Zenon
  <2>4. QED
    BY <2>1, <2>3
<1>6. ASSUME c \in K6 PROVE Formed(t, p, v)
  <2>1. t = "NEW_CHANNEL" /\ v \in [chIndex : 0..255, freq : Unsigned(3), maxDR : 0..15,
                                    minDR : 0..15]
    BY <1>6, RecordOf, Zenon
  <2> HIDE DEF t, v, p
  <2>2. Coded("NEW_CHANNEL", v, p)
    BY <1>0, <2>1
  <2>3. Formed("NEW_CHANNEL", p, v)
    BY <2>1, <2>2, NewChannelFormed, Zenon
  <2>4. QED
    BY <2>1, <2>3
<1>7. ASSUME c \in K7 PROVE Formed(t, p, v)
  <2>1. t = "RX_TIMING_SETUP" /\ v \in [delay : 0..15]
    BY <1>7, RecordOf, Zenon
  <2> HIDE DEF t, v, p
  <2>2. Coded("RX_TIMING_SETUP", v, p)
    BY <1>0, <2>1
  <2>3. Formed("RX_TIMING_SETUP", p, v)
    BY <2>1, <2>2, RxTimingFormed, Zenon
  <2>4. QED
    BY <2>1, <2>3
<1>8. ASSUME c \in K8 PROVE Formed(t, p, v)
  <2>1. t = "TX_PARAM_SETUP" /\ v \in [downlinkDwell : BOOLEAN, uplinkDwell : BOOLEAN,
                                       maxEIRP : 0..15]
    BY <1>8, RecordOf, Zenon
  <2> HIDE DEF t, v, p
  <2>2. Coded("TX_PARAM_SETUP", v, p)
    BY <1>0, <2>1
  <2>3. Formed("TX_PARAM_SETUP", p, v)
    BY <2>1, <2>2, TxParamFormed, Zenon
  <2>4. QED
    BY <2>1, <2>3
<1>9. ASSUME c \in K9 PROVE Formed(t, p, v)
  <2>1. t = "DL_CHANNEL" /\ v \in [chIndex : 0..255, freq : Unsigned(3)]
    BY <1>9, RecordOf, Zenon
  <2> HIDE DEF t, v, p
  <2>2. Coded("DL_CHANNEL", v, p)
    BY <1>0, <2>1
  <2>3. Formed("DL_CHANNEL", p, v)
    BY <2>1, <2>2, DlChannelFormed, Zenon
  <2>4. QED
    BY <2>1, <2>3
<1>10. ASSUME c \in K10 PROVE Formed(t, p, v)
  <2>1. t = "REKEY" /\ v \in [version : 0..15]
    BY <1>10, RecordOf, Zenon
  <2> HIDE DEF t, v, p
  <2>2. Coded("REKEY", v, p)
    BY <1>0, <2>1
  <2>3. Formed("REKEY", p, v)
    BY <2>1, <2>2, RekeyFormed, Zenon
  <2>4. QED
    BY <2>1, <2>3
<1>11. ASSUME c \in K11 PROVE Formed(t, p, v)
  <2>1. t = "ADR_PARAM_SETUP" /\ v \in [limit_exp : 0..15, delay_exp : 0..15]
    BY <1>11, RecordOf, Zenon
  <2> HIDE DEF t, v, p
  <2>2. Coded("ADR_PARAM_SETUP", v, p)
    BY <1>0, <2>1
  <2>3. Formed("ADR_PARAM_SETUP", p, v)
    BY <2>1, <2>2, AdrParamFormed, Zenon
  <2>4. QED
    BY <2>1, <2>3
<1>12. ASSUME c \in K12 PROVE Formed(t, p, v)
  <2>1. t = "DEVICE_TIME" /\ v \in [seconds : Unsigned(4), fractions : 0..255]
    BY <1>12, RecordOf, Zenon
  <2> HIDE DEF t, v, p
  <2>2. Coded("DEVICE_TIME", v, p)
    BY <1>0, <2>1
  <2>3. Formed("DEVICE_TIME", p, v)
    BY <2>1, <2>2, DeviceTimeFormed, Zenon
  <2>4. QED
    BY <2>1, <2>3
<1>13. ASSUME c \in K13 PROVE Formed(t, p, v)
  <2>1. t = "FORCE_REJOIN" /\ v \in [period : 0..7, max_retries : 0..7, rejoin_type : 0..7,
                                     dr : 0..15]
    BY <1>13, RecordOf, Zenon
  <2> HIDE DEF t, v, p
  <2>2. Coded("FORCE_REJOIN", v, p)
    BY <1>0, <2>1
  <2>3. Formed("FORCE_REJOIN", p, v)
    BY <2>1, <2>2, ForceRejoinFormed, Zenon
  <2>4. QED
    BY <2>1, <2>3
<1>14. ASSUME c \in K14 PROVE Formed(t, p, v)
  <2>1. t = "REJOIN_PARAM_SETUP" /\ v \in [maxTimeN : 0..15, maxCountN : 0..15]
    BY <1>14, RecordOf, Zenon
  <2> HIDE DEF t, v, p
  <2>2. Coded("REJOIN_PARAM_SETUP", v, p)
    BY <1>0, <2>1
  <2>3. Formed("REJOIN_PARAM_SETUP", p, v)
    BY <2>1, <2>2, RejoinParamFormed, Zenon
  <2>4. QED
    BY <2>1, <2>3
<1>5. ASSUME c \in K5 PROVE Formed(t, p, v)
  <2>1. t \in {"DEV_STATUS", "PROPRIETARY"} /\ v \in {<<>>}
    BY <1>5, RecordOf, Zenon
  <2>2. t = "DEV_STATUS" /\ v = <<>>
    BY <2>1
  <2> HIDE DEF t, v, p
  <2> DEFINE y == Layout(t)
             n == <<>>
  <2>3. p = n
    BY <1>0, <2>2, Zenon DEF Coded
  <2>4. y = n
    <3>1. LaidOutAs(t, y)
      BY LayoutIs, Zenon
    <3> HIDE DEF y
    <3>2. QED
      BY <2>2, <3>1, Zenon DEF LaidOutAs
  <2>5. Meant(t, n, v)
    <3> HIDE DEF n
    <3>1. FieldedAs(t, n, Fields(t, n))
      BY FieldsAre, Zenon
    <3>2. Fields(t, n) = v
      BY <2>2, <3>1, Zenon DEF FieldedAs
    <3>3. QED
      BY <3>2 DEF Meant
  <2>6. BareForm(t, p, v)
    BY <2>3, <2>4, <2>5 DEF BareForm
  <2>7. QED
    BY <2>6 DEF Formed
<1>15. c \in K1 \cup K2 \cup K3 \cup K4 \cup K5 \cup K6 \cup K7 \cup K8 \cup K9 \cup K10
         \cup K11 \cup K12 \cup K13 \cup K14
  BY Zenon DEF CommandType
<1> HIDE DEF K1, K2, K3, K4, K5, K6, K7, K8, K9, K10, K11, K12, K13, K14, p, t, v
<1>16. Formed(t, p, v)
  BY <1>1, <1>2, <1>3, <1>4, <1>5, <1>6, <1>7, <1>8, <1>9, <1>10, <1>11, <1>12, <1>13, <1>14, <1>15
<1>17. QED
  BY <1>16 DEF t, p, v

\* The bytes of a command are bytes.
LEMMA CommandBytesAre ==
    ASSUME NEW c \in CommandType
    PROVE  NetworkCommand(c) \in Seq(Int)
<1> DEFINE t == c.type
           v == c.fields
           p == NetworkPayload(t, v)
<1>1. ASSUME NEW x, NEW n \in 1..4, x \in Unsigned(n) PROVE LE(x, n) \in Seq(Int)
  <2>1. x \in Nat /\ n \in Nat
    BY <1>1 DEF Unsigned
  <2>2. QED
    BY <2>1, BytesOf
<1>2. p \in Seq(Int)
  <2>1. CASE t = "PROPRIETARY"
    <3>1. Coded(t, v, p)
      BY NetworkPayloadIs, Zenon
    <3> HIDE DEF p, t, v
    <3>2. p = <<>>
      BY <2>1, <3>1 DEF Coded
    <3>3. QED
      BY <3>2
  <2>2. CASE t # "PROPRIETARY"
    <3>1. Formed(t, p, v)
      BY <2>2, CommandFormed
    <3> HIDE DEF p, t, v
    <3>2. ASSUME BareForm(t, p, v) PROVE p \in Seq(Int)
      BY <3>2 DEF BareForm
    <3>3. ASSUME NEW l, NEW x, SingleForm(t, p, v, l, x) PROVE p \in Seq(Int)
      BY <1>1, <3>3 DEF SingleForm
    <3>4. ASSUME NEW l, NEW x, NEW m, NEW y, DoubleForm(t, p, v, l, x, m, y)
          PROVE  p \in Seq(Int)
      BY <1>1, <3>4 DEF DoubleForm
    <3>5. ASSUME NEW l, NEW x, NEW m, NEW y, NEW n, NEW z,
                 TripleForm(t, p, v, l, x, m, y, n, z)
          PROVE  p \in Seq(Int)
      BY <1>1, <3>5 DEF TripleForm
    <3>6. QED
      BY <3>1, <3>2, <3>3, <3>4, <3>5 DEF Formed
  <2>3. QED
    BY <2>1, <2>2
<1>3. <<Cid(t)>> \in Seq(Int)
  <2>1. t \in Types \/ t = "PROPRIETARY"
    <3>1. \A i \in 1..14 : CommandTypes[i] \in Types
      BY DEF Types
    <3>2. /\ CommandTypes[1] = "LINK_CHECK" /\ CommandTypes[2] = "LINK_ADR"
          /\ CommandTypes[3] = "DUTY_CYCLE" /\ CommandTypes[4] = "RX_PARAM_SETUP"
          /\ CommandTypes[5] = "DEV_STATUS" /\ CommandTypes[6] = "NEW_CHANNEL"
          /\ CommandTypes[7] = "RX_TIMING_SETUP" /\ CommandTypes[8] = "TX_PARAM_SETUP"
          /\ CommandTypes[9] = "DL_CHANNEL" /\ CommandTypes[10] = "REKEY"
          /\ CommandTypes[11] = "ADR_PARAM_SETUP" /\ CommandTypes[12] = "DEVICE_TIME"
          /\ CommandTypes[13] = "FORCE_REJOIN" /\ CommandTypes[14] = "REJOIN_PARAM_SETUP"
      BY DEF CommandTypes
    <3>3. t \in {"LINK_CHECK", "LINK_ADR", "DUTY_CYCLE", "RX_PARAM_SETUP", "DEV_STATUS",
                 "PROPRIETARY", "NEW_CHANNEL", "RX_TIMING_SETUP", "TX_PARAM_SETUP", "DL_CHANNEL",
                 "REKEY", "ADR_PARAM_SETUP", "DEVICE_TIME", "FORCE_REJOIN", "REJOIN_PARAM_SETUP"}
      BY DEF CommandType
    <3> HIDE DEF t
    <3>4. QED
      BY <3>1, <3>2, <3>3
  <2>2. Cid("PROPRIETARY") = 99
    BY DEF Cid
  <2>3. Cid(t) \in Int
    <3>1. CASE t \in Types
      <4>1. PICK i \in 1..14 : t = CommandTypes[i]
        BY <3>1 DEF Types
      <4> HIDE DEF t
      <4>2. Cid(t) = i + 1
        BY <4>1, Tags
      <4>3. QED
        BY <4>2
    <3>2. QED
      BY <2>1, <2>2, <3>1
  <2> HIDE DEF t
  <2>4. QED
    BY <2>3
<1>4. NetworkCommand(c) = <<Cid(t)>> \o p
  BY DEF NetworkCommand
<1> HIDE DEF p, t
<1>5. QED
  BY <1>2, <1>3, <1>4

LEMMA CommandsAre ==
    ASSUME NEW cs \in Seq(CommandType)
    PROVE  /\ [i \in DOMAIN cs |-> NetworkCommand(cs[i])] \in Seq(Seq(Int))
           /\ NetworkCommands(cs) \in Seq(Int)
<1> DEFINE a == [i \in DOMAIN cs |-> NetworkCommand(cs[i])]
<1>1. a \in Seq(Seq(Int)) /\ Len(a) \in Nat
  <2>1. \A i \in 1..Len(cs) : NetworkCommand(cs[i]) \in Seq(Int)
    BY CommandBytesAre
  <2>2. DOMAIN cs = 1..Len(cs) /\ Len(cs) \in Nat
    OBVIOUS
  <2>3. QED
    BY <2>1, <2>2
<1> HIDE DEF a
<1>2. PICK w : Strung(w, a)
  BY <1>1, StringsExist
<1>3. FlattenSeq(a) = w[Len(a)]
  BY <1>1, <1>2, Flattened
<1>4. FlattenSeq(a) \in Seq(Int)
  BY <1>1, <1>2, <1>3 DEF Strung
<1>5. QED
  BY <1>1, <1>4 DEF NetworkCommands, a

LEMMA CutShort ==
    ASSUME NEW s \in Seq(Int), NEW n \in Int, n <= Len(s)
    PROVE  SubSeq(s, 1, n) \in Seq(Int) /\ Len(SubSeq(s, 1, n)) = IF 1 <= n THEN n ELSE 0
<1>1. \A i \in 1..n : s[i] \in Int
  OBVIOUS
<1>2. /\ SubSeq(s, 1, n) \in Seq(Int)
      /\ Len(SubSeq(s, 1, n)) = IF 1 <= n THEN n - 1 + 1 ELSE 0
  BY <1>1, SubSeqProperties
<1>3. n - 1 + 1 = n
  OBVIOUS
<1>4. QED
  BY <1>2, <1>3

\* The fields of a downlink have their types.
LEMMA DownFields ==
    ASSUME NEW d \in DownlinkType
    PROVE  /\ d.place \in {"NONE", "OPTS", "PORT0"} /\ d.commands \in Seq(CommandType)
           /\ d.cut \in Nat /\ d.port \in 0..255 /\ d.len \in 0..255
           /\ d.confirmed \in BOOLEAN /\ d.ack \in BOOLEAN /\ d.pending \in BOOLEAN
<1> DEFINE R == [place : {"NONE", "OPTS", "PORT0"}, commands : Seq(CommandType), cut : Nat,
                 port : 0..255, len : 0..255, confirmed : BOOLEAN, ack : BOOLEAN, pending : BOOLEAN]
<1>1. d \in R
  BY Zenon DEF DownlinkType
<1>2. QED
  BY <1>1, Zenon

DownSizes(d) ==
    /\ CommandBytes(d) \in Seq(Int) /\ DownOpts(d) \in Seq(Int) /\ DownData(d) \in Seq(Int)

LEMMA DownBytes ==
    ASSUME NEW d \in Downlinks
    PROVE  DownSizes(d)
<1> DEFINE all == NetworkCommands(d.commands)
           c == d.cut
           l == d.len
           x == [i \in 1..l |-> 70 + (i % 60)]
<1>1. d \in DownlinkType
  BY CodecAssumption
<1>2. all \in Seq(Int)
  <2>1. d.commands \in Seq(CommandType)
    BY <1>1, DownFields
  <2> DEFINE cs == d.commands
  <2> HIDE DEF cs
  <2>2. NetworkCommands(cs) \in Seq(Int)
    BY <2>1, CommandsAre DEF cs
  <2>3. QED
    BY <2>2 DEF cs
<1>3. c \in Nat /\ l \in Nat
  <2>1. d.cut \in Nat /\ d.len \in 0..255
    BY <1>1, DownFields
  <2>2. QED
    BY <2>1
<1>4. CommandBytes(d) = SubSeq(all, 1, Len(all) - c)
  BY DEF CommandBytes
<1>7. DownOpts(d) = (IF d.place = "OPTS" THEN CommandBytes(d) ELSE <<>>)
      /\ DownData(d) = (IF d.place = "PORT0" THEN CommandBytes(d) ELSE x)
  BY DEF DownOpts, DownData
<1> HIDE DEF all, c, l
<1>5. CommandBytes(d) \in Seq(Int)
  <2> DEFINE n == Len(all) - c
  <2>1. n \in Int /\ n <= Len(all)
    BY <1>2, <1>3
  <2> HIDE DEF n
  <2>2. SubSeq(all, 1, n) \in Seq(Int)
    BY <1>2, <2>1, CutShort
  <2>3. QED
    BY <1>4, <2>2 DEF n
<1>6. x \in Seq(Int)
  BY <1>3
<1> HIDE DEF x
<1>8. QED
  BY <1>5, <1>6, <1>7 DEF DownSizes

LEMMA NetworkDataIs ==
    ASSUME NEW d \in Downlinks
    PROVE  NetworkData(d) \in Seq(Int)
<1> DEFINE o == DownOpts(d)
           x == DownData(d)
           a == <<IF d.confirmed THEN 160 ELSE 96>>
           b == LE(DevAddr, 4)
           c == <<Bit(d.ack, 32) + Bit(d.pending, 16) + Len(o)>>
           e == LE(Counter, 2)
           p == <<d.port>>
           m == LE(MicBytes, 4)
           y == IF HasPort(d) THEN p \o x ELSE <<>>
<1>1. d \in DownlinkType /\ DownSizes(d)
  BY CodecAssumption, DownBytes
<1>2. o \in Seq(Int) /\ x \in Seq(Int)
  BY <1>1 DEF DownSizes
<1>3. a \in Seq(Int)
  <2>1. (IF d.confirmed THEN 160 ELSE 96) \in Int
    OBVIOUS
  <2>2. QED
    BY <2>1
<1>4. c \in Seq(Int)
  <2>1. Bit(d.ack, 32) \in Int /\ Bit(d.pending, 16) \in Int
    BY DEF Bit
  <2>2. Len(o) \in Int
    BY <1>2
  <2>3. QED
    BY <2>1, <2>2
<1>5. p \in Seq(Int)
  <2>1. d.port \in 0..255
    BY <1>1, DownFields
  <2>2. QED
    BY <2>1
<1>6. b \in Seq(Int) /\ e \in Seq(Int) /\ m \in Seq(Int)
  <2>1. DevAddr \in Nat /\ Counter \in Nat /\ MicBytes \in Nat /\ 4 \in Nat /\ 2 \in Nat
    BY DEF DevAddr, Counter, MicBytes
  <2>2. QED
    BY <2>1, BytesOf
<1>7. NetworkData(d) = a \o b \o c \o e \o o \o y \o m
  BY DEF NetworkData
<1> HIDE DEF a, b, c, e, o, x, p, m
<1>8. y \in Seq(Int)
  BY <1>2, <1>5
<1> HIDE DEF y
<1>9. QED
  BY <1>2, <1>3, <1>4, <1>6, <1>7, <1>8

-----------------------------------------------------------------------------
(***************************************************************************)
(* What the MICs of frames are made over.                                  *)
(***************************************************************************)
LEMMA WholeLength ==
    ASSUME NEW max \in Nat, NEW pieces \in Seq(Seq(Int))
    PROVE  Len(Whole(WriteAll(Blank(max), pieces))) \in Nat
<1> DEFINE pkt == Whole(WriteAll(Blank(max), pieces))
           N == Len(pieces)
<1>1. 0 \in Nat /\ N \in Nat
  OBVIOUS
<1>2. PICK at : Places(at, 0, pieces)
  BY <1>1, HavePlaces
<1>3. Packed(pkt, max, pieces, at, N)
  BY <1>2, WholeWritten
<1>4. at[N] \in Nat
  BY <1>1, <1>2 DEF Places
<1> HIDE DEF pkt, N
<1>5. pkt = <<>> \/ Size(pkt, at[N])
  BY <1>3, <1>4 DEF Packed
<1>6. Len(pkt) \in Nat
  BY <1>4, <1>5 DEF Size
<1>7. QED
  BY <1>6 DEF pkt

\* A data frame has a length, and so has that of a request.
LEMMA FieldedLength ==
    ASSUME NEW max \in Nat, NEW f, NEW n, NEW l, Fielded(f, n, l), f.dataPresent \in BOOLEAN
    PROVE  Len(PutData(f, max)) \in Nat
<1> DEFINE p == PutData(f, max)
<1>1. n \in Nat /\ l \in Nat
  BY DEF Fielded, Size
<1>2. /\ f.dataPresent => With(p, f, max, n, l)
      /\ ~f.dataPresent => Without(p, f, max, n)
  BY DataWritten
<1> HIDE DEF p
<1>3. ASSUME With(p, f, max, n, l) PROVE Len(p) \in Nat
  <2>1. p = <<>> \/ Size(p, n + l + 13)
    BY <1>1, <1>3 DEF With, Eight
  <2>2. QED
    BY <1>1, <2>1 DEF Size
<1>4. ASSUME Without(p, f, max, n) PROVE Len(p) \in Nat
  <2>1. p = <<>> \/ Size(p, n + 12)
    BY <1>1, <1>4 DEF Without, Six
  <2>2. QED
    BY <1>1, <2>1 DEF Size
<1>5. QED
  BY <1>2, <1>3, <1>4 DEF p

LEMMA UplinkLength ==
    ASSUME NEW r \in RequestType, NEW macs, NEW k, Size(macs, k), k <= 30, NEW max \in Nat
    PROVE  Len(PutData(UplinkFrame(r, macs), max)) \in Nat
<1> DEFINE f == UplinkFrame(r, macs)
<1>1. \E n, l : Fielded(f, n, l)
  BY UplinkWritten
<1>2. f.dataPresent \in BOOLEAN
  <2>1. r.len \in Nat
    <3>1. Sized(r)
      BY RequestIs
    <3>2. QED
      BY <3>1 DEF Sized
  <2>2. r.hasData \in BOOLEAN
    BY RequestFlags
  <2>3. /\ ~Alone(r, k) => UpWhole(f, r, macs)
        /\ Alone(r, k) /\ k < 16 => UpOpts(f, r, macs)
        /\ Alone(r, k) /\ ~(k < 16) => UpZero(f, r, macs)
    BY <2>1, UplinkFields
  <2> HIDE DEF f
  <2>4. f.dataPresent = r.hasData \/ f.dataPresent = FALSE \/ f.dataPresent = TRUE
    BY <2>3 DEF UpWhole, UpOpts, UpZero
  <2>5. QED
    BY <2>2, <2>4
<1> HIDE DEF f
<1>3. Len(PutData(f, max)) \in Nat
  BY <1>1, <1>2, FieldedLength
<1>4. QED
  BY <1>3 DEF f

\* The bytes that go before a message.
LEMMA Headers ==
    /\ 11 \in 0..16 /\ BlockSize \in 0..16 /\ 0 \in 0..16
    /\ Size(Block0(11), 11) /\ Size(Block0(BlockSize), BlockSize) /\ Size(<<>>, 0)
<1>1. ASSUME NEW n \in 0..16 PROVE Size(Block0(n), n)
  BY DEF Block0, Size
<1>2. 11 \in 0..16 /\ BlockSize \in 0..16 /\ 0 \in 0..16
  BY DEF BlockSize
<1>3. Size(<<>>, 0)
  BY DEF Size
<1>4. QED
  BY <1>1, <1>2, <1>3

MicsMade(l) == "mics" \in DOMAIN l => \A m \in l.mics : Made(m)

LEMMA MicsMadeIs == MicOfOtherMessage <=> MicsMade(last)
BY Zenon DEF MicOfOtherMessage, MicsMade, Made

LEMMA MicsOf ==
    ASSUME NEW l, NEW key, NEW hdr, NEW h \in 0..16, Size(hdr, h), NEW pkt, Len(pkt) \in Nat,
           l.mics = {[mic |-> Mic(key, hdr, Message(pkt)), of |-> hdr \o Message(pkt)]}
    PROVE  MicsMade(l)
<1>1. l.mics = {MicOf(key, hdr, pkt)}
  BY DEF MicOf
<1>2. Made(MicOf(key, hdr, pkt))
  BY MicRight
<1>3. QED
  BY <1>1, <1>2 DEF MicsMade

LEMMA MicNext == KeyInv /\ MicsMade(last) /\ [Next]_vars => MicsMade(last')
<1> SUFFICES ASSUME KeyInv, MicsMade(last), [Next]_vars PROVE MicsMade(last')
  OBVIOUS
<1>1. joins \in Nat /\ MaxPacket \in Nat
  BY CodecAssumption DEF KeyInv
<1>2. CASE last' = last
  BY <1>2
<1>3. ASSUME JoinRequest PROVE MicsMade(last')
  <2> DEFINE f == [joinEUI |-> JoinEUI, devEUI |-> DevEUI, devNonce |-> joins, mic |-> 0]
             pkt == PutJoinRequest(f, MaxPacket)
             key == keys'[Slot(arduino, "NWK")]
  <2>1. last' = [call |-> "JoinRequest", pkt |-> UpdateMIC(pkt, MicBytes),
                 mics |-> {[mic |-> Mic(key, <<>>, Message(pkt)), of |-> Message(pkt)]}]
    BY <1>3, Zenon DEF JoinRequest
  <2>2. pkt = Whole(WriteAll(Blank(MaxPacket), RequestPieces(joins)))
    <3>1. f.joinEUI = JoinEUI /\ f.devEUI = DevEUI /\ f.devNonce = joins /\ f.mic = 0
      OBVIOUS
    <3> HIDE DEF f
    <3>2. QED
      BY <3>1, Zenon DEF PutJoinRequest, RequestPieces
  <2>3. RequestPieces(joins) \in Seq(Seq(Int))
    <3> DEFINE a == MHDR("JOIN_REQ")
               b == PutEUI(JoinEUI)
               c == PutEUI(DevEUI)
               d == LE(joins, 2)
               e == LE(0, 4)
    <3>1. /\ Size(<<0>>, 1) /\ Size(Reverse(JoinEUI), 8) /\ Size(Reverse(DevEUI), 8)
          /\ Size(d, 2) /\ Size(e, 4)
      BY <1>1, RequestSizes
    <3>2. a = <<0>> /\ b = Reverse(JoinEUI) /\ c = Reverse(DevEUI)
      BY HeaderOf DEF PutEUI
    <3>3. RequestPieces(joins) = <<a, b, c, d, e>>
      BY DEF RequestPieces
    <3> HIDE DEF a, b, c, d, e
    <3>4. a \in Seq(Int) /\ b \in Seq(Int) /\ c \in Seq(Int) /\ d \in Seq(Int) /\ e \in Seq(Int)
      BY <3>1, <3>2 DEF Size
    <3>5. QED
      BY <3>3, <3>4
  <2> DEFINE ps == RequestPieces(joins)
  <2>4. Len(pkt) \in Nat
    <3> HIDE DEF ps, pkt
    <3>1. Len(Whole(WriteAll(Blank(MaxPacket), ps))) \in Nat
      BY <1>1, <2>3, WholeLength DEF ps
    <3>2. QED
      BY <2>2, <3>1 DEF ps
  <2>5. last'.mics = {[mic |-> Mic(key, <<>>, Message(pkt)), of |-> Message(pkt)]}
    BY <2>1
  <2>6. <<>> \o Message(pkt) = Message(pkt)
    <3> DEFINE m == Message(pkt)
    <3> HIDE DEF pkt
    <3>1. PICK n \in 0..255 : Size(m, n)
      BY <2>4, MessageSize
    <3>2. m \in Seq(Int)
      BY <3>1 DEF Size
    <3> HIDE DEF m
    <3>3. QED
      BY <3>2 DEF m
  <2> HIDE DEF pkt, key
  <2> DEFINE l == last'
  <2>7. l.mics = {[mic |-> Mic(key, <<>>, Message(pkt)), of |-> <<>> \o Message(pkt)]}
    BY <2>5, <2>6
  <2> HIDE DEF l
  <2>8. MicsMade(l)
    BY <2>4, <2>7, Headers, MicsOf, Zenon
  <2>9. QED
    BY <2>8 DEF l
<1>4. ASSUME NEW optNeg \in BOOLEAN, NEW listed \in BOOLEAN, NEW len \in JoinLengths,
             JoinAccept(optNeg, listed, len)
      PROVE  MicsMade(last')
  <2> DEFINE whole == NetworkJoinAccept(optNeg, listed)
             bytes == Arrived(whole, len)
             hdr   == IF optNeg THEN Block0(11) ELSE <<>>
             key   == Key(IF optNeg THEN "JSINT" ELSE "NWK")
             l     == last'
  <2>1. l.mics = {[mic |-> Mic(key, hdr, Message(bytes)), of |-> hdr \o Message(bytes)]}
    BY <1>4 DEF JoinAccept, Arrived
  <2>2. Len(bytes) \in Nat
    <3>1. len \in 1..255
      BY CodecAssumption
    <3>2. PICK m : Size(whole, m)
      BY AcceptSent DEF AcceptBytes
    <3> HIDE DEF whole
    <3>3. m \in Nat /\ len \in Nat /\ 0 \in Nat /\ 0 <= m /\ 0 <= len
      BY <3>1, <3>2 DEF Size
    <3>4. Size(bytes, len)
      BY <3>2, <3>3, ArrivedBegins
    <3> HIDE DEF bytes
    <3>5. QED
      BY <3>3, <3>4 DEF Size
  <2>3. \E h \in 0..16 : Size(hdr, h)
    BY Headers
  <2> HIDE DEF bytes, hdr, key, l
  <2>4. MicsMade(l)
    BY <2>1, <2>2, <2>3, MicsOf, Zenon
  <2>5. QED
    BY <2>4 DEF l
<1>5. CASE Done
  BY <1>5, Zenon DEF Done, NoCall, MicsMade
<1>6. CASE GetCommand
  BY <1>2, <1>6 DEF GetCommand
<1>7. ASSUME NEW r \in Requests, Uplink(r) PROVE MicsMade(last')
  <2> DEFINE macs == Macs(r.answers)
             f    == UplinkFrame(r, macs)
             pkt  == PutData(f, MaxPacket)
             of   == Block0(BlockSize) \o Message(pkt)
             M(name) == [mic |-> Mic(Key(name), Block0(BlockSize), Message(pkt)), of |-> of]
             l    == last'
  <2>1. l.mics = {M("FNWKSINT")} \cup (IF version = 1 THEN {M("SNWKSINT")} ELSE {})
    BY <1>7 DEF Uplink, Macs
  <2>2. Len(pkt) \in Nat
    <3> DEFINE ans == r.answers
               k   == Len(macs)
    <3>1. r \in RequestType
      BY CodecAssumption
    <3>2. ans \in Seq(AnswerType)
      BY <3>1, Zenon DEF RequestType
    <3> HIDE DEF ans
    <3>3. Macs(ans) \in Seq(Int) /\ Len(Macs(ans)) \in 0..30
      BY <3>2, MacsAre
    <3>4. Size(macs, k) /\ k <= 30
      <4>1. macs \in Seq(Int) /\ k \in 0..30
        BY <3>3 DEF ans
      <4>2. \A n \in 0..30 : n <= 30
        OBVIOUS
      <4>3. k <= 30
        BY <4>1, <4>2
      <4>4. QED
        BY <4>1, <4>3 DEF Size
    <3> HIDE DEF macs, k
    <3>5. QED
      BY <1>1, <3>1, <3>4, UplinkLength
  <2> HIDE DEF pkt, l
  <2>3. ASSUME NEW name PROVE Made(M(name))
    <3> DEFINE key == Key(name)
               hdr == Block0(BlockSize)
    <3>1. PICK h \in 0..16 : Size(hdr, h)
      BY Headers
    <3> HIDE DEF key, hdr
    <3>2. Made(MicOf(key, hdr, pkt))
      BY <2>2, <3>1, MicRight
    <3>3. QED
      BY <3>2 DEF MicOf, key, hdr
  <2> HIDE DEF M
  <2>4. \A m \in l.mics : m = M("FNWKSINT") \/ m = M("SNWKSINT")
    BY <2>1
  <2>5. QED
    BY <2>3, <2>4 DEF MicsMade, l
<1>8. ASSUME NEW d \in Downlinks, NEW lost \in Lost, Downlink(d, lost) PROVE MicsMade(last')
  <2> DEFINE whole == NetworkData(d)
             bytes == SubSeq(whole, 1, Len(whole) - lost)
             key   == Key("SNWKSINT")
             hdr   == Block0(BlockSize)
             l     == last'
  <2>1. l.mics = {[mic |-> Mic(key, hdr, Message(bytes)), of |-> hdr \o Message(bytes)]}
    BY <1>8 DEF Downlink
  <2>2. Len(bytes) \in Nat
    <3> DEFINE n == Len(whole) - lost
    <3>1. whole \in Seq(Int) /\ lost \in Nat
      BY NetworkDataIs, CodecAssumption
    <3>2. n \in Int /\ n <= Len(whole)
      BY <3>1
    <3> HIDE DEF whole
    <3>3. bytes = SubSeq(whole, 1, n)
      OBVIOUS
    <3> HIDE DEF n, bytes
    <3>4. SubSeq(whole, 1, n) \in Seq(Int)
      BY <3>1, <3>2, CutShort
    <3>5. QED
      BY <3>3, <3>4
  <2> HIDE DEF bytes, key, l
  <2>3. \E h \in 0..16 : Size(hdr, h)
    BY Headers
  <2> HIDE DEF hdr
  <2>4. MicsMade(l)
    BY <2>1, <2>2, <2>3, MicsOf, Zenon
  <2>5. QED
    BY <2>4 DEF l
<1>9. CASE UNCHANGED vars
  BY <1>2, <1>9 DEF vars
<1>10. QED
  BY <1>3, <1>4, <1>5, <1>6, <1>7, <1>8, <1>9 DEF Next

\* Whatever a call makes a MIC of, a join request, a join accept or a data frame, sent or
\* received, whole or cut short, the two parts it is fed in give the CMAC of the whole message:
\* LDL_SM_mic().  Messages of 256 bytes are left out.
THEOREM MicsOverMessage == Spec => []MicOfOtherMessage
<1>1. Init => MicsMade(last)
  BY DEF Init, MicsMade, NoCall
<1>2. KeyInv /\ MicsMade(last) /\ [Next]_vars => MicsMade(last)'
  BY MicNext
<1>3. MicsMade(last) => MicOfOtherMessage
  BY MicsMadeIs
<1>4. QED
  BY <1>1, <1>2, <1>3, KeyInvariant, PTL DEF Spec

-----------------------------------------------------------------------------
(***************************************************************************)
(* Downlinks.                                                              *)
(***************************************************************************)
\* What all data frames have at the same places, up to their options.
Headed(w, k, n, a, b, c, e, o) ==
    /\ Size(w, k) /\ HasAt(w, 0, a) /\ HasAt(w, 1, b) /\ HasAt(w, 5, c) /\ HasAt(w, 6, e)
    /\ HasAt(w, 8, o)

\* Seven pieces joined.
LEMMA SevenJoined ==
    ASSUME NEW a, NEW b, NEW c, NEW e, NEW o, NEW y, NEW m, NEW n, NEW j, Size(a, 1), Size(b, 4),
           Size(c, 1), Size(e, 2), Size(o, n), Size(y, j), Size(m, 4), NEW w,
           w = a \o b \o c \o e \o o \o y \o m, NEW p, p = 8 + n, NEW q, q = p + j,
           NEW k, k = q + 4
    PROVE  Headed(w, k, n, a, b, c, e, o) /\ HasAt(w, p, y) /\ HasAt(w, q, m)
<1> DEFINE w1 == a \o b
           w2 == w1 \o c
           w3 == w2 \o e
           w4 == w3 \o o
           w5 == w4 \o y
<1>1. w = w5 \o m
  OBVIOUS
<1>2. n \in Nat /\ j \in Nat
  BY DEF Size
<1> HIDE DEF w1, w2, w3, w4, w5
<1>3. Both(w1, a, b, 1, 5)
  BY 5 = 1 + 4, HasJoined, SMTT(30) DEF w1
<1>4. Both(w2, w1, c, 5, 6)
  <2>1. Size(w1, 5)
    BY <1>3 DEF Both
  <2>2. QED
    BY <2>1, 6 = 5 + 1, HasJoined, SMTT(30) DEF w2
<1>5. Both(w3, w2, e, 6, 8)
  <2>1. Size(w2, 6)
    BY <1>4 DEF Both
  <2>2. QED
    BY <2>1, 8 = 6 + 2, HasJoined, SMTT(30) DEF w3
<1>6. Both(w4, w3, o, 8, p)
  <2>1. Size(w3, 8)
    BY <1>5 DEF Both
  <2>2. QED
    BY <2>1, HasJoined, SMTT(30) DEF w4
<1>7. Both(w5, w4, y, p, q)
  <2>1. Size(w4, p)
    BY <1>6 DEF Both
  <2>2. QED
    BY <2>1, HasJoined, SMTT(30) DEF w5
<1>8. Both(w, w5, m, q, k)
  <2>1. Size(w5, q)
    BY <1>7 DEF Both
  <2>2. Both(w5 \o m, w5, m, q, k)
    BY <2>1, HasJoined, SMTT(30)
  <2>3. QED
    BY <1>1, <2>2
<1>9. Size(w, k) /\ HasAt(w, q, m) /\ HasAt(w, 0, w5)
  BY <1>8 DEF Both
<1>10. ASSUME NEW s, NEW x, HasAt(w, 0, x), s \in Nat, NEW z, HasAt(x, s, z) PROVE HasAt(w, s, z)
  BY <1>9, <1>10, HasStill
<1>11. 0 \in Nat /\ 1 \in Nat /\ 5 \in Nat /\ 6 \in Nat /\ 8 \in Nat /\ p \in Nat
  BY <1>2
<1>12. HasAt(w, p, y) /\ HasAt(w, 0, w4)
  BY <1>7, <1>9, <1>10, <1>11 DEF Both
<1>13. HasAt(w, 8, o) /\ HasAt(w, 0, w3)
  BY <1>6, <1>10, <1>11, <1>12 DEF Both
<1>14. HasAt(w, 6, e) /\ HasAt(w, 0, w2)
  BY <1>5, <1>10, <1>11, <1>13 DEF Both
<1>15. HasAt(w, 5, c) /\ HasAt(w, 0, w1)
  BY <1>4, <1>10, <1>11, <1>14 DEF Both
<1>16. HasAt(w, 1, b) /\ HasAt(w, 0, a)
  BY <1>3, <1>10, <1>11, <1>15 DEF Both
<1>17. QED
  BY <1>9, <1>12, <1>13, <1>14, <1>15, <1>16 DEF Headed

\* A downlink's bytes at their places.
DownTag(d)  == <<IF d.confirmed THEN 160 ELSE 96>>
DownCtrl(d) == <<Bit(d.ack, 32) + Bit(d.pending, 16) + Len(DownOpts(d))>>

DownHead(w, k, n, d) ==
    Headed(w, k, n, DownTag(d), LE(DevAddr, 4), DownCtrl(d), LE(Counter, 2), DownOpts(d))

DownBare(w, d, n, p, k) ==
    DownHead(w, k, n, d) /\ HasAt(w, p, LE(MicBytes, 4)) /\ p = 8 + n /\ k = p + 4

DownFull(w, d, n, l, p, x, q, k) ==
    /\ DownHead(w, k, n, d) /\ HasAt(w, p, <<d.port>>) /\ HasAt(w, x, DownData(d))
    /\ HasAt(w, q, LE(MicBytes, 4)) /\ p = 8 + n /\ x = p + 1 /\ q = x + l /\ k = q + 4

LEMMA DownSent ==
    ASSUME NEW d \in Downlinks, NEW n, Size(DownOpts(d), n), NEW l, Size(DownData(d), l)
    PROVE  /\ ~HasPort(d) => \E p, k : DownBare(NetworkData(d), d, n, p, k)
           /\ HasPort(d) => \E p, x, q, k : DownFull(NetworkData(d), d, n, l, p, x, q, k)
<1> DEFINE o == DownOpts(d)
           x == DownData(d)
           a == DownTag(d)
           b == LE(DevAddr, 4)
           c == DownCtrl(d)
           e == LE(Counter, 2)
           t == <<d.port>>
           m == LE(MicBytes, 4)
           y == IF HasPort(d) THEN t \o x ELSE <<>>
           w == NetworkData(d)
           p == 8 + n
<1>1. w = a \o b \o c \o e \o o \o y \o m
  BY DEF NetworkData, DownTag, DownCtrl
<1>2. d \in DownlinkType
  BY CodecAssumption
<1>3. Size(a, 1)
  <2>1. (IF d.confirmed THEN 160 ELSE 96) \in Int
    OBVIOUS
  <2>2. QED
    BY <2>1 DEF DownTag, Size
<1>4. Size(c, 1)
  <2>1. Bit(d.ack, 32) \in Int /\ Bit(d.pending, 16) \in Int
    BY DEF Bit
  <2>2. Len(o) \in Int
    BY DEF Size
  <2> HIDE DEF o
  <2>3. Bit(d.ack, 32) + Bit(d.pending, 16) + Len(o) \in Int
    BY <2>1, <2>2
  <2>4. QED
    BY <2>3 DEF Size, DownCtrl, o
<1>5. Size(t, 1)
  <2>1. d.port \in 0..255
    BY <1>2, DownFields
  <2>2. d.port \in Int
    BY <2>1
  <2>3. QED
    BY <2>2 DEF Size
<1>6. Size(b, 4) /\ Size(e, 2) /\ Size(m, 4)
  <2>1. DevAddr \in Nat /\ Counter \in Nat /\ MicBytes \in Nat /\ 4 \in Nat /\ 2 \in Nat
    BY DEF DevAddr, Counter, MicBytes
  <2>2. QED
    BY <2>1, BytesOf DEF Size
<1>7. Size(o, n) /\ Size(x, l) /\ n \in Nat /\ l \in Nat /\ p \in Nat
  BY DEF Size
<1> HIDE DEF o, x, a, b, c, e, t, m
<1>8. ASSUME ~HasPort(d) PROVE \E q, k : DownBare(w, d, n, q, k)
  <2> DEFINE k == p + 4
  <2>1. Size(y, 0)
    BY <1>8 DEF Size
  <2>2. p = p + 0
    BY <1>7
  <2>3. Headed(w, k, n, a, b, c, e, o) /\ HasAt(w, p, m)
    <3> HIDE DEF y, w
    <3> DEFINE z == p
    <3>1. z = 8 + n /\ p = z + 0 /\ k = p + 4
      BY <2>2
    <3> HIDE DEF p, z, k
    <3>2. QED
      BY <1>1, <1>3, <1>4, <1>6, <1>7, <2>1, <3>1, SevenJoined, ZenonT(40)
  <2>4. DownBare(w, d, n, p, k)
    <3> HIDE DEF w
    <3>1. QED
      BY <2>3 DEF DownBare, DownHead, a, b, c, e, o, m
  <2> HIDE DEF k, p, w
  <2>5. QED
    BY <2>4
<1>9. ASSUME HasPort(d) PROVE \E i, j, q, k : DownFull(w, d, n, l, i, j, q, k)
  <2> DEFINE j == p + 1
             q == j + l
             k == q + 4
             u == 1 + l
  <2>1. y = t \o x
    BY <1>9
  <2>2. u = 1 + l /\ q = p + u /\ k = q + 4 /\ p = 8 + n /\ p \in Nat /\ j = p + 1 /\ j \in Nat
        /\ q = j + l /\ k \in Nat
    BY <1>7
  <2> HIDE DEF p, j, q, k, u, y, w
  <2>3. Size(y, u) /\ HasAt(y, 1, x) /\ HasAt(y, 0, t)
    <3>1. Both(t \o x, t, x, 1, u)
      BY <1>5, <1>7, <2>2, HasJoined, SMTT(30)
    <3>2. QED
      BY <2>1, <3>1 DEF Both
  <2>4. Headed(w, k, n, a, b, c, e, o) /\ HasAt(w, p, y) /\ HasAt(w, q, m)
    <3>1. p = 8 + n /\ q = p + u /\ k = q + 4 /\ Size(y, u)
      BY <2>2, <2>3
    <3>2. Size(o, n)
      BY <1>7
    <3>3. QED
      BY <1>1, <1>3, <1>4, <1>6, <3>1, <3>2, SevenJoined, ZenonT(40)
  <2>5. Len(w) \in Nat
    BY <2>2, <2>4 DEF Headed, Size
  <2>6. 0 \in Nat /\ 1 \in Nat /\ p = p + 0 /\ j = p + 1
    BY <2>2
  <2>7. HasAt(w, p, t)
    BY <2>2, <2>3, <2>4, <2>5, <2>6, HasWithin, SMTT(30)
  <2>8. HasAt(w, j, x)
    BY <2>2, <2>3, <2>4, <2>5, <2>6, HasWithin, SMTT(30)
  <2>9. DownFull(w, d, n, l, p, j, q, k)
    BY <2>2, <2>4, <2>7, <2>8 DEF DownFull, DownHead, a, b, c, e, o, m, x, t
  <2>10. QED
    BY <2>9
<1>10. QED
  BY <1>8, <1>9 DEF w

\* A seek that does not pass the end.
Inside(b, k, p, n, q) ==
    Size(b, k) /\ k <= 255 /\ p \in Nat /\ n \in 0..255 /\ q = p + n /\ q <= k

LEMMA SeekWithin ==
    ASSUME NEW b, NEW k, NEW p, NEW n, NEW q, Inside(b, k, p, n, q)
    PROVE  SeekCur(At(b, p), n) = At(b, q)
<1>1. b \in Seq(Int) /\ Len(b) = k /\ k \in Nat /\ k <= 255 /\ p \in Nat /\ n \in 0..255
      /\ q = p + n /\ q <= k
  BY DEF Inside, Size
<1>2. p <= Len(b) /\ q <= Len(b) /\ Len(b) <= 255
  BY <1>1
<1>3. b \in Seq(Int) /\ p \in Nat /\ n \in 0..255 /\ q = p + n
  BY <1>1
<1>4. p + n <= Len(b)
  BY <1>2, <1>3
<1>5. SeekCur(At(b, p), n) = At(b, p + n)
  BY <1>2, <1>3, <1>4, SeekAt
<1>6. QED
  BY <1>3, <1>5

\* The streams a data frame is decoded with, up to its options.
LEMMA HeadRead ==
    ASSUME NEW b \in Seq(Int), NEW n \in 0..255, NEW p, p = 8 + n, p <= Len(b), Len(b) <= 255
    PROVE  /\ Read(At(b, 1), 4) = At(b, 5) /\ Got(At(b, 1), 4) = Number(SubSeq(b, 2, 5))
           /\ Read(At(b, 5), 1) = At(b, 6) /\ Got(At(b, 5), 1) = b[6]
           /\ Read(At(b, 6), 2) = At(b, 8) /\ Got(At(b, 6), 2) = Number(SubSeq(b, 7, 8))
           /\ At(b, 8).pos = 8 /\ SeekCur(At(b, 8), n) = At(b, p)
<1>1. 1 \in Nat /\ 2 \in Nat /\ 4 \in Nat /\ 5 \in Nat /\ 6 \in Nat /\ 7 \in Nat /\ 8 \in Nat
  OBVIOUS
<1> DEFINE k == Len(b)
<1>2. 5 <= k /\ 5 < k /\ 8 <= k /\ k \in Nat
  OBVIOUS
<1> HIDE DEF k
<1>3. Read(At(b, 1), 4) = At(b, 5) /\ Got(At(b, 1), 4) = Number(SubSeq(b, 2, 5))
  <2>1. 5 = 1 + 4 /\ 2 = 1 + 1 /\ 5 <= Len(b)
    BY <1>2 DEF k
  <2>2. QED
    BY <1>1, <2>1, ReadTo, SMTT(30)
<1>4. Read(At(b, 5), 1) = At(b, 6) /\ Got(At(b, 5), 1) = b[6]
  <2>1. 5 < Len(b) /\ 5 + 1 = 6
    BY <1>2 DEF k
  <2>2. QED
    BY <1>1, <2>1, ByteAt, Zenon
<1>5. Read(At(b, 6), 2) = At(b, 8) /\ Got(At(b, 6), 2) = Number(SubSeq(b, 7, 8))
  <2>1. 8 = 6 + 2 /\ 7 = 6 + 1 /\ 8 <= Len(b)
    BY <1>2 DEF k
  <2>2. QED
    BY <1>1, <2>1, ReadTo, SMTT(30)
<1>6. SeekCur(At(b, 8), n) = At(b, p)
  <2>1. Inside(b, k, 8, n, p)
    BY <1>2 DEF k, Size, Inside
  <2>2. QED
    BY <2>1, SeekWithin, Zenon
<1>7. QED
  BY <1>3, <1>4, <1>5, <1>6 DEF At

\* What is decoded of the first fields of a data frame b with n bytes of options.
Decoded(f, type, b, n) ==
    /\ f.ok /\ f.type = type /\ f.devAddr = Number(SubSeq(b, 2, 5))
    /\ f.adr = (b[6] >= 128) /\ f.adrAckReq = ((b[6] \div 64) % 2 = 1)
    /\ f.ack = ((b[6] \div 32) % 2 = 1) /\ f.pending = ((b[6] \div 16) % 2 = 1)
    /\ f.counter = Number(SubSeq(b, 7, 8))
    /\ f.opts = IF n > 0 THEN Part(8, n) ELSE Part(0, 0)

Options(b, n) == b[6] % 16 = n

BareDecoded(f, type, b, n, first, k) ==
    /\ Decoded(f, type, b, n) /\ f.dataPresent = FALSE /\ f.data = Part(0, 0)
    /\ f.mic = Number(SubSeq(b, first, k))

LEMMA DecodeBare ==
    ASSUME NEW b, NEW n \in 0..255, Options(b, n), NEW p, p = 8 + n, NEW k, k = p + 4,
           Size(b, k), k <= 255, NEW type, NEW first, first = p + 1
    PROVE  BareDecoded(DecodeData(type, At(b, 1)), type, b, n, first, k)
<1> DEFINE s  == At(b, 1)
           s1 == Read(s, 4)
           s2 == Read(s1, 1)
           s3 == Read(s2, 2)
           fhdr == Got(s1, 1)
           o  == fhdr % 16
           s4 == SeekCur(s3, o)
           present == Remaining(s4) > MicSize
           s5 == IF present THEN Read(s4, 1) ELSE s4
           len == IF present THEN Remaining(s5) - MicSize ELSE 0
           port == IF present THEN Got(s4, 1) ELSE 0
           s6 == SeekCur(s5, len)
           s7 == Read(s6, 4)
           f == DecodeData(type, At(b, 1))
           g == [ok |-> TRUE, type |-> type, devAddr |-> Got(s, 4), adr |-> fhdr >= 128,
             adrAckReq |-> (fhdr \div 64) % 2 = 1, ack |-> (fhdr \div 32) % 2 = 1,
             pending |-> (fhdr \div 16) % 2 = 1, counter |-> Got(s2, 2),
             opts |-> IF o > 0 THEN Part(s3.pos, o) ELSE Part(0, 0),
             dataPresent |-> present, port |-> port,
             data |-> IF len > 0 THEN Part(s5.pos, len) ELSE Part(0, 0),
             mic |-> Got(s6, 4)]
           refused == s7.error \/ (present /\ o > 0 /\ port = 0)
<1>1. f = IF refused THEN Refused ELSE g
  BY Zenon DEF DecodeData
<1> HIDE DEF f
<1>2. p \in Nat /\ k \in Nat /\ p <= k /\ 4 \in Nat /\ k = p + 4 /\ k - p = 4
  OBVIOUS
<1>15. b \in Seq(Int) /\ Len(b) = k
  BY DEF Size
<1>3. /\ s1 = At(b, 5) /\ Got(s, 4) = Number(SubSeq(b, 2, 5))
      /\ s2 = At(b, 6) /\ fhdr = b[6]
      /\ s3 = At(b, 8) /\ Got(s2, 2) = Number(SubSeq(b, 7, 8))
      /\ s3.pos = 8 /\ SeekCur(s3, n) = At(b, p)
  <2>1. p <= Len(b) /\ Len(b) <= 255
    BY <1>2, <1>15
  <2> HIDE DEF s, s1, s2, s3, fhdr
  <2>2. s1 = At(b, 5) /\ Got(s, 4) = Number(SubSeq(b, 2, 5))
    BY <2>1, <1>15, HeadRead, Zenon DEF s, s1
  <2>3. s2 = At(b, 6) /\ fhdr = b[6]
    BY <2>1, <2>2, <1>15, HeadRead, Zenon DEF s2, fhdr
  <2>4. s3 = At(b, 8) /\ Got(s2, 2) = Number(SubSeq(b, 7, 8))
    BY <2>1, <2>3, <1>15, HeadRead, Zenon DEF s3
  <2>5. QED
    BY <2>1, <2>2, <2>3, <2>4, <1>15, HeadRead, ZenonT(40)
<1>4. o = n
  BY <1>3 DEF Options
<1>5. s4 = At(b, p)
  BY <1>3, <1>4
<1> HIDE DEF s, s1, s2, s3, fhdr, o
<1>6. ~present
  <2>1. Remaining(At(b, p)) = Len(b) - p
    BY <1>2, <1>15, AtFacts
  <2>2. Remaining(s4) = 4
    BY <1>2, <1>5, <1>15, <2>1
  <2>3. QED
    BY <2>2 DEF MicSize
<1>7. s5 = At(b, p) /\ len = 0
  BY <1>5, <1>6
<1> HIDE DEF s4, present, s5, len
<1>8. s6 = At(b, p)
  <2>1. Inside(b, k, p, 0, p)
    BY <1>2 DEF Inside
  <2>2. SeekCur(At(b, p), 0) = At(b, p)
    BY <2>1, SeekWithin, Zenon
  <2>3. QED
    BY <1>7, <2>2
<1>9. s7 = At(b, k) /\ Got(s6, 4) = Number(SubSeq(b, first, k))
  <2>1. k <= Len(b)
    BY <1>2, <1>15
  <2>2. Read(At(b, p), 4) = At(b, k) /\ Got(At(b, p), 4) = Number(SubSeq(b, first, k))
    BY <1>2, <2>1, <1>15, ReadTo, SMTT(30)
  <2>3. QED
    BY <1>8, <2>2
<1>10. ~s7.error
  BY <1>9 DEF At
<1> HIDE DEF s6, s7, port
<1>11. f = g
  BY <1>1, <1>6, <1>10
<1>12. Decoded(g, type, b, n)
  BY <1>3, <1>4 DEF Decoded
<1>13. g.dataPresent = FALSE /\ g.data = Part(0, 0) /\ g.mic = Number(SubSeq(b, first, k))
  BY <1>6, <1>7, <1>9
<1> HIDE DEF g
<1>14. QED
  BY <1>11, <1>12, <1>13 DEF f, BareDecoded

FullPlaces(n, l, p, x, q, k) == p = 8 + n /\ x = p + 1 /\ q = x + l /\ k = q + 4

FullDecoded(f, type, b, n, l, x, first, k) ==
    /\ Decoded(f, type, b, n) /\ f.dataPresent = TRUE /\ f.port = b[x]
    /\ f.data = IF l > 0 THEN Part(x, l) ELSE Part(0, 0)
    /\ f.mic = Number(SubSeq(b, first, k))

\* Options do not go with port 0.
Allowed(n, b, x) == n > 0 => b[x] # 0

FullFrame(b, n, l, p, x, q, k) ==
    /\ n \in 0..255 /\ l \in 0..255 /\ Options(b, n) /\ FullPlaces(n, l, p, x, q, k)
    /\ Size(b, k) /\ k <= 255 /\ Allowed(n, b, x)

LEMMA DecodeFull ==
    ASSUME NEW b, NEW n, NEW l, NEW p, NEW x, NEW q, NEW k, FullFrame(b, n, l, p, x, q, k),
           NEW type, NEW first, first = q + 1
    PROVE  FullDecoded(DecodeData(type, At(b, 1)), type, b, n, l, x, first, k)
<1>17. /\ n \in 0..255 /\ l \in 0..255 /\ Options(b, n) /\ FullPlaces(n, l, p, x, q, k)
       /\ Size(b, k) /\ k <= 255 /\ Allowed(n, b, x)
  BY DEF FullFrame
<1> DEFINE s  == At(b, 1)
           s1 == Read(s, 4)
           s2 == Read(s1, 1)
           s3 == Read(s2, 2)
           fhdr == Got(s1, 1)
           o  == fhdr % 16
           s4 == SeekCur(s3, o)
           present == Remaining(s4) > MicSize
           s5 == IF present THEN Read(s4, 1) ELSE s4
           len == IF present THEN Remaining(s5) - MicSize ELSE 0
           port == IF present THEN Got(s4, 1) ELSE 0
           s6 == SeekCur(s5, len)
           s7 == Read(s6, 4)
           f == DecodeData(type, At(b, 1))
           g == [ok |-> TRUE, type |-> type, devAddr |-> Got(s, 4), adr |-> fhdr >= 128,
             adrAckReq |-> (fhdr \div 64) % 2 = 1, ack |-> (fhdr \div 32) % 2 = 1,
             pending |-> (fhdr \div 16) % 2 = 1, counter |-> Got(s2, 2),
             opts |-> IF o > 0 THEN Part(s3.pos, o) ELSE Part(0, 0),
             dataPresent |-> present, port |-> port,
             data |-> IF len > 0 THEN Part(s5.pos, len) ELSE Part(0, 0),
             mic |-> Got(s6, 4)]
           refused == s7.error \/ (present /\ o > 0 /\ port = 0)
<1>1. f = IF refused THEN Refused ELSE g
  BY Zenon DEF DecodeData
<1> HIDE DEF f
<1>2. p \in Nat /\ x \in Nat /\ q \in Nat /\ k \in Nat /\ p <= k /\ x <= k /\ q <= k /\ p < k
      /\ 4 \in Nat /\ k = q + 4 /\ k - p > 4 /\ k - x - 4 = l /\ p = 8 + n /\ x = p + 1 /\ q = x + l
  BY <1>17 DEF FullPlaces
<1>16. b \in Seq(Int) /\ Len(b) = k
  BY <1>17 DEF Size
<1>3. /\ s1 = At(b, 5) /\ Got(s, 4) = Number(SubSeq(b, 2, 5))
      /\ s2 = At(b, 6) /\ fhdr = b[6]
      /\ s3 = At(b, 8) /\ Got(s2, 2) = Number(SubSeq(b, 7, 8))
      /\ s3.pos = 8 /\ SeekCur(s3, n) = At(b, p)
  <2>1. p <= Len(b) /\ Len(b) <= 255 /\ p = 8 + n /\ n \in 0..255
    BY <1>2, <1>16, <1>17
  <2> HIDE DEF s, s1, s2, s3, fhdr
  <2>2. s1 = At(b, 5) /\ Got(s, 4) = Number(SubSeq(b, 2, 5))
    BY <2>1, <1>16, HeadRead, Zenon DEF s, s1
  <2>3. s2 = At(b, 6) /\ fhdr = b[6]
    BY <2>1, <2>2, <1>16, HeadRead, Zenon DEF s2, fhdr
  <2>4. s3 = At(b, 8) /\ Got(s2, 2) = Number(SubSeq(b, 7, 8))
    BY <2>1, <2>3, <1>16, HeadRead, Zenon DEF s3
  <2>5. QED
    BY <2>1, <2>2, <2>3, <2>4, <1>16, HeadRead, ZenonT(40)
<1>4. o = n
  BY <1>3, <1>17 DEF Options
<1>5. s4 = At(b, p)
  BY <1>3, <1>4
<1> HIDE DEF s, s1, s2, s3, fhdr, o
<1>6. present
  <2>1. Remaining(At(b, p)) = Len(b) - p
    BY <1>2, <1>16, AtFacts
  <2>2. Len(b) - p > 4
    BY <1>2, <1>16
  <2>3. QED
    BY <1>5, <2>1, <2>2 DEF MicSize
<1>7. s5 = At(b, x) /\ port = b[x] /\ s5.pos = x
  <2>1. p < Len(b) /\ p + 1 = x
    BY <1>2, <1>16
  <2>2. Read(At(b, p), 1) = At(b, x) /\ Got(At(b, p), 1) = b[x]
    BY <1>2, <2>1, <1>16, ByteAt, Zenon
  <2>3. At(b, x).pos = x
    BY DEF At
  <2>4. QED
    BY <1>5, <1>6, <2>2, <2>3
<1>8. len = l
  <2>1. Remaining(At(b, x)) = Len(b) - x
    BY <1>2, <1>16, AtFacts
  <2>2. Len(b) - x - 4 = l
    BY <1>2, <1>16
  <2>3. len = Remaining(At(b, x)) - 4
    BY <1>6, <1>7 DEF MicSize
  <2>4. QED
    BY <2>1, <2>2, <2>3
<1> HIDE DEF s4, present, s5, len, port
<1>9. s6 = At(b, q)
  <2>1. Inside(b, k, x, l, q)
    BY <1>2, <1>17 DEF Inside
  <2>2. SeekCur(At(b, x), l) = At(b, q)
    BY <2>1, SeekWithin, Zenon
  <2>3. QED
    BY <1>7, <1>8, <2>2
<1>10. s7 = At(b, k) /\ Got(s6, 4) = Number(SubSeq(b, first, k))
  <2>1. /\ b \in Seq(Int) /\ q \in Nat /\ 4 \in Nat /\ k = q + 4 /\ k <= Len(b)
        /\ first = q + 1
    BY <1>2, <1>16
  <2>2. Read(At(b, q), 4) = At(b, k) /\ Got(At(b, q), 4) = Number(SubSeq(b, first, k))
    BY <2>1, ReadTo, SMTT(30)
  <2>3. QED
    BY <1>9, <2>2
<1>11. ~s7.error
  BY <1>10 DEF At
<1> HIDE DEF s6, s7
<1>12. f = g
  BY <1>1, <1>4, <1>7, <1>11, <1>17 DEF Allowed
<1>13. Decoded(g, type, b, n)
  BY <1>3, <1>4 DEF Decoded
<1>14. g.dataPresent = TRUE /\ g.port = b[x] /\ g.data = (IF l > 0 THEN Part(x, l) ELSE Part(0, 0))
       /\ g.mic = Number(SubSeq(b, first, k))
  BY <1>6, <1>7, <1>8, <1>10, <1>17
<1> HIDE DEF g
<1>15. QED
  BY <1>12, <1>13, <1>14 DEF f, FullDecoded

DownKind(d) == IF d.confirmed THEN "DATA_CONFIRMED_DOWN" ELSE "DATA_UNCONFIRMED_DOWN"

LEMMA DecodeDown ==
    ASSUME NEW b \in Seq(Int), 1 <= Len(b), NEW c \in BOOLEAN, b[1] = IF c THEN 160 ELSE 96
    PROVE  Decode(b) = DecodeData(IF c THEN "DATA_CONFIRMED_DOWN" ELSE "DATA_UNCONFIRMED_DOWN",
                                  At(b, 1))
<1> DEFINE kind == IF c THEN "DATA_CONFIRMED_DOWN" ELSE "DATA_UNCONFIRMED_DOWN"
<1>1. Stream(b) = At(b, 0)
  BY DEF Stream, At
<1>2. 0 \in Nat /\ 0 < Len(b) /\ 1 = 0 + 1
  OBVIOUS
<1>3. Read(Stream(b), 1) = At(b, 1) /\ Got(Stream(b), 1) = b[1]
  BY <1>1, <1>2, ByteAt, SMTT(30)
<1>4. FrameType(b[1]) = kind
  <2>1. /\ 160 % 32 = 0 /\ 160 \div 32 < 7 /\ 160 \div 32 + 1 = 6
        /\ 96 % 32 = 0 /\ 96 \div 32 < 7 /\ 96 \div 32 + 1 = 4
    OBVIOUS
  <2>2. CASE c
    BY <2>1, <2>2 DEF FrameType, FrameTypes
  <2>3. CASE ~c
    BY <2>1, <2>3 DEF FrameType, FrameTypes
  <2>4. QED
    BY <2>2, <2>3
<1>5. ~(Len(b) = 0)
  BY <1>2
<1> DEFINE type == FrameType(Got(Stream(b), 1))
<1>6. type = kind
  BY <1>3, <1>4
<1>7. Decode(b) = CASE type = "JOIN_ACCEPT"  -> DecodeJoinAccept(Read(Stream(b), 1))
                    [] type \in DownTypes    -> DecodeData(type, Read(Stream(b), 1))
                    [] OTHER                 -> Refused
  BY <1>5, Zenon DEF Decode
<1> HIDE DEF type
<1>8. type \in DownTypes /\ type # "JOIN_ACCEPT"
  BY <1>6 DEF DownTypes
<1> HIDE DEF kind
<1>9. Decode(b) = DecodeData(kind, At(b, 1))
  BY <1>3, <1>6, <1>7, <1>8
<1>10. QED
  BY <1>9 DEF kind

\* A part of a frame where the bytes c are.
LEMMA PartRead ==
    ASSUME NEW b, NEW k, Size(b, k), NEW at \in Nat, NEW c, HasAt(b, at, c), NEW n, Size(c, n)
    PROVE  PartOf(b, IF n > 0 THEN Part(at, n) ELSE Part(0, 0)) = c
<1>1. n \in Nat /\ b \in Seq(Int)
  BY DEF Size
<1>2. CASE n > 0
  <2>1. Slice(b, at, n, c)
    BY SliceIs
  <2>2. PartOf(b, Part(at, n)) = SubSeq(b, at + 1, at + n)
    BY DEF PartOf, Part
  <2>3. QED
    BY <1>2, <2>1, <2>2 DEF Slice
<1>3. CASE ~(n > 0)
  <2>1. Part(0, 0).at = 0 /\ Part(0, 0).len = 0
    BY DEF Part
  <2>2. PartOf(b, Part(0, 0)) = SubSeq(b, 0 + 1, 0 + 0)
    BY <2>1 DEF PartOf
  <2>3. n = 0
    BY <1>1, <1>3
  <2>4. c = <<>>
    BY <2>3 DEF Size
  <2>5. SubSeq(b, 0 + 1, 0 + 0) = <<>>
    BY <1>1
  <2>6. QED
    BY <1>3, <2>2, <2>4, <2>5
<1>4. QED
  BY <1>2, <1>3

\* The control byte of a downlink.
CtrlRead(v, ack, pending, n) ==
    /\ v % 16 = n /\ ~(v >= 128) /\ ~((v \div 64) % 2 = 1)
    /\ ((v \div 32) % 2 = 1 <=> ack) /\ ((v \div 16) % 2 = 1 <=> pending)

LEMMA CtrlBits ==
    ASSUME NEW n, NEW h, NEW i, NEW v, NEW ack, NEW pending, v % 16 = n /\ v \div 16 = h,
           v \div 32 = i /\ v \div 64 = 0 /\ ~(v >= 128), h % 2 = 1 <=> pending, i % 2 = 1 <=> ack
    PROVE  CtrlRead(v, ack, pending, n)
<1>1. ~(0 % 2 = 1)
  OBVIOUS
<1>2. QED
  BY <1>1, Zenon DEF CtrlRead

LEMMA DownCtrlRead ==
    ASSUME NEW ack \in BOOLEAN, NEW pending \in BOOLEAN, NEW n \in 0..15, NEW v,
           v = Bit(ack, 32) + Bit(pending, 16) + n
    PROVE  CtrlRead(v, ack, pending, n)
<1>1. \A k \in 0..15 : /\ (0 + k) % 16 = k /\ (16 + k) % 16 = k /\ (32 + k) % 16 = k
                       /\ (48 + k) % 16 = k
                       /\ (0 + k) \div 16 = 0 /\ (16 + k) \div 16 = 1 /\ (32 + k) \div 16 = 2
                       /\ (48 + k) \div 16 = 3
  OBVIOUS
<1>2. \A k \in 0..15 : /\ (0 + k) \div 32 = 0 /\ (16 + k) \div 32 = 0 /\ (32 + k) \div 32 = 1
                       /\ (48 + k) \div 32 = 1
                       /\ (0 + k) \div 64 = 0 /\ (16 + k) \div 64 = 0 /\ (32 + k) \div 64 = 0
                       /\ (48 + k) \div 64 = 0
  OBVIOUS
<1>3. 0 % 2 = 0 /\ 1 % 2 = 1 /\ 2 % 2 = 0 /\ 3 % 2 = 1
  OBVIOUS
<1>4. CASE ack /\ pending
  <2>1. v = 48 + n /\ ~(48 + n >= 128)
    BY <1>4 DEF Bit
  <2>2. v % 16 = n /\ v \div 16 = 3 /\ v \div 32 = 1 /\ v \div 64 = 0 /\ ~(v >= 128)
    BY <1>1, <1>2, <2>1
  <2>3. (3 % 2 = 1 <=> pending) /\ (1 % 2 = 1 <=> ack)
    BY <1>3, <1>4
  <2>4. QED
    BY <2>2, <2>3, CtrlBits, Zenon
<1>5. CASE ack /\ ~pending
  <2>1. v = 32 + n /\ ~(32 + n >= 128)
    BY <1>5 DEF Bit
  <2>2. v % 16 = n /\ v \div 16 = 2 /\ v \div 32 = 1 /\ v \div 64 = 0 /\ ~(v >= 128)
    BY <1>1, <1>2, <2>1
  <2>3. (2 % 2 = 1 <=> pending) /\ (1 % 2 = 1 <=> ack)
    BY <1>3, <1>5
  <2>4. QED
    BY <2>2, <2>3, CtrlBits, Zenon
<1>6. CASE ~ack /\ pending
  <2>1. v = 16 + n /\ ~(16 + n >= 128)
    BY <1>6 DEF Bit
  <2>2. v % 16 = n /\ v \div 16 = 1 /\ v \div 32 = 0 /\ v \div 64 = 0 /\ ~(v >= 128)
    BY <1>1, <1>2, <2>1
  <2>3. (1 % 2 = 1 <=> pending) /\ (0 % 2 = 1 <=> ack)
    BY <1>3, <1>6
  <2>4. QED
    BY <2>2, <2>3, CtrlBits, Zenon
<1>7. CASE ~ack /\ ~pending
  <2>1. v = 0 + n /\ ~(0 + n >= 128)
    BY <1>7 DEF Bit
  <2>2. v % 16 = n /\ v \div 16 = 0 /\ v \div 32 = 0 /\ v \div 64 = 0 /\ ~(v >= 128)
    BY <1>1, <1>2, <2>1
  <2>3. (0 % 2 = 1 <=> pending) /\ (0 % 2 = 1 <=> ack)
    BY <1>3, <1>7
  <2>4. QED
    BY <2>2, <2>3, CtrlBits, Zenon
<1>8. QED
  BY <1>4, <1>5, <1>6, <1>7

\* What the network wrote into the first fields of a downlink.
HeadRight(b, d, n) ==
    /\ b \in Seq(Int) /\ 1 <= Len(b) /\ b[1] = IF d.confirmed THEN 160 ELSE 96
    /\ CtrlRead(b[6], d.ack, d.pending, n)
    /\ Number(SubSeq(b, 2, 5)) = DevAddr /\ Number(SubSeq(b, 7, 8)) = Counter
    /\ PartOf(b, IF n > 0 THEN Part(8, n) ELSE Part(0, 0)) = DownOpts(d)

LEMMA NumbersBack ==
    /\ Number(LE(DevAddr, 4)) = DevAddr /\ Number(LE(Counter, 2)) = Counter
    /\ Number(LE(MicBytes, 4)) = MicBytes
    /\ Size(LE(DevAddr, 4), 4) /\ Size(LE(Counter, 2), 2) /\ Size(LE(MicBytes, 4), 4)
<1> DEFINE u == DevAddr
           v == Counter
           w == MicBytes
<1>1. u \in Nat /\ u < 4294967296
  BY DEF DevAddr
<1>2. v \in Nat /\ v < 65536
  BY DEF Counter
<1>3. w \in Nat /\ w < 4294967296
  BY DEF MicBytes
<1> HIDE DEF u, v, w
<1>4. Number(LE(u, 4)) = u /\ Number(LE(v, 2)) = v /\ Number(LE(w, 4)) = w
  BY <1>1, <1>2, <1>3, NumberOfBytes
<1>5. 4 \in Nat /\ 2 \in Nat
  OBVIOUS
<1>6. Size(LE(u, 4), 4) /\ Size(LE(v, 2), 2) /\ Size(LE(w, 4), 4)
  <2>1. u \in Nat /\ v \in Nat /\ w \in Nat
    BY <1>1, <1>2, <1>3
  <2>2. QED
    BY <1>5, <2>1, BytesOf DEF Size
<1>7. QED
  BY <1>4, <1>6 DEF u, v, w

LEMMA DownHeadRight ==
    ASSUME NEW d \in Downlinks, NEW n \in 0..15, Size(DownOpts(d), n), NEW b, NEW k,
           DownHead(b, k, n, d)
    PROVE  HeadRight(b, d, n)
<1>1. /\ Size(b, k) /\ HasAt(b, 0, DownTag(d)) /\ HasAt(b, 1, LE(DevAddr, 4))
      /\ HasAt(b, 5, DownCtrl(d)) /\ HasAt(b, 6, LE(Counter, 2)) /\ HasAt(b, 8, DownOpts(d))
  BY DEF DownHead, Headed
<1>2. d.ack \in BOOLEAN /\ d.pending \in BOOLEAN
  <2>1. d \in DownlinkType
    BY CodecAssumption
  <2>2. QED
    BY <2>1, DownFields
<1>3. 1 <= Len(b) /\ b[1] = IF d.confirmed THEN 160 ELSE 96
  <2> DEFINE t == IF d.confirmed THEN 160 ELSE 96
  <2>1. DownTag(d) = <<t>>
    BY DEF DownTag
  <2> HIDE DEF t
  <2>2. Len(DownTag(d)) = 1 /\ DownTag(d)[1] = t /\ Len(b) \in Nat
    BY <1>1, <2>1 DEF Size
  <2>3. 0 + 1 <= Len(b) /\ b[0 + 1] = DownTag(d)[1]
    <3>1. 0 + Len(DownTag(d)) <= Len(b) /\ \A i \in 1..Len(DownTag(d)) : b[0 + i] = DownTag(d)[i]
      BY <1>1 DEF HasAt
    <3>2. QED
      BY <2>2, <3>1
  <2>4. QED
    BY <2>2, <2>3 DEF t
<1>4. CtrlRead(b[6], d.ack, d.pending, n)
  <2> DEFINE v == Bit(d.ack, 32) + Bit(d.pending, 16) + n
             ack == d.ack
             pending == d.pending
  <2>1. DownCtrl(d) = <<v>>
    BY DEF DownCtrl, Size
  <2>2. v = Bit(ack, 32) + Bit(pending, 16) + n /\ ack \in BOOLEAN /\ pending \in BOOLEAN
    BY <1>2
  <2> HIDE DEF v, ack, pending
  <2>3. b[5 + 1] = v
    <3>1. \A i \in 1..Len(DownCtrl(d)) : b[5 + i] = DownCtrl(d)[i]
      BY <1>1 DEF HasAt
    <3>2. Len(DownCtrl(d)) = 1 /\ DownCtrl(d)[1] = v
      BY <2>1
    <3>3. QED
      BY <3>1, <3>2
  <2>4. CtrlRead(v, ack, pending, n)
    BY <2>2, DownCtrlRead
  <2>5. QED
    BY <2>3, <2>4, 6 = 5 + 1 DEF ack, pending
<1>5. Number(SubSeq(b, 2, 5)) = DevAddr /\ Number(SubSeq(b, 7, 8)) = Counter
  <2>1. 1 \in Nat /\ 6 \in Nat
    OBVIOUS
  <2>2. Slice(b, 1, 4, LE(DevAddr, 4)) /\ Slice(b, 6, 2, LE(Counter, 2))
    BY <1>1, <2>1, NumbersBack, SliceIs, SMTT(30)
  <2>3. 2 = 1 + 1 /\ 5 = 1 + 4 /\ 7 = 6 + 1 /\ 8 = 6 + 2
    OBVIOUS
  <2>4. QED
    BY <2>2, <2>3, NumbersBack DEF Slice
<1>6. PartOf(b, IF n > 0 THEN Part(8, n) ELSE Part(0, 0)) = DownOpts(d)
  <2>1. 8 \in Nat
    OBVIOUS
  <2>2. QED
    BY <1>1, <2>1, PartRead, SMTT(30)
<1>7. QED
  BY <1>1, <1>3, <1>4, <1>5, <1>6 DEF HeadRight, Size

\* The first fields read as they were meant.
HeadTaken(f, b, d) ==
    /\ f.ok /\ f.type = DownKind(d) /\ f.devAddr = DevAddr /\ f.counter = Counter
    /\ f.ack = d.ack /\ f.pending = d.pending /\ ~f.adr /\ ~f.adrAckReq
    /\ PartOf(b, f.opts) = DownOpts(d)

LEMMA HeadIsTaken ==
    ASSUME NEW f, NEW type, NEW b, NEW n, NEW d \in DownlinkType, Decoded(f, type, b, n),
           HeadRight(b, d, n), type = DownKind(d)
    PROVE  HeadTaken(f, b, d)
<1> DEFINE v == b[6]
           ack == d.ack
           pending == d.pending
<1>1. /\ f.ok /\ f.type = type /\ f.devAddr = Number(SubSeq(b, 2, 5))
      /\ f.adr = (v >= 128) /\ f.adrAckReq = ((v \div 64) % 2 = 1)
      /\ f.ack = ((v \div 32) % 2 = 1) /\ f.pending = ((v \div 16) % 2 = 1)
      /\ f.counter = Number(SubSeq(b, 7, 8))
      /\ f.opts = IF n > 0 THEN Part(8, n) ELSE Part(0, 0)
  BY Zenon DEF Decoded
<1>2. /\ CtrlRead(v, ack, pending, n)
      /\ Number(SubSeq(b, 2, 5)) = DevAddr /\ Number(SubSeq(b, 7, 8)) = Counter
      /\ PartOf(b, IF n > 0 THEN Part(8, n) ELSE Part(0, 0)) = DownOpts(d)
  BY Zenon DEF HeadRight
<1>3. ack \in BOOLEAN /\ pending \in BOOLEAN
  BY DownFields
<1> HIDE DEF v, ack, pending
<1>4. /\ ~(v >= 128) /\ ~((v \div 64) % 2 = 1)
      /\ ((v \div 32) % 2 = 1 <=> ack) /\ ((v \div 16) % 2 = 1 <=> pending)
  BY <1>2, Zenon DEF CtrlRead
<1>5. f.ack = ack /\ f.pending = pending /\ ~f.adr /\ ~f.adrAckReq
  BY <1>1, <1>3, <1>4
<1>6. f.devAddr = DevAddr /\ f.counter = Counter /\ PartOf(b, f.opts) = DownOpts(d)
  BY <1>1, <1>2, Zenon
<1>7. QED
  BY <1>1, <1>5, <1>6, Zenon DEF HeadTaken, ack, pending

\* The parts of a data frame b, options and data, or none.
PartsIn(f, b, n, l) ==
    /\ f.opts = (IF n > 0 THEN Part(8, n) ELSE Part(0, 0))
    /\ f.data = (IF l > 0 THEN Part(n + 9, l) ELSE Part(0, 0))
    /\ Len(b) >= n + 12 /\ (l > 0 => Len(b) >= n + l + 13)

\* A downlink reads as it was meant.
DownRight(f, b, d) ==
    /\ \E n \in 0..15, l \in 0..255 : PartsIn(f, b, n, l)
    /\ HeadTaken(f, b, d) /\ f.mic = MicBytes
    /\ f.dataPresent = HasPort(d) /\ (HasPort(d) => f.port = d.port)
    /\ IF HasPort(d) THEN PartOf(b, f.data) = DownData(d) ELSE f.data = Part(0, 0)

LEMMA MicRead ==
    ASSUME NEW b, NEW k, Size(b, k), NEW q \in Nat, HasAt(b, q, LE(MicBytes, 4)), NEW j, j = q + 4
    PROVE  Number(SubSeq(b, q + 1, j)) = MicBytes
<1>1. Slice(b, q, 4, LE(MicBytes, 4))
  BY NumbersBack, SliceIs
<1>2. QED
  BY <1>1, NumbersBack DEF Slice

LEMMA DownReadBare ==
    ASSUME NEW d \in Downlinks, ~HasPort(d), NEW n \in 0..15, Size(DownOpts(d), n), NEW b,
           NEW p, NEW k, k <= 255, DownBare(b, d, n, p, k)
    PROVE  DownRight(Decode(b), b, d)
<1> DEFINE first == p + 1
           type == DownKind(d)
           f == DecodeData(type, At(b, 1))
<1>1. HeadRight(b, d, n)
  BY DownHeadRight DEF DownBare
<1>2. Decode(b) = f
  <2>1. b \in Seq(Int) /\ 1 <= Len(b) /\ b[1] = IF d.confirmed THEN 160 ELSE 96
    BY <1>1 DEF HeadRight
  <2>2. d.confirmed \in BOOLEAN
    BY CodecAssumption, DownFields
  <2>3. QED
    BY <2>1, <2>2, DecodeDown DEF DownKind
<1>3. Size(b, k) /\ p = 8 + n /\ k = p + 4 /\ HasAt(b, p, LE(MicBytes, 4))
  BY DEF DownBare, DownHead, Headed
<1>4. Options(b, n) /\ n \in 0..255
  BY <1>1 DEF HeadRight, CtrlRead, Options
<1>5. /\ Decoded(f, type, b, n) /\ f.dataPresent = FALSE /\ f.data = Part(0, 0)
      /\ f.mic = Number(SubSeq(b, first, k))
  <2>1. first = p + 1
    OBVIOUS
  <2> HIDE DEF first, type
  <2>2. BareDecoded(DecodeData(type, At(b, 1)), type, b, n, first, k)
    BY <1>3, <1>4, <2>1, DecodeBare, SMTT(30)
  <2> HIDE DEF f
  <2>3. QED
    BY <2>2 DEF BareDecoded, f
<1>6. HeadTaken(f, b, d)
  BY <1>1, <1>5, CodecAssumption, HeadIsTaken
<1>7. f.mic = MicBytes
  <2>1. p \in Nat
    BY <1>3
  <2>2. QED
    BY <1>3, <1>5, <2>1, MicRead
<1> HIDE DEF f
<1>8. f.dataPresent = HasPort(d) /\ f.data = Part(0, 0)
  BY <1>5 DEF HasPort
<1>9. \E m \in 0..15, l \in 0..255 : PartsIn(f, b, m, l)
  <2>1. f.opts = (IF n > 0 THEN Part(8, n) ELSE Part(0, 0))
    BY <1>5 DEF Decoded
  <2>2. Len(b) >= n + 12
    BY <1>3 DEF Size
  <2>3. PartsIn(f, b, n, 0)
    BY <1>5, <2>1, <2>2 DEF PartsIn
  <2>4. 0 \in 0..255
    OBVIOUS
  <2>5. QED
    BY <2>3, <2>4
<1>10. QED
  BY <1>2, <1>6, <1>7, <1>8, <1>9, Zenon DEF DownRight

LEMMA DownReadFull ==
    ASSUME NEW d \in Downlinks, HasPort(d), NEW n \in 0..15, Size(DownOpts(d), n),
           NEW l \in 0..255, Size(DownData(d), l), NEW b, NEW p, NEW x, NEW q, NEW k, k <= 255,
           DownFull(b, d, n, l, p, x, q, k)
    PROVE  DownRight(Decode(b), b, d)
<1> DEFINE first == q + 1
           type == DownKind(d)
           f == DecodeData(type, At(b, 1))
<1>1. HeadRight(b, d, n)
  BY DownHeadRight DEF DownFull
<1>2. Decode(b) = f
  <2>1. b \in Seq(Int) /\ 1 <= Len(b) /\ b[1] = IF d.confirmed THEN 160 ELSE 96
    BY <1>1 DEF HeadRight
  <2>2. d.confirmed \in BOOLEAN
    BY CodecAssumption, DownFields
  <2>3. QED
    BY <2>1, <2>2, DecodeDown DEF DownKind
<1>3. /\ Size(b, k) /\ FullPlaces(n, l, p, x, q, k) /\ HasAt(b, q, LE(MicBytes, 4))
      /\ HasAt(b, p, <<d.port>>) /\ HasAt(b, x, DownData(d))
  BY DEF DownFull, DownHead, Headed, FullPlaces
<1>4. Options(b, n) /\ n \in 0..255
  BY <1>1 DEF HeadRight, CtrlRead, Options
<1>5. p \in Nat /\ x \in Nat /\ q \in Nat /\ k = q + 4 /\ x = p + 1
  BY <1>3 DEF FullPlaces
<1>6. b[x] = d.port
  <2>1. \A i \in 1..Len(<<d.port>>) : b[p + i] = <<d.port>>[i]
    BY <1>3 DEF HasAt
  <2>2. b[p + 1] = d.port
    BY <2>1
  <2>3. QED
    BY <1>5, <2>2
<1>7. Allowed(n, b, x)
  <2>1. n > 0 => d.place = "OPTS"
    BY DEF DownOpts, Size
  <2>2. d.place = "OPTS" => d.port > 0
    BY DEF HasPort
  <2>3. d.port > 0 => d.port # 0
    OBVIOUS
  <2>4. QED
    BY <1>6, <2>1, <2>2, <2>3 DEF Allowed
<1>8. /\ Decoded(f, type, b, n) /\ f.dataPresent = TRUE /\ f.port = b[x]
      /\ f.data = (IF l > 0 THEN Part(x, l) ELSE Part(0, 0))
      /\ f.mic = Number(SubSeq(b, first, k))
  <2>1. first = q + 1
    OBVIOUS
  <2> HIDE DEF first, type
  <2>2. FullFrame(b, n, l, p, x, q, k)
    BY <1>3, <1>4, <1>7 DEF FullFrame
  <2>3. FullDecoded(DecodeData(type, At(b, 1)), type, b, n, l, x, first, k)
    BY <2>1, <2>2, DecodeFull, Zenon
  <2> HIDE DEF f
  <2>4. QED
    BY <2>3 DEF FullDecoded, f
<1>9. HeadTaken(f, b, d)
  BY <1>1, <1>8, CodecAssumption, HeadIsTaken
<1>10. f.mic = MicBytes
  BY <1>3, <1>5, <1>8, MicRead
<1>11. PartOf(b, f.data) = DownData(d)
  <2>1. PartOf(b, IF l > 0 THEN Part(x, l) ELSE Part(0, 0)) = DownData(d)
    BY <1>3, <1>5, PartRead
  <2> HIDE DEF f
  <2>2. QED
    BY <1>8, <2>1
<1> HIDE DEF f
<1>12. f.dataPresent = HasPort(d)
  BY <1>8 DEF HasPort
<1>13. \E m \in 0..15, j \in 0..255 : PartsIn(f, b, m, j)
  <2>1. f.opts = (IF n > 0 THEN Part(8, n) ELSE Part(0, 0))
    BY <1>8 DEF Decoded
  <2>2. Len(b) = k /\ p = 8 + n /\ x = p + 1 /\ q = x + l /\ k = q + 4
    BY <1>3 DEF Size, FullPlaces
  <2>3. x = n + 9 /\ Len(b) >= n + 12 /\ Len(b) >= n + l + 13
    BY <2>2
  <2>4. f.data = (IF l > 0 THEN Part(n + 9, l) ELSE Part(0, 0))
    BY <1>8, <2>3
  <2>5. PartsIn(f, b, n, l)
    BY <2>1, <2>3, <2>4 DEF PartsIn
  <2>6. QED
    BY <2>5
<1>14. QED
  BY <1>2, <1>6, <1>8, <1>9, <1>10, <1>11, <1>12, <1>13, Zenon DEF DownRight

LEMMA LengthIs ==
    ASSUME NEW s, NEW n, Size(s, n)
    PROVE  n \in Nat
BY DEF Size

LEMMA DownRead ==
    ASSUME NEW d \in Downlinks
    PROVE  DownRight(Decode(NetworkData(d)), NetworkData(d), d)
<1> DEFINE n == Len(DownOpts(d))
           l == Len(DownData(d))
           b == NetworkData(d)
<1>1. Size(DownOpts(d), n) /\ Size(DownData(d), l)
  BY DownBytes DEF DownSizes, Size
<1>2. n <= 15 /\ Len(b) <= 255
  BY DownlinkAssumption
<1> HIDE DEF n, l, b
<1>3. n \in 0..15 /\ l \in Nat
  BY <1>1, <1>2, LengthIs, SMTT(30)
<1>4. CASE ~HasPort(d)
  <2>1. PICK p, k : DownBare(b, d, n, p, k)
    BY <1>1, <1>4, DownSent DEF b
  <2>2. k <= 255
    BY <1>2, <2>1 DEF DownBare, DownHead, Headed, Size
  <2>3. QED
    BY <1>1, <1>3, <1>4, <2>1, <2>2, DownReadBare DEF b
<1>5. CASE HasPort(d)
  <2>1. PICK p, x, q, k : DownFull(b, d, n, l, p, x, q, k)
    BY <1>1, <1>5, DownSent DEF b
  <2>2. k <= 255
    BY <1>2, <2>1 DEF DownFull, DownHead, Headed, Size
  <2>3. l \in 0..255
    BY <1>3, <2>1, <2>2 DEF DownFull
  <2>4. QED
    BY <1>1, <1>3, <1>5, <2>1, <2>2, <2>3, DownReadFull DEF b
<1>6. QED
  BY <1>4, <1>5

DownTaken(l) ==
    l.call = "Downlink" /\ l.lost = 0 => DownRight(l.f, l.bytes, l.d)

LEMMA DownTakenIs == DownTaken(last) => DownlinkReadBack
<1> SUFFICES ASSUME last.call = "Downlink", last.lost = 0, DownRight(last.f, last.bytes, last.d)
             PROVE  DownlinkReadBack
  BY DEF DownTaken, DownlinkReadBack, Is
<1> DEFINE d == last.d
           f == last.f
           b == last.bytes
<1>1. DownRight(f, b, d)
  OBVIOUS
<1> HIDE DEF d, f, b
<1>2. /\ f.ok /\ f.type = DownKind(d) /\ f.devAddr = DevAddr /\ f.counter = Counter
      /\ f.ack = d.ack /\ f.pending = d.pending /\ ~f.adr /\ ~f.adrAckReq
      /\ PartOf(b, f.opts) = DownOpts(d)
      /\ f.mic = MicBytes /\ f.dataPresent = HasPort(d) /\ (HasPort(d) => f.port = d.port)
      /\ HasPort(d) => PartOf(b, f.data) = DownData(d)
  BY <1>1 DEF DownRight, HeadTaken
<1>3. QED
  BY <1>2, Zenon DEF DownlinkReadBack, DownKind, d, f, b

LEMMA DownNext == DownTaken(last) /\ [Next]_vars => DownTaken(last')
<1> SUFFICES ASSUME DownTaken(last), [Next]_vars PROVE DownTaken(last')
  OBVIOUS
<1>1. CASE last' = last
  BY <1>1
<1>2. CASE last'.call # "Downlink"
  BY <1>2 DEF DownTaken
<1>3. CASE Done \/ JoinRequest \/ GetCommand
  BY <1>1, <1>2, <1>3 DEF Done, JoinRequest, GetCommand, NoCall
<1>4. ASSUME NEW optNeg \in BOOLEAN, NEW listed \in BOOLEAN, NEW len \in JoinLengths,
             JoinAccept(optNeg, listed, len)
      PROVE  DownTaken(last')
  BY <1>2, <1>4 DEF JoinAccept
<1>5. ASSUME NEW r \in Requests, Uplink(r) PROVE DownTaken(last')
  BY <1>2, <1>5 DEF Uplink
<1>6. ASSUME NEW d \in Downlinks, NEW lost \in Lost, Downlink(d, lost) PROVE DownTaken(last')
  <2> DEFINE whole == NetworkData(d)
             bytes == SubSeq(whole, 1, Len(whole) - lost)
             l     == last'
  <2>1. l.d = d /\ l.lost = lost /\ l.bytes = bytes /\ l.f = Decode(bytes)
    BY <1>6 DEF Downlink
  <2>2. lost = 0 => bytes = whole
    <3>1. whole \in Seq(Int)
      BY NetworkDataIs
    <3> HIDE DEF whole
    <3>2. SubSeq(whole, 1, Len(whole)) = whole /\ Len(whole) - 0 = Len(whole)
      BY <3>1
    <3>3. QED
      BY <3>2
  <2>3. DownRight(Decode(whole), whole, d)
    BY DownRead
  <2> HIDE DEF whole, bytes, l
  <2>4. lost = 0 => DownRight(l.f, l.bytes, l.d)
    BY <2>1, <2>2, <2>3
  <2>5. DownTaken(l)
    BY <2>1, <2>4 DEF DownTaken
  <2>6. QED
    BY <2>5 DEF l
<1>7. CASE UNCHANGED vars
  BY <1>1, <1>7 DEF vars
<1>8. QED
  BY <1>3, <1>4, <1>5, <1>6, <1>7 DEF Next

\* Whatever a network sends, commands in the options, commands on port 0, data or nothing, is
\* read as it was meant: LDL_Frame_decode() finds every field at its place, by the lengths alone.
THEOREM DownlinksReadBack == Spec => []DownlinkReadBack
<1>1. Init => DownTaken(last)
  BY DEF Init, DownTaken, NoCall
<1>2. DownTaken(last) /\ [Next]_vars => DownTaken(last)'
  BY DownNext
<1>3. DownTaken(last) => DownlinkReadBack
  BY DownTakenIs
<1>4. QED
  BY <1>1, <1>2, <1>3, PTL DEF Spec

-----------------------------------------------------------------------------
(***************************************************************************)
(* Uplinks.                                                                *)
(***************************************************************************)
\* One byte of b.
LEMMA ByteIs ==
    ASSUME NEW b, NEW p, NEW v, HasAt(b, p, <<v>>), NEW q, q = p + 1
    PROVE  b[q] = v
<1>1. \A i \in 1..Len(<<v>>) : b[p + i] = <<v>>[i]
  BY DEF HasAt
<1>2. b[p + 1] = v
  BY <1>1
<1>3. QED
  BY <1>2

\* A data frame of size k with its MIC.
UpHead(q, p, k, tag, c) ==
    /\ Size(q, k) /\ Begins(q, p, k - 4) /\ q[1] = tag /\ q[6] = c
    /\ SubSeq(q, 2, 5) = LE(DevAddr, 4) /\ SubSeq(q, 7, 8) = LE(Counter, 2)
    /\ SubSeq(q, k - 3, k) = LE(MicBytes, 4)

Heads(p, k, tag, c) ==
    /\ Size(p, k) /\ HasAt(p, 0, <<tag>>) /\ HasAt(p, 1, LE(DevAddr, 4)) /\ HasAt(p, 5, <<c>>)
    /\ HasAt(p, 6, LE(Counter, 2)) /\ tag \in Int /\ c \in Int

LEMMA SignedHead ==
    ASSUME NEW p, NEW k, NEW tag, NEW c, Heads(p, k, tag, c), 12 <= k
    PROVE  UpHead(UpdateMIC(p, MicBytes), p, k, tag, c)
<1> DEFINE q == UpdateMIC(p, MicBytes)
           j == k - 4
           u == LE(DevAddr, 4)
           v == LE(Counter, 2)
           w == LE(MicBytes, 4)
<1>1. Size(p, k) /\ HasAt(p, 0, <<tag>>) /\ HasAt(p, 1, u) /\ HasAt(p, 5, <<c>>) /\ HasAt(p, 6, v)
  BY DEF Heads
<1>2. Size(u, 4) /\ Size(v, 2) /\ Size(w, 4)
  BY NumbersBack
<1>3. Size(<<tag>>, 1) /\ Size(<<c>>, 1)
  BY DEF Heads, Size
<1>4. k \in Nat
  BY <1>1, LengthIs
<1>5. Size(q, k) /\ Begins(q, p, j) /\ HasAt(q, j, w)
  <2>1. MicBytes \in Nat /\ k > 4
    BY <1>4 DEF MicBytes
  <2> DEFINE m == MicBytes
  <2> HIDE DEF m
  <2>2. Signed(UpdateMIC(p, m), p, k, m)
    BY <1>1, <2>1, MicUpdated DEF m
  <2>3. QED
    BY <2>2 DEF Signed, m
<1> HIDE DEF q, u, v, w
<1>6. j \in Nat /\ 0 + 1 <= j /\ 1 + 4 <= j /\ 5 + 1 <= j /\ 6 + 2 <= j /\ j + 1 = k - 3
      /\ j + 4 = k
      /\ 0 \in Nat /\ 1 \in Nat /\ 5 \in Nat /\ 6 \in Nat
  BY <1>4
<1> HIDE DEF j
<1>7. HasAt(q, 0, <<tag>>) /\ HasAt(q, 5, <<c>>)
  BY <1>1, <1>3, <1>5, <1>6, BegunAt, SMTT(30)
<1>8. HasAt(q, 1, u) /\ HasAt(q, 6, v)
  BY <1>1, <1>2, <1>5, <1>6, BegunAt, SMTT(30)
<1>9. q[1] = tag /\ q[6] = c
  BY <1>7, 1 = 0 + 1, 6 = 5 + 1, ByteIs
<1>10. Slice(q, 1, 4, u) /\ Slice(q, 6, 2, v) /\ Slice(q, j, 4, w)
  BY <1>2, <1>5, <1>6, <1>8, SliceIs, SMTT(30)
<1>11. SubSeq(q, 2, 5) = u /\ SubSeq(q, 7, 8) = v /\ SubSeq(q, k - 3, k) = w
  <2>1. 1 + 1 = 2 /\ 1 + 4 = 5 /\ 6 + 1 = 7 /\ 6 + 2 = 8
    OBVIOUS
  <2>2. QED
    BY <1>6, <1>10, <2>1 DEF Slice
<1>12. QED
  BY <1>5, <1>9, <1>11 DEF UpHead, j, q, u, v, w

\* The fields of a data frame that comes before its MIC, at their places.
LEMMA HeadsOf ==
    ASSUME NEW f, NEW r, Common(f, r), NEW p, NEW k, Size(p, k), HasAt(p, 0, MHDR(f.type)),
           HasAt(p, 1, LE(f.devAddr, 4)), HasAt(p, 5, <<FCtrl(f)>>), HasAt(p, 6, LE(f.counter, 2)),
           FCtrl(f) \in Nat, NEW tag \in Int, MHDR(f.type) = <<tag>>
    PROVE  Heads(p, k, tag, FCtrl(f))
<1> DEFINE c == FCtrl(f)
<1>1. c \in Int
  OBVIOUS
<1>2. f.devAddr = DevAddr /\ f.counter = Counter
  BY DEF Common
<1> HIDE DEF c
<1>3. QED
  BY <1>1, <1>2 DEF Heads, c

\* What the network finds of a frame without data.
UpBare(q, f, r, n, tag) ==
    /\ Size(q, n + 12) /\ SubSeq(q, n + 9, n + 12) = LE(MicBytes, 4) /\ q[1] = tag
    /\ SubSeq(q, 2, 5) = LE(DevAddr, 4) /\ SubSeq(q, 7, 8) = LE(Counter, 2)
    /\ q[6] % 16 = n
    /\ q[6] \div 16 = (IF r.adr THEN 8 ELSE 0) + (IF r.adrAckReq THEN 4 ELSE 0)
    /\ SubSeq(q, 9, 8 + n) = f.opts

LEMMA BareSigned ==
    ASSUME NEW f, NEW r, Common(f, r), NEW p, NEW max, NEW n, Without(p, f, max, n), n + 12 <= max,
           Size(f.opts, n), n <= 15, NEW tag \in Int, MHDR(f.type) = <<tag>>
    PROVE  UpBare(UpdateMIC(p, MicBytes), f, r, n, tag)
<1> DEFINE q == UpdateMIC(p, MicBytes)
           c == FCtrl(f)
           k == n + 12
           o == f.opts
<1>1. n \in Nat
  BY LengthIs
<1>2. /\ Size(p, k) /\ HasAt(p, 0, MHDR(f.type)) /\ HasAt(p, 1, LE(f.devAddr, 4))
      /\ HasAt(p, 5, <<c>>) /\ HasAt(p, 6, LE(f.counter, 2)) /\ HasAt(p, 8, o)
  BY DEF Without, Six
<1>3. /\ c \in Nat /\ c % 16 = n
      /\ c \div 16 = (IF r.adr THEN 8 ELSE 0) + (IF r.adrAckReq THEN 4 ELSE 0)
  BY ControlByte
<1>4. k \in Nat /\ 12 <= k /\ k - 4 = n + 8 /\ n + 8 \in Nat /\ 8 + n <= n + 8 /\ k - 3 = n + 9
  BY <1>1
<1> HIDE DEF k, q
<1>5. Heads(p, k, tag, c)
  BY <1>2, <1>3, HeadsOf
<1>6. UpHead(q, p, k, tag, c)
  BY <1>4, <1>5, SignedHead DEF q
<1> HIDE DEF c, o
<1>7. /\ Size(q, k) /\ Begins(q, p, n + 8) /\ q[1] = tag /\ q[6] = c
      /\ SubSeq(q, 2, 5) = LE(DevAddr, 4) /\ SubSeq(q, 7, 8) = LE(Counter, 2)
      /\ SubSeq(q, n + 9, k) = LE(MicBytes, 4)
  BY <1>4, <1>6 DEF UpHead
<1>8. SubSeq(q, 9, 8 + n) = o
  <2>1. Size(o, n) /\ 8 \in Nat /\ 9 = 8 + 1
    BY DEF o
  <2>2. HasAt(q, 8, o)
    BY <1>2, <1>4, <1>7, <2>1, BegunAt, SMTT(30)
  <2>3. Slice(q, 8, n, o)
    BY <1>7, <2>1, <2>2, SliceIs, SMTT(30)
  <2>4. QED
    BY <2>1, <2>3 DEF Slice
<1>9. QED
  BY <1>3, <1>7, <1>8 DEF UpBare, k, o, q

\* And of one with data.
UpFull(q, f, r, n, l, tag) ==
    /\ Size(q, n + l + 13) /\ SubSeq(q, n + l + 10, n + l + 13) = LE(MicBytes, 4) /\ q[1] = tag
    /\ SubSeq(q, 2, 5) = LE(DevAddr, 4) /\ SubSeq(q, 7, 8) = LE(Counter, 2)
    /\ q[6] % 16 = n
    /\ q[6] \div 16 = (IF r.adr THEN 8 ELSE 0) + (IF r.adrAckReq THEN 4 ELSE 0)
    /\ SubSeq(q, 9, 8 + n) = f.opts
    /\ q[9 + n] = f.port /\ SubSeq(q, n + 10, n + l + 9) = f.data

LEMMA FullSigned ==
    ASSUME NEW f, NEW r, Common(f, r), NEW p, NEW max, NEW n, NEW l, With(p, f, max, n, l),
           n + l + 13 <= max, Size(f.opts, n), n <= 15, Size(f.data, l), f.port \in Int,
           NEW tag \in Int, MHDR(f.type) = <<tag>>
    PROVE  UpFull(UpdateMIC(p, MicBytes), f, r, n, l, tag)
<1> DEFINE q == UpdateMIC(p, MicBytes)
           c == FCtrl(f)
           k == n + l + 13
           o == f.opts
           t == f.port
           d == f.data
           j == n + l + 9
           x == n + 8
           y == n + 9
<1>1. n \in Nat /\ l \in Nat
  BY LengthIs
<1>2. /\ Size(p, k) /\ HasAt(p, 0, MHDR(f.type)) /\ HasAt(p, 1, LE(f.devAddr, 4))
      /\ HasAt(p, 5, <<c>>) /\ HasAt(p, 6, LE(f.counter, 2)) /\ HasAt(p, 8, o)
      /\ HasAt(p, x, <<t>>) /\ HasAt(p, y, d)
  BY DEF With, Eight
<1>3. /\ c \in Nat /\ c % 16 = n
      /\ c \div 16 = (IF r.adr THEN 8 ELSE 0) + (IF r.adrAckReq THEN 4 ELSE 0)
  BY ControlByte
<1>4. k \in Nat /\ 12 <= k /\ k - 4 = j /\ j \in Nat /\ 8 + n <= j /\ k - 3 = n + l + 10
      /\ x \in Nat /\ y \in Nat /\ x + 1 <= j /\ y + l <= j /\ y + 1 = n + 10 /\ y + l = n + l + 9
      /\ x + 1 = 9 + n
  BY <1>1
<1> HIDE DEF k, q, j, x, y
<1>5. Heads(p, k, tag, c)
  BY <1>2, <1>3, HeadsOf
<1>6. UpHead(q, p, k, tag, c)
  BY <1>4, <1>5, SignedHead DEF q
<1> HIDE DEF c, o, t, d
<1>7. /\ Size(q, k) /\ Begins(q, p, j) /\ q[1] = tag /\ q[6] = c
      /\ SubSeq(q, 2, 5) = LE(DevAddr, 4) /\ SubSeq(q, 7, 8) = LE(Counter, 2)
      /\ SubSeq(q, n + l + 10, k) = LE(MicBytes, 4)
  BY <1>4, <1>6 DEF UpHead
<1>8. SubSeq(q, 9, 8 + n) = o
  <2>1. Size(o, n) /\ 8 \in Nat /\ 9 = 8 + 1
    BY DEF o
  <2>2. HasAt(q, 8, o)
    BY <1>2, <1>4, <1>7, <2>1, BegunAt, SMTT(30)
  <2>3. Slice(q, 8, n, o)
    BY <1>7, <2>1, <2>2, SliceIs, SMTT(30)
  <2>4. QED
    BY <2>1, <2>3 DEF Slice
<1>9. q[9 + n] = t
  <2>1. t \in Int
    BY DEF t
  <2>2. Size(<<t>>, 1)
    BY <2>1 DEF Size
  <2>3. HasAt(q, x, <<t>>)
    BY <1>2, <1>4, <1>7, <2>2, BegunAt, SMTT(30)
  <2>4. QED
    BY <1>4, <2>3, ByteIs
<1>10. SubSeq(q, n + 10, n + l + 9) = d
  <2>1. Size(d, l)
    BY DEF d
  <2>2. HasAt(q, y, d)
    BY <1>2, <1>4, <1>7, <2>1, BegunAt, SMTT(30)
  <2>3. Slice(q, y, l, d)
    BY <1>4, <1>7, <2>1, <2>2, SliceIs, SMTT(30)
  <2>4. QED
    BY <1>4, <2>3 DEF Slice
<1>11. QED
  BY <1>3, <1>7, <1>8, <1>9, <1>10 DEF UpFull, k, o, q, t, d

\* What the network has to find of an uplink p of r: n bytes of options, and a body if there is
\* a port.
UpFound(p, r, macs, n, port, body, opts, alone) ==
    /\ Len(p) >= 12 /\ SubSeq(p, Len(p) - 3, Len(p)) = LE(MicBytes, 4)
    /\ p[1] = IF r.confirmed /\ ~alone THEN 128 ELSE 64
    /\ SubSeq(p, 2, 5) = LE(DevAddr, 4) /\ SubSeq(p, 7, 8) = LE(Counter, 2)
    /\ p[6] \div 16 = (IF r.adr THEN 8 ELSE 0) + (IF r.adrAckReq THEN 4 ELSE 0)
    /\ port => p[9 + n] = IF n = 0 /\ alone THEN 0 ELSE r.port
    /\ IF port /\ p[9 + n] = 0 THEN body = macs /\ n = 0 ELSE opts = macs
    /\ ~alone => /\ port <=> r.hasData
                 /\ port => body = Asked(r)

UpRead(p, r, macs) ==
    \A n : n = p[6] % 16 =>
        UpFound(p, r, macs, n, Len(p) > 8 + n + MicSize, SubSeq(p, 8 + n + 2, Len(p) - MicSize),
                SubSeq(p, 9, 8 + n), Alone(r, Len(macs)))

UpTaken(l) == l.call = "Uplink" => UpRead(l.pkt, l.request, l.macs)

LEMMA UpTakenIs == UpTaken(last) => UplinkReadBack
<1> SUFFICES ASSUME last.call = "Uplink", UpRead(last.pkt, last.request, last.macs)
             PROVE  UplinkReadBack
  BY DEF UpTaken, UplinkReadBack, Is
<1> DEFINE n == last.pkt[6] % 16
<1>1. UpFound(last.pkt, last.request, last.macs, n, Len(last.pkt) > 8 + n + MicSize,
              SubSeq(last.pkt, 8 + n + 2, Len(last.pkt) - MicSize),
              SubSeq(last.pkt, 9, 8 + n), Alone(last.request, Len(last.macs)))
  BY Zenon DEF UpRead
<1>2. QED
  BY <1>1, Zenon DEF UplinkReadBack, UpFound, Alone, Asked

UpTag(r, alone) == IF r.confirmed /\ ~alone THEN 128 ELSE 64

LEMMA UpReadBare ==
    ASSUME NEW q, NEW f, NEW r, NEW macs, NEW n, Size(macs, n), f.opts = macs,
           UpBare(q, f, r, n, UpTag(r, Alone(r, n))), ~Alone(r, n) => ~r.hasData
    PROVE  UpRead(q, r, macs)
<1> DEFINE alone == Alone(r, n)
           t == UpTag(r, alone)
           body == SubSeq(q, 8 + n + 2, Len(q) - MicSize)
<1>1. n \in Nat /\ Len(macs) = n
  BY LengthIs DEF Size
<1> HIDE DEF alone, t
<1>2. /\ Size(q, n + 12) /\ SubSeq(q, n + 9, n + 12) = LE(MicBytes, 4) /\ q[1] = t
      /\ SubSeq(q, 2, 5) = LE(DevAddr, 4) /\ SubSeq(q, 7, 8) = LE(Counter, 2)
      /\ q[6] % 16 = n
      /\ q[6] \div 16 = (IF r.adr THEN 8 ELSE 0) + (IF r.adrAckReq THEN 4 ELSE 0)
      /\ SubSeq(q, 9, 8 + n) = macs
  BY DEF UpBare, t, alone
<1>3. Len(q) = n + 12 /\ Len(q) >= 12 /\ Len(q) - 3 = n + 9 /\ ~(Len(q) > 8 + n + MicSize)
  BY <1>1, <1>2 DEF Size, MicSize
<1> HIDE DEF body
<1>4. ~alone => ~r.hasData
  BY DEF alone
<1>5. ASSUME NEW port, ~port
      PROVE  UpFound(q, r, macs, n, port, body, SubSeq(q, 9, 8 + n), alone)
  <2>1. q[1] = IF r.confirmed /\ ~alone THEN 128 ELSE 64
    BY <1>2, Zenon DEF t, UpTag
  <2>2. SubSeq(q, Len(q) - 3, Len(q)) = LE(MicBytes, 4)
    BY <1>2, <1>3
  <2>3. QED
    BY <1>2, <1>3, <1>4, <1>5, <2>1, <2>2, Zenon DEF UpFound
<1>6. UpFound(q, r, macs, n, Len(q) > 8 + n + MicSize, body, SubSeq(q, 9, 8 + n), alone)
  BY <1>3, <1>5, Zenon
<1>7. QED
  BY <1>1, <1>2, <1>6, Zenon DEF UpRead, alone, body

\* The answers alone on port 0, or data beside them.
UpForm(f, r, macs, n, l, k, alone) ==
    \/ alone /\ n = 0 /\ l = k /\ f.port = 0 /\ f.data = macs
    \/ ~alone /\ n = k /\ f.opts = macs /\ f.port = r.port /\ f.data = Asked(r) /\ r.hasData

LEMMA UpReadFull ==
    ASSUME NEW q, NEW f, NEW r, NEW macs, NEW n \in Nat, NEW l \in Nat, NEW k, Size(macs, k),
           r.port \in 1..223, UpForm(f, r, macs, n, l, k, Alone(r, k)),
           UpFull(q, f, r, n, l, UpTag(r, Alone(r, k)))
    PROVE  UpRead(q, r, macs)
<1> DEFINE alone == Alone(r, k)
           t == UpTag(r, alone)
           x == r.port
           y == f.port
<1>1. Len(macs) = k
  BY DEF Size
<1> HIDE DEF alone, t, x, y
<1>2. /\ Size(q, n + l + 13) /\ SubSeq(q, n + l + 10, n + l + 13) = LE(MicBytes, 4) /\ q[1] = t
      /\ SubSeq(q, 2, 5) = LE(DevAddr, 4) /\ SubSeq(q, 7, 8) = LE(Counter, 2)
      /\ q[6] % 16 = n
      /\ q[6] \div 16 = (IF r.adr THEN 8 ELSE 0) + (IF r.adrAckReq THEN 4 ELSE 0)
      /\ SubSeq(q, 9, 8 + n) = f.opts
      /\ q[9 + n] = y /\ SubSeq(q, n + 10, n + l + 9) = f.data
  BY DEF UpFull, t, alone, y
<1>3. /\ Len(q) = n + l + 13 /\ Len(q) >= 12 /\ Len(q) - 3 = n + l + 10
      /\ (Len(q) > 8 + n + MicSize) /\ 8 + n + 2 = n + 10 /\ Len(q) - MicSize = n + l + 9
  BY <1>2 DEF Size, MicSize
<1>4. \/ alone /\ n = 0 /\ y = 0 /\ f.data = macs
      \/ ~alone /\ f.opts = macs /\ y = x /\ x # 0 /\ f.data = Asked(r) /\ r.hasData
  <2>1. x # 0
    BY DEF x
  <2>2. QED
    BY <2>1, Zenon DEF UpForm, alone, x, y
<1>5. q[1] = IF r.confirmed /\ ~alone THEN 128 ELSE 64
  BY <1>2, Zenon DEF t, UpTag
<1>6. SubSeq(q, Len(q) - 3, Len(q)) = LE(MicBytes, 4)
  BY <1>2, <1>3
<1>7. SubSeq(q, 8 + n + 2, Len(q) - MicSize) = f.data
  BY <1>2, <1>3
<1>8. ASSUME NEW port, port, NEW body, body = f.data, NEW opts, opts = f.opts
      PROVE  UpFound(q, r, macs, n, port, body, opts, alone)
  <2>1. q[9 + n] = IF n = 0 /\ alone THEN 0 ELSE r.port
    BY <1>2, <1>4, Zenon DEF x
  <2>2. IF q[9 + n] = 0 THEN body = macs /\ n = 0 ELSE opts = macs
    BY <1>2, <1>4, <1>8, Zenon
  <2>3. ~alone => r.hasData /\ body = Asked(r)
    BY <1>4, <1>8, Zenon
  <2>4. QED
    BY <1>2, <1>3, <1>5, <1>6, <1>8, <2>1, <2>2, <2>3, Zenon DEF UpFound
<1>9. UpFound(q, r, macs, n, Len(q) > 8 + n + MicSize, SubSeq(q, 8 + n + 2, Len(q) - MicSize),
              SubSeq(q, 9, 8 + n), alone)
  BY <1>2, <1>3, <1>7, <1>8, Zenon
<1>10. QED
  BY <1>1, <1>2, <1>9, Zenon DEF UpRead, alone

\* The places of the options and the data of a frame p and of q, p with its MIC.
Laid(p, q, f, n, m) ==
    /\ Size(f.opts, n) /\ Size(f.data, m) /\ Len(q) = Len(p) /\ Len(q) \in Nat
    /\ Len(q) >= n + 12
    /\ (m > 0 => f.dataPresent /\ Len(q) >= n + m + 13)

UpGood(p, f, r, macs) ==
    /\ UpRead(UpdateMIC(p, MicBytes), r, macs)
    /\ \E n \in 0..15, m \in 0..255 : Laid(p, UpdateMIC(p, MicBytes), f, n, m)

LEMMA UpSent ==
    ASSUME Room, NEW r \in RequestType, NEW macs, NEW k, Size(macs, k), k <= 30
    PROVE  UpGood(PutData(UplinkFrame(r, macs), MaxPacket), UplinkFrame(r, macs), r, macs)
<1> DEFINE f == UplinkFrame(r, macs)
           p == PutData(f, MaxPacket)
           q == UpdateMIC(p, MicBytes)
           max == MaxPacket
           l == r.len
           one == r.confirmed
           alone == Alone(r, k)
           t == UpTag(r, alone)
           x == r.port
<1>1. max \in Nat /\ max <= 255 /\ 43 <= max /\ MaxPayload \in Nat /\ MaxPayload + 5 <= max
  BY CodecAssumption DEF Room
<1>2. l \in 0..255 /\ x \in 1..223
  <2>1. Sized(r)
    BY RequestIs
  <2>2. QED
    BY <2>1 DEF Sized
<1>3. k \in Nat
  BY LengthIs
<1>4. /\ ~alone => Fielded(f, k, l) /\ UplinkPacket(p, f, max, k, l)
      /\ alone /\ k < 16 => Fielded(f, k, 0) /\ UplinkPacket(p, f, max, k, 0)
      /\ alone /\ ~(k < 16) => Fielded(f, 0, k) /\ UplinkPacket(p, f, max, 0, k)
  BY <1>1, UplinkWritten
<1>5. /\ ~alone => UpWhole(f, r, macs)
      /\ alone /\ k < 16 => UpOpts(f, r, macs)
      /\ alone /\ ~(k < 16) => UpZero(f, r, macs)
  BY <1>2, UplinkFields
<1>6. ~alone => k <= 15 /\ k + l + 13 <= max
  <2>1. ~alone => ~(k > 15) /\ ~(DataOverhead + l + k > MaxPayload)
    BY DEF Alone
  <2> HIDE DEF alone, max, l
  <2>2. QED
    BY <1>1, <1>2, <1>3, <2>1 DEF DataOverhead
<1>7. /\ t \in Int
      /\ alone => t = 64
      /\ ~alone => t = (IF one THEN 128 ELSE 64)
  BY DEF UpTag
<1>8. MHDR("DATA_UNCONFIRMED_UP") = <<64>> /\ MHDR("DATA_CONFIRMED_UP") = <<128>>
  BY HeaderOf
<1> HIDE DEF p, f, max, t, alone, one
<1>9. ASSUME Common(f, r), ~f.dataPresent, UplinkPacket(p, f, max, k, 0) \/
             UplinkPacket(p, f, max, k, l),
             Size(f.opts, k), k <= 15, MHDR(f.type) = <<t>>, f.opts = macs, ~alone => ~r.hasData,
             Size(f.data, 0)
      PROVE  UpGood(p, f, r, macs)
  <2>1. Without(p, f, max, k)
    BY <1>9, Zenon DEF UplinkPacket
  <2>2. k + 12 <= max /\ t \in Int
    BY <1>1, <1>3, <1>7, <1>9
  <2> HIDE DEF t
  <2>3. UpBare(q, f, r, k, t)
    BY <1>9, <2>1, <2>2, BareSigned DEF q
  <2>4. UpRead(q, r, macs)
    BY <1>9, <2>3, UpReadBare, Zenon DEF t, alone
  <2>5. Size(p, k + 12)
    BY <2>1, <2>2 DEF Without, Six
  <2>6. Size(q, k + 12)
    BY <2>3 DEF UpBare
  <2>7. k \in 0..15 /\ k + 12 >= k + 12 /\ k + 12 \in Nat
    BY <1>3, <1>9
  <2> DEFINE w == k + 12
  <2> HIDE DEF q, w
  <2>8. Len(p) = w /\ Len(q) = w
    BY <2>5, <2>6 DEF Size, w
  <2>9. Laid(p, q, f, k, 0)
    BY <1>9, <2>7, <2>8 DEF Laid, w
  <2>10. 0 \in 0..255
    OBVIOUS
  <2>11. QED
    BY <2>4, <2>7, <2>9, <2>10, Zenon DEF UpGood, q
<1>10. ASSUME Common(f, r), f.dataPresent, NEW n \in Nat, NEW m \in Nat,
              UplinkPacket(p, f, max, n, m),
              n + m + 13 <= max, Size(f.opts, n), n <= 15, Size(f.data, m), f.port \in Int,
              MHDR(f.type) = <<t>>, UpForm(f, r, macs, n, m, k, alone)
       PROVE  UpGood(p, f, r, macs)
  <2>1. With(p, f, max, n, m)
    BY <1>10, Zenon DEF UplinkPacket
  <2>2. t \in Int
    BY <1>7
  <2> HIDE DEF t, q
  <2>3. UpFull(UpdateMIC(p, MicBytes), f, r, n, m, t)
    BY <1>10, <2>1, <2>2, FullSigned
  <2>4. UpFull(q, f, r, n, m, UpTag(r, Alone(r, k)))
    BY <2>3, Zenon DEF t, alone, q
  <2>5. UpForm(f, r, macs, n, m, k, Alone(r, k)) /\ r.port \in 1..223
    BY <1>2, <1>10 DEF alone
  <2>6. UpRead(q, r, macs)
    BY <1>10, <2>4, <2>5, UpReadFull
  <2> DEFINE w == n + m + 13
  <2>7. Len(p) = w
    BY <1>10, <2>1 DEF With, Eight, Size
  <2>8. Len(q) = w
    BY <2>4 DEF UpFull, Size
  <2>9. n \in 0..15 /\ m \in 0..255 /\ w >= n + 12 /\ w >= n + m + 13 /\ w \in Nat
    BY <1>1, <1>10
  <2> HIDE DEF w
  <2>10. Laid(p, q, f, n, m)
    BY <1>10, <2>7, <2>8, <2>9 DEF Laid
  <2>11. QED
    BY <2>6, <2>9, <2>10, Zenon DEF UpGood, q
<1>11. ASSUME ~alone PROVE UpGood(p, f, r, macs)
  <2>1. UpWhole(f, r, macs)
    BY <1>5, <1>11
  <2>2. /\ Common(f, r) /\ f.opts = macs /\ f.dataPresent = r.hasData /\ f.port = x
        /\ f.data = Asked(r)
        /\ f.type = (IF one THEN "DATA_CONFIRMED_UP" ELSE "DATA_UNCONFIRMED_UP")
    BY <2>1 DEF UpWhole, one, x
  <2>3. MHDR(f.type) = <<t>>
    BY <1>7, <1>8, <1>11, <2>2
  <2>4. Size(f.opts, k) /\ UplinkPacket(p, f, max, k, l) /\ k <= 15 /\ k + l + 13 <= max
    BY <1>4, <1>6, <1>11, <2>2
  <2> HIDE DEF l, x, t, alone, q
  <2>5. CASE ~r.hasData
    <3>1. Size(f.data, 0)
      <4>1. l = 0
        BY <1>2, <2>5, RequestFlags DEF l
      <4>2. r.len = 0 /\ 0 \in Nat
        BY <4>1 DEF l
      <4>3. Size(Asked(r), 0)
        BY <4>2, AskedIs
      <4>4. QED
        BY <2>2, <4>3
    <3>2. QED
      BY <1>9, <2>2, <2>3, <2>4, <2>5, <3>1
  <2>6. CASE r.hasData
    <3>1. Size(f.data, l) /\ l \in Nat /\ f.port \in Int
      <4>1. l \in Nat /\ x \in Int
        BY <1>2
      <4>2. Size(Asked(r), l)
        BY <4>1, AskedIs DEF l
      <4>3. QED
        BY <2>2, <4>1, <4>2
    <3>2. UpForm(f, r, macs, k, l, k, alone)
      BY <1>11, <2>2, <2>6, Zenon DEF UpForm, x
    <3>3. QED
      BY <1>3, <1>10, <2>2, <2>3, <2>4, <2>6, <3>1, <3>2
  <2>7. QED
    BY <2>5, <2>6
<1>12. ASSUME alone, k < 16 PROVE UpGood(p, f, r, macs)
  <2>1. UpOpts(f, r, macs)
    BY <1>5, <1>12
  <2>2. /\ Common(f, r) /\ f.opts = macs /\ f.dataPresent = FALSE
        /\ f.type = "DATA_UNCONFIRMED_UP"
    BY <2>1 DEF UpOpts
  <2>3. MHDR(f.type) = <<t>>
    BY <1>7, <1>8, <1>12, <2>2
  <2>4. Size(f.opts, k) /\ UplinkPacket(p, f, max, k, 0) /\ k <= 15
    BY <1>3, <1>4, <1>12, <2>2
  <2> HIDE DEF l, x, t, alone, q
  <2>5. Size(f.data, 0)
    <3>1. f.data = <<>>
      BY <2>1 DEF UpOpts
    <3>2. QED
      BY <3>1 DEF Size
  <2>6. QED
    BY <1>9, <1>12, <2>2, <2>3, <2>4, <2>5
<1>13. ASSUME alone, ~(k < 16) PROVE UpGood(p, f, r, macs)
  <2>1. UpZero(f, r, macs)
    BY <1>5, <1>13
  <2>2. /\ Common(f, r) /\ f.opts = <<>> /\ f.dataPresent = TRUE /\ f.port = 0 /\ f.data = macs
        /\ f.type = "DATA_UNCONFIRMED_UP"
    BY <2>1 DEF UpZero
  <2>3. MHDR(f.type) = <<t>>
    BY <1>7, <1>8, <1>13, <2>2
  <2>4. Size(f.opts, 0) /\ UplinkPacket(p, f, max, 0, k) /\ Size(f.data, k)
    BY <1>4, <1>13, <2>2 DEF Size
  <2> HIDE DEF l, x, t, alone, q
  <2>5. UpForm(f, r, macs, 0, k, k, alone)
    BY <1>13, <2>2, Zenon DEF UpForm
  <2>6. 0 \in Nat /\ 0 + k + 13 <= max /\ 0 <= 15 /\ f.port \in Int
    BY <1>1, <1>3, <2>2
  <2>7. QED
    BY <1>3, <1>10, <2>2, <2>3, <2>4, <2>5, <2>6
<1>14. QED
  <2>1. UpGood(p, f, r, macs)
    BY <1>11, <1>12, <1>13
  <2>2. QED
    BY <2>1 DEF p, f, max

LEMMA MacsSized ==
    ASSUME NEW r \in RequestType
    PROVE  \E k \in 0..30 : Size(Macs(r.answers), k)
<1> DEFINE ans == r.answers
           macs == Macs(ans)
<1>1. ans \in Seq(AnswerType)
  BY Zenon DEF RequestType
<1> HIDE DEF ans
<1>2. macs \in Seq(Int) /\ Len(macs) \in 0..30
  BY <1>1, MacsAre
<1>3. Size(macs, Len(macs))
  BY <1>2 DEF Size
<1>4. QED
  BY <1>2, <1>3 DEF ans

LEMMA UpNext == ASSUME Room PROVE UpTaken(last) /\ [Next]_vars => UpTaken(last')
<1> SUFFICES ASSUME UpTaken(last), [Next]_vars PROVE UpTaken(last')
  OBVIOUS
<1>1. CASE last' = last
  BY <1>1
<1>2. CASE last'.call # "Uplink"
  BY <1>2 DEF UpTaken
<1>3. CASE Done \/ JoinRequest \/ GetCommand
  BY <1>1, <1>2, <1>3 DEF Done, JoinRequest, GetCommand, NoCall
<1>4. ASSUME NEW optNeg \in BOOLEAN, NEW listed \in BOOLEAN, NEW len \in JoinLengths,
             JoinAccept(optNeg, listed, len)
      PROVE  UpTaken(last')
  BY <1>2, <1>4 DEF JoinAccept
<1>5. ASSUME NEW r \in Requests, Uplink(r) PROVE UpTaken(last')
  <2> DEFINE macs == Macs(r.answers)
             pkt  == UpdateMIC(PutData(UplinkFrame(r, macs), MaxPacket), MicBytes)
             l    == last'
  <2>1. l.request = r /\ l.macs = macs /\ l.pkt = pkt
    BY <1>5 DEF Uplink, Macs
  <2>2. r \in RequestType
    BY CodecAssumption
  <2>3. PICK k \in 0..30 : Size(macs, k)
    BY <2>2, MacsSized
  <2> HIDE DEF macs, l
  <2>4. k <= 30
    OBVIOUS
  <2>5. UpRead(pkt, r, macs)
    BY <2>2, <2>3, <2>4, UpSent DEF UpGood
  <2> HIDE DEF pkt
  <2>6. UpTaken(l)
    BY <2>1, <2>5 DEF UpTaken
  <2>7. QED
    BY <2>6 DEF l
<1>6. ASSUME NEW d \in Downlinks, NEW lost \in Lost, Downlink(d, lost) PROVE UpTaken(last')
  BY <1>2, <1>6 DEF Downlink
<1>7. CASE UNCHANGED vars
  BY <1>1, <1>7 DEF vars
<1>8. QED
  BY <1>3, <1>4, <1>5, <1>6, <1>7 DEF Next

\* Where the buffer has room, an uplink has its data with the answers, or the answers alone,
\* where the network looks for them, and the MIC after all of it: the end of
\* externalDataCommand(), LDL_Frame_putData() and LDL_Frame_updateMIC().
THEOREM UplinksReadBack == ASSUME Room PROVE Spec => []UplinkReadBack
<1>1. Init => UpTaken(last)
  BY DEF Init, UpTaken, NoCall
<1>2. UpTaken(last) /\ [Next]_vars => UpTaken(last)'
  BY UpNext
<1>3. UpTaken(last) => UplinkReadBack
  BY UpTakenIs
<1>4. QED
  BY <1>1, <1>2, <1>3, PTL DEF Spec

\* All four kinds of frame read back, where the buffer has room.
THEOREM AllReadBack == ASSUME Room PROVE Spec => []FramesReadBack
<1>1. 23 <= MaxPacket
  BY CodecAssumption DEF Room
<1>2. Spec => []JoinRequestReadBack
  BY <1>1, JoinRequestsReadBack
<1>3. JoinRequestReadBack /\ JoinAcceptWhole /\ UplinkReadBack /\ DownlinkReadBack
        => FramesReadBack
  BY DEF FramesReadBack
<1>4. QED
  BY <1>2, <1>3, JoinAcceptsWhole, UplinksReadBack, DownlinksReadBack, PTL

-----------------------------------------------------------------------------
(***************************************************************************)
(* Key streams.                                                            *)
(***************************************************************************)
\* The bytes of a frame a part of it takes, and the bytes of a key stream.
PlacesOf(c) == {c.at + i : i \in DOMAIN c.stream}
Spent(c)  == {c.stream[i] : i \in DOMAIN c.stream}

\* The values of a function that has none twice.
Values(f, n) == {f[i] : i \in 1..n}

Distinct(f, n) ==
    /\ n \in Nat /\ DOMAIN f = 1..n /\ f = [i \in 1..n |-> f[i]]
    /\ \A i, j \in 1..n : f[i] = f[j] => i = j

LEMMA ValuesCounted ==
    ASSUME NEW n, NEW f, Distinct(f, n)
    PROVE  IsFiniteSet(Values(f, n)) /\ Cardinality(Values(f, n)) = n
<1> DEFINE T == {f[i] : i \in 1..n}
<1>8. n \in Nat
  BY DEF Distinct
<1>1. f \in [1..n -> T]
  BY DEF Distinct
<1>2. f \in Injection(1..n, T)
  BY <1>1 DEF Injection, IsInjective, Distinct
<1>3. f \in Surjection(1..n, T)
  BY <1>1 DEF Surjection
<1>4. ExistsBijection(1..n, T)
  BY <1>2, <1>3 DEF ExistsBijection, Bijection
<1>5. Cardinality(T) = n
  BY <1>4, <1>8, FS_CountingElements
<1>6. IsFiniteSet(T)
  BY <1>4, <1>8, FS_NatBijection
<1>7. QED
  BY <1>5, <1>6 DEF Values

\* The blocks of a key stream.
LEMMA StreamBlock ==
    ASSUME NEW first \in 0..1, NEW p \in 1..255
    PROVE  /\ (first + (p - 1) \div BlockSize) % 256 = first + (p - 1) \div 16
           /\ (p - 1) \div 16 \in 0..15
           /\ p = 16 * ((p - 1) \div 16) + ((p - 1) % 16) + 1
<1> DEFINE x == p - 1
           d == x \div 16
<1>1. x \in Nat /\ x <= 254 /\ p = x + 1
  OBVIOUS
<1> HIDE DEF x
<1>2. d \in Nat /\ x % 16 \in 0..15 /\ x = 16 * d + (x % 16)
  BY <1>1, BySixteen
<1> HIDE DEF d
<1>3. d <= 15
  BY <1>1, <1>2
<1>4. first + d \in 0..16
  BY <1>2, <1>3
<1>5. (first + d) % 256 = first + d
  <2> DEFINE y == first + d
  <2>1. y \in 0..16
    BY <1>4
  <2> HIDE DEF y
  <2>2. y % 256 = y
    BY <2>1
  <2>3. QED
    BY <2>2 DEF y
<1>6. QED
  BY <1>1, <1>2, <1>3, <1>5 DEF d, x, BlockSize

\* A part of n bytes takes n bytes of a frame and n of a key stream, one each.
OneStream(c, a, n) ==
    /\ PlacesOf(c) = (a + 1)..(a + n) /\ IsFiniteSet(PlacesOf(c)) /\ Cardinality(PlacesOf(c)) = n
    /\ IsFiniteSet(Spent(c)) /\ Cardinality(Spent(c)) = n

LEMMA StreamCounted ==
    ASSUME NEW a \in Nat, NEW n \in 0..255, NEW iv, NEW first \in 0..1, NEW c,
           c = [at |-> a, stream |-> KeyStream(iv, first, n)]
    PROVE  OneStream(c, a, n)
<1> DEFINE f == KeyStream(iv, first, n)
           D(p) == (p - 1) \div 16
           M(p) == (p - 1) % 16
<1>1. c.at = a /\ c.stream = f
  OBVIOUS
<1>2. f = [p \in 1..n |-> [iv |-> iv, block |-> (first + (p - 1) \div BlockSize) % 256,
                           at |-> (p - 1) % BlockSize]]
  BY DEF KeyStream
<1>3. DOMAIN f = 1..n
  BY <1>2
<1>4. \A p \in 1..n : f[p].block = first + D(p) /\ f[p].at = M(p)
  <2> TAKE p \in 1..n
  <2>1. p \in 1..255
    OBVIOUS
  <2>2. f[p].block = (first + (p - 1) \div BlockSize) % 256 /\ f[p].at = (p - 1) % BlockSize
    BY <1>2
  <2>3. (first + (p - 1) \div BlockSize) % 256 = first + D(p)
    BY <2>1, StreamBlock
  <2>4. QED
    BY <2>2, <2>3 DEF BlockSize
<1>5. \A p \in 1..n : D(p) \in Int /\ M(p) \in Int /\ p = 16 * D(p) + M(p) + 1
  <2> TAKE p \in 1..n
  <2>1. p \in 1..255
    OBVIOUS
  <2>2. D(p) \in 0..15 /\ p = 16 * D(p) + M(p) + 1
    BY <2>1, StreamBlock
  <2>3. M(p) \in Int
    BY <2>1
  <2>4. QED
    BY <2>2, <2>3
<1> HIDE DEF D, M
<1>6. f = [p \in 1..n |-> f[p]]
  BY <1>2
<1> HIDE DEF f
<1>7. \A p, q \in 1..n : f[p] = f[q] => p = q
  <2> SUFFICES ASSUME NEW p \in 1..n, NEW q \in 1..n, f[p] = f[q] PROVE p = q
    OBVIOUS
  <2>1. first + D(p) = first + D(q) /\ M(p) = M(q)
    BY <1>4
  <2>2. D(p) = D(q)
    BY <1>5, <2>1
  <2>3. QED
    BY <1>5, <2>1, <2>2
<1>8. IsFiniteSet(Spent(c)) /\ Cardinality(Spent(c)) = n
  <2>1. Spent(c) = Values(f, n)
    BY <1>1, <1>3 DEF Spent, Values
  <2>0. n \in Nat
    OBVIOUS
  <2>2. Distinct(f, n)
    BY <1>3, <1>6, <1>7, <2>0, Zenon DEF Distinct
  <2>3. QED
    BY <2>1, <2>2, ValuesCounted
<1>9. PlacesOf(c) = (a + 1)..(a + n)
  <2>1. PlacesOf(c) = {a + i : i \in 1..n}
    BY <1>1, <1>3 DEF PlacesOf
  <2>2. {a + i : i \in 1..n} = (a + 1)..(a + n)
    <3>1. \A x \in (a + 1)..(a + n) : x - a \in 1..n /\ x = a + (x - a)
      OBVIOUS
    <3>2. \A i \in 1..n : a + i \in (a + 1)..(a + n)
      OBVIOUS
    <3>3. QED
      BY <3>1, <3>2
  <2>3. QED
    BY <2>1, <2>2
<1>10. IsFiniteSet((a + 1)..(a + n)) /\ Cardinality((a + 1)..(a + n)) = n
  <2> DEFINE x == a + 1
             y == a + n
  <2>1. x \in Int /\ y \in Int /\ (IF x > y THEN 0 ELSE y - x + 1) = n
    OBVIOUS
  <2> HIDE DEF x, y
  <2>2. IsFiniteSet(x..y) /\ Cardinality(x..y) = IF x > y THEN 0 ELSE y - x + 1
    BY <2>1, FS_Interval
  <2>3. QED
    BY <2>1, <2>2 DEF x, y
<1>11. QED
  BY <1>8, <1>9, <1>10 DEF OneStream

Streamed(c, iv, first, n) == c.stream = KeyStream(iv, first, n)

\* Key streams from block 0, of a block at most, and from block 1 on have no byte in common.
LEMMA StreamsApart ==
    ASSUME NEW n \in 0..15, NEW iv, NEW c, Streamed(c, iv, 0, n),
           NEW m \in 0..255, NEW jv, NEW e, Streamed(e, jv, 1, m)
    PROVE  Spent(c) \cap Spent(e) = {}
<1> DEFINE f == KeyStream(iv, 0, n)
           g == KeyStream(jv, 1, m)
           z == 0
           u == 1
<1>1. c.stream = f /\ e.stream = g
  BY DEF Streamed
<1>2. /\ f = [p \in 1..n |-> [iv |-> iv, block |-> (z + (p - 1) \div BlockSize) % 256,
                           at |-> (p - 1) % BlockSize]]
      /\ g = [p \in 1..m |-> [iv |-> jv, block |-> (u + (p - 1) \div BlockSize) % 256,
                           at |-> (p - 1) % BlockSize]]
  BY DEF KeyStream
<1>3. z \in 0..1 /\ u \in 0..1 /\ z = 0 /\ u = 1
  OBVIOUS
<1> HIDE DEF f, g, z, u
<1>4. \A p \in 1..n : f[p].block = 0
  <2> TAKE p \in 1..n
  <2>1. p \in 1..255 /\ (p - 1) \div 16 = 0
    OBVIOUS
  <2>2. f[p].block = (z + (p - 1) \div BlockSize) % 256
    BY <1>2
  <2>3. (z + (p - 1) \div BlockSize) % 256 = z + (p - 1) \div 16
    BY <1>3, <2>1, StreamBlock
  <2>4. QED
    BY <1>3, <2>1, <2>2, <2>3
<1>5. \A p \in 1..m : g[p].block # 0
  <2> TAKE p \in 1..m
  <2>1. p \in 1..255
    OBVIOUS
  <2>2. g[p].block = (u + (p - 1) \div BlockSize) % 256
    BY <1>2
  <2>3. (u + (p - 1) \div BlockSize) % 256 = u + (p - 1) \div 16 /\ (p - 1) \div 16 \in 0..15
    BY <1>3, <2>1, StreamBlock
  <2> DEFINE d == (p - 1) \div 16
  <2>4. g[p].block = u + d /\ d \in 0..15
    BY <2>2, <2>3
  <2> HIDE DEF d
  <2>5. QED
    BY <1>3, <2>4
<1>6. DOMAIN f = 1..n /\ DOMAIN g = 1..m
  BY <1>2
<1>7. QED
  BY <1>1, <1>4, <1>5, <1>6 DEF Spent

\* The parts of a frame of len bytes, options of n bytes and data of m, if they are any.
LaidIn(o, d, n, m, len) ==
    /\ n \in 0..15 /\ m \in 0..255 /\ len \in Nat /\ o.len = n /\ d.len = m /\ o.at \in Nat
       /\ d.at \in Nat
    /\ (n > 0 => o.at = 8 /\ n + 12 <= len)
    /\ (m > 0 => d.at = n + 9 /\ n + m + 13 <= len)

\* The key streams of C are spent once each, on size bytes of a frame of len.
SpentOnce(C, len, size) ==
    /\ \A c \in C : PlacesOf(c) \subseteq 9..(len - MicSize)
    /\ Cardinality(UNION {Spent(c) : c \in C}) = size
    /\ Cardinality(UNION {PlacesOf(c) : c \in C}) = size

LEMMA UnionOfOne ==
    ASSUME NEW c
    PROVE  UNION {Spent(x) : x \in {c}} = Spent(c) /\ UNION {PlacesOf(x) : x \in {c}} = PlacesOf(c)
OBVIOUS

LEMMA UnionOfTwo ==
    ASSUME NEW c, NEW e
    PROVE  /\ UNION {Spent(x) : x \in {c} \cup {e}} = Spent(c) \cup Spent(e)
           /\ UNION {PlacesOf(x) : x \in {c} \cup {e}} = PlacesOf(c) \cup PlacesOf(e)
OBVIOUS

\* Two sets with nothing in common.
LEMMA CountBoth ==
    ASSUME NEW S, NEW T, NEW n \in Nat, NEW m \in Nat, IsFiniteSet(S), IsFiniteSet(T),
           Cardinality(S) = n, Cardinality(T) = m, S \cap T = {}
    PROVE  Cardinality(S \cup T) = n + m
<1>1. Cardinality(S \cup T) = Cardinality(S) + Cardinality(T) - Cardinality(S \cap T)
  BY FS_Union
<1>2. Cardinality(S \cap T) = 0
  BY FS_EmptySet
<1> DEFINE x == Cardinality(S)
           y == Cardinality(T)
           z == Cardinality(S \cap T)
           u == Cardinality(S \cup T)
<1>3. u = x + y - z /\ x = n /\ y = m /\ z = 0
  BY <1>1, <1>2
<1> HIDE DEF x, y, z, u
<1>4. u = n + m
  BY <1>3
<1>5. QED
  BY <1>4 DEF u

LEMMA LaidOut ==
    ASSUME NEW o, NEW d, NEW n, NEW m, NEW len, LaidIn(o, d, n, m, len), NEW iv, NEW jv,
           NEW c, NEW e, c = Enciphered(o, iv, 0), e = Enciphered(d, jv, 1)
    PROVE  SpentOnce({e}, len, m) /\ SpentOnce({c} \cup {e}, len, m + n)
<1> DEFINE a == o.at
           b == d.at
<1>1. /\ n \in 0..15 /\ m \in 0..255 /\ len \in Nat /\ o.len = n /\ d.len = m /\ a \in Nat
         /\ b \in Nat
      /\ (n > 0 => a = 8 /\ n + 12 <= len)
      /\ (m > 0 => b = n + 9 /\ n + m + 13 <= len)
  BY DEF LaidIn
<1> DEFINE u == KeyStream(iv, 0, o.len)
           v == KeyStream(jv, 1, d.len)
<1>2. c = [at |-> a, stream |-> u] /\ e = [at |-> b, stream |-> v]
  BY Zenon DEF Enciphered
<1>20. u = KeyStream(iv, 0, n) /\ v = KeyStream(jv, 1, m)
  BY <1>1
<1>21. c = [at |-> a, stream |-> KeyStream(iv, 0, n)]
       /\ e = [at |-> b, stream |-> KeyStream(jv, 1, m)]
  BY <1>2, <1>20
<1>22. Streamed(c, iv, 0, n) /\ Streamed(e, jv, 1, m)
  BY <1>21 DEF Streamed
<1> HIDE DEF u, v
<1> HIDE DEF a, b
<1>3. 0 \in 0..1 /\ 1 \in 0..1 /\ n \in 0..255
  BY <1>1
<1>4. OneStream(c, a, n) /\ OneStream(e, b, m)
  BY <1>1, <1>21, <1>3, StreamCounted
<1>5. Spent(c) \cap Spent(e) = {}
  BY <1>1, <1>22, StreamsApart
<1>6. /\ PlacesOf(c) = (a + 1)..(a + n) /\ IsFiniteSet(PlacesOf(c)) /\ Cardinality(PlacesOf(c)) = n
      /\ IsFiniteSet(Spent(c)) /\ Cardinality(Spent(c)) = n
      /\ PlacesOf(e) = (b + 1)..(b + m) /\ IsFiniteSet(PlacesOf(e)) /\ Cardinality(PlacesOf(e)) = m
      /\ IsFiniteSet(Spent(e)) /\ Cardinality(Spent(e)) = m
  BY <1>4 DEF OneStream
<1>7. ((a + 1)..(a + n)) \subseteq 9..(len - 4) /\ ((b + 1)..(b + m)) \subseteq 9..(len - 4)
  <2>1. CASE n = 0
    BY <1>1, <2>1
  <2>2. CASE n > 0
    BY <1>1, <2>2
  <2>3. QED
    BY <1>1, <2>1, <2>2
<1>8. ((a + 1)..(a + n)) \cap ((b + 1)..(b + m)) = {}
  BY <1>1
<1>9. PlacesOf(c) \subseteq 9..(len - MicSize) /\ PlacesOf(e) \subseteq 9..(len - MicSize)
  BY <1>6, <1>7 DEF MicSize
<1>10. PlacesOf(c) \cap PlacesOf(e) = {}
  BY <1>6, <1>8
<1>11. n \in Nat /\ m \in Nat /\ n + m = m + n
  BY <1>1
<1> HIDE DEF LaidIn
<1>12. Cardinality(Spent(c) \cup Spent(e)) = m + n
       /\ Cardinality(PlacesOf(c) \cup PlacesOf(e)) = m + n
  <2>1. Cardinality(Spent(c) \cup Spent(e)) = n + m
    BY <1>5, <1>6, <1>11, CountBoth
  <2>2. Cardinality(PlacesOf(c) \cup PlacesOf(e)) = n + m
    BY <1>6, <1>10, <1>11, CountBoth
  <2>3. QED
    BY <1>11, <2>1, <2>2
<1>13. SpentOnce({e}, len, m)
  BY <1>6, <1>9, UnionOfOne DEF SpentOnce
<1>14. SpentOnce({c} \cup {e}, len, m + n)
  BY <1>9, <1>12, UnionOfTwo DEF SpentOnce
<1>15. QED
  BY <1>13, <1>14

\* Options and data are enciphered once, in 1.0 data only.
LEMMA CiphersOnce ==
    ASSUME NEW dir, NEW port, NEW o, NEW d, NEW n, NEW m, NEW len, LaidIn(o, d, n, m, len)
    PROVE  SpentOnce(Ciphers(dir, o, d, port), len, m + (IF version = 1 THEN n ELSE 0))
<1> DEFINE iv == IV(Key("NWKSENC"), dir)
           jv == IV(DataKey(port), dir)
           c == Enciphered(o, iv, 0)
           e == Enciphered(d, jv, 1)
<1>1. Ciphers(dir, o, d, port) = (IF version = 1 THEN {c} ELSE {}) \cup {e}
  BY DEF Ciphers
<1> HIDE DEF iv, jv
<1>2. SpentOnce({e}, len, m) /\ SpentOnce({c} \cup {e}, len, m + n)
  BY LaidOut
<1>3. m + 0 = m
  BY DEF LaidIn
<1> HIDE DEF c, e
<1>4. CASE version = 1
  BY <1>1, <1>2, <1>4
<1>5. CASE version # 1
  <2>1. {} \cup {e} = {e}
    OBVIOUS
  <2>2. QED
    BY <1>1, <1>2, <1>3, <1>5, <2>1
<1>6. QED
  BY <1>4, <1>5

LEMMA NothingSpent ==
    ASSUME NEW len
    PROVE  SpentOnce({}, len, 0)
<1>1. UNION {Spent(c) : c \in {}} = {} /\ UNION {PlacesOf(c) : c \in {}} = {}
  OBVIOUS
<1>2. Cardinality({}) = 0
  BY FS_EmptySet
<1>3. QED
  BY <1>1, <1>2 DEF SpentOnce

\* What has been enciphered of the frame of a call, in version v of the protocol.
FrameBytes(l) == IF l.call = "Uplink" THEN Len(l.pkt) ELSE Len(l.bytes)

StreamMade(l, v) ==
    "ciphers" \in DOMAIN l =>
        \E size : /\ SpentOnce(l.ciphers, FrameBytes(l), size)
                  /\ l.call = "Uplink" =>
                        size = Len(l.f.data) + (IF v = 1 THEN Len(l.f.opts) ELSE 0)

LEMMA StreamMadeIs == StreamMade(last, version) => KeyStreamOnce
<1> SUFFICES ASSUME "ciphers" \in DOMAIN last, NEW size,
                    SpentOnce(last.ciphers, FrameBytes(last), size),
                    last.call = "Uplink" =>
                        size = Len(last.f.data) + (IF version = 1 THEN Len(last.f.opts) ELSE 0)
             PROVE  KeyStreamOnce
  BY Zenon DEF StreamMade, KeyStreamOnce
<1>1. /\ \A c \in last.ciphers : PlacesOf(c) \subseteq 9..(FrameBytes(last) - MicSize)
      /\ Cardinality(UNION {Spent(c) : c \in last.ciphers}) = size
      /\ Cardinality(UNION {PlacesOf(c) : c \in last.ciphers}) = size
  BY DEF SpentOnce
<1>2. QED
  BY <1>1, Zenon DEF KeyStreamOnce, Is, FrameBytes, Spent, PlacesOf

LEMMA DownLaidOut ==
    ASSUME NEW f, NEW b, Len(b) \in Nat, NEW n \in 0..15, NEW m \in 0..255, PartsIn(f, b, n, m)
    PROVE  LaidIn(f.opts, f.data, n, m, Len(b))
<1> DEFINE o == f.opts
           d == f.data
           k == Len(b)
<1>1. /\ o = (IF n > 0 THEN Part(8, n) ELSE Part(0, 0))
      /\ d = (IF m > 0 THEN Part(n + 9, m) ELSE Part(0, 0))
      /\ k >= n + 12 /\ (m > 0 => k >= n + m + 13)
  BY DEF PartsIn
<1>2. k \in Nat
  OBVIOUS
<1> HIDE DEF o, d, k
<1>3. o.len = n /\ o.at \in Nat /\ (n > 0 => o.at = 8)
  BY <1>1 DEF Part
<1>4. d.len = m /\ d.at \in Nat /\ (m > 0 => d.at = n + 9)
  BY <1>1 DEF Part
<1>5. n + 12 <= k /\ (m > 0 => n + m + 13 <= k)
  BY <1>1, <1>2
<1>6. LaidIn(o, d, n, m, k)
  BY <1>2, <1>3, <1>4, <1>5 DEF LaidIn
<1>7. QED
  BY <1>6 DEF o, d, k

LEMMA UpLaidOut ==
    ASSUME NEW f, NEW p, NEW q, Len(q) \in Nat, NEW n \in 0..15, NEW m \in 0..255,
           Laid(p, q, f, n, m)
    PROVE  LaidIn(Part(OffOpts, Len(f.opts)), Part(OffData(f), Len(f.data)), n, m, Len(q))
<1> DEFINE k == Len(q)
           o == Part(OffOpts, Len(f.opts))
           d == Part(OffData(f), Len(f.data))
<1>1. Len(f.opts) = n /\ Len(f.data) = m /\ k >= n + 12
      /\ (m > 0 => f.dataPresent /\ k >= n + m + 13)
  BY DEF Laid, Size
<1>2. k \in Nat
  OBVIOUS
<1>3. OffData(f) = IF f.dataPresent THEN OffOpts + (n % 16) + 1 ELSE 0
  BY <1>1 DEF OffData
<1>4. o.len = n /\ o.at = 8
  BY <1>1 DEF Part, OffOpts
<1>5. d.len = m /\ d.at = OffData(f)
  BY <1>1 DEF Part
<1> HIDE DEF k, o, d
<1>6. d.at \in Nat /\ (m > 0 => d.at = n + 9)
  <2>1. n % 16 = n
    OBVIOUS
  <2>2. OffOpts + (n % 16) + 1 = n + 9
    BY <2>1 DEF OffOpts
  <2>3. QED
    BY <1>1, <1>3, <1>5, <2>2
<1>7. n + 12 <= k /\ (m > 0 => n + m + 13 <= k)
  BY <1>1, <1>2
<1>8. LaidIn(o, d, n, m, k)
  BY <1>2, <1>4, <1>5, <1>6, <1>7 DEF LaidIn
<1>9. QED
  BY <1>8 DEF k, o, d

LEMMA StreamNext ==
    ASSUME Room
    PROVE  StreamMade(last, version) /\ [Next]_vars => StreamMade(last', version')
<1> SUFFICES ASSUME StreamMade(last, version), [Next]_vars PROVE StreamMade(last', version')
  OBVIOUS
<1>1. CASE last' = last /\ version' = version
  BY <1>1
<1>2. ASSUME "ciphers" \notin DOMAIN last' PROVE StreamMade(last', version')
  BY <1>2, Zenon DEF StreamMade
<1>3. ASSUME Done PROVE StreamMade(last', version')
  <2>1. last' = NoCall
    BY <1>3 DEF Done
  <2>2. "ciphers" \notin DOMAIN NoCall
    BY DEF NoCall
  <2>3. QED
    BY <1>2, <2>1, <2>2
<1>4. ASSUME JoinRequest PROVE StreamMade(last', version')
  <2>1. "ciphers" \notin DOMAIN last'
    BY <1>4 DEF JoinRequest
  <2>2. QED
    BY <1>2, <2>1
<1>5. ASSUME NEW optNeg \in BOOLEAN, NEW listed \in BOOLEAN, NEW len \in JoinLengths,
             JoinAccept(optNeg, listed, len)
      PROVE  StreamMade(last', version')
  <2>1. "ciphers" \notin DOMAIN last'
    BY <1>5 DEF JoinAccept
  <2>2. QED
    BY <1>2, <2>1
<1>6. CASE GetCommand
  BY <1>1, <1>6 DEF GetCommand
<1>7. ASSUME NEW r \in Requests, Uplink(r) PROVE StreamMade(last', version')
  <2> DEFINE macs == Macs(r.answers)
             f    == UplinkFrame(r, macs)
             p    == PutData(f, MaxPacket)
             q    == UpdateMIC(p, MicBytes)
             o    == Part(OffOpts, Len(f.opts))
             d    == Part(OffData(f), Len(f.data))
             l    == last'
  <2>1. /\ l.call = "Uplink" /\ l.pkt = q /\ l.f = f
        /\ l.ciphers = IF p = <<>> THEN {} ELSE Ciphers("UP", o, d, f.port)
    BY <1>7 DEF Uplink, Macs
  <2>2. r \in RequestType
    BY CodecAssumption
  <2>3. PICK k \in 0..30 : Size(macs, k)
    BY <2>2, MacsSized
  <2>4. version' = version
    BY <1>7 DEF Uplink
  <2> HIDE DEF macs, l
  <2>5. k <= 30
    OBVIOUS
  <2>6. UpGood(p, f, r, macs)
    BY <2>2, <2>3, <2>5, UpSent
  <2> HIDE DEF f, p
  <2>7. PICK n \in 0..15, m \in 0..255 : Laid(p, q, f, n, m)
    BY <2>6 DEF UpGood
  <2> HIDE DEF q
  <2>8. Len(f.opts) = n /\ Len(f.data) = m /\ Len(p) = Len(q) /\ Len(q) >= n + 12
    BY <2>7 DEF Laid, Size
  <2>9. p # <<>> /\ Len(q) \in Nat
    <3>1. Len(q) \in Nat
      BY <2>7, SMTT(30) DEF Laid
    <3>2. QED
      BY <2>8, <3>1
  <2>10. LaidIn(o, d, n, m, Len(q))
    BY <2>7, <2>9, UpLaidOut, ZenonT(40)
  <2> HIDE DEF o, d
  <2>11. SpentOnce(Ciphers("UP", o, d, f.port), Len(q), m + (IF version = 1 THEN n ELSE 0))
    BY <2>10, CiphersOnce
  <2>12. l.ciphers = Ciphers("UP", o, d, f.port) /\ FrameBytes(l) = Len(q)
    BY <2>1, <2>9 DEF FrameBytes
  <2>13. StreamMade(l, version)
    BY <2>1, <2>8, <2>11, <2>12, Zenon DEF StreamMade
  <2>14. QED
    BY <2>4, <2>13 DEF l
<1>8. ASSUME NEW d \in Downlinks, NEW lost \in Lost, Downlink(d, lost)
      PROVE  StreamMade(last', version')
  <2> DEFINE whole == NetworkData(d)
             bytes == SubSeq(whole, 1, Len(whole) - lost)
             f     == Decode(bytes)
             l     == last'
             C     == Ciphers("DOWN", f.opts, f.data, f.port)
  <2>1. /\ l.call = "Downlink" /\ l.bytes = bytes
        /\ l.ciphers = IF f.ok /\ lost = 0 THEN C ELSE {}
    BY <1>8 DEF Downlink
  <2>2. version' = version
    BY <1>8 DEF Downlink
  <2>3. FrameBytes(l) = Len(bytes)
    BY <2>1 DEF FrameBytes
  <2>4. ASSUME lost = 0 PROVE \E size : SpentOnce(C, Len(bytes), size)
    <3>1. whole \in Seq(Int)
      BY NetworkDataIs
    <3>2. bytes = whole
      <4> HIDE DEF whole
      <4>1. SubSeq(whole, 1, Len(whole)) = whole /\ Len(whole) - 0 = Len(whole)
        BY <3>1
      <4>2. QED
        BY <2>4, <4>1
    <3>3. DownRight(Decode(whole), whole, d)
      BY DownRead
    <3> HIDE DEF whole, bytes
    <3>4. DownRight(f, bytes, d) /\ Len(bytes) \in Nat
      BY <3>1, <3>2, <3>3
    <3> HIDE DEF f
    <3>5. PICK n \in 0..15, m \in 0..255 : PartsIn(f, bytes, n, m)
      BY <3>4 DEF DownRight
    <3>6. LaidIn(f.opts, f.data, n, m, Len(bytes))
      BY <3>4, <3>5, DownLaidOut, ZenonT(40)
    <3>7. SpentOnce(C, Len(bytes), m + (IF version = 1 THEN n ELSE 0))
      BY <3>6, CiphersOnce
    <3>8. QED
      BY <3>7
  <2>5. SpentOnce({}, Len(bytes), 0)
    BY NothingSpent
  <2> HIDE DEF bytes, f, l, C
  <2>6. \E size : SpentOnce(l.ciphers, FrameBytes(l), size)
    BY <2>1, <2>3, <2>4, <2>5
  <2>7. StreamMade(l, version)
    BY <2>1, <2>6, Zenon DEF StreamMade
  <2>8. QED
    BY <2>2, <2>7 DEF l
<1>9. CASE UNCHANGED vars
  BY <1>1, <1>9 DEF vars
<1>10. QED
  BY <1>3, <1>4, <1>5, <1>6, <1>7, <1>8, <1>9 DEF Next

\* Where the buffer has room, no two bytes of a frame are enciphered with the same byte of a key
\* stream, and only options and data are, sent or received: LDL_OPS_prepareData() and
\* LDL_OPS_receiveFrame() count the blocks of options from 0 and those of data from 1.
THEOREM KeyStreamsOnce == ASSUME Room PROVE Spec => []KeyStreamOnce
<1>1. Init => StreamMade(last, version)
  BY DEF Init, StreamMade, NoCall
<1>2. StreamMade(last, version) /\ [Next]_vars => StreamMade(last, version)'
  BY StreamNext
<1>3. StreamMade(last, version) => KeyStreamOnce
  BY StreamMadeIs
<1>4. QED
  BY <1>1, <1>2, <1>3, PTL DEF Spec

\* Both of them: LDL_SM_mic() digests every message of another length than 256 bytes as a
\* whole, and LDL_OPS_prepareData() spends no byte of a key stream twice, nor on the MIC.
THEOREM FramesAreProtected == ASSUME Room PROVE Spec => []FramesProtected
<1>1. Spec => []MicOfOtherMessage
  BY MicsOverMessage
<1>2. Spec => []KeyStreamOnce
  BY KeyStreamsOnce
<1>3. MicOfOtherMessage /\ KeyStreamOnce => FramesProtected
  BY DEF FramesProtected
<1>4. QED
  BY <1>1, <1>2, <1>3, PTL

-----------------------------------------------------------------------------
(***************************************************************************)
(* The answers of an uplink.                                               *)
(***************************************************************************)
\* The sums of the sizes.
Summed(w, ans) ==
    /\ w \in [0..Len(ans) -> Nat] /\ w[0] = 0
    /\ \A n \in 1..Len(ans) : w[n] = w[n - 1] + SizeofCommandUp(ans[n].type)

Sizes(ans) == FoldLeft(LAMBDA n, a : n + SizeofCommandUp(a.type), 0, ans)

LEMMA SizeSteps ==
    ASSUME NEW ans \in Seq(AnswerType)
    PROVE  \E w : Summed(w, ans) /\ Sizes(ans) = w[Len(ans)]
<1> DEFINE N == Len(ans)
           Next1(n, a) == n + SizeofCommandUp(a.type)
           Eq(it) == it = [t \in SUBSET DOMAIN ans |->
                              IF t = {} THEN 0 ELSE Next1(it[t \ {Max(t)}], ans[Max(t)])]
           it == CHOOSE g : Eq(g)
           F == [i \in 1..N |-> [n \in Nat |-> Next1(n, ans[i])]]
           zero == 0
           S == Nat
<1>1. Sizes(ans) = it[DOMAIN ans]
  BY DEF Sizes, FoldLeft, MapThenFoldSet
<1>2. N \in Nat /\ DOMAIN ans = 1..N /\ F \in [1..N -> [Nat -> Nat]]
  <2>1. \A i \in 1..N : SizeofCommandUp(ans[i].type) \in Nat
    <3> TAKE i \in 1..N
    <3>1. ans[i] \in AnswerType
      OBVIOUS
    <3>2. SizeofCommandUp(ans[i].type) \in 1..3
      BY <3>1, PayloadIs
    <3>3. QED
      BY <3>2
  <2>2. QED
    BY <2>1
<1>3. Eq(it)
  <2>1. PICK g : FoldsBy(g, N, Nat, 0, F, LastFirst(N))
    <3> HIDE DEF N, F
    <3>1. QED
      BY <1>2, LeftFold
  <2>2. Eq(g)
    BY <1>2, <2>1, Extremes DEF FoldsBy, LastFirst
  <2>3. QED
    BY <2>2
<1>4. GoesLeft(it, N, S, zero, F)
  <2> HIDE DEF it
  <2>1. ASSUME NEW n \in 1..N PROVE it[1..n] = Next1(it[1..(n - 1)], ans[n])
    <3>1. Max(1..n) = n /\ (1..n) \ {Max(1..n)} = 1..(n - 1) /\ 1..n \in SUBSET DOMAIN ans
      BY <1>2, Extremes
    <3>2. 1..n # {}
      BY n \in 1..n
    <3>3. QED
      BY <1>3, <3>1, <3>2, Zenon
  <2>2. it[{}] = 0
    BY <1>3
  <2>3. QED
    BY <1>2, <2>1, <2>2 DEF GoesLeft
<1>5. PICK w : Steps(w, N, S, zero, F) /\ w[N] = it[1..N]
  <2>1. zero \in S /\ F \in [1..N -> [S -> S]]
    BY <1>2
  <2> HIDE DEF N, F, it, zero, S
  <2>2. N \in Nat
    BY <1>2
  <2>3. QED
    BY <1>4, <2>1, <2>2, LeftSteps, SMTT(60)
<1>6. \A n \in 1..N : n - 1 \in 0..N
  BY <1>2
<1>7. \A n \in 1..N : w[n] = Next1(w[n - 1], ans[n])
  BY <1>2, <1>5, <1>6 DEF Steps
<1> HIDE DEF it, F
<1>8. w \in [0..N -> Nat] /\ w[0] = 0 /\ Sizes(ans) = w[N]
  BY <1>1, <1>2, <1>5 DEF Steps
<1>9. QED
  BY <1>7, <1>8 DEF Summed

\* The sizes of the answers before one are summed in the places.
LEMMA StartIs ==
    ASSUME NEW ans \in Seq(AnswerType), NEW at, Places(at, 0, Pieces(ans)),
           NEW k \in 1..(Len(ans) + 1)
    PROVE  StartOf(ans, k) = at[k - 1]
<1> DEFINE N == Len(ans)
           m == k - 1
           pre == SubSeq(ans, 1, m)
<1>1. N \in Nat /\ m \in 0..N
  OBVIOUS
<1>2. pre \in Seq(AnswerType) /\ Len(pre) = m /\ \A i \in 1..m : pre[i] = ans[i]
  BY <1>1
<1>3. StartOf(ans, k) = Sizes(pre)
  BY DEF StartOf, Sizes
<1> HIDE DEF pre
<1>4. PICK w : Summed(w, pre) /\ Sizes(pre) = w[Len(pre)]
  BY <1>2, SizeSteps
<1>5. /\ \A i \in 0..m : w[i] \in Nat
      /\ w[0] = 0 /\ \A i \in 1..m : w[i] = w[i - 1] + SizeofCommandUp(ans[i].type)
  BY <1>2, <1>4 DEF Summed
<1>6. Len(Pieces(ans)) = N /\ \A i \in 1..N : Len(Pieces(ans)[i]) = SizeofCommandUp(ans[i].type)
  <2>1. Len(Pieces(ans)) = N /\ \A i \in 1..N : Pieces(ans)[i] = AnswerBytes(ans[i])
    BY <1>1 DEF Pieces
  <2>2. \A i \in 1..N : ans[i] \in AnswerType
    OBVIOUS
  <2>3. QED
    BY <2>1, <2>2, AnswerBytesAre
<1>7. at[0] = 0 /\ \A i \in 1..N : at[i] = at[i - 1] + SizeofCommandUp(ans[i].type)
  BY <1>6 DEF Places
<1> DEFINE T == {i \in 0..m : w[i] = at[i]}
<1>8. \A i \in 0..m : i \in T
  <2>1. 0 \in T
    BY <1>1, <1>5, <1>7
  <2>2. ASSUME NEW i \in 1..m, i - 1 \in T PROVE i \in T
    <3>1. w[i - 1] = at[i - 1]
      BY <2>2
    <3>2. w[i] = w[i - 1] + SizeofCommandUp(ans[i].type) /\ i \in 0..m /\ i \in 1..N
      BY <1>1, <1>5
    <3>3. QED
      BY <1>7, <3>1, <3>2
  <2> HIDE DEF T, m
  <2>3. m \in Nat
    BY <1>1
  <2>4. QED
    BY <2>1, <2>2, <2>3, UpTo
<1>9. w[m] = at[m]
  BY <1>1, <1>8
<1>10. QED
  BY <1>2, <1>3, <1>4, <1>9

\* Later pieces have later places.
LEMMA PlacesRise ==
    ASSUME NEW pieces \in Seq(Seq(Int)), NEW first \in Nat, NEW at, Places(at, first, pieces),
           NEW k \in 0..Len(pieces), NEW m \in 0..Len(pieces), k <= m
    PROVE  at[k] <= at[m]
<1> DEFINE N == Len(pieces)
           T == {n \in 0..N : k <= n => at[k] <= at[n]}
<1>1. N \in Nat /\ \A n \in 1..N : Len(pieces[n]) \in Nat
  OBVIOUS
<1>2. /\ \A n \in 0..N : at[n] \in Nat
      /\ \A n \in 1..N : at[n] = at[n - 1] + Len(pieces[n])
  BY DEF Places
<1> HIDE DEF N
<1>3. k \in 0..N /\ m \in 0..N
  BY DEF N
<1>4. 0 \in T
  BY <1>1, <1>2, <1>3
<1>5. ASSUME NEW n \in 1..N, n - 1 \in T PROVE n \in T
  <2>1. CASE k <= n - 1
    <3>1. at[k] <= at[n - 1] /\ n - 1 \in 0..N /\ n \in 0..N
      BY <1>1, <1>5, <2>1
    <3>2. at[n] = at[n - 1] + Len(pieces[n]) /\ Len(pieces[n]) \in Nat
      BY <1>1, <1>2
    <3>3. at[k] <= at[n]
      BY <1>2, <1>3, <3>1, <3>2
    <3>4. QED
      BY <3>1, <3>3
  <2>2. CASE k = n
    BY <1>1, <1>2, <2>2
  <2>3. CASE k > n
    BY <1>1, <1>3, <2>3
  <2>4. QED
    BY <1>1, <1>3, <2>1, <2>2, <2>3
<1> HIDE DEF T
<1>6. \A n \in 0..N : n \in T
  BY <1>1, <1>4, <1>5, UpTo
<1>7. QED
  BY <1>3, <1>6 DEF T

\* The answers in what is written of them.
Answering(macs, ans, at) ==
    /\ Places(at, 0, Pieces(ans)) /\ Len(macs) = at[Len(ans)]
    /\ \A k \in 1..Len(ans) : \A i \in 1..Len(AnswerBytes(ans[k])) :
            macs[at[k - 1] + i] = AnswerBytes(ans[k])[i]

LEMMA MacsAnswer ==
    ASSUME NEW ans \in Seq(AnswerType), StartOf(ans, Len(ans) + 1) <= MacsSize
    PROVE  \E at : Answering(Macs(ans), ans, at)
<1> DEFINE s == Blank(MacsSize)
           r == FoldLeft(PutAnswer, s, ans)
           N == Len(ans)
           pieces == Pieces(ans)
<1>1. s \in Strm /\ s.pos = 0 /\ Len(s.buf) = 30 /\ ~s.error
  BY DEF Blank, Stream, Strm, MacsSize
<1> HIDE DEF s
<1>2. pieces \in Seq(Seq(Int)) /\ Len(pieces) = N /\ \A n \in 1..N : pieces[n] = AnswerBytes(ans[n])
  BY AnswerBytesAre DEF Pieces
<1>3. PICK at : Places(at, 0, pieces)
  BY <1>2, HavePlaces, 0 \in Nat
<1>4. Holds(r, s, pieces, at, N)
  BY <1>1, <1>3, AnswersWritten
<1>5. N \in Nat
  OBVIOUS
<1>6. at[N] <= 30
  <2>1. N + 1 \in 1..(N + 1) /\ (N + 1) - 1 = N
    BY <1>5
  <2>2. StartOf(ans, N + 1) = at[N]
    BY <1>3, <2>1, StartIs
  <2>3. QED
    BY <2>2 DEF MacsSize
<1> HIDE DEF r, pieces, N
<1>7. \A n \in 0..N : at[n] \in Nat
  BY <1>2, <1>3 DEF Places
<1>8. ~r.error
  <2>1. at[N] \in Nat /\ ~(at[N] > 30)
    BY <1>5, <1>6, <1>7
  <2>2. QED
    BY <1>1, <1>4, <2>1 DEF Holds
<1>9. /\ r.pos = at[N] /\ r.buf \in Seq(Int) /\ r.pos \in Nat /\ r.pos <= Len(r.buf)
      /\ \A m \in 1..N : \A i \in 1..Len(pieces[m]) : r.buf[at[m - 1] + i] = pieces[m][i]
  BY <1>4, <1>8 DEF Holds, Strm
<1> DEFINE macs == Written(r)
<1>10. Len(macs) = at[N] /\ \A j \in 1..at[N] : macs[j] = r.buf[j]
  BY <1>9 DEF Written
<1> HIDE DEF macs
<1>11. ASSUME NEW k \in 1..N, NEW i \in 1..Len(pieces[k]) PROVE macs[at[k - 1] + i] = pieces[k][i]
  <2>1. k \in 0..N /\ k - 1 \in 0..N /\ k <= N /\ N \in 0..N
    BY <1>5
  <2>2. at[k] <= at[N]
    BY <1>2, <1>3, <2>1, PlacesRise, 0 \in Nat
  <2>3. at[k] = at[k - 1] + Len(pieces[k]) /\ Len(pieces[k]) \in Nat
    BY <1>2, <1>3 DEF Places
  <2>4. at[k - 1] + i \in 1..at[N]
    BY <1>7, <2>1, <2>2, <2>3
  <2>5. QED
    BY <1>9, <1>10, <2>4
<1>12. Answering(macs, ans, at)
  BY <1>2, <1>3, <1>10, <1>11, ZenonT(40) DEF Answering, N, pieces
<1>13. QED
  BY <1>12 DEF macs, r, s, Macs

\* Three flags in a byte.
LEMMA ThreeFlags ==
    ASSUME NEW ok \in [1..3 -> BOOLEAN], NEW i \in 1..3
    PROVE  (Flags(ok) \div 2^(3 - i)) % 2 = 1 <=> ok[i]
<1> DEFINE a == FlagBit(ok[1])
           b == FlagBit(ok[2])
           c == FlagBit(ok[3])
           v == Flags(ok)
<1>1. v = 4 * a + 2 * b + c
  BY FewFlags
<1>2. a \in 0..1 /\ b \in 0..1 /\ c \in 0..1
  BY DEF FlagBit
<1>3. (a = 1 <=> ok[1]) /\ (b = 1 <=> ok[2]) /\ (c = 1 <=> ok[3])
  BY DEF FlagBit
<1> HIDE DEF a, b, c, v
<1>4. v \div 4 = a /\ v \div 2 = 2 * a + b /\ v \div 1 = v
  BY <1>1, <1>2
<1>5. (v \div 4) % 2 = a /\ (v \div 2) % 2 = b /\ (v \div 1) % 2 = c
  BY <1>1, <1>2, <1>4
<1>6. 2^2 = 4 /\ 2^1 = 2 /\ 2^0 = 1
  OBVIOUS
<1>7. CASE i = 1
  <2>1. 3 - i = 2
    BY <1>7
  <2>2. (v \div 2^(3 - i)) % 2 = a
    BY <1>5, <1>6, <2>1
  <2>3. QED
    BY <1>3, <1>7, <2>2 DEF v
<1>8. CASE i = 2
  <2>1. 3 - i = 1
    BY <1>8
  <2>2. (v \div 2^(3 - i)) % 2 = b
    BY <1>5, <1>6, <2>1
  <2>3. QED
    BY <1>3, <1>8, <2>2 DEF v
<1>9. CASE i = 3
  <2>1. 3 - i = 0
    BY <1>9
  <2>2. (v \div 2^(3 - i)) % 2 = c
    BY <1>5, <1>6, <2>1
  <2>3. QED
    BY <1>3, <1>9, <2>2 DEF v
<1>10. QED
  BY <1>7, <1>8, <1>9

\* What an answer shows in the bytes x, y and z.
Shows(a, x, y, z) ==
    /\ x = Cid(a.type)
    /\ a.type = "DEV_STATUS" => y = a.battery /\ z = a.margin % 64
    /\ a.type = "REKEY" => y = a.version
    /\ a.type = "LINK_ADR" => \A i \in 1..3 : (y \div 2^(3 - i)) % 2 = 1 <=> a.ok[i]

LEMMA AnswerTypes ==
    ASSUME NEW a \in AnswerType
    PROVE  a.type = "LINK_ADR" => a.ok \in [1..3 -> BOOLEAN]
BY DEF AnswerType

LEMMA AnswerShows ==
    ASSUME NEW a \in AnswerType, NEW macs, NEW p,
           \A i \in 1..Len(AnswerBytes(a)) : macs[p + i] = AnswerBytes(a)[i]
    PROVE  Shows(a, macs[p + 1], macs[p + 2], macs[p + 3])
<1> DEFINE b == AnswerBytes(a)
           pay == Payload(a)
           n == SizeofCommandUp(a.type)
<1>1. /\ Len(b) = n /\ Len(b) = Len(pay) + 1 /\ b[1] = Cid(a.type)
      /\ \A i \in 1..Len(pay) : b[i + 1] = pay[i]
  BY AnswerBytesAre
<1>2. n \in 1..3
  BY PayloadIs
<1>3. /\ a.type = "DEV_STATUS" => n = 3 /\ pay = <<a.battery, a.margin % 64>>
      /\ a.type = "REKEY" => n = 2 /\ pay = <<a.version>>
      /\ a.type = "LINK_ADR" => n = 2 /\ pay = <<Flags(a.ok)>>
  BY DEF Payload, SizeofCommandUp
<1>4. \A i \in 1..Len(b) : macs[p + i] = b[i]
  OBVIOUS
<1> HIDE DEF b, pay, n
<1>5. macs[p + 1] = b[1]
  BY <1>1, <1>2, <1>4
<1>6. n > 1 => macs[p + 2] = b[2] /\ b[2] = pay[1]
  <2>1. n > 1 => 2 \in 1..Len(b) /\ 1 \in 1..Len(pay) /\ 1 + 1 = 2
    BY <1>1, <1>2
  <2>2. QED
    BY <1>1, <1>4, <2>1
<1>7. n > 2 => macs[p + 3] = b[3] /\ b[3] = pay[2]
  <2>1. n > 2 => 3 \in 1..Len(b) /\ 2 \in 1..Len(pay) /\ 2 + 1 = 3
    BY <1>1, <1>2
  <2>2. QED
    BY <1>1, <1>4, <2>1
<1> DEFINE x == macs[p + 1]
           y == macs[p + 2]
           z == macs[p + 3]
<1> HIDE DEF x, y, z
<1>8. x = Cid(a.type)
  BY <1>1, <1>5 DEF x
<1>9. a.type = "DEV_STATUS" => y = a.battery /\ z = a.margin % 64
  <2> SUFFICES ASSUME a.type = "DEV_STATUS" PROVE y = a.battery /\ z = a.margin % 64
    OBVIOUS
  <2>1. n = 3 /\ pay = <<a.battery, a.margin % 64>>
    BY <1>3
  <2>2. y = pay[1] /\ z = pay[2]
    BY <1>6, <1>7, <2>1 DEF y, z
  <2>3. QED
    BY <2>1, <2>2
<1>10. a.type = "REKEY" => y = a.version
  BY <1>3, <1>6 DEF y
<1>11. a.type = "LINK_ADR" => \A i \in 1..3 : (y \div 2^(3 - i)) % 2 = 1 <=> a.ok[i]
  <2> SUFFICES ASSUME a.type = "LINK_ADR", NEW i \in 1..3
               PROVE  (y \div 2^(3 - i)) % 2 = 1 <=> a.ok[i]
    OBVIOUS
  <2>1. y = Flags(a.ok)
    BY <1>3, <1>6 DEF y
  <2> DEFINE ok == a.ok
  <2>2. ok \in [1..3 -> BOOLEAN]
    BY AnswerTypes
  <2> HIDE DEF ok
  <2>3. (Flags(ok) \div 2^(3 - i)) % 2 = 1 <=> ok[i]
    BY <2>2, ThreeFlags
  <2>4. QED
    BY <2>1, <2>3 DEF ok
<1>12. Shows(a, x, y, z)
  BY <1>8, <1>9, <1>10, <1>11, Zenon DEF Shows
<1>13. QED
  BY <1>12 DEF x, y, z

\* The answers read back from macs.
AnswersRead(macs, ans) ==
    /\ Len(macs) = StartOf(ans, Len(ans) + 1)
    /\ \A k \in DOMAIN ans : Shows(ans[k], macs[StartOf(ans, k) + 1], macs[StartOf(ans, k) + 2],
                                   macs[StartOf(ans, k) + 3])

LEMMA MacsRead ==
    ASSUME NEW ans \in Seq(AnswerType), StartOf(ans, Len(ans) + 1) <= MacsSize
    PROVE  AnswersRead(Macs(ans), ans)
<1> DEFINE N == Len(ans)
           macs == Macs(ans)
<1>1. PICK at : Answering(macs, ans, at)
  BY MacsAnswer
<1>2. N \in Nat /\ DOMAIN ans = 1..N
  OBVIOUS
<1>3. \A k \in 1..(N + 1) : StartOf(ans, k) = at[k - 1]
  BY <1>1, StartIs DEF Answering
<1> HIDE DEF macs
<1>4. Len(macs) = StartOf(ans, N + 1)
  <2>1. N + 1 \in 1..(N + 1) /\ (N + 1) - 1 = N
    BY <1>2
  <2>2. Len(macs) = at[N]
    BY <1>1 DEF Answering
  <2>3. QED
    BY <1>3, <2>1, <2>2
<1>5. ASSUME NEW k \in 1..N
      PROVE  Shows(ans[k], macs[StartOf(ans, k) + 1], macs[StartOf(ans, k) + 2],
                   macs[StartOf(ans, k) + 3])
  <2> DEFINE p == at[k - 1]
             a == ans[k]
  <2>1. StartOf(ans, k) = p
    BY <1>2, <1>3
  <2>2. a \in AnswerType
    OBVIOUS
  <2>3. \A i \in 1..Len(AnswerBytes(a)) : macs[p + i] = AnswerBytes(a)[i]
    BY <1>1 DEF Answering
  <2> HIDE DEF p, a
  <2>4. Shows(a, macs[p + 1], macs[p + 2], macs[p + 3])
    BY <2>2, <2>3, AnswerShows
  <2>5. QED
    BY <2>1, <2>4 DEF a
<1>6. QED
  BY <1>2, <1>4, <1>5 DEF AnswersRead, macs

AnswersTaken(l) == l.call = "Uplink" => AnswersRead(l.macs, l.request.answers)

LEMMA AnswersTakenIs == AnswersTaken(last) => AnswersReadBack
<1> SUFFICES ASSUME last.call = "Uplink", AnswersRead(last.macs, last.request.answers)
             PROVE  AnswersReadBack
  BY DEF AnswersTaken, AnswersReadBack, Is
<1> QED
  BY Zenon DEF AnswersReadBack, AnswersRead, Shows

LEMMA AnswersNext ==
    ASSUME AnswersFit
    PROVE  AnswersTaken(last) /\ [Next]_vars => AnswersTaken(last')
<1> SUFFICES ASSUME AnswersTaken(last), [Next]_vars PROVE AnswersTaken(last')
  OBVIOUS
<1>1. CASE last' = last
  BY <1>1
<1>2. CASE last'.call # "Uplink"
  BY <1>2 DEF AnswersTaken
<1>3. CASE Done \/ JoinRequest \/ GetCommand
  BY <1>1, <1>2, <1>3 DEF Done, JoinRequest, GetCommand, NoCall
<1>4. ASSUME NEW optNeg \in BOOLEAN, NEW listed \in BOOLEAN, NEW len \in JoinLengths,
             JoinAccept(optNeg, listed, len)
      PROVE  AnswersTaken(last')
  BY <1>2, <1>4 DEF JoinAccept
<1>5. ASSUME NEW r \in Requests, Uplink(r) PROVE AnswersTaken(last')
  <2> DEFINE ans == r.answers
             l   == last'
  <2>1. l.request = r /\ l.macs = Macs(ans)
    BY <1>5 DEF Uplink, Macs
  <2>2. ans \in Seq(AnswerType)
    <3>1. r \in RequestType
      BY CodecAssumption
    <3>2. QED
      BY <3>1, Zenon DEF RequestType
  <2>3. StartOf(ans, Len(ans) + 1) <= MacsSize
    BY DEF AnswersFit
  <2>4. l.request.answers = ans
    BY <2>1
  <2> HIDE DEF ans, l
  <2>5. AnswersRead(Macs(ans), ans)
    BY <2>2, <2>3, MacsRead
  <2>6. AnswersTaken(l)
    BY <2>1, <2>4, <2>5 DEF AnswersTaken
  <2>7. QED
    BY <2>6 DEF l
<1>6. ASSUME NEW d \in Downlinks, NEW lost \in Lost, Downlink(d, lost) PROVE AnswersTaken(last')
  BY <1>2, <1>6 DEF Downlink
<1>7. CASE UNCHANGED vars
  BY <1>1, <1>7 DEF vars
<1>8. QED
  BY <1>3, <1>4, <1>5, <1>6, <1>7 DEF Next

\* Where macs has room for the answers, the network can tell them apart: each starts where the
\* sizes of those before it say, with its identifier and its flags, LDL_MAC_putLinkADRAns() and
\* the like.
THEOREM AnswersAreReadBack == ASSUME AnswersFit PROVE Spec => []AnswersReadBack
<1>1. Init => AnswersTaken(last)
  BY DEF Init, AnswersTaken, NoCall
<1>2. AnswersTaken(last) /\ [Next]_vars => AnswersTaken(last)'
  BY AnswersNext
<1>3. AnswersTaken(last) => AnswersReadBack
  BY AnswersTakenIs
<1>4. QED
  BY <1>1, <1>2, <1>3, PTL DEF Spec

-----------------------------------------------------------------------------
(***************************************************************************)
(* The commands of a downlink.                                             *)
(***************************************************************************)
\* One more number read.
Reading(r, n) == [s |-> Read(r.s, n), out |-> Append(r.out, Got(r.s, n))]

ReadBy(w, s, sizes) ==
    /\ w[0] = [s |-> s, out |-> <<>>]
    /\ \A n \in 1..Len(sizes) : w[n] = Reading(w[n - 1], sizes[n])
    /\ ReadNumbers(s, sizes) = w[Len(sizes)]

LEMMA ReadingSteps ==
    ASSUME NEW s \in Strm, NEW sizes \in Seq(1..4)
    PROVE  \E w : ReadBy(w, s, sizes)
<1> DEFINE N == Len(sizes)
           V == {Got(t, n) : t \in Strm, n \in 1..4}
           S == [s : Strm, out : Seq(V)]
           base == [s |-> s, out |-> <<>>]
           Eq(it) == it = [t \in SUBSET DOMAIN sizes |->
                              IF t = {} THEN base
                              ELSE Reading(it[t \ {Max(t)}], sizes[Max(t)])]
           it == CHOOSE g : Eq(g)
           F == [i \in 1..N |-> [r \in S |-> Reading(r, sizes[i])]]
<1>1. ReadNumbers(s, sizes) = it[DOMAIN sizes]
  BY DEF ReadNumbers, FoldLeft, MapThenFoldSet, Reading
<1>2. N \in Nat /\ DOMAIN sizes = 1..N /\ base \in S /\ F \in [1..N -> [S -> S]]
  <2>1. base \in S
    OBVIOUS
  <2>2. ASSUME NEW i \in 1..N, NEW r \in S PROVE Reading(r, sizes[i]) \in S
    <3> DEFINE n == sizes[i]
               u == r.s
               o == r.out
    <3>1. n \in 1..4 /\ n \in Nat /\ u \in Strm /\ o \in Seq(V)
      OBVIOUS
    <3> HIDE DEF n, u, o
    <3>2. Read(u, n) \in Strm
      BY <3>1, ReadFails
    <3>3. Got(u, n) \in V
      BY <3>1
    <3> HIDE DEF V
    <3>4. Append(o, Got(u, n)) \in Seq(V)
      BY <3>1, <3>3
    <3>5. QED
      BY <3>2, <3>4 DEF Reading, n, u, o
  <2>3. N \in Nat /\ DOMAIN sizes = 1..N
    OBVIOUS
  <2> HIDE DEF N, S, base
  <2>4. F \in [1..N -> [S -> S]]
    BY <2>2
  <2>5. QED
    BY <2>1, <2>3, <2>4
<1>3. Eq(it)
  <2>1. PICK g : FoldsBy(g, N, S, base, F, LastFirst(N))
    <3> HIDE DEF N, F, S, base
    <3>1. QED
      BY <1>2, LeftFold
  <2>2. Eq(g)
    <3> HIDE DEF N, S, base
    <3>1. ASSUME NEW t \in SUBSET (1..N), t # {}
          PROVE g[t] = Reading(g[t \ {Max(t)}], sizes[Max(t)])
      <4>1. Max(t) \in 1..N /\ LastFirst(N)[t] = Max(t)
        BY <1>2, <3>1, Extremes DEF LastFirst
      <4>2. g[t] = F[Max(t)][g[t \ {Max(t)}]] /\ g[t \ {Max(t)}] \in S
        BY <2>1, <3>1, <4>1 DEF FoldsBy
      <4>3. QED
        BY <4>1, <4>2
    <3>2. g \in [SUBSET (1..N) -> S] /\ g[{}] = base
      BY <2>1 DEF FoldsBy
    <3>3. QED
      BY <1>2, <3>1, <3>2
  <2>3. QED
    BY <2>2
<1>4. GoesLeft(it, N, S, base, F)
  <2> HIDE DEF it, base
  <2>1. ASSUME NEW n \in 1..N PROVE it[1..n] = Reading(it[1..(n - 1)], sizes[n])
    <3>1. Max(1..n) = n /\ (1..n) \ {Max(1..n)} = 1..(n - 1) /\ 1..n \in SUBSET DOMAIN sizes
      BY <1>2, Extremes
    <3>2. 1..n # {}
      BY n \in 1..n
    <3>3. QED
      BY <1>3, <3>1, <3>2, Zenon
  <2>2. it[{}] = base
    BY <1>3
  <2>3. QED
    BY <1>2, <2>1, <2>2 DEF GoesLeft
<1>5. PICK w : Steps(w, N, S, base, F) /\ w[N] = it[1..N]
  <2>1. base \in S /\ F \in [1..N -> [S -> S]]
    BY <1>2
  <2> HIDE DEF N, F, it, base, S
  <2>2. N \in Nat
    BY <1>2
  <2>3. QED
    BY <1>4, <2>1, <2>2, LeftSteps, SMTT(60)
<1>6. \A n \in 1..N : n - 1 \in 0..N
  BY <1>2
<1>7. \A n \in 1..N : w[n] = Reading(w[n - 1], sizes[n])
  <2> HIDE DEF S, base, it
  <2>1. QED
    BY <1>2, <1>5, <1>6 DEF Steps
<1> HIDE DEF it, F
<1>8. w[0] = base /\ ReadNumbers(s, sizes) = w[N]
  BY <1>1, <1>2, <1>5 DEF Steps
<1>9. QED
  BY <1>7, <1>8 DEF ReadBy

Outcome(s, o) == [s |-> s, out |-> o]
Fresh(s)      == Outcome(s, <<>>)

\* Up to three numbers.
Numbered(s, l, m, n) ==
    /\ ReadNumbers(s, <<>>) = Fresh(s)
    /\ ReadNumbers(s, <<l>>) = Reading(Fresh(s), l)
    /\ ReadNumbers(s, <<l, m>>) = Reading(Reading(Fresh(s), l), m)
    /\ ReadNumbers(s, <<l, m, n>>) = Reading(Reading(Reading(Fresh(s), l), m), n)

LEMMA FewNumbers ==
    ASSUME NEW s \in Strm, NEW l \in 1..4, NEW m \in 1..4, NEW n \in 1..4
    PROVE  Numbered(s, l, m, n)
<1>1. ReadNumbers(s, <<>>) = Fresh(s)
  <2> DEFINE z == <<>>
  <2>1. z \in Seq(1..4) /\ Len(z) = 0
    OBVIOUS
  <2>2. PICK w : ReadBy(w, s, z)
    BY <2>1, ReadingSteps
  <2>3. QED
    BY <2>1, <2>2 DEF ReadBy, Outcome, Fresh
<1>2. ReadNumbers(s, <<l>>) = Reading(Fresh(s), l)
  <2> DEFINE z == <<l>>
  <2>1. z \in Seq(1..4) /\ Len(z) = 1 /\ z[1] = l
    OBVIOUS
  <2> HIDE DEF z
  <2>2. PICK w : ReadBy(w, s, z)
    BY <2>1, ReadingSteps
  <2>3. w[1] = Reading(w[1 - 1], z[1])
    BY <2>1, <2>2 DEF ReadBy
  <2>4. w[0] = Fresh(s) /\ ReadNumbers(s, z) = w[1] /\ 1 - 1 = 0
    BY <2>1, <2>2 DEF ReadBy, Outcome, Fresh
  <2>5. ReadNumbers(s, z) = Reading(Fresh(s), l)
    BY <2>1, <2>3, <2>4
  <2>6. QED
    BY <2>5 DEF z
<1>3. ReadNumbers(s, <<l, m>>) = Reading(Reading(Fresh(s), l), m)
  <2> DEFINE z == <<l, m>>
  <2>1. z \in Seq(1..4) /\ Len(z) = 2 /\ z[1] = l /\ z[2] = m
    OBVIOUS
  <2> HIDE DEF z
  <2>2. PICK w : ReadBy(w, s, z)
    BY <2>1, ReadingSteps
  <2>3. w[1] = Reading(w[1 - 1], z[1]) /\ w[2] = Reading(w[2 - 1], z[2])
    BY <2>1, <2>2 DEF ReadBy
  <2>4. w[0] = Fresh(s) /\ ReadNumbers(s, z) = w[2] /\ 1 - 1 = 0 /\ 2 - 1 = 1
    BY <2>1, <2>2 DEF ReadBy, Outcome, Fresh
  <2>5. ReadNumbers(s, z) = Reading(Reading(Fresh(s), l), m)
    BY <2>1, <2>3, <2>4
  <2>6. QED
    BY <2>5 DEF z
<1>4. ReadNumbers(s, <<l, m, n>>) = Reading(Reading(Reading(Fresh(s), l), m), n)
  <2> DEFINE z == <<l, m, n>>
  <2>1. z \in Seq(1..4) /\ Len(z) = 3 /\ z[1] = l /\ z[2] = m /\ z[3] = n
    OBVIOUS
  <2> HIDE DEF z
  <2>2. PICK w : ReadBy(w, s, z)
    BY <2>1, ReadingSteps
  <2>3. /\ w[1] = Reading(w[1 - 1], z[1]) /\ w[2] = Reading(w[2 - 1], z[2])
        /\ w[3] = Reading(w[3 - 1], z[3])
    BY <2>1, <2>2 DEF ReadBy
  <2>4. /\ w[0] = Fresh(s) /\ ReadNumbers(s, z) = w[3]
        /\ 1 - 1 = 0 /\ 2 - 1 = 1 /\ 3 - 1 = 2
    BY <2>1, <2>2 DEF ReadBy, Outcome, Fresh
  <2>5. ReadNumbers(s, z) = Reading(Reading(Reading(Fresh(s), l), m), n)
    BY <2>1, <2>3, <2>4
  <2>6. QED
    BY <2>5 DEF z
<1>5. QED
  BY <1>1, <1>2, <1>3, <1>4 DEF Numbered

LEMMA ReadingIs ==
    ASSUME NEW s, NEW o, NEW n
    PROVE  Reading(Outcome(s, o), n) = Outcome(Read(s, n), Append(o, Got(s, n)))
BY DEF Reading, Outcome

\* A number of n bytes found between positions p and q of b.
Found(b, p, n, x, q) == Read(At(b, p), n) = At(b, q) /\ Got(At(b, p), n) = x

Follows(b, p, n, x, q) ==
    /\ Reading(Fresh(At(b, p)), n) = Outcome(At(b, q), One(x))
    /\ \A v : Reading(Outcome(At(b, p), One(v)), n) = Outcome(At(b, q), Two(v, x))
    /\ \A v, w : Reading(Outcome(At(b, p), Two(v, w)), n) = Outcome(At(b, q), Three(v, w, x))

LEMMA FoundNext ==
    ASSUME NEW b, NEW p, NEW n, NEW x, NEW q, Found(b, p, n, x, q)
    PROVE  Follows(b, p, n, x, q)
BY ReadingIs DEF Found, Fresh, One, Two, Three, Follows

OneRead(b, p, l, x, q)      == ReadNumbers(At(b, p), <<l>>) = Outcome(At(b, q), One(x))
TwoRead(b, p, l, x, m, y, q) ==
    ReadNumbers(At(b, p), <<l, m>>) = Outcome(At(b, q), Two(x, y))
ThreeRead(b, p, l, x, m, y, n, z, q) ==
    ReadNumbers(At(b, p), <<l, m, n>>) = Outcome(At(b, q), Three(x, y, z))

LEMMA OneFound ==
    ASSUME NEW b, NEW p, At(b, p) \in Strm, NEW l \in 1..4, NEW x, NEW q, Found(b, p, l, x, q)
    PROVE  OneRead(b, p, l, x, q)
<1>1. Numbered(At(b, p), l, l, l)
  BY FewNumbers, Zenon
<1>2. Follows(b, p, l, x, q)
  BY FoundNext, Zenon
<1>3. QED
  BY <1>1, <1>2 DEF Numbered, Follows, OneRead

LEMMA TwoFound ==
    ASSUME NEW b, NEW p, At(b, p) \in Strm, NEW l \in 1..4, NEW x, NEW q, Found(b, p, l, x, q),
           NEW m \in 1..4, NEW y, NEW r, Found(b, q, m, y, r)
    PROVE  TwoRead(b, p, l, x, m, y, r)
<1>1. Numbered(At(b, p), l, m, m)
  BY FewNumbers, Zenon
<1>2. Follows(b, p, l, x, q)
  BY FoundNext, Zenon
<1>3. Follows(b, q, m, y, r)
  BY FoundNext, Zenon
<1>4. QED
  BY <1>1, <1>2, <1>3 DEF Numbered, Follows, TwoRead

LEMMA ThreeFound ==
    ASSUME NEW b, NEW p, At(b, p) \in Strm, NEW l \in 1..4, NEW x, NEW q, Found(b, p, l, x, q),
           NEW m \in 1..4, NEW y, NEW r, Found(b, q, m, y, r),
           NEW n \in 1..4, NEW z, NEW t, Found(b, r, n, z, t)
    PROVE  ThreeRead(b, p, l, x, m, y, n, z, t)
<1>1. Numbered(At(b, p), l, m, n)
  BY FewNumbers, Zenon
<1>2. Follows(b, p, l, x, q)
  BY FoundNext, Zenon
<1>3. Follows(b, q, m, y, r)
  BY FoundNext, Zenon
<1>4. Follows(b, r, n, z, t)
  BY FoundNext, Zenon
<1>5. QED
  BY <1>1, <1>2, <1>3, <1>4 DEF Numbered, Follows, ThreeRead

\* A stream that ends before the numbers do has an error after them.
Fails(s, sizes) == ReadNumbers(s, sizes).s.error = TRUE

FailsShort(s, b, p, l, m, n) ==
    /\ p + l > Len(b) => Fails(s, <<l>>)
    /\ p + l + m > Len(b) => Fails(s, <<l, m>>)
    /\ p + l + m + n > Len(b) => Fails(s, <<l, m, n>>)

LEMMA FewFail ==
    ASSUME NEW b, NEW p \in Nat, NEW s, OnlyAt(s, b, p), Len(b) \in Nat,
           NEW l \in 1..4, NEW m \in 1..4, NEW n \in 1..4
    PROVE  FailsShort(s, b, p, l, m, n)
<1> DEFINE s1 == Read(s, l)
           s2 == Read(s1, m)
           s3 == Read(s2, n)
           p1 == p + l
           p2 == p1 + m
           p3 == p2 + n
<1>1. s \in Strm /\ p1 \in Nat /\ p2 \in Nat /\ p3 \in Nat /\ l \in Nat /\ m \in Nat /\ n \in Nat
  BY DEF OnlyAt
<1>2. OnlyAt(s1, b, p1)
  BY <1>1, OnlyRead
<1>3. OnlyAt(s2, b, p2)
  <2> HIDE DEF s1, p1
  <2>1. QED
    BY <1>1, <1>2, OnlyRead
<1>4. OnlyAt(s3, b, p3)
  <2> HIDE DEF s2, p2
  <2>1. QED
    BY <1>1, <1>3, OnlyRead
<1> HIDE DEF p1, p2, p3
<1>5. ASSUME NEW t, NEW k \in Nat, OnlyAt(t, b, k), k > Len(b) PROVE t.error = TRUE
  <2>1. t \in Strm /\ (~t.error => k <= Len(b))
    BY <1>5 DEF OnlyAt
  <2>2. t.error \in BOOLEAN
    BY <2>1 DEF Strm
  <2>3. QED
    BY <1>5, <2>1, <2>2
<1>6. /\ ReadNumbers(s, <<l>>) = Reading(Fresh(s), l)
      /\ ReadNumbers(s, <<l, m>>) = Reading(Reading(Fresh(s), l), m)
      /\ ReadNumbers(s, <<l, m, n>>) = Reading(Reading(Reading(Fresh(s), l), m), n)
  <2>1. Numbered(s, l, m, n)
    BY <1>1, FewNumbers, Zenon
  <2>2. QED
    BY <2>1 DEF Numbered
<1>7. \A r, k : Reading(r, k).s = Read(r.s, k)
  BY DEF Reading
<1>8. Fresh(s).s = s
  BY DEF Outcome, Fresh
<1>9. /\ ReadNumbers(s, <<l>>).s = s1
      /\ ReadNumbers(s, <<l, m>>).s = s2
      /\ ReadNumbers(s, <<l, m, n>>).s = s3
  BY <1>6, <1>7, <1>8
<1> HIDE DEF s1, s2, s3
<1>10. p1 > Len(b) => s1.error = TRUE
  BY <1>1, <1>2, <1>5
<1>11. p2 > Len(b) => s2.error = TRUE
  BY <1>1, <1>3, <1>5
<1>12. p3 > Len(b) => s3.error = TRUE
  BY <1>1, <1>4, <1>5
<1>13. QED
  BY <1>9, <1>10, <1>11, <1>12 DEF p1, p2, p3, Fails, FailsShort

LEMMA NumberBack ==
    ASSUME NEW n \in 1..4, NEW x \in Unsigned(n)
    PROVE  x \in Nat /\ Size(LE(x, n), n) /\ Number(LE(x, n)) = x
<1>1. x \in Nat /\ x \div 256^(n - 1) < 256 /\ n \in Nat
  BY DEF Unsigned
<1>2. Size(LE(x, n), n)
  BY <1>1, BytesOf DEF Size
<1>3. /\ x < 256 => Number(LE(x, 1)) = x
      /\ x < 65536 => Number(LE(x, 2)) = x
      /\ x < 16777216 => Number(LE(x, 3)) = x
      /\ x < 4294967296 => Number(LE(x, 4)) = x
  BY <1>1, NumberOfBytes
<1>4. 256^0 = 1 /\ 256^1 = 256 /\ 256^2 = 65536 /\ 256^3 = 16777216
  OBVIOUS
<1>5. CASE n = 1
  <2>1. x \div 1 < 256
    BY <1>1, <1>4, <1>5, 1 - 1 = 0
  <2>2. x < 256
    BY <1>1, <2>1
  <2>3. QED
    BY <1>1, <1>2, <1>3, <1>5, <2>2
<1>6. CASE n = 2
  <2>1. x \div 256 < 256
    BY <1>1, <1>4, <1>6, 2 - 1 = 1
  <2>2. x < 65536
    BY <1>1, <2>1
  <2>3. QED
    BY <1>1, <1>2, <1>3, <1>6, <2>2
<1>7. CASE n = 3
  <2>1. x \div 65536 < 256
    BY <1>1, <1>4, <1>7, 3 - 1 = 2
  <2>2. x < 16777216
    BY <1>1, <2>1
  <2>3. QED
    BY <1>1, <1>2, <1>3, <1>7, <2>2
<1>8. CASE n = 4
  <2>1. x \div 16777216 < 256
    BY <1>1, <1>4, <1>8, 4 - 1 = 3
  <2>2. x < 4294967296
    BY <1>1, <2>1
  <2>3. QED
    BY <1>1, <1>2, <1>3, <1>8, <2>2
<1>9. QED
  BY <1>5, <1>6, <1>7, <1>8

\* A command a device knows.
LEMMA KnownType ==
    ASSUME NEW c \in CommandType
    PROVE  c.type \in Types \/ c.type = "PROPRIETARY"
<1> DEFINE t == c.type
<1>1. \A i \in 1..14 : CommandTypes[i] \in Types
  BY DEF Types
<1>2. /\ CommandTypes[1] = "LINK_CHECK" /\ CommandTypes[2] = "LINK_ADR"
      /\ CommandTypes[3] = "DUTY_CYCLE" /\ CommandTypes[4] = "RX_PARAM_SETUP"
      /\ CommandTypes[5] = "DEV_STATUS" /\ CommandTypes[6] = "NEW_CHANNEL"
      /\ CommandTypes[7] = "RX_TIMING_SETUP" /\ CommandTypes[8] = "TX_PARAM_SETUP"
      /\ CommandTypes[9] = "DL_CHANNEL" /\ CommandTypes[10] = "REKEY"
      /\ CommandTypes[11] = "ADR_PARAM_SETUP" /\ CommandTypes[12] = "DEVICE_TIME"
      /\ CommandTypes[13] = "FORCE_REJOIN" /\ CommandTypes[14] = "REJOIN_PARAM_SETUP"
  BY DEF CommandTypes
<1>3. t \in {"LINK_CHECK", "LINK_ADR", "DUTY_CYCLE", "RX_PARAM_SETUP", "DEV_STATUS",
             "PROPRIETARY", "NEW_CHANNEL", "RX_TIMING_SETUP", "TX_PARAM_SETUP", "DL_CHANNEL",
             "REKEY", "ADR_PARAM_SETUP", "DEVICE_TIME", "FORCE_REJOIN", "REJOIN_PARAM_SETUP"}
  BY DEF CommandType
<1> HIDE DEF t
<1>4. t \in Types \/ t = "PROPRIETARY"
  BY <1>1, <1>2, <1>3
<1>5. QED
  BY <1>4 DEF t

\* Numbers joined: where each of them is.
TwoPieces(p, a, l, c, m, k) == Size(p, k) /\ HasAt(p, 0, a) /\ HasAt(p, l, c)

LEMMA PiecesOfTwo ==
    ASSUME NEW a, NEW l, Size(a, l), NEW c, NEW m, Size(c, m), NEW k, k = l + m
    PROVE  TwoPieces(a \o c, a, l, c, m, k)
<1>1. Both(a \o c, a, c, l, k)
  BY HasJoined
<1>2. QED
  BY <1>1 DEF Both, TwoPieces

LEMMA SingleSize ==
    ASSUME NEW t, NEW p, NEW v, NEW l, NEW x, SingleForm(t, p, v, l, x)
    PROVE  l \in 1..4 /\ x \in Unsigned(l) /\ Size(p, l) /\ HasAt(p, 0, LE(x, l))
<1>1. l \in 1..4 /\ x \in Unsigned(l) /\ p = LE(x, l)
  BY DEF SingleForm
<1>2. Size(LE(x, l), l)
  BY <1>1, NumberBack
<1> DEFINE e == LE(x, l)
<1> HIDE DEF e
<1>3. Size(e, l) => HasAt(e, 0, e)
  BY DEF Size, HasAt
<1>4. QED
  BY <1>1, <1>2, <1>3 DEF e

DoubleSized(p, l, x, m, y, k) ==
    /\ l \in 1..4 /\ x \in Unsigned(l) /\ m \in 1..4 /\ y \in Unsigned(m) /\ k = l + m
    /\ Size(p, k) /\ HasAt(p, 0, LE(x, l)) /\ HasAt(p, l, LE(y, m))

LEMMA DoubleSize ==
    ASSUME NEW t, NEW p, NEW v, NEW l, NEW x, NEW m, NEW y, DoubleForm(t, p, v, l, x, m, y)
    PROVE  DoubleSized(p, l, x, m, y, l + m)
<1> DEFINE a == LE(x, l)
           c == LE(y, m)
           k == l + m
<1>1. l \in 1..4 /\ x \in Unsigned(l) /\ m \in 1..4 /\ y \in Unsigned(m) /\ p = a \o c
  BY DEF DoubleForm
<1>2. Size(a, l) /\ Size(c, m)
  BY <1>1, NumberBack
<1> HIDE DEF a, c
<1>3. TwoPieces(a \o c, a, l, c, m, k)
  BY <1>2, PiecesOfTwo
<1>4. QED
  BY <1>1, <1>3 DEF TwoPieces, DoubleSized, a, c

TripleSized(p, l, x, m, y, n, z, j, k) ==
    /\ l \in 1..4 /\ x \in Unsigned(l) /\ m \in 1..4 /\ y \in Unsigned(m)
    /\ n \in 1..4 /\ z \in Unsigned(n) /\ j = l + m /\ k = j + n
    /\ Size(p, k) /\ HasAt(p, 0, LE(x, l)) /\ HasAt(p, l, LE(y, m)) /\ HasAt(p, j, LE(z, n))

LEMMA TripleSize ==
    ASSUME NEW t, NEW p, NEW v, NEW l, NEW x, NEW m, NEW y, NEW n, NEW z,
           TripleForm(t, p, v, l, x, m, y, n, z)
    PROVE  TripleSized(p, l, x, m, y, n, z, l + m, (l + m) + n)
<1> DEFINE a == LE(x, l)
           c == LE(y, m)
           e == LE(z, n)
           j == l + m
           k == j + n
           ac == a \o c
<1>1. /\ l \in 1..4 /\ x \in Unsigned(l) /\ m \in 1..4 /\ y \in Unsigned(m)
      /\ n \in 1..4 /\ z \in Unsigned(n) /\ p = ac \o e
  BY DEF TripleForm
<1>2. Size(a, l) /\ Size(c, m) /\ Size(e, n)
  BY <1>1, NumberBack
<1> HIDE DEF a, c, e
<1>3. TwoPieces(ac, a, l, c, m, j)
  BY <1>2, PiecesOfTwo
<1>4. Size(ac, j) /\ HasAt(ac, 0, a) /\ HasAt(ac, l, c)
  BY <1>3 DEF TwoPieces
<1> HIDE DEF ac
<1>5. TwoPieces(ac \o e, ac, j, e, n, k)
  BY <1>2, <1>4, PiecesOfTwo
<1>6. Size(p, k) /\ HasAt(p, 0, ac) /\ HasAt(p, j, e)
  BY <1>1, <1>5 DEF TwoPieces
<1>7. HasAt(p, 0, a) /\ HasAt(p, l, c)
  <2>1. 0 \in Nat /\ l \in Nat
    BY <1>1
  <2>2. HasAt(p, 0, a)
    BY <1>4, <1>6, <2>1, HasStill
  <2>3. HasAt(p, l, c)
    BY <1>4, <1>6, <2>1, HasStill
  <2>4. QED
    BY <2>2, <2>3
<1>8. QED
  BY <1>1, <1>6, <1>7 DEF TripleSized, a, c, e

\* A number that is there is read.
LEMMA FoundAt ==
    ASSUME NEW b, NEW k, Size(b, k), NEW p \in Nat, NEW l \in 1..4, NEW x \in Unsigned(l),
           HasAt(b, p, LE(x, l)), NEW q, q = p + l
    PROVE  Found(b, p, l, x, q)
<1> DEFINE a == LE(x, l)
<1>1. Size(a, l) /\ Number(a) = x
  BY NumberBack
<1> HIDE DEF a
<1>2. HasAt(b, p, a)
  BY DEF a
<1>3. Slice(b, p, l, a)
  BY <1>1, <1>2, SliceIs
<1>4. b \in Seq(Int) /\ p + l <= Len(b) /\ l \in Nat
  BY <1>1, <1>2 DEF Size, HasAt
<1>5. Read(At(b, p), l) = At(b, p + l) /\ Got(At(b, p), l) = Number(SubSeq(b, p + 1, p + l))
  BY <1>4, ReadAt
<1>6. QED
  BY <1>1, <1>3, <1>5 DEF Slice, Found

\* The numbers of a payload that is there are read.
ReadWhole(b, p, t, v, q) ==
    \E o : ReadNumbers(At(b, p), Layout(t)) = Outcome(At(b, q), o) /\ Meant(t, o, v)

LEMMA HasPart ==
    ASSUME NEW b, NEW k, Size(b, k), NEW a, NEW c, NEW p \in Nat, NEW n \in Nat, HasAt(b, p, a),
           HasAt(a, n, c), NEW r, r = p + n
    PROVE  HasAt(b, r, c)
<1>1. Len(b) \in Nat
  BY DEF Size
<1>2. QED
  BY <1>1, HasWithin, SMTT(30)

LEMMA StandsAt ==
    ASSUME NEW b, NEW k, Size(b, k), NEW p \in Nat, NEW a, HasAt(b, p, a)
    PROVE  At(b, p) \in Strm
<1>1. b \in Seq(Int) /\ Len(b) \in Nat /\ Len(a) \in Nat /\ p + Len(a) <= Len(b)
  BY DEF Size, HasAt
<1>2. p <= Len(b)
  BY <1>1
<1>3. QED
  BY <1>1, <1>2, AtFacts

LEMMA SingleRead ==
    ASSUME NEW b, NEW k, Size(b, k), NEW p \in Nat, NEW pay, HasAt(b, p, pay), NEW q,
           q = p + Len(pay), NEW t, NEW v, NEW l, NEW x, SingleForm(t, pay, v, l, x)
    PROVE  ReadWhole(b, p, t, v, q)
<1>1. l \in 1..4 /\ x \in Unsigned(l) /\ Size(pay, l)
  BY SingleSize, Zenon
<1>2. pay = LE(x, l) /\ Layout(t) = <<l>> /\ Meant(t, One(x), v)
  BY DEF SingleForm
<1>3. q = p + l
  BY <1>1 DEF Size
<1>4. Found(b, p, l, x, q)
  BY <1>1, <1>2, <1>3, FoundAt
<1>5. At(b, p) \in Strm
  BY StandsAt, Zenon
<1>6. OneRead(b, p, l, x, q)
  BY <1>1, <1>4, <1>5, OneFound, Zenon
<1>7. QED
  BY <1>2, <1>6 DEF ReadWhole, OneRead

LEMMA DoubleRead ==
    ASSUME NEW b, NEW k, Size(b, k), NEW p \in Nat, NEW pay, HasAt(b, p, pay), NEW q,
           q = p + Len(pay), NEW t, NEW v, NEW l, NEW x, NEW m, NEW y,
           DoubleForm(t, pay, v, l, x, m, y)
    PROVE  ReadWhole(b, p, t, v, q)
<1> DEFINE p2 == p + l
<1>1. DoubleSized(pay, l, x, m, y, l + m)
  BY DoubleSize, Zenon
<1>2. Layout(t) = <<l, m>> /\ Meant(t, Two(x, y), v)
  BY DEF DoubleForm
<1>3. /\ l \in 1..4 /\ x \in Unsigned(l) /\ m \in 1..4 /\ y \in Unsigned(m) /\ l \in Nat
      /\ HasAt(pay, 0, LE(x, l)) /\ HasAt(pay, l, LE(y, m)) /\ Len(pay) = l + m
  BY <1>1 DEF DoubleSized, Size
<1>4. p2 \in Nat /\ p = p + 0 /\ q = p2 + m /\ 0 \in Nat
  BY <1>3
<1>5. Found(b, p, l, x, p2)
  <2>1. HasAt(b, p, LE(x, l))
    BY <1>3, <1>4, HasPart
  <2>2. QED
    BY <1>3, <2>1, FoundAt
<1>6. Found(b, p2, m, y, q)
  <2>1. HasAt(b, p2, LE(y, m))
    BY <1>3, HasPart
  <2> HIDE DEF p2
  <2>2. QED
    BY <1>3, <1>4, <2>1, FoundAt
<1>7. At(b, p) \in Strm
  BY StandsAt, Zenon
<1> HIDE DEF p2
<1>8. TwoRead(b, p, l, x, m, y, q)
  BY <1>3, <1>5, <1>6, <1>7, TwoFound, Zenon
<1>9. QED
  BY <1>2, <1>8 DEF ReadWhole, TwoRead

LEMMA TripleRead ==
    ASSUME NEW b, NEW k, Size(b, k), NEW p \in Nat, NEW pay, HasAt(b, p, pay), NEW q,
           q = p + Len(pay), NEW t, NEW v, NEW l, NEW x, NEW m, NEW y, NEW n, NEW z,
           TripleForm(t, pay, v, l, x, m, y, n, z)
    PROVE  ReadWhole(b, p, t, v, q)
<1> DEFINE p2 == p + l
           j  == l + m
           p3 == p2 + m
<1>1. TripleSized(pay, l, x, m, y, n, z, l + m, (l + m) + n)
  BY TripleSize, Zenon
<1>2. Layout(t) = <<l, m, n>> /\ Meant(t, Three(x, y, z), v)
  BY DEF TripleForm
<1>3. /\ l \in 1..4 /\ x \in Unsigned(l) /\ m \in 1..4 /\ y \in Unsigned(m) /\ l \in Nat
      /\ n \in 1..4 /\ z \in Unsigned(n) /\ j \in Nat
      /\ HasAt(pay, 0, LE(x, l)) /\ HasAt(pay, l, LE(y, m)) /\ HasAt(pay, j, LE(z, n))
      /\ Len(pay) = j + n
  BY <1>1 DEF TripleSized, Size
<1>4. p2 \in Nat /\ p3 \in Nat /\ p = p + 0 /\ q = p3 + n /\ 0 \in Nat /\ p3 = p + j
  BY <1>3
<1>5. Found(b, p, l, x, p2)
  <2>1. HasAt(b, p, LE(x, l))
    BY <1>3, <1>4, HasPart
  <2>2. QED
    BY <1>3, <2>1, FoundAt
<1>6. Found(b, p2, m, y, p3)
  <2>1. HasAt(b, p2, LE(y, m))
    BY <1>3, HasPart
  <2> HIDE DEF p2
  <2>2. QED
    BY <1>3, <1>4, <2>1, FoundAt
<1>7. Found(b, p3, n, z, q)
  <2> HIDE DEF j, p3
  <2>1. HasAt(b, p3, LE(z, n))
    BY <1>3, <1>4, HasPart
  <2>2. QED
    BY <1>3, <1>4, <2>1, FoundAt
<1>8. At(b, p) \in Strm
  BY StandsAt, Zenon
<1> HIDE DEF p2, p3, j
<1>9. ThreeRead(b, p, l, x, m, y, n, z, q)
  BY <1>3, <1>5, <1>6, <1>7, <1>8, ThreeFound, Zenon
<1>10. QED
  BY <1>2, <1>9 DEF ReadWhole, ThreeRead

LEMMA BareRead ==
    ASSUME NEW b, NEW k, Size(b, k), NEW p \in Nat, NEW pay, HasAt(b, p, pay), NEW q,
           q = p + Len(pay), NEW t, NEW v, BareForm(t, pay, v)
    PROVE  ReadWhole(b, p, t, v, q)
<1>1. Layout(t) = <<>> /\ pay = <<>> /\ Meant(t, <<>>, v)
  BY DEF BareForm
<1>2. q = p
  BY <1>1
<1>3. At(b, p) \in Strm
  BY StandsAt, Zenon
<1>4. 1 \in 1..4
  OBVIOUS
<1>5. Numbered(At(b, p), 1, 1, 1)
  BY <1>3, <1>4, FewNumbers
<1>6. ReadNumbers(At(b, p), Layout(t)) = Outcome(At(b, q), <<>>)
  BY <1>1, <1>2, <1>5 DEF Numbered, Fresh
<1>7. QED
  BY <1>1, <1>6 DEF ReadWhole

LEMMA PayloadRead ==
    ASSUME NEW b, NEW k, Size(b, k), NEW p \in Nat, NEW pay, HasAt(b, p, pay), NEW q,
           q = p + Len(pay), NEW t, NEW v, Formed(t, pay, v)
    PROVE  ReadWhole(b, p, t, v, q)
<1>1. ASSUME NEW l, NEW x, SingleForm(t, pay, v, l, x) PROVE ReadWhole(b, p, t, v, q)
  BY <1>1, SingleRead, ZenonT(30)
<1>2. ASSUME NEW l, NEW x, NEW m, NEW y, DoubleForm(t, pay, v, l, x, m, y)
      PROVE  ReadWhole(b, p, t, v, q)
  BY <1>2, DoubleRead, ZenonT(30)
<1>3. ASSUME NEW l, NEW x, NEW m, NEW y, NEW n, NEW z, TripleForm(t, pay, v, l, x, m, y, n, z)
      PROVE  ReadWhole(b, p, t, v, q)
  BY <1>3, TripleRead, ZenonT(30)
<1>4. ASSUME BareForm(t, pay, v) PROVE ReadWhole(b, p, t, v, q)
  BY <1>4, BareRead, ZenonT(30)
<1>5. QED
  BY <1>1, <1>2, <1>3, <1>4, Zenon DEF Formed

LEMMA FormedSize ==
    ASSUME NEW t, NEW p, NEW v, Formed(t, p, v)
    PROVE  \E n \in Nat : Size(p, n)
<1>1. ASSUME NEW l, NEW x, SingleForm(t, p, v, l, x) PROVE \E n \in Nat : Size(p, n)
  <2>1. l \in 1..4 /\ Size(p, l)
    BY <1>1, SingleSize, Zenon
  <2>2. QED
    BY <2>1
<1>2. ASSUME NEW l, NEW x, NEW m, NEW y, DoubleForm(t, p, v, l, x, m, y)
      PROVE  \E n \in Nat : Size(p, n)
  <2>1. DoubleSized(p, l, x, m, y, l + m)
    BY <1>2, DoubleSize, Zenon
  <2>2. QED
    BY <2>1 DEF DoubleSized
<1>3. ASSUME NEW l, NEW x, NEW m, NEW y, NEW n, NEW z, TripleForm(t, p, v, l, x, m, y, n, z)
      PROVE  \E i \in Nat : Size(p, i)
  <2>1. TripleSized(p, l, x, m, y, n, z, l + m, (l + m) + n)
    BY <1>3, TripleSize, Zenon
  <2>2. QED
    BY <2>1 DEF TripleSized
<1>4. ASSUME BareForm(t, p, v) PROVE \E n \in Nat : Size(p, n)
  BY <1>4 DEF BareForm, Size
<1>5. QED
  BY <1>1, <1>2, <1>3, <1>4, Zenon DEF Formed

\* A payload that is cut is not read.
LEMMA CutFails ==
    ASSUME NEW b, NEW k, Size(b, k), NEW p \in Nat, p <= k,
           NEW l \in 1..4, NEW m \in 1..4, NEW n \in 1..4
    PROVE  /\ p + l > k => Fails(At(b, p), <<l>>)
           /\ p + (l + m) > k => Fails(At(b, p), <<l, m>>)
           /\ p + ((l + m) + n) > k => Fails(At(b, p), <<l, m, n>>)
<1> DEFINE s == At(b, p)
<1>1. b \in Seq(Int) /\ Len(b) = k /\ k \in Nat
  BY DEF Size
<1>2. OnlyAt(s, b, p)
  <2>1. s \in Strm /\ s.buf = b /\ s.pos = p
    BY <1>1, AtFacts
  <2>2. QED
    BY <1>1, <2>1 DEF OnlyAt
<1> HIDE DEF s
<1>3. FailsShort(s, b, p, l, m, n)
  BY <1>1, <1>2, FewFail
<1>4. p + (l + m) = p + l + m /\ p + ((l + m) + n) = p + l + m + n
  OBVIOUS
<1>5. QED
  BY <1>1, <1>3, <1>4 DEF s, FailsShort

LEMMA PayloadCut ==
    ASSUME NEW b, NEW k, Size(b, k), NEW p \in Nat, p <= k, NEW pay, p + Len(pay) > k,
           NEW t, NEW v, Formed(t, pay, v)
    PROVE  Fails(At(b, p), Layout(t))
<1> DEFINE s == At(b, p)
<1> HIDE DEF s
<1>0. k \in Nat /\ 1 \in 1..4
  BY DEF Size
<1>1. ASSUME NEW l, NEW x, SingleForm(t, pay, v, l, x) PROVE Fails(s, Layout(t))
  <2>1. l \in 1..4 /\ Size(pay, l)
    BY <1>1, SingleSize, Zenon
  <2>2. Layout(t) = <<l>>
    BY <1>1 DEF SingleForm
  <2>3. p + l > k
    BY <2>1 DEF Size
  <2>4. Fails(s, <<l>>)
    BY <2>1, <2>3, CutFails DEF s
  <2>5. QED
    BY <2>2, <2>4
<1>2. ASSUME NEW l, NEW x, NEW m, NEW y, DoubleForm(t, pay, v, l, x, m, y)
      PROVE  Fails(s, Layout(t))
  <2>1. DoubleSized(pay, l, x, m, y, l + m)
    BY <1>2, DoubleSize, Zenon
  <2>2. Layout(t) = <<l, m>>
    BY <1>2 DEF DoubleForm
  <2>3. l \in 1..4 /\ m \in 1..4 /\ p + (l + m) > k
    BY <2>1 DEF DoubleSized, Size
  <2>4. Fails(s, <<l, m>>)
    BY <2>3, CutFails DEF s
  <2>5. QED
    BY <2>2, <2>4
<1>3. ASSUME NEW l, NEW x, NEW m, NEW y, NEW n, NEW z, TripleForm(t, pay, v, l, x, m, y, n, z)
      PROVE  Fails(s, Layout(t))
  <2>1. TripleSized(pay, l, x, m, y, n, z, l + m, (l + m) + n)
    BY <1>3, TripleSize, Zenon
  <2>2. Layout(t) = <<l, m, n>>
    BY <1>3 DEF TripleForm
  <2>3. l \in 1..4 /\ m \in 1..4 /\ n \in 1..4 /\ p + ((l + m) + n) > k
    BY <2>1 DEF TripleSized, Size
  <2>4. Fails(s, <<l, m, n>>)
    BY <2>3, CutFails DEF s
  <2>5. QED
    BY <2>2, <2>4
<1>4. ~BareForm(t, pay, v)
  BY <1>0 DEF BareForm
<1>5. Fails(s, Layout(t))
  BY <1>1, <1>2, <1>3, <1>4, Zenon DEF Formed
<1>6. QED
  BY <1>5 DEF s

\* What is handed over of a command.
Handed(t, r) ==
    IF r.s.error THEN [ok |-> FALSE, s |-> r.s]
    ELSE [ok |-> TRUE, s |-> r.s, type |-> t, fields |-> Fields(t, r.out)]

LEMMA TagIs ==
    ASSUME NEW t \in Types
    PROVE  TagToType(Cid(t)) = t /\ t # "NONE" /\ Cid(t) \in 2..15
<1>1. PICK i \in 1..14 : t = CommandTypes[i]
  BY DEF Types
<1>2. QED
  BY <1>1, Tags

LEMMA TagRead ==
    ASSUME NEW b, NEW k, Size(b, k), NEW p \in Nat, p < k, NEW t \in Types, b[p + 1] = Cid(t),
           NEW p1, p1 = p + 1
    PROVE  /\ PeekNext(At(b, p)) = {t}
           /\ GetDownCommand(At(b, p)) = Handed(t, ReadNumbers(At(b, p1), Layout(t)))
<1> DEFINE s == At(b, p)
           r == ReadNumbers(At(b, p1), Layout(t))
<1>1. b \in Seq(Int) /\ Len(b) = k /\ k \in Nat
  BY DEF Size
<1>2. Read(s, 1) = At(b, p1) /\ Got(s, 1) = Cid(t)
  BY <1>1, ByteAt
<1>3. Fits(s, 1) /\ Peek(s) = {Cid(t)}
  <2>1. ~s.error /\ s.pos = p /\ s.buf = b
    BY DEF At
  <2> HIDE DEF s
  <2>2. Remaining(s) = k - p
    BY <1>1, <2>1 DEF Remaining
  <2>3. QED
    BY <1>1, <2>1, <2>2 DEF Fits, Peek
<1>4. TagToType(Cid(t)) = t /\ t # "NONE"
  BY TagIs
<1> HIDE DEF s
<1>5. PeekNext(s) = {t}
  BY <1>3, <1>4 DEF PeekNext
<1>6. GetDownCommand(s) = Handed(t, r)
  BY <1>2, <1>3, <1>4, Zenon DEF GetDownCommand, Handed
<1>7. QED
  BY <1>5, <1>6 DEF s, r

\* A command of a network, byte by byte: its identifier, and its payload.
PayloadOf(c) == NetworkPayload(c.type, c.fields)

CommandParts(c) ==
    \E n \in Nat : /\ Size(PayloadOf(c), n) /\ Size(NetworkCommand(c), 1 + n)
                   /\ NetworkCommand(c)[1] = Cid(c.type)
                   /\ HasAt(NetworkCommand(c), 1, PayloadOf(c))

LEMMA PartsOfCommand ==
    ASSUME NEW c \in CommandType
    PROVE  CommandParts(c)
<1> DEFINE t == c.type
           v == c.fields
           pay == PayloadOf(c)
           h == <<Cid(t)>>
           all == NetworkCommand(c)
<1>1. Cid(t) \in Int
  <2>1. t \in Types \/ t = "PROPRIETARY"
    BY KnownType
  <2> HIDE DEF t
  <2>2. CASE t \in Types
    BY <2>2, TagIs
  <2>3. CASE t = "PROPRIETARY"
    BY <2>3 DEF Cid
  <2>4. QED
    BY <2>1, <2>2, <2>3
<1>2. \E n \in Nat : Size(pay, n)
  <2>1. CASE t = "PROPRIETARY"
    <3>1. Coded(t, v, pay)
      BY NetworkPayloadIs, Zenon DEF PayloadOf
    <3> HIDE DEF t, pay, v
    <3>2. pay = <<>>
      BY <2>1, <3>1, Zenon DEF Coded
    <3>3. QED
      BY <3>2 DEF Size
  <2>2. CASE t # "PROPRIETARY"
    <3>1. Formed(t, pay, v)
      BY <2>2, CommandFormed, Zenon DEF PayloadOf
    <3>2. QED
      BY <3>1, FormedSize, Zenon
  <2>3. QED
    BY <2>1, <2>2
<1>3. PICK n \in Nat : Size(pay, n)
  BY <1>2
<1>4. all = h \o pay
  BY Zenon DEF NetworkCommand, PayloadOf
<1>5. Size(h, 1) /\ h[1] = Cid(t)
  BY <1>1 DEF Size
<1> DEFINE k == 1 + n
           id == Cid(t)
<1> HIDE DEF h, pay
<1>6. Both(h \o pay, h, pay, 1, k)
  BY <1>3, <1>5, HasJoined
<1>7. Size(all, k) /\ HasAt(all, 1, pay) /\ HasAt(all, 0, h)
  BY <1>4, <1>6 DEF Both
<1> HIDE DEF all, id
<1>8. all[1] = id
  <2>1. 1 \in 1..Len(h)
    BY <1>5 DEF Size
  <2>2. all[0 + 1] = h[1]
    BY <1>7, <2>1 DEF HasAt
  <2>3. QED
    BY <1>5, <2>2 DEF id
<1>9. QED
  BY <1>3, <1>7, <1>8 DEF CommandParts, all, pay, id

\* A command that is there is read.
CommandRead(b, p, c, q) ==
    LET r == GetDownCommand(At(b, p))
    IN /\ r.ok = TRUE /\ r.s = At(b, q) /\ r.type = c.type
       /\ c.type # "RX_PARAM_SETUP" => r.fields = c.fields
       /\ PeekNext(At(b, p)) = {c.type}

LEMMA HandedOver ==
    ASSUME NEW t, NEW b, NEW q, NEW o
    PROVE  Handed(t, Outcome(At(b, q), o)) =
               [ok |-> TRUE, s |-> At(b, q), type |-> t, fields |-> Fields(t, o)]
BY DEF Handed, Outcome, At

LEMMA ReadsCommand ==
    ASSUME NEW b, NEW k, Size(b, k), NEW p \in Nat, NEW c \in CommandType,
           c.type # "PROPRIETARY", HasAt(b, p, NetworkCommand(c)),
           NEW q, q = p + Len(NetworkCommand(c))
    PROVE  CommandRead(b, p, c, q)
<1> DEFINE t == c.type
           v == c.fields
           pay == PayloadOf(c)
           all == NetworkCommand(c)
           p1 == p + 1
           id == Cid(t)
<1>1. PICK n \in Nat : /\ Size(pay, n) /\ Size(all, 1 + n)
                       /\ all[1] = id /\ HasAt(all, 1, pay)
  BY PartsOfCommand DEF CommandParts
<1>2. t \in Types
  BY KnownType
<1>3. Formed(t, pay, v)
  BY CommandFormed, Zenon DEF PayloadOf
<1> HIDE DEF t, v, pay, all, id
<1>4. HasAt(b, p, all) /\ q = p + Len(all) /\ Len(all) = 1 + n /\ Len(pay) = n /\ Len(b) = k
      /\ k \in Nat
  BY <1>1 DEF all, Size
<1>5. p < k /\ p1 \in Nat /\ q = p1 + Len(pay)
  <2>1. p + Len(all) <= k
    BY <1>4 DEF HasAt
  <2>2. QED
    BY <1>4, <2>1
<1>6. b[p1] = id
  <2>1. 1 \in 1..Len(all)
    BY <1>4
  <2>2. b[p + 1] = all[1]
    BY <1>4, <2>1 DEF HasAt
  <2>3. QED
    BY <1>1, <2>2
<1>7. HasAt(b, p1, pay)
  BY <1>1, <1>4, HasPart, 1 \in Nat
<1>8. PeekNext(At(b, p)) = {t}
      /\ GetDownCommand(At(b, p)) = Handed(t, ReadNumbers(At(b, p1), Layout(t)))
  BY <1>2, <1>5, <1>6, TagRead DEF id
<1> HIDE DEF p1
<1>9. ReadWhole(b, p1, t, v, q)
  BY <1>3, <1>5, <1>7, PayloadRead
<1>10. PICK o : ReadNumbers(At(b, p1), Layout(t)) = Outcome(At(b, q), o) /\ Meant(t, o, v)
  BY <1>9 DEF ReadWhole
<1>11. GetDownCommand(At(b, p)) = [ok |-> TRUE, s |-> At(b, q), type |-> t, fields |-> Fields(t, o)]
  BY <1>8, <1>10, HandedOver
<1>12. CommandRead(b, p, c, q)
  <2> DEFINE r == GetDownCommand(At(b, p))
  <2>1. r.ok = TRUE /\ r.s = At(b, q) /\ r.type = t /\ r.fields = Fields(t, o)
    BY <1>11
  <2>2. t # "RX_PARAM_SETUP" => r.fields = v
    BY <1>10, <2>1 DEF Meant
  <2> HIDE DEF r
  <2>3. /\ r.ok = TRUE /\ r.s = At(b, q) /\ r.type = c.type
        /\ c.type # "RX_PARAM_SETUP" => r.fields = c.fields
    BY <2>1, <2>2 DEF t, v
  <2>4. PeekNext(At(b, p)) = {c.type}
    BY <1>8 DEF t
  <2>5. QED
    BY <2>3, <2>4 DEF CommandRead, r
<1>13. QED
  BY <1>12

\* One that is cut short, unknown or not there is not.
LEMMA ShortCommand ==
    ASSUME NEW b, NEW k, Size(b, k), NEW p \in Nat, p < k, NEW c \in CommandType,
           c.type # "PROPRIETARY", b[p + 1] = Cid(c.type), p + Len(NetworkCommand(c)) > k
    PROVE  GetDownCommand(At(b, p)).ok = FALSE
<1> DEFINE t == c.type
           v == c.fields
           pay == PayloadOf(c)
           all == NetworkCommand(c)
           p1 == p + 1
           id == Cid(t)
           r == ReadNumbers(At(b, p1), Layout(t))
<1>1. PICK n \in Nat : Size(pay, n) /\ Size(all, 1 + n)
  BY PartsOfCommand DEF CommandParts
<1>2. t \in Types
  BY KnownType
<1>3. Formed(t, pay, v)
  BY CommandFormed, Zenon DEF PayloadOf
<1>4. b[p1] = id
  OBVIOUS
<1>5. p + Len(all) > k
  OBVIOUS
<1> HIDE DEF t, v, pay, all, id
<1>6. Len(all) = 1 + n /\ Len(pay) = n /\ k \in Nat
  BY <1>1 DEF Size
<1>7. p1 \in Nat /\ p1 <= k /\ p1 + Len(pay) > k
  BY <1>5, <1>6
<1>8. GetDownCommand(At(b, p)) = Handed(t, r)
  BY <1>2, <1>4, TagRead DEF id
<1> HIDE DEF p1, r
<1>9. r.s.error = TRUE
  <2>1. Fails(At(b, p1), Layout(t))
    BY <1>3, <1>7, PayloadCut
  <2>2. QED
    BY <2>1 DEF Fails, r
<1>10. Handed(t, r) = [ok |-> FALSE, s |-> r.s]
  BY <1>9 DEF Handed
<1>11. GetDownCommand(At(b, p)).ok = FALSE
  BY <1>8, <1>10
<1>12. QED
  BY <1>11

LEMMA UnknownTag ==
    ASSUME NEW b, NEW k, Size(b, k), NEW p \in Nat, p < k, b[p + 1] = Cid("PROPRIETARY")
    PROVE  GetDownCommand(At(b, p)).ok = FALSE
<1> DEFINE s == At(b, p)
<1>1. b \in Seq(Int) /\ Len(b) = k /\ k \in Nat
  BY DEF Size
<1>2. Got(s, 1) = 99
  <2>1. Got(s, 1) = b[p + 1]
    BY <1>1, ByteAt
  <2>2. QED
    BY <2>1 DEF Cid
<1>3. TagToType(99) = "NONE"
  BY DEF TagToType, CommandTypes
<1> HIDE DEF s
<1>4. GetDownCommand(s) = [ok |-> FALSE, s |-> Read(s, 1)]
  BY <1>2, <1>3 DEF GetDownCommand
<1>5. QED
  BY <1>4 DEF s

LEMMA NothingLeft ==
    ASSUME NEW b, NEW k, Size(b, k)
    PROVE  GetDownCommand(At(b, k)).ok = FALSE
<1> DEFINE s == At(b, k)
<1>1. Len(b) = k /\ k \in Nat
  BY DEF Size
<1>2. s.pos = k /\ s.buf = b
  BY DEF At
<1> HIDE DEF s
<1>3. ~Fits(s, 1)
  BY <1>1, <1>2 DEF Fits, Remaining
<1>4. GetDownCommand(s) = [ok |-> FALSE, s |-> Read(s, 1)]
  BY <1>3 DEF GetDownCommand
<1>5. QED
  BY <1>4 DEF s

\* How many bytes the first n commands take.
Upto(cs, n) == Len(NetworkCommands(SubSeq(cs, 1, n)))

CommandsOf(cs) == [i \in DOMAIN cs |-> NetworkCommand(cs[i])]

LEMMA CommandsOfAre ==
    ASSUME NEW cs \in Seq(CommandType)
    PROVE  /\ CommandsOf(cs) \in Seq(Seq(Int)) /\ Len(CommandsOf(cs)) = Len(cs)
           /\ \A n \in 1..Len(cs) : CommandsOf(cs)[n] = NetworkCommand(cs[n])
<1>1. CommandsOf(cs) \in Seq(Seq(Int))
  BY CommandsAre DEF CommandsOf
<1>2. DOMAIN cs = 1..Len(cs) /\ Len(cs) \in Nat
  OBVIOUS
<1>3. DOMAIN CommandsOf(cs) = 1..Len(cs)
  BY <1>2 DEF CommandsOf
<1>4. Len(CommandsOf(cs)) = Len(cs)
  BY <1>1, <1>2, <1>3
<1>5. QED
  BY <1>1, <1>2, <1>4 DEF CommandsOf

\* The strings of the commands are those of their prefixes.
LEMMA PrefixStrung ==
    ASSUME NEW cs \in Seq(CommandType), NEW w, Strung(w, CommandsOf(cs)), NEW n \in 0..Len(cs)
    PROVE  NetworkCommands(SubSeq(cs, 1, n)) = w[n]
<1> DEFINE pre == SubSeq(cs, 1, n)
           a == CommandsOf(cs)
           b == CommandsOf(pre)
           v == [i \in 0..n |-> w[i]]
           N == Len(cs)
<1>1. N \in Nat /\ n \in Nat /\ n <= N /\ n \in Int
  OBVIOUS
<1>2. pre \in Seq(CommandType) /\ Len(pre) = n /\ \A i \in 1..n : pre[i] = cs[i]
  BY <1>1
<1> HIDE DEF pre
<1>3. /\ a \in Seq(Seq(Int)) /\ Len(a) = N /\ b \in Seq(Seq(Int)) /\ Len(b) = n
      /\ \A i \in 1..N : a[i] = NetworkCommand(cs[i])
      /\ \A i \in 1..n : b[i] = NetworkCommand(pre[i])
  BY <1>2, CommandsOfAre
<1>4. NetworkCommands(pre) = FlattenSeq(b)
  BY DEF NetworkCommands, CommandsOf
<1> HIDE DEF a, b, N
<1>5. w \in [0..N -> Seq(Int)] /\ w[0] = <<>> /\ \A i \in 1..N : w[i] = w[i - 1] \o a[i]
  BY <1>3 DEF Strung, a
<1>6. \A i \in 1..n : b[i] = a[i]
  <2> TAKE i \in 1..n
  <2>1. i \in 1..N
    BY <1>1
  <2>2. b[i] = NetworkCommand(pre[i]) /\ a[i] = NetworkCommand(cs[i]) /\ pre[i] = cs[i]
    BY <1>2, <1>3, <2>1
  <2>3. QED
    BY <2>2
<1>7. Strung(v, b)
  <2>1. v \in [0..n -> Seq(Int)] /\ v[0] = <<>>
    BY <1>1, <1>5
  <2>2. ASSUME NEW i \in 1..n PROVE v[i] = v[i - 1] \o b[i]
    <3>1. i \in 0..n /\ i - 1 \in 0..n /\ i \in 1..N
      BY <1>1
    <3>2. v[i] = w[i] /\ v[i - 1] = w[i - 1]
      BY <3>1
    <3> HIDE DEF v
    <3>3. QED
      BY <1>5, <1>6, <3>1, <3>2
  <2> HIDE DEF v
  <2>3. QED
    BY <1>3, <2>1, <2>2 DEF Strung
<1>8. v[n] = w[n]
  BY <1>1
<1> HIDE DEF v
<1>9. FlattenSeq(b) = v[Len(b)]
  BY <1>3, <1>7, Flattened
<1>10. NetworkCommands(pre) = w[n]
  BY <1>3, <1>4, <1>8, <1>9
<1>11. QED
  BY <1>10 DEF pre

\* Where the commands are in what is sent of all of them.
CommandsLaid(cs) ==
    LET all == NetworkCommands(cs)
    IN /\ Upto(cs, 0) = 0 /\ \A n \in 0..Len(cs) : Upto(cs, n) \in Nat
       /\ Size(all, Upto(cs, Len(cs)))
       /\ \A n \in 1..Len(cs) : /\ Upto(cs, n) = Upto(cs, n - 1) + Len(NetworkCommand(cs[n]))
                                /\ HasAt(all, Upto(cs, n - 1), NetworkCommand(cs[n]))

LEMMA LayingCommands ==
    ASSUME NEW cs \in Seq(CommandType)
    PROVE  CommandsLaid(cs)
<1> DEFINE N == Len(cs)
           a == CommandsOf(cs)
           all == NetworkCommands(cs)
<1>1. /\ N \in Nat /\ a \in Seq(Seq(Int)) /\ Len(a) = N
      /\ \A i \in 1..N : a[i] = NetworkCommand(cs[i])
  BY CommandsOfAre
<1> HIDE DEF a
<1>2. PICK w : Strung(w, a)
  BY <1>1, StringsExist
<1>3. \A n \in 0..N : Upto(cs, n) = Len(w[n])
  BY <1>2, PrefixStrung DEF Upto, a
<1>4. all = w[N]
  <2>1. SubSeq(cs, 1, N) = cs /\ N \in 0..N
    BY <1>1
  <2> HIDE DEF N
  <2>2. NetworkCommands(SubSeq(cs, 1, N)) = w[N]
    BY <1>2, <2>1, PrefixStrung DEF N, a
  <2>3. QED
    BY <2>1, <2>2
<1> HIDE DEF N, all
<1>5. w \in [0..N -> Seq(Int)] /\ w[0] = <<>> /\ \A i \in 1..N : w[i] = w[i - 1] \o a[i]
  BY <1>1, <1>2 DEF Strung
<1>6. \A n \in 0..N : w[n] \in Seq(Int) /\ Len(w[n]) \in Nat /\ Size(w[n], Len(w[n]))
  BY <1>5 DEF Size
<1>7. ASSUME NEW n \in 1..N
      PROVE  /\ n - 1 \in 0..N /\ n \in 0..N /\ Len(w[n]) = Len(w[n - 1]) + Len(a[n])
             /\ HasAt(w[n], Len(w[n - 1]), a[n]) /\ HasAt(w[n], 0, w[n - 1])
  <2> DEFINE x == w[n - 1]
             y == a[n]
             i == Len(x)
             j == Len(y)
             k == i + j
  <2>1. n - 1 \in 0..N /\ n \in 0..N
    BY <1>1
  <2>2. Size(x, i) /\ Size(y, j) /\ w[n] = x \o y
    <3>1. x \in Seq(Int)
      BY <1>6, <2>1
    <3>2. y \in Seq(Int)
      BY <1>1
    <3>3. w[n] = x \o y
      BY <1>5
    <3>4. QED
      BY <3>1, <3>2, <3>3 DEF Size
  <2> HIDE DEF x, y, i, j
  <2>3. Both(x \o y, x, y, i, k)
    BY <2>2, HasJoined
  <2>4. Size(w[n], k) /\ HasAt(w[n], i, y) /\ HasAt(w[n], 0, x)
    BY <2>2, <2>3 DEF Both
  <2>5. QED
    BY <2>1, <2>4 DEF Size, x, y, i, j
<1>8. ASSUME NEW n \in 1..N PROVE HasAt(w[N], Len(w[n - 1]), a[n])
  <2> DEFINE p == Len(w[n - 1])
             c == a[n]
             T == {m \in 0..N : n <= m => HasAt(w[m], p, c)}
  <2>1. p \in Nat /\ n \in Nat /\ n >= 1 /\ n <= N
    BY <1>1, <1>6, <1>7
  <2>2. HasAt(w[n], p, c)
    BY <1>7
  <2> HIDE DEF p, c
  <2>3. 0 \in T
    BY <1>1, <2>1
  <2>4. ASSUME NEW m \in 1..N, m - 1 \in T PROVE m \in T
    <3>0. m \in 0..N /\ m - 1 \in 0..N
      BY <1>7
    <3>1. CASE m < n
      BY <2>1, <3>0, <3>1
    <3>2. CASE m = n
      BY <2>2, <3>0, <3>2
    <3>3. CASE m > n
      <4>1. HasAt(w[m - 1], p, c)
        BY <2>1, <2>4, <3>0, <3>3
      <4>2. HasAt(w[m], 0, w[m - 1]) /\ Size(w[m], Len(w[m]))
        BY <1>6, <1>7, <3>0
      <4>3. HasAt(w[m], p, c)
        BY <2>1, <4>1, <4>2, HasStill
      <4>4. QED
        BY <3>0, <4>3
    <3>4. QED
      BY <2>1, <3>0, <3>1, <3>2, <3>3
  <2> HIDE DEF T
  <2>5. \A m \in 0..N : m \in T
    BY <1>1, <2>3, <2>4, UpTo
  <2>6. N \in T
    BY <1>1, <2>5
  <2>7. QED
    BY <2>1, <2>6 DEF T, p, c
<1>9. Upto(cs, 0) = 0 /\ \A n \in 0..N : Upto(cs, n) \in Nat
  <2>1. Len(w[0]) = 0 /\ 0 \in 0..N
    BY <1>1, <1>5
  <2>2. QED
    BY <1>3, <1>6, <2>1
<1>10. Size(all, Upto(cs, N))
  BY <1>1, <1>3, <1>4, <1>6
<1>11. ASSUME NEW n \in 1..N
       PROVE  /\ Upto(cs, n) = Upto(cs, n - 1) + Len(NetworkCommand(cs[n]))
              /\ HasAt(all, Upto(cs, n - 1), NetworkCommand(cs[n]))
  BY <1>1, <1>3, <1>4, <1>7, <1>8
<1>12. QED
  BY <1>9, <1>10, <1>11 DEF CommandsLaid, N, all

\* Every command has a byte at least, so that later commands are further on.
LEMMA CommandsRise ==
    ASSUME NEW cs \in Seq(CommandType), NEW n \in 0..Len(cs), NEW m \in 0..Len(cs), n < m
    PROVE  Upto(cs, n) < Upto(cs, m)
<1> DEFINE N == Len(cs)
           Pos(i) == Upto(cs, i)
           T == {i \in 0..N : n < i => Pos(n) < Pos(i)}
<1>1. N \in Nat
  OBVIOUS
<1>2. ASSUME NEW i \in 1..N PROVE Pos(i) = Pos(i - 1) + Len(NetworkCommand(cs[i]))
  BY LayingCommands DEF CommandsLaid
<1>3. ASSUME NEW i \in 1..N PROVE Len(NetworkCommand(cs[i])) \in Nat
             /\ Len(NetworkCommand(cs[i])) >= 1
  <2>1. cs[i] \in CommandType
    OBVIOUS
  <2>2. PICK k \in Nat : Size(NetworkCommand(cs[i]), 1 + k)
    BY <2>1, PartsOfCommand DEF CommandParts
  <2>3. QED
    BY <2>2 DEF Size
<1>4. \A i \in 0..N : Pos(i) \in Nat
  BY LayingCommands DEF CommandsLaid
<1> HIDE DEF N, Pos
<1>5. n \in 0..N /\ m \in 0..N
  BY DEF N
<1>6. 0 \in T
  BY <1>1, <1>5
<1>7. ASSUME NEW i \in 1..N, i - 1 \in T PROVE i \in T
  <2>1. i \in 0..N /\ i - 1 \in 0..N
    BY <1>1
  <2>2. Pos(i - 1) < Pos(i)
    BY <1>2, <1>3, <1>4, <2>1
  <2>3. n < i => n < i - 1 \/ n = i - 1
    BY <1>5, <2>1
  <2>4. n < i => Pos(n) < Pos(i)
    BY <1>4, <1>5, <1>7, <2>1, <2>2, <2>3
  <2>5. QED
    BY <2>1, <2>4
<1> HIDE DEF T
<1>8. \A i \in 0..N : i \in T
  BY <1>1, <1>6, <1>7, UpTo
<1>9. Pos(n) < Pos(m)
  BY <1>5, <1>8 DEF T
<1>10. QED
  BY <1>9 DEF Pos

\* The commands as far as they are sent.
CommandsSent(cs, m, k) ==
    /\ Size(m, k) /\ k <= Upto(cs, Len(cs))
    /\ \A n \in 1..Len(cs) :
          /\ Upto(cs, n) <= k => HasAt(m, Upto(cs, n - 1), NetworkCommand(cs[n]))
          /\ Upto(cs, n - 1) < k => m[Upto(cs, n - 1) + 1] = Cid(cs[n].type)

LEMMA SendingCommands ==
    ASSUME NEW cs \in Seq(CommandType), NEW k \in 0..Upto(cs, Len(cs))
    PROVE  CommandsSent(cs, SubSeq(NetworkCommands(cs), 1, k), k)
<1> DEFINE N == Len(cs)
           all == NetworkCommands(cs)
           m == SubSeq(all, 1, k)
           Pos(i) == Upto(cs, i)
           C(i) == NetworkCommand(cs[i])
           K == Pos(N)
<1>1. /\ \A n \in 0..N : Pos(n) \in Nat
      /\ Size(all, K)
      /\ \A n \in 1..N : Pos(n) = Pos(n - 1) + Len(C(n)) /\ HasAt(all, Pos(n - 1), C(n))
  BY LayingCommands DEF CommandsLaid
<1>2. k \in Nat /\ k <= K /\ N \in Nat
  OBVIOUS
<1> HIDE DEF all, Pos, C, K, N
<1>3. all \in Seq(Int) /\ Len(all) = K /\ K \in Nat
  BY <1>1 DEF Size
<1>4. Size(m, k) /\ \A i \in 1..k : m[i] = all[i]
  <2>1. k <= Len(all) /\ 1 \in Nat
    BY <1>2, <1>3
  <2>2. m \in Seq(Int) /\ Len(m) = IF 1 <= k THEN k ELSE 0
    BY <1>2, <1>3, CutShort
  <2>3. Len(m) = k
    BY <1>2, <2>2
  <2>4. \A i \in 1..k : m[i] = all[i]
    BY <1>2, <1>3
  <2>5. QED
    BY <2>2, <2>3, <2>4 DEF Size
<1> HIDE DEF m
<1>5. ASSUME NEW n \in 1..N, Pos(n) <= k PROVE HasAt(m, Pos(n - 1), C(n))
  <2> DEFINE p == Pos(n - 1)
             c == C(n)
             l == Len(c)
  <2>1. p \in Nat /\ Pos(n) = p + l /\ HasAt(all, p, c)
    BY <1>1, <1>2
  <2>2. c \in Seq(Int)
    BY <2>1 DEF HasAt
  <2>3. l \in Nat
    BY <2>2
  <2>4. \A i \in 1..l : all[p + i] = c[i]
    BY <2>1 DEF HasAt
  <2> HIDE DEF p, c, l
  <2>5. p + l <= k
    BY <1>5, <2>1
  <2>6. \A i \in 1..l : p + i \in 1..k
    BY <1>2, <2>1, <2>3, <2>5
  <2>7. Len(m) = k
    BY <1>4 DEF Size
  <2>8. l = Len(c)
    BY DEF l
  <2>9. \A i \in 1..l : m[p + i] = c[i]
    BY <1>4, <2>4, <2>6
  <2>10. HasAt(m, p, c)
    BY <2>2, <2>5, <2>7, <2>8, <2>9 DEF HasAt
  <2>11. QED
    BY <2>10 DEF p, c
<1>6. ASSUME NEW n \in 1..N, Pos(n - 1) < k PROVE m[Pos(n - 1) + 1] = Cid(cs[n].type)
  <2> DEFINE p == Pos(n - 1)
             c == C(n)
             id == Cid(cs[n].type)
  <2>1. p \in Nat /\ HasAt(all, p, c)
    BY <1>1, <1>2
  <2>2. p < k
    BY <1>6
  <2>3. cs[n] \in CommandType
    BY DEF N
  <2>4. c[1] = id /\ \E j \in Nat : Size(c, 1 + j)
    BY <2>3, PartsOfCommand DEF CommandParts, C
  <2> HIDE DEF p, c, id
  <2>5. 1 \in 1..Len(c)
    BY <2>4 DEF Size
  <2>6. all[p + 1] = c[1]
    BY <2>1, <2>5 DEF HasAt
  <2>7. p + 1 \in 1..k
    BY <1>2, <2>1, <2>2
  <2>8. m[p + 1] = id
    BY <1>4, <2>4, <2>6, <2>7
  <2>9. QED
    BY <2>8 DEF p, id
<1>7. QED
  BY <1>2, <1>4, <1>5, <1>6 DEF CommandsSent, N, Pos, C, K, m, all

\* The commands of a downlink.
SentUpto(d, k) == CommandsSent(d.commands, CommandBytes(d), k)

LEMMA DownlinkCommands ==
    ASSUME NEW d \in Downlinks
    PROVE  /\ d.commands \in Seq(CommandType)
           /\ \E k \in Nat : SentUpto(d, k)
<1> DEFINE cs == d.commands
           c == d.cut
           all == NetworkCommands(cs)
           K == Upto(cs, Len(cs))
           k == K - c
<1>1. cs \in Seq(CommandType) /\ c \in Nat /\ c <= Len(all)
  BY CodecAssumption, DownlinkAssumption, DownFields
<1>2. CommandBytes(d) = SubSeq(all, 1, Len(all) - c)
  BY DEF CommandBytes
<1> HIDE DEF cs, c
<1>3. Len(all) = K
  BY <1>1, LayingCommands DEF CommandsLaid, Size
<1>4. K \in Nat
  <2>1. Len(cs) \in 0..Len(cs)
    BY <1>1
  <2>2. QED
    BY <1>1, <2>1, LayingCommands DEF CommandsLaid
<1> HIDE DEF K, all
<1>5. k \in 0..K
  BY <1>1, <1>3, <1>4
<1>6. CommandBytes(d) = SubSeq(all, 1, k)
  BY <1>2, <1>3
<1> HIDE DEF k
<1>7. CommandsSent(cs, SubSeq(all, 1, k), k)
  BY <1>1, <1>5, SendingCommands DEF K, all
<1>8. CommandsSent(cs, CommandBytes(d), k)
  BY <1>6, <1>7
<1>9. k \in Nat
  BY <1>4, <1>5
<1>10. SentUpto(d, k)
  BY <1>8 DEF SentUpto, cs
<1>11. QED
  BY <1>1, <1>9, <1>10 DEF cs

Known(cs, n) == \A i \in 1..n : cs[i].type # "PROPRIETARY"

LEMMA SentWholeIs ==
    ASSUME NEW d \in Downlinks, NEW k, SentUpto(d, k), NEW n
    PROVE  n \in SentWhole(d) <=> n \in 0..Len(d.commands) /\ Known(d.commands, n)
                                   /\ Upto(d.commands, n) <= k
<1>1. Len(CommandBytes(d)) = k
  BY DEF SentUpto, CommandsSent, Size
<1>2. SentWhole(d) = {i \in 0..Len(d.commands) : Known(d.commands, i)
                                   /\ Upto(d.commands, i) <= Len(CommandBytes(d))}
  BY DEF SentWhole, Known, Upto
<1>3. QED
  BY <1>1, <1>2

\* The stream behind the first n commands of a downlink, and what the next turn of the loop
\* makes of it.
Behind(d, n) == At(CommandBytes(d), Upto(d.commands, n))

Stops(d, n) == GetDownCommand(Behind(d, n)).ok = FALSE /\ \A m \in SentWhole(d) : m <= n

Goes(d, n) ==
    /\ n + 1 \in SentWhole(d)
    /\ CommandRead(CommandBytes(d), Upto(d.commands, n), d.commands[n + 1],
                   Upto(d.commands, n + 1))

\* The places around command n.
Standing(cs, n, k, p) ==
    /\ n \in 0..Len(cs) /\ n \in Nat /\ Len(cs) \in Nat /\ p = Upto(cs, n) /\ p \in Nat /\ p <= k
    /\ \A m \in 0..Len(cs) : Upto(cs, m) \in Nat /\ (n < m => p < Upto(cs, m))
    /\ \A m \in 0..Len(cs) : n + 1 < m => Upto(cs, n + 1) < Upto(cs, m)

LEMMA StandingAt ==
    ASSUME NEW cs \in Seq(CommandType), NEW n \in 0..Len(cs), NEW k, Upto(cs, n) <= k
    PROVE  Standing(cs, n, k, Upto(cs, n))
<1>1. Len(cs) \in Nat
  OBVIOUS
<1>2. \A m \in 0..Len(cs) : Upto(cs, m) \in Nat
  BY LayingCommands DEF CommandsLaid
<1>3. \A m \in 0..Len(cs) : n < m => Upto(cs, n) < Upto(cs, m)
  BY CommandsRise
<1>4. ASSUME NEW m \in 0..Len(cs), n + 1 < m PROVE Upto(cs, n + 1) < Upto(cs, m)
  <2>1. n + 1 \in 0..Len(cs)
    BY <1>1, <1>4
  <2>2. QED
    BY <1>4, <2>1, CommandsRise
<1>5. QED
  BY <1>1, <1>2, <1>3, <1>4 DEF Standing

\* At the end of what is sent.
LEMMA EndReached ==
    ASSUME NEW d \in Downlinks, NEW k \in Nat, SentUpto(d, k), NEW n \in 0..Len(d.commands),
           Upto(d.commands, n) = k
    PROVE  Stops(d, n)
<1> DEFINE cs == d.commands
           b == CommandBytes(d)
           p == Upto(cs, n)
<1>1. Size(b, k)
  BY DEF SentUpto, CommandsSent
<1>2. GetDownCommand(At(b, k)).ok = FALSE
  BY <1>1, NothingLeft
<1>3. cs \in Seq(CommandType)
  BY DownlinkCommands
<1>4. p <= k /\ p = k
  OBVIOUS
<1>5. \A m \in SentWhole(d) : m \in 0..Len(cs) /\ Upto(cs, m) <= k
  BY SentWholeIs
<1>6. n \in 0..Len(cs)
  OBVIOUS
<1> HIDE DEF cs, p
<1>7. Standing(cs, n, k, p)
  BY <1>3, <1>4, <1>6, StandingAt DEF p
<1>8. \A m \in SentWhole(d) : m <= n
  <2> TAKE m \in SentWhole(d)
  <2>1. m \in 0..Len(cs) /\ Upto(cs, m) <= k
    BY <1>5
  <2>2. Upto(cs, m) \in Nat /\ (n < m => p < Upto(cs, m))
    BY <1>7, <2>1 DEF Standing
  <2>3. n \in Nat /\ m \in Nat
    BY <1>7, <2>1 DEF Standing
  <2>4. QED
    BY <1>4, <2>1, <2>2, <2>3
<1>9. GetDownCommand(Behind(d, n)).ok = FALSE
  BY <1>2, <1>4 DEF Behind, p, cs
<1>10. QED
  BY <1>8, <1>9 DEF Stops

\* Before it.
LEMMA EndAhead ==
    ASSUME NEW d \in Downlinks, NEW k \in Nat, SentUpto(d, k), NEW n \in SentWhole(d),
           Upto(d.commands, n) < k
    PROVE  Stops(d, n) \/ Goes(d, n)
<1> DEFINE cs == d.commands
           N == Len(cs)
           b == CommandBytes(d)
           p == Upto(cs, n)
           q == Upto(cs, n + 1)
           c == cs[n + 1]
           e == NetworkCommand(c)
           s == Behind(d, n)
           S == SentWhole(d)
<1>1. cs \in Seq(CommandType)
  BY DownlinkCommands
<1>2. CommandsSent(cs, b, k)
  BY DEF SentUpto
<1>3. \A m : m \in S <=> m \in 0..N /\ Known(cs, m) /\ Upto(cs, m) <= k
  BY SentWholeIs
<1>4. s = At(b, p) /\ p < k /\ n \in S
  BY DEF Behind
<1>5. n \in 0..N /\ p <= k /\ Known(cs, n)
  BY <1>3, <1>4
<1> HIDE DEF cs, N, S, s
<1>6. Standing(cs, n, k, p)
  BY <1>1, <1>5, StandingAt DEF N
<1>7. Size(b, k) /\ k <= Upto(cs, N)
  BY <1>2 DEF CommandsSent, N
<1> HIDE DEF p
<1>8. n \in Nat /\ N \in Nat /\ p \in Nat /\ p = Upto(cs, n)
  BY <1>6 DEF Standing, N
<1>9. n + 1 \in 1..N /\ (n + 1) - 1 = n
  <2>1. n # N
    BY <1>4, <1>7, <1>8
  <2>2. QED
    BY <1>5, <1>8, <2>1
<1>10. c \in CommandType
  BY <1>1, <1>9 DEF N
<1>11. /\ q <= k => HasAt(b, p, e)
       /\ b[p + 1] = Cid(c.type)
  BY <1>2, <1>4, <1>8, <1>9 DEF CommandsSent, N
<1>12. q = p + Len(e)
  BY <1>1, <1>8, <1>9, LayingCommands DEF CommandsLaid, N
<1> HIDE DEF b, e
<1>13. ASSUME c.type = "PROPRIETARY" PROVE Stops(d, n)
  <2>1. b[p + 1] = Cid("PROPRIETARY")
    BY <1>11, <1>13
  <2> HIDE DEF c
  <2>2. GetDownCommand(At(b, p)).ok = FALSE
    BY <1>4, <1>7, <1>8, <2>1, UnknownTag
  <2>3. \A m \in S : m <= n
    <3> TAKE m \in S
    <3>1. m \in 0..N /\ Known(cs, m)
      BY <1>3
    <3>2. n + 1 \notin 1..m
      BY <1>13, <3>1 DEF Known, c
    <3>3. QED
      BY <1>8, <3>1, <3>2
  <2>4. QED
    BY <1>4, <2>2, <2>3 DEF Stops, s, S
<1>14. ASSUME c.type # "PROPRIETARY", q <= k PROVE Goes(d, n)
  <2>1. HasAt(b, p, e)
    BY <1>11, <1>14
  <2> HIDE DEF c
  <2>2. CommandRead(b, p, c, q)
    BY <1>7, <1>8, <1>10, <1>12, <1>14, <2>1, ReadsCommand DEF e
  <2>3. Known(cs, n + 1)
    <3> SUFFICES ASSUME NEW i \in 1..(n + 1) PROVE cs[i].type # "PROPRIETARY"
      BY DEF Known
    <3>1. CASE i = n + 1
      BY <1>14, <3>1 DEF c
    <3>2. CASE i # n + 1
      <4>1. i \in 1..n
        BY <1>8, <3>2
      <4>2. QED
        BY <1>5, <4>1 DEF Known
    <3>3. QED
      BY <3>1, <3>2
  <2>4. n + 1 \in S
    <3>1. n + 1 \in 0..N
      BY <1>9
    <3>2. Upto(cs, n + 1) <= k
      BY <1>14
    <3>3. QED
      BY <1>3, <2>3, <3>1, <3>2
  <2>5. QED
    BY <2>2, <2>4 DEF Goes, S, b, cs, p, c
<1>15. ASSUME c.type # "PROPRIETARY", ~(q <= k) PROVE Stops(d, n)
  <2>0. q \in Nat
    <3>1. n + 1 \in 0..N
      BY <1>9
    <3>2. QED
      BY <1>6, <3>1 DEF Standing, N
  <2>1. p + Len(e) > k
    BY <1>12, <1>15, <2>0
  <2>2. GetDownCommand(At(b, p)).ok = FALSE
    <3>1. b[p + 1] = Cid(c.type)
      BY <1>11
    <3> HIDE DEF c
    <3>2. QED
      BY <1>4, <1>7, <1>8, <1>10, <1>15, <2>1, <3>1, ShortCommand DEF e
  <2>3. \A m \in S : m <= n
    <3> TAKE m \in S
    <3>1. m \in 0..N /\ Upto(cs, m) <= k
      BY <1>3
    <3>2. Upto(cs, m) \in Nat /\ (n + 1 < m => q < Upto(cs, m))
      BY <1>6, <3>1 DEF Standing, N
    <3>3. m # n + 1
      BY <1>15, <3>1
    <3> HIDE DEF q
    <3>4. ~(n + 1 < m)
      BY <1>15, <2>0, <3>1, <3>2
    <3>5. QED
      BY <1>8, <3>1, <3>3, <3>4
  <2>4. QED
    BY <1>4, <2>2, <2>3 DEF Stops, s, S
<1>16. QED
  BY <1>13, <1>14, <1>15

LEMMA NextCommand ==
    ASSUME NEW d \in Downlinks, NEW n \in SentWhole(d)
    PROVE  Stops(d, n) \/ Goes(d, n)
<1>1. PICK k \in Nat : SentUpto(d, k)
  BY DownlinkCommands
<1> DEFINE u == Upto(d.commands, n)
<1>2. n \in 0..Len(d.commands) /\ u <= k
  BY <1>1, SentWholeIs
<1>3. u \in Nat
  <2>1. d.commands \in Seq(CommandType)
    BY DownlinkCommands
  <2> DEFINE cs == d.commands
  <2> HIDE DEF cs
  <2>2. \A i \in 0..Len(cs) : Upto(cs, i) \in Nat
    BY <2>1, LayingCommands DEF CommandsLaid, cs
  <2>3. QED
    BY <1>2, <2>2 DEF cs
<1> HIDE DEF u
<1>4. CASE u = k
  BY <1>1, <1>2, <1>4, EndReached DEF u
<1>5. CASE u < k
  BY <1>1, <1>5, EndAhead DEF u
<1>6. QED
  BY <1>2, <1>3, <1>4, <1>5

\* What processCommands() is handed of a downlink.
MacsOf(f, b) == IF f.data.len > 0 /\ f.port = 0 THEN PartOf(b, f.data) ELSE PartOf(b, f.opts)
Meaning(d)   == IF d.place = "NONE" THEN <<>> ELSE CommandBytes(d)

LEMMA MacsHanded ==
    ASSUME NEW d \in Downlinks, NEW b \in Seq(Int), NEW f, DownRight(f, b, d)
    PROVE  MacsOf(f, b) = Meaning(d)
<1> DEFINE o == f.opts
           x == f.data
           port == f.port
           M == MacsOf(f, b)
<1>1. /\ PartOf(b, o) = DownOpts(d) /\ (HasPort(d) => port = d.port)
      /\ HasPort(d) => PartOf(b, x) = DownData(d)
      /\ ~HasPort(d) => x = Part(0, 0)
  BY DEF DownRight, HeadTaken
<1>2. PICK n \in 0..15, l \in 0..255 : PartsIn(f, b, n, l)
  BY DEF DownRight
<1>3. x = IF l > 0 THEN Part(n + 9, l) ELSE Part(0, 0)
  BY <1>2 DEF PartsIn
<1>4. x.len = l /\ x.at \in Nat /\ l \in Nat
  BY <1>3 DEF Part
<1>5. /\ d.place \in {"NONE", "OPTS", "PORT0"} /\ d.port \in 0..255
      /\ d.place = "PORT0" => d.port = 0
  <2>1. d \in DownlinkType
    BY CodecAssumption
  <2>2. d.place = "PORT0" => d.port = 0
    BY <2>1, Zenon DEF DownlinkType
  <2>3. QED
    BY <2>1, <2>2, DownFields
<1>6. M = IF x.len > 0 /\ port = 0 THEN PartOf(b, x) ELSE PartOf(b, o)
  BY DEF MacsOf
<1>7. ~HasPort(d) => x.len = 0
  BY <1>1 DEF Part
<1>8. x.len = 0 => PartOf(b, x) = <<>>
  <2> SUFFICES ASSUME x.len = 0 PROVE PartOf(b, x) = <<>>
    OBVIOUS
  <2> HIDE DEF x
  <2> DEFINE a == x.at
  <2>1. a \in Nat
    BY <1>4
  <2>2. PartOf(b, x) = SubSeq(b, a + 1, a + 0)
    BY DEF PartOf
  <2> HIDE DEF a
  <2>3. SubSeq(b, a + 1, a + 0) = <<>>
    BY <2>1
  <2>4. QED
    BY <2>2, <2>3
<1> HIDE DEF o, x, port, M
<1>9. CASE d.place = "PORT0"
  <2>1. HasPort(d) /\ DownData(d) = CommandBytes(d) /\ DownOpts(d) = <<>>
    BY <1>9 DEF HasPort, DownData, DownOpts
  <2>2. port = 0 /\ PartOf(b, x) = CommandBytes(d) /\ PartOf(b, o) = <<>>
    BY <1>1, <1>5, <1>9, <2>1
  <2>3. CASE x.len > 0
    BY <1>6, <1>9, <2>2, <2>3 DEF Meaning, M
  <2>4. CASE ~(x.len > 0)
    <3>1. x.len = 0
      BY <1>4, <2>4
    <3>2. QED
      BY <1>6, <1>8, <1>9, <2>2, <2>4, <3>1 DEF Meaning, M
  <2>5. QED
    BY <2>3, <2>4
<1>10. CASE d.place # "PORT0"
  <2>1. HasPort(d) <=> d.port > 0
    BY <1>10 DEF HasPort
  <2>2. ~(x.len > 0 /\ port = 0)
    BY <1>1, <1>4, <1>5, <1>7, <2>1
  <2>3. M = DownOpts(d)
    BY <1>1, <1>6, <2>2
  <2>4. DownOpts(d) = Meaning(d)
    BY <1>5, <1>10 DEF DownOpts, Meaning
  <2>5. QED
    BY <2>3, <2>4 DEF M
<1>11. QED
  BY <1>9, <1>10

\* A command read right.
ReadRight(r, c) ==
    /\ r.type = c.type /\ r.shown = {c.type}
    /\ c.type # "RX_PARAM_SETUP" => r.fields = c.fields

RightSoFar(d, rd) ==
    /\ \E S : rd \in Seq(S)
    /\ Len(rd) \in SentWhole(d)
    /\ \A i \in 1..Len(rd) : ReadRight(rd[i], d.commands[i])

Further(rd, e, n, rd2) ==
    /\ \E T : rd2 \in Seq(T)
    /\ Len(rd2) = n + 1 /\ rd2[n + 1] = e
    /\ \A i \in 1..n : rd2[i] = rd[i]

LEMMA OneMore ==
    ASSUME NEW rd, NEW S, rd \in Seq(S), NEW e
    PROVE  Further(rd, e, Len(rd), Append(rd, e))
<1> DEFINE T == S \cup {e}
<1>1. rd \in Seq(T) /\ e \in T
  OBVIOUS
<1> HIDE DEF T
<1>2. /\ Append(rd, e) \in Seq(T) /\ Len(Append(rd, e)) = Len(rd) + 1
      /\ \A i \in 1..Len(rd) : Append(rd, e)[i] = rd[i]
      /\ Append(rd, e)[Len(rd) + 1] = e
  BY <1>1, AppendProperties
<1>3. QED
  BY <1>2 DEF Further

LEMMA NothingRead ==
    ASSUME NEW d \in Downlinks
    PROVE  RightSoFar(d, <<>>) /\ Behind(d, 0) = Stream(CommandBytes(d))
<1> DEFINE cs == d.commands
           z == <<>>
<1>1. cs \in Seq(CommandType)
  BY DownlinkCommands
<1>2. PICK k \in Nat : SentUpto(d, k)
  BY DownlinkCommands
<1>3. Upto(cs, 0) = 0 /\ 0 \in 0..Len(cs)
  <2> HIDE DEF cs
  <2>1. QED
    BY <1>1, LayingCommands DEF CommandsLaid
<1>4. Known(cs, 0)
  BY DEF Known
<1>5. 0 <= k
  OBVIOUS
<1>6. 0 \in SentWhole(d)
  BY <1>2, <1>3, <1>4, <1>5, SentWholeIs
<1>7. z \in Seq({}) /\ Len(z) = 0 /\ 1..0 = {}
  OBVIOUS
<1>8. RightSoFar(d, z)
  <2> HIDE DEF z
  <2>1. QED
    BY <1>6, <1>7 DEF RightSoFar
<1>9. Behind(d, 0) = Stream(CommandBytes(d))
  BY <1>3 DEF Behind, At, Stream
<1>10. QED
  BY <1>8, <1>9

\* The loop on its way through the commands of a downlink.
WalkAt(d, st, w, rd) ==
    /\ d \in Downlinks /\ RightSoFar(d, rd)
    /\ st = "COMMANDS" => IF d.place = "NONE" THEN w = At(<<>>, 0) ELSE w = Behind(d, Len(rd))
    /\ st = "IDLE" /\ d.place # "NONE" => \A m \in SentWhole(d) : m <= Len(rd)

Walking(l, st, w, rd) == l.call = "Downlink" /\ l.lost = 0 => WalkAt(l.d, st, w, rd)

LEMMA WalkingIs == Walking(last, stage, walk, read) => CommandsAsSent
<1> SUFFICES ASSUME last.call = "Downlink" /\ last.lost = 0, WalkAt(last.d, stage, walk, read)
             PROVE  CommandsAsSent
  BY DEF Walking, CommandsAsSent, Is
<1> DEFINE d == last.d
<1> HIDE DEF d
<1>1. /\ Len(read) \in SentWhole(d)
      /\ stage = "IDLE" /\ d.place # "NONE" => \A m \in SentWhole(d) : m <= Len(read)
  BY DEF WalkAt, RightSoFar, d
<1>2. DOMAIN read = 1..Len(read)
  BY DEF WalkAt, RightSoFar
<1>3. \A i \in DOMAIN read : ReadRight(read[i], d.commands[i])
  BY <1>2 DEF WalkAt, RightSoFar, d
<1>4. QED
  BY <1>1, <1>3, Zenon DEF CommandsAsSent, ReadRight, d

\* One turn of it.
Turn(w, r, rd, st, w2, rd2, st2) ==
    IF r.ok
      THEN /\ w2 = r.s /\ st2 = st
           /\ rd2 = Append(rd, [type |-> r.type, fields |-> r.fields, shown |-> PeekNext(w)])
      ELSE w2 = r.s /\ st2 = "IDLE" /\ rd2 = rd

LEMMA TurnTaken ==
    ASSUME NEW d, NEW w, NEW rd, WalkAt(d, "COMMANDS", w, rd), NEW w2, NEW rd2, NEW st2,
           Turn(w, GetDownCommand(w), rd, "COMMANDS", w2, rd2, st2)
    PROVE  WalkAt(d, st2, w2, rd2)
<1> DEFINE r == GetDownCommand(w)
           n == Len(rd)
           cs == d.commands
<1>1. /\ d \in Downlinks /\ RightSoFar(d, rd)
      /\ IF d.place = "NONE" THEN w = At(<<>>, 0) ELSE w = Behind(d, n)
  BY DEF WalkAt
<1>2. n \in SentWhole(d) /\ (\E S : rd \in Seq(S)) /\ \A i \in 1..n : ReadRight(rd[i], cs[i])
  BY <1>1 DEF RightSoFar
<1>3. ASSUME r.ok = FALSE, d.place # "NONE" => \A m \in SentWhole(d) : m <= n
      PROVE  WalkAt(d, st2, w2, rd2)
  <2>1. st2 = "IDLE" /\ rd2 = rd
    BY <1>3, Zenon DEF Turn
  <2>2. QED
    BY <1>1, <1>3, <2>1 DEF WalkAt
<1>4. CASE d.place = "NONE"
  <2> DEFINE z == <<>>
  <2>1. Size(z, 0) /\ w = At(z, 0)
    BY <1>1, <1>4 DEF Size
  <2> HIDE DEF z
  <2>2. r.ok = FALSE
    BY <2>1, NothingLeft
  <2>3. QED
    BY <1>3, <1>4, <2>2
<1>5. CASE d.place # "NONE"
  <2>1. w = Behind(d, n)
    BY <1>1, <1>5
  <2>2. Stops(d, n) \/ Goes(d, n)
    BY <1>1, <1>2, NextCommand
  <2>3. CASE Stops(d, n)
    <3>1. r.ok = FALSE /\ \A m \in SentWhole(d) : m <= n
      BY <2>1, <2>3 DEF Stops
    <3>2. QED
      BY <1>3, <3>1
  <2>4. CASE Goes(d, n)
    <3> DEFINE c == cs[n + 1]
               q == Upto(cs, n + 1)
               e == [type |-> r.type, fields |-> r.fields, shown |-> PeekNext(w)]
    <3>1. n + 1 \in SentWhole(d) /\ CommandRead(CommandBytes(d), Upto(cs, n), c, q)
      BY <2>4 DEF Goes
    <3>2. /\ r.ok = TRUE /\ r.s = At(CommandBytes(d), q) /\ r.type = c.type
          /\ c.type # "RX_PARAM_SETUP" => r.fields = c.fields
          /\ PeekNext(w) = {c.type}
      BY <2>1, <3>1 DEF CommandRead, Behind
    <3>3. w2 = r.s /\ st2 = "COMMANDS" /\ rd2 = Append(rd, e)
      BY <3>2, Zenon DEF Turn
    <3>4. ReadRight(e, c)
      BY <3>2 DEF ReadRight
    <3> HIDE DEF e, c, r, cs, n
    <3>5. PICK S : rd \in Seq(S)
      BY <1>2
    <3>6. n = Len(rd) /\ n \in Nat
      BY <3>5 DEF n
    <3>7. /\ \E T : rd2 \in Seq(T)
          /\ Len(rd2) = n + 1
          /\ \A i \in 1..n : rd2[i] = rd[i]
          /\ rd2[n + 1] = e
      <4>1. Further(rd, e, Len(rd), Append(rd, e))
        BY <3>5, OneMore, Zenon
      <4>2. QED
        BY <3>3, <3>6, <4>1 DEF Further
    <3>8. \A i \in 1..Len(rd2) : ReadRight(rd2[i], cs[i])
      <4> TAKE i \in 1..Len(rd2)
      <4>1. CASE i = n + 1
        BY <3>4, <3>7, <4>1 DEF c
      <4>2. CASE i # n + 1
        <5>1. i \in 1..n
          BY <3>6, <3>7, <4>2
        <5>2. QED
          BY <1>2, <3>7, <5>1
      <4>3. QED
        BY <4>1, <4>2
    <3>9. RightSoFar(d, rd2)
      BY <3>1, <3>7, <3>8 DEF RightSoFar, cs
    <3>10. w2 = Behind(d, Len(rd2))
      BY <3>2, <3>3, <3>7 DEF Behind, cs
    <3>11. st2 # "IDLE"
      BY <3>3
    <3>12. QED
      BY <1>1, <1>5, <3>9, <3>10, <3>11 DEF WalkAt
  <2>5. QED
    BY <2>2, <2>3, <2>4
<1>6. QED
  BY <1>4, <1>5

LEMMA WalkStarts ==
    ASSUME NEW d \in Downlinks, NEW lost \in Lost, Downlink(d, lost)
    PROVE  Walking(last', stage', walk', read')
<1> DEFINE b == NetworkData(d)
           bytes == SubSeq(b, 1, Len(b) - lost)
           f == Decode(bytes)
           l == last'
           st == stage'
           w == walk'
           rd == read'
           M == MacsOf(f, bytes)
           taken == f.ok /\ lost = 0
<1>1. /\ l.call = "Downlink" /\ l.lost = lost /\ l.d = d
      /\ st = (IF taken THEN "COMMANDS" ELSE "IDLE") /\ rd = <<>>
      /\ w = Stream(IF ~taken THEN <<>> ELSE M)
  BY DEF Downlink, MacsOf
<1> HIDE DEF l, st, w, rd, M
<1>2. ASSUME lost = 0 PROVE WalkAt(d, st, w, rd)
  <2>1. b \in Seq(Int)
    BY NetworkDataIs
  <2>2. bytes = b
    <3> HIDE DEF b
    <3>1. SubSeq(b, 1, Len(b)) = b /\ Len(b) - 0 = Len(b)
      BY <2>1
    <3>2. QED
      BY <1>2, <3>1
  <2>3. DownRight(Decode(b), b, d)
    BY DownRead
  <2> HIDE DEF b, bytes
  <2>4. DownRight(f, bytes, d) /\ bytes \in Seq(Int)
    BY <2>1, <2>2, <2>3
  <2> HIDE DEF f
  <2>5. M = Meaning(d)
    BY <2>4, MacsHanded DEF M
  <2>6. taken
    BY <1>2, <2>4 DEF DownRight, HeadTaken
  <2> HIDE DEF taken
  <2>7. st = "COMMANDS" /\ w = Stream(Meaning(d))
    BY <1>1, <2>5, <2>6
  <2>8. RightSoFar(d, rd) /\ Behind(d, 0) = Stream(CommandBytes(d))
    BY <1>1, NothingRead
  <2>9. Len(rd) = 0
    BY <1>1
  <2>10. IF d.place = "NONE" THEN w = At(<<>>, 0) ELSE w = Behind(d, Len(rd))
    <3>1. At(<<>>, 0) = Stream(<<>>)
      BY DEF At, Stream
    <3> HIDE DEF rd
    <3>2. QED
      BY <2>7, <2>8, <2>9, <3>1 DEF Meaning
  <2>11. st # "IDLE"
    BY <2>7
  <2>12. QED
    BY <2>8, <2>10, <2>11 DEF WalkAt
<1>3. Walking(l, st, w, rd)
  BY <1>1, <1>2 DEF Walking
<1>4. QED
  BY <1>3 DEF l, st, w, rd

LEMMA WalkNext ==
    ASSUME Walking(last, stage, walk, read), [Next]_vars
    PROVE  Walking(last', stage', walk', read')
<1>1. CASE last'.call # "Downlink"
  BY <1>1 DEF Walking
<1>2. CASE Done \/ JoinRequest
  BY <1>1, <1>2 DEF Done, JoinRequest, NoCall
<1>3. ASSUME NEW optNeg \in BOOLEAN, NEW listed \in BOOLEAN, NEW len \in JoinLengths,
             JoinAccept(optNeg, listed, len)
      PROVE  Walking(last', stage', walk', read')
  BY <1>1, <1>3 DEF JoinAccept
<1>4. ASSUME NEW r \in Requests, Uplink(r) PROVE Walking(last', stage', walk', read')
  BY <1>1, <1>4 DEF Uplink
<1>5. ASSUME NEW d \in Downlinks, NEW lost \in Lost, Downlink(d, lost)
      PROVE  Walking(last', stage', walk', read')
  BY <1>5, WalkStarts
<1>6. CASE GetCommand
  <2> DEFINE w2 == walk'
             rd2 == read'
             st2 == stage'
  <2>1. /\ stage = "COMMANDS" /\ last' = last
        /\ Turn(walk, GetDownCommand(walk), read, "COMMANDS", w2, rd2, st2)
    BY <1>6, Zenon DEF GetCommand, Turn
  <2> HIDE DEF w2, rd2, st2
  <2>2. ASSUME WalkAt(last.d, "COMMANDS", walk, read) PROVE WalkAt(last.d, st2, w2, rd2)
    BY <2>1, <2>2, TurnTaken, Zenon
  <2>3. Walking(last, st2, w2, rd2)
    BY <2>1, <2>2, Zenon DEF Walking
  <2>4. QED
    BY <2>1, <2>3 DEF w2, rd2, st2
<1>7. CASE UNCHANGED vars
  BY <1>7 DEF vars
<1>8. QED
  BY <1>2, <1>3, <1>4, <1>5, <1>6, <1>7 DEF Next

\* The commands of a downlink that arrives whole are read in their order and as they were sent,
\* up to the first that is cut short or unknown, whatever the commands and wherever the network
\* cut them: LDL_MAC_getDownCommand() in the loop of processCommands().
THEOREM CommandsAreAsSent == Spec => []CommandsAsSent
<1> DEFINE W == Walking(last, stage, walk, read)
<1>1. Init => W
  BY DEF Init, Walking, NoCall
<1>2. W /\ [Next]_vars => W'
  BY WalkNext
<1>3. W => CommandsAsSent
  BY WalkingIs
<1>4. QED
  BY <1>1, <1>2, <1>3, PTL DEF Spec

\* Both ways: what the device answers can be read by the network where macs has room for it,
\* and what the network commands is read by the device.
THEOREM AllCommandsReadBack == ASSUME AnswersFit PROVE Spec => []CommandsReadBack
<1>1. Spec => []AnswersReadBack
  BY AnswersAreReadBack
<1>2. Spec => []CommandsAsSent
  BY CommandsAreAsSent
<1>3. AnswersReadBack /\ CommandsAsSent => CommandsReadBack
  BY DEF CommandsReadBack
<1>4. QED
  BY <1>1, <1>2, <1>3, PTL
=============================================================================
