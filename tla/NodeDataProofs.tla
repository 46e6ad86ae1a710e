--------------------------- MODULE NodeDataProofs ---------------------------
(***************************************************************************)
(* Proofs about what node writes in another form: node's buffers           *)
(* (src/node_buffer.cc, lib/buffer.js), their memory and what is written,  *)
(* encoded and decoded; the command line of a child on Windows             *)
(* (src/node_child_process_win32.cc); Cipher and Decipher                  *)
(* (src/node_crypto.cc).                                                   *)
(*                                                                         *)
(* The operators of the model fold over sequences.  The library's         *)
(* induction theorems take an operator, which no prover installed can     *)
(* instantiate; the first lemmas state induction with a set instead, and  *)
(* give for each fold its value on the empty sequence and on a sequence   *)
(* with one element more.                                                  *)
(***************************************************************************)
EXTENDS NodeBuffer, NodeConversions, WellFoundedInduction, SequenceTheorems, FiniteSetTheorems, TLAPS

-----------------------------------------------------------------------------
\* Sequences: induction, and the folds of the community modules one element at a time.

\* Every nonempty set of naturals has a least element.
LEMMA Least == ASSUME NEW T \in SUBSET Nat, T # {} PROVE \E x \in T : \A y \in T : x <= y
<1> DEFINE R == OpToRel(<, Nat)
<1>1. IsWellFoundedOn(R, Nat)
  BY NatLessThanWellFounded
<1>2. \A x, y \in Nat : x < y => <<x, y>> \in R
  BY DEF OpToRel
<1> HIDE DEF R
<1>3. PICK x \in T : \A y \in T : ~ (<<y, x>> \in R)
  BY <1>1, WFMin
<1>4. \A y \in T : ~ (y < x)
  BY <1>2, <1>3
<1>5. \A y \in T : x <= y
  BY <1>4
<1> QED BY <1>5

\* Induction over a set of naturals: with 0, and with n + 1 whenever it has n, it has them all. A set, and not
\* a predicate, because the provers cannot instantiate an operator.
LEMMA SetInduction == ASSUME NEW P, 0 \in P, \A n \in Nat : n \in P => n + 1 \in P PROVE \A n \in Nat : n \in P
<1> SUFFICES ASSUME NEW k \in Nat, k \notin P PROVE FALSE OBVIOUS
<1>1. PICK x \in Nat \ P : \A y \in Nat \ P : x <= y
  <2>1. Nat \ P \in SUBSET Nat /\ Nat \ P # {} OBVIOUS
  <2> QED BY <2>1, Least
<1>2. x # 0 /\ x - 1 \in Nat
  OBVIOUS
<1>3. x - 1 \in P
  BY <1>1, <1>2
<1> QED BY <1>1, <1>3

\* The greatest element of a set of 1..n+1 that has n + 1.
LEMMA MaxOfInitial == \A n \in Nat : \A t \in SUBSET (1..n+1) : n + 1 \in t => Max(t) = n + 1
<1> SUFFICES ASSUME NEW n \in Nat, NEW t \in SUBSET (1..n+1), n + 1 \in t PROVE Max(t) = n + 1
  OBVIOUS
<1>1. \A y \in t : n + 1 >= y
  OBVIOUS
<1>2. \A x \in t : (\A y \in t : x >= y) => x = n + 1
  OBVIOUS
<1> QED BY <1>1, <1>2, Zenon DEF Max

\* The greatest element of a nonempty set of 1..n is one of its elements.
LEMMA MaxInside == \A n \in Nat : \A t \in SUBSET (1..n) : t # {} => Max(t) \in t
<1> SUFFICES ASSUME NEW n \in Nat, NEW t \in SUBSET (1..n), t # {} PROVE Max(t) \in t
  OBVIOUS
<1>1. \E x \in t : \A y \in t : x >= y
  <2> DEFINE T == {n - x : x \in t}
  <2>1. T \in SUBSET Nat /\ T # {}
    <3>1. \A x \in t : n - x \in Nat OBVIOUS
    <3>2. PICK x \in t : TRUE OBVIOUS
    <3>3. n - x \in T OBVIOUS
    <3> QED BY <3>1, <3>3
  <2>2. PICK m \in T : \A y \in T : m <= y
    <3> HIDE DEF T
    <3> QED BY <2>1, Least
  <2>3. PICK x \in t : m = n - x OBVIOUS
  <2>4. \A y \in t : n - y \in T OBVIOUS
  <2>5. \A y \in t : n - x <= n - y BY <2>2, <2>3, <2>4
  <2>6. \A y \in t : x >= y BY <2>5
  <2> QED BY <2>6
<1> QED BY <1>1, Zenon DEF Max

\* G, a table of the steps of a fold over a sequence of length N, keeps the values in A.
Closed(G, N, A) == \A i \in 1..N, a \in A : G[i][a] \in A

\* The values that the fold with the steps G runs through, from base.
IsTrace(f, G, N, A, base) ==
    /\ f \in [0..N -> A] /\ f[0] = base
    /\ \A i \in 1..N : f[i] = G[i][f[i - 1]]

\* it is the recursive function that the definition of a fold chooses.
Folds(it, G, N, A, base) ==
    /\ it[{}] = base
    /\ \A t \in SUBSET (1..N) :
         t # {} => (it[t \ {Max(t)}] \in A => it[t] = G[Max(t)][it[t \ {Max(t)}]])

\* Two tables with the same first N steps.
Agree(G, H, N, A) == \A i \in 1..N : \A a \in A : G[i][a] = H[i][a]

\* What MapThenFoldSet computes: a table over the sets of indices, each entry one step after the entry without the
\* greatest index.
FoldEq(it, n, base, G) ==
    it = [t \in SUBSET (1..n) |-> IF t = {} THEN base ELSE G[Max(t)][it[t \ {Max(t)}]]]

\* Such a table exists whenever the steps G stay in the set A.
LEMMA FoldExists ==
    ASSUME NEW A, NEW base \in A, NEW G, NEW N \in Nat, Closed(G, N, A)
    PROVE  \E it \in [SUBSET (1..N) -> A] : FoldEq(it, N, base, G)
<1> DEFINE Ok(n) == \E it \in [SUBSET (1..n) -> A] : FoldEq(it, n, base, G)
           P == {n \in Nat : n <= N => Ok(n)}
<1>1. Ok(0)
  <2> DEFINE it == [t \in SUBSET (1..0) |-> base]
  <2>1. SUBSET (1..0) = {{}}
    <3>1. 1..0 = {} OBVIOUS
    <3> QED BY <3>1
  <2>2. it \in [SUBSET (1..0) -> A] /\ FoldEq(it, 0, base, G)
    BY <2>1 DEF FoldEq
  <2> QED BY <2>2
<1>2. ASSUME NEW n \in Nat, n + 1 <= N, Ok(n) PROVE Ok(n + 1)
  <2>1. PICK old \in [SUBSET (1..n) -> A] : FoldEq(old, n, base, G)
    BY <1>2
  <2> DEFINE it == [t \in SUBSET (1..n+1) |-> IF n + 1 \in t THEN G[n + 1][old[t \ {n + 1}]] ELSE old[t]]
  <2>2. \A t \in SUBSET (1..n+1) : n + 1 \notin t => t \in SUBSET (1..n)
    OBVIOUS
  <2>3. \A t \in SUBSET (1..n+1) : t \ {n + 1} \in SUBSET (1..n)
    OBVIOUS
  <2>4. it \in [SUBSET (1..n+1) -> A]
    <3>1. ASSUME NEW t \in SUBSET (1..n+1) PROVE it[t] \in A
      <4>1. CASE n + 1 \in t
        <5>1. old[t \ {n + 1}] \in A BY <2>3
        <5>2. n + 1 \in 1..N BY <1>2
        <5> QED BY <4>1, <5>1, <5>2 DEF Closed
      <4>2. CASE n + 1 \notin t
        BY <4>2, <2>2
      <4> QED BY <4>1, <4>2
    <3> QED BY <3>1
  <2>5. ASSUME NEW t \in SUBSET (1..n+1) PROVE it[t] = IF t = {} THEN base ELSE G[Max(t)][it[t \ {Max(t)}]]
    <3>1. CASE t = {}
      <4>1. t \in SUBSET (1..n) /\ n + 1 \notin t BY <3>1
      <4>2. it[t] = old[t] BY <4>1
      <4>3. old[t] = base BY <2>1, <3>1, <4>1 DEF FoldEq
      <4> QED BY <3>1, <4>2, <4>3
    <3>2. CASE n + 1 \in t
      <4>1. Max(t) = n + 1 BY <3>2, MaxOfInitial
      <4>2. it[t \ {n + 1}] = old[t \ {n + 1}] BY <2>3
      <4> QED BY <3>2, <4>1, <4>2
    <3>3. CASE t # {} /\ n + 1 \notin t
      <4>1. t \in SUBSET (1..n) BY <3>3
      <4>2. it[t] = old[t] BY <3>3
      <4>3. old[t] = G[Max(t)][old[t \ {Max(t)}]] BY <2>1, <3>3, <4>1 DEF FoldEq
      <4>4. it[t \ {Max(t)}] = old[t \ {Max(t)}] BY <3>3, <4>1
      <4> QED BY <3>3, <4>2, <4>3, <4>4
    <3> QED BY <3>1, <3>2, <3>3
  <2>6. FoldEq(it, n+1, base, G)
    BY <2>5, Zenon DEF FoldEq
  <2> QED BY <2>4, <2>6
<1> HIDE DEF Ok
<1>3. \A n \in Nat : n \in P
  <2>1. 0 \in P BY <1>1
  <2>2. \A n \in Nat : n \in P => n + 1 \in P BY <1>2
  <2> HIDE DEF P
  <2> QED BY <2>1, <2>2, SetInduction
<1>4. Ok(N) BY <1>3
<1> QED BY <1>4 DEF Ok

\* What a fold computes, value after value.
LEMMA FoldTrace ==
    ASSUME NEW A, NEW base \in A, NEW G, NEW N \in Nat, Closed(G, N, A),
           NEW it, Folds(it, G, N, A, base)
    PROVE  \E f : IsTrace(f, G, N, A, base) /\ f[N] = it[1..N]
<1> DEFINE f == [k \in 0..N |-> it[1..k]]
<1>1. it[1..0] = base
  <2>1. 1..0 = {} OBVIOUS
  <2> QED BY <2>1 DEF Folds
<1>2. ASSUME NEW k \in 1..N, it[1..(k-1)] \in A PROVE it[1..k] = G[k][it[1..(k-1)]]
  <2>1. 1..k \in SUBSET (1..N) /\ 1..k # {} /\ (1..k) \ {k} = 1..(k-1)
    <3>1. k \in 1..k /\ \A j \in 1..k : j \in 1..N OBVIOUS
    <3>2. \A j : j \in (1..k) \ {k} <=> j \in 1..(k-1) OBVIOUS
    <3> QED BY <3>1, <3>2
  <2>2. Max(1..k) = k
    <3>1. k - 1 \in Nat /\ (k - 1) + 1 = k OBVIOUS
    <3>2. 1..k \in SUBSET (1..k) /\ k \in 1..k OBVIOUS
    <3> QED BY <3>1, <3>2, MaxOfInitial
  <2> QED BY <2>1, <2>2, <1>2 DEF Folds
<1>3. \A k \in 0..N : it[1..k] \in A
  <2> DEFINE P == {k \in Nat : k <= N => it[1..k] \in A}
  <2>1. 0 \in P BY <1>1
  <2>2. ASSUME NEW k \in Nat, k \in P PROVE k + 1 \in P
    <3> SUFFICES ASSUME k + 1 <= N PROVE it[1..(k+1)] \in A OBVIOUS
    <3>1. k + 1 \in 1..N /\ (k + 1) - 1 = k /\ it[1..k] \in A BY <2>2
    <3> HIDE DEF P
    <3> QED BY <3>1, <1>2 DEF Closed
  <2>3. \A n \in Nat : n \in P
    <3> HIDE DEF P
    <3> QED BY <2>1, <2>2, SetInduction
  <2> QED BY <2>3
<1>4. f \in [0..N -> A] /\ f[0] = base /\ f[N] = it[1..N]
  BY <1>1, <1>3
<1>5. \A i \in 1..N : f[i] = G[i][f[i - 1]]
  BY <1>2, <1>3
<1> QED BY <1>4, <1>5 DEF IsTrace

\* Two traces with the same steps are the same.
LEMMA TraceUnique ==
    ASSUME NEW N \in Nat, NEW M \in Nat, N <= M, NEW f, NEW g, NEW G, NEW H, NEW A, NEW base,
           IsTrace(f, G, N, A, base), IsTrace(g, H, M, A, base), Agree(G, H, N, A)
    PROVE  \A i \in 0..N : f[i] = g[i]
<1> DEFINE P == {k \in Nat : k <= N => f[k] = g[k]}
<1>1. 0 \in P BY DEF IsTrace
<1>2. ASSUME NEW k \in Nat, k \in P PROVE k + 1 \in P
  <2> SUFFICES ASSUME k + 1 <= N PROVE f[k + 1] = g[k + 1] OBVIOUS
  <2>1. k + 1 \in 1..N /\ k + 1 \in 1..M /\ (k + 1) - 1 = k /\ f[k] = g[k] /\ k \in 0..N BY <1>2
  <2>2. f[k] \in A /\ f[k + 1] = G[k + 1][f[k]] BY <2>1 DEF IsTrace
  <2>3. g[k + 1] = H[k + 1][g[k]] BY <2>1 DEF IsTrace
  <2> QED BY <2>1, <2>2, <2>3 DEF Agree
<1>3. \A n \in Nat : n \in P
  <2> HIDE DEF P
  <2> QED BY <1>1, <1>2, SetInduction
<1> QED BY <1>3

\* A fold of one element more.
LEMMA FoldSnoc ==
    ASSUME NEW N \in Nat, NEW G, NEW H, NEW A, NEW base \in A, Closed(G, N, A), Closed(H, N + 1, A), Agree(G, H, N, A),
           NEW it, NEW jt, Folds(it, G, N, A, base), Folds(jt, H, N + 1, A, base)
    PROVE  /\ it[1..N] \in A
           /\ jt[1..N + 1] = H[N + 1][it[1..N]]
<1>1. PICK f : IsTrace(f, G, N, A, base) /\ f[N] = it[1..N]
  BY FoldTrace
<1>2. PICK h : IsTrace(h, H, N + 1, A, base) /\ h[N + 1] = jt[1..N + 1]
  BY FoldTrace
<1>3. \A i \in 0..N : f[i] = h[i]
  BY <1>1, <1>2, TraceUnique
<1>4. h[N + 1] = H[N + 1][h[N]]
  <2>1. N + 1 \in 1..N + 1 /\ (N + 1) - 1 = N OBVIOUS
  <2> QED BY <1>2, <2>1 DEF IsTrace
<1>5. f[N] \in A /\ N \in 0..N
  BY <1>1 DEF IsTrace
<1> QED BY <1>1, <1>2, <1>3, <1>4, <1>5

\* The step of Kept, and the steps of Kept over s as a table.
KeptStep(got, x, S) == IF x \in S THEN Append(got, x) ELSE got

KeptTable(s, S, B) == [i \in 1..Len(s) |-> [a \in Seq(B) |-> KeptStep(a, s[i], S)]]

\* Kept is the fold of its steps.
LEMMA KeptFolds ==
    ASSUME NEW B, NEW s \in Seq(B), NEW S
    PROVE  /\ Closed(KeptTable(s, S, B), Len(s), Seq(B))
           /\ \E it : Folds(it, KeptTable(s, S, B), Len(s), Seq(B), <<>>) /\ Kept(s, S) = it[1..Len(s)]
<1> DEFINE A == Seq(B)
           N == Len(s)
           G == KeptTable(s, S, B)
           E(g) == g = [t \in SUBSET (DOMAIN s) |->
                          IF t = {} THEN <<>>
                          ELSE IF s[Max(t)] \in S THEN Append(g[t \ {Max(t)}], s[Max(t)]) ELSE g[t \ {Max(t)}]]
<1>1. N \in Nat /\ DOMAIN s = 1..N /\ <<>> \in A
  BY EmptySeq
<1>2. ASSUME NEW i \in 1..N, NEW a \in A PROVE G[i][a] = KeptStep(a, s[i], S) /\ G[i][a] \in A
  BY DEF KeptStep, KeptTable
<1>3. Closed(G, N, A)
  BY <1>2 DEF Closed
<1>4. PICK it \in [SUBSET (1..N) -> A] : FoldEq(it, N, <<>>, G)
  <2> HIDE DEF A, G
  <2> QED BY <1>1, <1>3, FoldExists
<1>5. ASSUME NEW t \in SUBSET (1..N), t # {}
      PROVE  Max(t) \in 1..N /\ t \ {Max(t)} \in SUBSET (1..N)
  BY <1>5, <1>1, MaxInside
<1>6. E(it)
  <2>1. \A t \in SUBSET (1..N) : it[t] = IF t = {} THEN <<>> ELSE G[Max(t)][it[t \ {Max(t)}]]
    BY <1>4 DEF FoldEq
  <2>2. ASSUME NEW t \in SUBSET (1..N), t # {}
        PROVE  G[Max(t)][it[t \ {Max(t)}]] = KeptStep(it[t \ {Max(t)}], s[Max(t)], S)
    <3>1. it[t \ {Max(t)}] \in A /\ Max(t) \in 1..N
      BY <1>5, <2>2
    <3> HIDE DEF G, A, N
    <3> QED BY <3>1, <1>2
  <2>3. \A t \in SUBSET (1..N) : it[t] = IF t = {} THEN <<>> ELSE KeptStep(it[t \ {Max(t)}], s[Max(t)], S)
    BY <2>1, <2>2
  <2> QED BY <1>1, <2>3, Zenon DEF KeptStep
<1> DEFINE g == CHOOSE g : E(g)
<1>7. E(g)
  BY <1>6
<1>8. Kept(s, S) = g[1..N]
  BY <1>1 DEF Kept, FoldLeft, MapThenFoldSet
<1>9. g[{}] = <<>> /\ \A t \in SUBSET (1..N) : t # {} => g[t] = KeptStep(g[t \ {Max(t)}], s[Max(t)], S)
  BY <1>1, <1>7 DEF KeptStep
<1> HIDE DEF g
<1>10. Folds(g, G, N, A, <<>>)
  <2> SUFFICES ASSUME NEW t \in SUBSET (1..N), t # {}, g[t \ {Max(t)}] \in A
               PROVE  g[t] = G[Max(t)][g[t \ {Max(t)}]]
    BY <1>9 DEF Folds
  <2> HIDE DEF G
  <2> QED BY <1>2, <1>5, <1>9
<1> QED BY <1>3, <1>8, <1>10

\* Nothing is kept of nothing.
LEMMA KeptEmpty == \A S : Kept(<<>>, S) = <<>>
<1> SUFFICES ASSUME NEW S, NEW s, s = <<>> PROVE Kept(s, S) = <<>>
  OBVIOUS
<1> DEFINE B == {}
<1>1. s \in Seq(B) /\ Len(s) = 0 /\ 1..0 = {}
  BY EmptySeq
<1> HIDE DEF B
<1>2. \E it : Folds(it, KeptTable(s, S, B), Len(s), Seq(B), <<>>) /\ Kept(s, S) = it[1..Len(s)]
  BY <1>1, KeptFolds
<1>3. PICK it : Folds(it, KeptTable(s, S, B), Len(s), Seq(B), <<>>) /\ Kept(s, S) = it[1..Len(s)]
  BY <1>2
<1> QED BY <1>1, <1>3 DEF Folds

\* One element more: kept or left out.
LEMMA KeptAppend ==
    ASSUME NEW B, NEW s \in Seq(B), NEW x \in B, NEW S
    PROVE  /\ Kept(s, S) \in Seq(B)
           /\ Kept(Append(s, x), S) = IF x \in S THEN Append(Kept(s, S), x) ELSE Kept(s, S)
<1> DEFINE q == Append(s, x)
           N == Len(s)
           G == KeptTable(s, S, B)
           H == KeptTable(q, S, B)
<1>1. /\ q \in Seq(B) /\ Len(q) = N + 1 /\ q[N + 1] = x /\ (\A i \in 1..N : q[i] = s[i])
      /\ N \in Nat /\ <<>> \in Seq(B)
  BY EmptySeq
<1> HIDE DEF q, N
<1>2. Closed(G, N, Seq(B)) /\ \E it : Folds(it, G, N, Seq(B), <<>>) /\ Kept(s, S) = it[1..N]
  BY KeptFolds DEF N
<1>3. Closed(H, N + 1, Seq(B)) /\ \E it : Folds(it, H, N + 1, Seq(B), <<>>) /\ Kept(q, S) = it[1..N + 1]
  BY KeptFolds, <1>1
<1>4. Agree(G, H, N, Seq(B))
  BY <1>1 DEF KeptTable, N, Agree
<1>5. \A a \in Seq(B) : H[N + 1][a] = KeptStep(a, x, S)
  BY <1>1 DEF KeptTable
<1> HIDE DEF G, H
<1>6. PICK it : Folds(it, G, N, Seq(B), <<>>) /\ Kept(s, S) = it[1..N]
  BY <1>2
<1>7. PICK jt : Folds(jt, H, N + 1, Seq(B), <<>>) /\ Kept(q, S) = jt[1..N + 1]
  BY <1>3
<1>8. it[1..N] \in Seq(B) /\ jt[1..N + 1] = H[N + 1][it[1..N]]
  <2> DEFINE A == Seq(B)
             base == <<>>
  <2>1. N \in Nat /\ base \in A /\ Closed(G, N, A) /\ Closed(H, N + 1, A) /\ Agree(G, H, N, A)
    BY <1>1, <1>2, <1>3, <1>4
  <2>2. Folds(it, G, N, A, base) /\ Folds(jt, H, N + 1, A, base)
    BY <1>6, <1>7
  <2> HIDE DEF A, base
  <2>3. it[1..N] \in A /\ jt[1..N + 1] = H[N + 1][it[1..N]]
    BY <2>1, <2>2, FoldSnoc
  <2> QED BY <2>3 DEF A
<1> QED BY <1>5, <1>6, <1>7, <1>8 DEF q, KeptStep

\* What is kept is a sequence.
LEMMA KeptType == ASSUME NEW B, NEW S, NEW s \in Seq(B) PROVE Kept(s, S) \in Seq(B)
<1>1. PICK it : Folds(it, KeptTable(s, S, B), Len(s), Seq(B), <<>>) /\ Kept(s, S) = it[1..Len(s)]
  BY KeptFolds
<1>2. Closed(KeptTable(s, S, B), Len(s), Seq(B))
  BY KeptFolds
<1> DEFINE A == Seq(B)
           N == Len(s)
           base == <<>>
           G == KeptTable(s, S, B)
<1>3. base \in A /\ N \in Nat /\ Closed(G, N, A) /\ Folds(it, G, N, A, base)
  BY <1>1, <1>2, EmptySeq
<1> HIDE DEF A, N, base, G
<1>4. PICK f : IsTrace(f, G, N, A, base) /\ f[N] = it[1..N]
  BY <1>3, FoldTrace
<1>5. f[N] \in A
  <2>1. N \in 0..N BY <1>3
  <2> QED BY <1>4, <2>1 DEF IsTrace
<1> QED BY <1>1, <1>4, <1>5 DEF A, N

\* Induction over sequences that grow at their end.
LEMMA SeqInduction ==
    ASSUME NEW B, NEW P, <<>> \in P, \A s \in Seq(B) : s \in P => \A x \in B : Append(s, x) \in P
    PROVE  \A s \in Seq(B) : s \in P
<1> DEFINE Q == {n \in Nat : \A s \in Seq(B) : Len(s) = n => s \in P}
<1>1. 0 \in Q
  BY EmptySeq
<1>2. ASSUME NEW n \in Nat, n \in Q PROVE n + 1 \in Q
  <2> SUFFICES ASSUME NEW s \in Seq(B), Len(s) = n + 1 PROVE s \in P
    OBVIOUS
  <2> DEFINE r == SubSeq(s, 1, n)
             x == s[n + 1]
  <2>1. r \in Seq(B) /\ Len(r) = n /\ x \in B
    OBVIOUS
  <2>2. s = Append(r, x)
    OBVIOUS
  <2>3. r \in P
    BY <1>2, <2>1
  <2> HIDE DEF r, x
  <2> QED BY <2>1, <2>2, <2>3
<1>3. \A n \in Nat : n \in Q
  <2> HIDE DEF Q
  <2> QED BY <1>1, <1>2, SetInduction
<1> QED BY <1>3

\* What is kept of two sequences one after the other.
LEMMA KeptConcat ==
    ASSUME NEW B, NEW S, NEW s \in Seq(B)
    PROVE  \A t \in Seq(B) : Kept(s \o t, S) = Kept(s, S) \o Kept(t, S)
<1> DEFINE P == {t \in Seq(B) : Kept(s \o t, S) = Kept(s, S) \o Kept(t, S)}
<1>0. \A t \in Seq(B) : Kept(t, S) \in Seq(B)
  BY KeptType
<1>1. <<>> \in P
  <2>1. s \o <<>> = s /\ Kept(s, S) \o <<>> = Kept(s, S)
    BY <1>0
  <2> QED BY <2>1, EmptySeq, KeptEmpty
<1>2. ASSUME NEW t \in Seq(B), t \in P, NEW x \in B PROVE Append(t, x) \in P
  <2>1. s \o Append(t, x) = Append(s \o t, x) /\ s \o t \in Seq(B) /\ Append(t, x) \in Seq(B)
    OBVIOUS
  <2>2. Kept(Append(s \o t, x), S) = IF x \in S THEN Append(Kept(s \o t, S), x) ELSE Kept(s \o t, S)
    <3> DEFINE r == s \o t
    <3>1. r \in Seq(B) BY <2>1
    <3> HIDE DEF r
    <3>2. Kept(Append(r, x), S) = IF x \in S THEN Append(Kept(r, S), x) ELSE Kept(r, S)
      BY <3>1, KeptAppend
    <3> QED BY <3>2 DEF r
  <2>3. Kept(Append(t, x), S) = IF x \in S THEN Append(Kept(t, S), x) ELSE Kept(t, S)
    BY KeptAppend
  <2>4. Kept(s \o t, S) = Kept(s, S) \o Kept(t, S)
    BY <1>2
  <2>5. Kept(s, S) \in Seq(B) /\ Kept(t, S) \in Seq(B)
    BY <1>0
  <2>6. Kept(s, S) \o Append(Kept(t, S), x) = Append(Kept(s, S) \o Kept(t, S), x)
    BY <2>5
  <2>7. Kept(s \o Append(t, x), S) = Kept(s, S) \o Kept(Append(t, x), S)
    BY <2>1, <2>2, <2>3, <2>4, <2>6
  <2> QED BY <2>1, <2>7
<1>3. \A t \in Seq(B) : t \in P
  <2> HIDE DEF P
  <2> QED BY <1>1, <1>2, SeqInduction
<1> QED BY <1>3

\* A sequence of elements of S is kept as it is.
LEMMA KeptAll ==
    ASSUME NEW B, NEW S PROVE \A s \in Seq(B) : (\A i \in 1..Len(s) : s[i] \in S) => Kept(s, S) = s
<1> DEFINE P == {s \in Seq(B) : (\A i \in 1..Len(s) : s[i] \in S) => Kept(s, S) = s}
<1>1. <<>> \in P
  BY EmptySeq, KeptEmpty
<1>2. ASSUME NEW s \in Seq(B), s \in P, NEW x \in B PROVE Append(s, x) \in P
  <2> DEFINE q == Append(s, x)
  <2>0. q \in Seq(B)
    OBVIOUS
  <2> HIDE DEF q
  <2> SUFFICES ASSUME \A i \in 1..Len(q) : q[i] \in S PROVE Kept(q, S) = q
    BY <2>0 DEF q
  <2>1. x \in S /\ \A i \in 1..Len(s) : s[i] \in S
    <3>1. Len(q) = Len(s) + 1 /\ q[Len(s) + 1] = x /\ \A i \in 1..Len(s) : q[i] = s[i]
      BY DEF q
    <3> QED BY <3>1
  <2>2. Kept(s, S) = s
    BY <1>2, <2>1
  <2> QED BY <2>1, <2>2, KeptAppend DEF q
<1>3. \A s \in Seq(B) : s \in P
  <2> HIDE DEF P
  <2> QED BY <1>1, <1>2, SeqInduction
<1> QED BY <1>3

\* Of a sequence without elements of S nothing is kept.
LEMMA KeptNone ==
    ASSUME NEW B, NEW S PROVE \A s \in Seq(B) : (\A i \in 1..Len(s) : s[i] \notin S) => Kept(s, S) = <<>>
<1> DEFINE P == {s \in Seq(B) : (\A i \in 1..Len(s) : s[i] \notin S) => Kept(s, S) = <<>>}
<1>1. <<>> \in P
  BY EmptySeq, KeptEmpty
<1>2. ASSUME NEW s \in Seq(B), s \in P, NEW x \in B PROVE Append(s, x) \in P
  <2> DEFINE q == Append(s, x)
  <2>0. q \in Seq(B)
    OBVIOUS
  <2> HIDE DEF q
  <2> SUFFICES ASSUME \A i \in 1..Len(q) : q[i] \notin S PROVE Kept(q, S) = <<>>
    BY <2>0 DEF q
  <2>1. x \notin S /\ \A i \in 1..Len(s) : s[i] \notin S
    <3>1. Len(q) = Len(s) + 1 /\ q[Len(s) + 1] = x /\ \A i \in 1..Len(s) : q[i] = s[i]
      BY DEF q
    <3> QED BY <3>1
  <2>2. Kept(s, S) = <<>>
    BY <1>2, <2>1
  <2> QED BY <2>1, <2>2, KeptAppend DEF q
<1>3. \A s \in Seq(B) : s \in P
  <2> HIDE DEF P
  <2> QED BY <1>1, <1>2, SeqInduction
<1> QED BY <1>3

-----------------------------------------------------------------------------
\* Base64: what the digits are.

\* A byte, the six bits of a base64 digit, and how three bytes are spread over four digits (base64_decode and
\* Base64Slice, in both directions).
Byte == 0..255
Six == 0..63

ByteOf(bytes, j) == IF j <= Len(bytes) THEN bytes[j] ELSE 0

First(a) == a \div 4
Second(a, b) == (a % 4) * 16 + (b \div 16)
Third(b, c) == (b % 16) * 4 + (c \div 64)
Fourth(c) == c % 64

\* Digit k of group g.
DigitOf(bytes, g, k) ==
    CASE k = 0 -> First(ByteOf(bytes, 3 * g + 1))
      [] k = 1 -> Second(ByteOf(bytes, 3 * g + 1), ByteOf(bytes, 3 * g + 2))
      [] k = 2 -> IF 3 * g + 2 > Len(bytes) THEN Pad ELSE Third(ByteOf(bytes, 3 * g + 2), ByteOf(bytes, 3 * g + 3))
      [] k = 3 -> IF 3 * g + 3 > Len(bytes) THEN Pad ELSE Fourth(ByteOf(bytes, 3 * g + 3))

\* How many digits n bytes take without padding.
DigitsOf(n) == (4 * n + 2) \div 3
FullOf(n) == ((n + 2) \div 3) * 4

\* Base64Slice, digit by digit.
LEMMA SliceAt ==
    ASSUME NEW bytes \in Seq(Byte)
    PROVE  Base64Slice(bytes) = [j \in 1..FullOf(Len(bytes)) |-> DigitOf(bytes, (j - 1) \div 4, (j - 1) % 4)]
BY DEF Base64Slice, DigitOf, ByteOf, FullOf, First, Second, Third, Fourth

\* What is read past the end is 0.
LEMMA ByteType == ASSUME NEW bytes \in Seq(Byte), NEW j \in Nat \ {0} PROVE ByteOf(bytes, j) \in Byte
<1>1. j <= Len(bytes) => bytes[j] \in Byte
  BY ElementOfSeq
<1>2. 0 \in Byte
  BY DEF Byte
<1> QED BY <1>1, <1>2, Zenon DEF ByteOf

\* Every position is one of the four digits of a group.
LEMMA GroupOf == ASSUME NEW j \in Nat \ {0} PROVE
   \E g \in Nat, k \in 0..3 : g = (j - 1) \div 4 /\ k = (j - 1) % 4 /\ j = 4 * g + k + 1
<1>1. (j - 1) \div 4 \in Nat /\ (j - 1) % 4 \in 0..3
  OBVIOUS
<1>2. j = 4 * ((j - 1) \div 4) + ((j - 1) % 4) + 1
  OBVIOUS
<1> QED BY <1>1, <1>2

\* A digit holds six bits.
LEMMA SixBits ==
    ASSUME NEW a \in Byte, NEW b \in Byte
    PROVE  First(a) \in Six /\ Second(a, b) \in Six /\ Third(a, b) \in Six /\ Fourth(a) \in Six
<1>1. a \div 4 \in 0..63 BY DEF Byte
<1>2. (a % 4) * 16 + (b \div 16) \in 0..63 BY DEF Byte
<1>3. (a % 16) * 4 + (b \div 64) \in 0..63 BY DEF Byte
<1>4. a % 64 \in 0..63 BY DEF Byte
<1> QED BY <1>1, <1>2, <1>3, <1>4 DEF First, Second, Third, Fourth, Six

\* How many digits n bytes take, with and without the padding.
LEMMA DigitsBound ==
    ASSUME NEW n \in Nat
    PROVE  /\ DigitsOf(n) \in Nat /\ FullOf(n) \in Nat /\ DigitsOf(n) <= FullOf(n) /\ FullOf(n) <= DigitsOf(n) + 2
           /\ \E h \in Nat : FullOf(n) = 4 * h
           /\ \A g \in Nat : /\ (3 * g + 2 > n <=> 4 * g + 3 > DigitsOf(n))
                             /\ (3 * g + 3 > n <=> 4 * g + 4 > DigitsOf(n))
<1>1. DigitsOf(n) \in Nat /\ FullOf(n) \in Nat BY DEF DigitsOf, FullOf
<1>2. DigitsOf(n) <= FullOf(n) /\ FullOf(n) <= DigitsOf(n) + 2 BY DEF DigitsOf, FullOf
<1>3. \E h \in Nat : FullOf(n) = 4 * h
  <2>1. PICK h \in Nat : h = (n + 2) \div 3 OBVIOUS
  <2>2. FullOf(n) = h * 4 BY <2>1 DEF FullOf
  <2> QED BY <2>2
<1>4. ASSUME NEW g \in Nat PROVE 3 * g + 2 > n <=> 4 * g + 3 > DigitsOf(n)
  BY DEF DigitsOf
<1>5. ASSUME NEW g \in Nat PROVE 3 * g + 3 > n <=> 4 * g + 4 > DigitsOf(n)
  BY DEF DigitsOf
<1> QED BY <1>1, <1>2, <1>3, <1>4, <1>5

\* A position holds a digit until the digits end, and padding after that.
LEMMA DigitType ==
    ASSUME NEW bytes \in Seq(Byte), NEW g \in Nat, NEW k \in 0..3
    PROVE  IF k > 1 /\ 4 * g + k + 1 > DigitsOf(Len(bytes)) THEN DigitOf(bytes, g, k) = Pad ELSE DigitOf(bytes, g, k) \in Six
<1> PICK n \in Nat : n = Len(bytes)
  OBVIOUS
<1> PICK a \in Byte : a = ByteOf(bytes, 3 * g + 1)
  <2> PICK i \in Nat \ {0} : i = 3 * g + 1 OBVIOUS
  <2> QED BY ByteType
<1> PICK b \in Byte : b = ByteOf(bytes, 3 * g + 2)
  <2> PICK i \in Nat \ {0} : i = 3 * g + 2 OBVIOUS
  <2> QED BY ByteType
<1> PICK c \in Byte : c = ByteOf(bytes, 3 * g + 3)
  <2> PICK i \in Nat \ {0} : i = 3 * g + 3 OBVIOUS
  <2> QED BY ByteType
<1> PICK m \in Nat : m = DigitsOf(n) BY DigitsBound
<1>1. k = 0 => DigitOf(bytes, g, k) = First(a) BY DEF DigitOf
<1>2. k = 1 => DigitOf(bytes, g, k) = Second(a, b) BY DEF DigitOf
<1>3. k = 2 => DigitOf(bytes, g, k) = IF 3 * g + 2 > n THEN Pad ELSE Third(b, c) BY DEF DigitOf
<1>4. k = 3 => DigitOf(bytes, g, k) = IF 3 * g + 3 > n THEN Pad ELSE Fourth(c) BY DEF DigitOf
<1>5. First(a) \in Six /\ Second(a, b) \in Six /\ Third(b, c) \in Six /\ Fourth(c) \in Six
  BY SixBits
<1>6. (3 * g + 2 > n <=> 4 * g + 3 > m) /\ (3 * g + 3 > n <=> 4 * g + 4 > m)
  BY DigitsBound
<1>7. CASE k = 0 BY <1>1, <1>5, <1>7
<1>8. CASE k = 1 BY <1>2, <1>5, <1>8
<1>9. CASE k = 2 BY <1>3, <1>5, <1>6, <1>9
<1>10. CASE k = 3 BY <1>4, <1>5, <1>6, <1>10
<1> QED BY <1>7, <1>8, <1>9, <1>10

\* Base64Slice(bytes) in full: its type, its length, where its padding starts, and each digit before it.
LEMMA SliceDigits ==
    ASSUME NEW bytes \in Seq(Byte), NEW n, n = Len(bytes), NEW full, full = FullOf(n), NEW part, part = DigitsOf(n)
    PROVE  /\ Base64Slice(bytes) \in Seq(0..64) /\ Len(Base64Slice(bytes)) = full
           /\ n \in Nat /\ full \in Nat /\ part \in Nat /\ part <= full /\ full <= part + 2
           /\ \A j \in 1..full : IF j <= part THEN Base64Slice(bytes)[j] \in Six ELSE Base64Slice(bytes)[j] = Pad
           /\ \A g \in Nat, k \in 0..3 : 4 * g + k + 1 <= full => Base64Slice(bytes)[4 * g + k + 1] = DigitOf(bytes, g, k)
<1>0. n \in Nat OBVIOUS
<1>1. full \in Nat /\ part \in Nat /\ part <= full /\ full <= part + 2 /\ \E h \in Nat : full = 4 * h
  BY <1>0, DigitsBound
<1> PICK D : D = Base64Slice(bytes) OBVIOUS
<1>2. D = [j \in 1..full |-> DigitOf(bytes, (j - 1) \div 4, (j - 1) % 4)]
  BY SliceAt
<1>3. ASSUME NEW g \in Nat, NEW k \in 0..3, 4 * g + k + 1 <= full PROVE D[4 * g + k + 1] = DigitOf(bytes, g, k)
  <2> PICK j \in 1..full : j = 4 * g + k + 1 BY <1>3
  <2> PICK h \in Nat, l \in 0..3 : h = (j - 1) \div 4 /\ l = (j - 1) % 4 /\ j = 4 * h + l + 1
    <3>1. j \in Nat \ {0} BY <1>1
    <3> QED BY <3>1, GroupOf, Zenon
  <2>1. h = g /\ l = k OBVIOUS
  <2>2. D[j] = DigitOf(bytes, h, l) BY <1>2
  <2> QED BY <2>1, <2>2
<1>4. ASSUME NEW j \in 1..full PROVE IF j <= part THEN D[j] \in Six ELSE D[j] = Pad
  <2> PICK g \in Nat, k \in 0..3 : g = (j - 1) \div 4 /\ k = (j - 1) % 4 /\ j = 4 * g + k + 1
    <3>1. j \in Nat \ {0} BY <1>1
    <3> QED BY <3>1, GroupOf, Zenon
  <2> PICK d : d = DigitOf(bytes, g, k) OBVIOUS
  <2>1. D[j] = d BY <1>2
  <2>2. IF k > 1 /\ 4 * g + k + 1 > part THEN d = Pad ELSE d \in Six
    BY DigitType
  <2>3. j > part => k > 1
    <3> SUFFICES ASSUME k = 0 \/ k = 1 PROVE j <= part
      BY <1>1
    <3>1. PICK h \in Nat : full = 4 * h BY <1>1
    <3>2. g < h BY <3>1
    <3>3. j + 2 <= full BY <3>1, <3>2
    <3> QED BY <1>1, <3>3
  <2>4. part \in Nat /\ j \in Nat /\ j = 4 * g + k + 1 BY <1>1
  <2>5. CASE j <= part BY <2>1, <2>2, <2>4, <2>5
  <2>6. CASE j > part BY <2>1, <2>2, <2>3, <2>4, <2>6
  <2> QED BY <2>4, <2>5, <2>6
<1>5. D \in Seq(0..64) /\ Len(D) = full
  <2> DEFINE V == 0..64
  <2>1. \A j \in 1..full : D[j] \in V BY <1>4 DEF Six, Pad
  <2> HIDE DEF V
  <2>2. D \in [1..full -> V] BY <1>2, <2>1
  <2>3. D \in Seq(V) BY <1>1, <2>2, SeqDef
  <2>4. Len(D) = full BY <1>1, <2>2, <2>3
  <2> QED BY <2>3, <2>4 DEF V
<1> QED BY <1>0, <1>1, <1>3, <1>4, <1>5

-----------------------------------------------------------------------------
\* Base64: what the digits decode to.

\* The bytes that digits stand for.
Back1(a, b) == a * 4 + (b \div 16)

\* The bytes that the digits give back.
Back2(b, c) == (b % 16) * 16 + (c \div 4)
Back3(c, d) == (c % 4) * 64 + d
ByteAt(digits, g, i) ==
    CASE i = 0 -> Back1(digits[4 * g + 1], digits[4 * g + 2])
      [] i = 1 -> Back2(digits[4 * g + 2], digits[4 * g + 3])
      [] i = 2 -> Back3(digits[4 * g + 3], digits[4 * g + 4])

DecodedBytes(digits) == [j \in 1..(Len(digits) * 3) \div 4 |-> ByteAt(digits, (j - 1) \div 3, (j - 1) % 3)]

\* Base64Bytes reads the digits alone.
LEMMA BytesAreDecoded == \A chars : Base64Bytes(chars) = DecodedBytes(Kept(chars, Six))
BY DEF Base64Bytes, DecodedBytes, ByteAt, Back1, Back2, Back3, Six

\* Four digits give back the three bytes they were made of.
LEMMA BackAgain ==
    ASSUME NEW a \in Byte, NEW b \in Byte, NEW c \in Byte
    PROVE  /\ Back1(First(a), Second(a, b)) = a
           /\ Back2(Second(a, b), Third(b, c)) = b
           /\ Back3(Third(b, c), Fourth(c)) = c
<1>1. (a \div 4) * 4 + (((a % 4) * 16 + (b \div 16)) \div 16) = a
  <2> PICK p \in 0..63, q \in 0..3 : p = a \div 4 /\ q = a % 4 /\ a = 4 * p + q BY DEF Byte
  <2> PICK r \in 0..15 : r = b \div 16 BY DEF Byte
  <2>1. (q * 16 + r) \div 16 = q OBVIOUS
  <2> QED BY <2>1
<1>2. (((a % 4) * 16 + (b \div 16)) % 16) * 16 + (((b % 16) * 4 + (c \div 64)) \div 4) = b
  <2> PICK p \in 0..15, q \in 0..15 : p = b \div 16 /\ q = b % 16 /\ b = 16 * p + q BY DEF Byte
  <2> PICK r \in 0..3 : r = a % 4 BY DEF Byte
  <2> PICK t \in 0..3 : t = c \div 64 BY DEF Byte
  <2>1. (r * 16 + p) % 16 = p OBVIOUS
  <2>2. (q * 4 + t) \div 4 = q OBVIOUS
  <2> QED BY <2>1, <2>2
<1>3. (((b % 16) * 4 + (c \div 64)) % 4) * 64 + (c % 64) = c
  <2> PICK p \in 0..3, q \in 0..63 : p = c \div 64 /\ q = c % 64 /\ c = 64 * p + q BY DEF Byte
  <2> PICK r \in 0..15 : r = b % 16 BY DEF Byte
  <2>1. (r * 4 + p) % 4 = p OBVIOUS
  <2> QED BY <2>1
<1> QED BY <1>1, <1>2, <1>3 DEF First, Second, Third, Fourth, Back1, Back2, Back3

\* Every position is one of the three bytes of a triple.
LEMMA TripleOf == ASSUME NEW j \in Nat \ {0} PROVE
   \E g \in Nat, i \in 0..2 : g = (j - 1) \div 3 /\ i = (j - 1) % 3 /\ j = 3 * g + i + 1
<1>1. (j - 1) \div 3 \in Nat /\ (j - 1) % 3 \in 0..2
  OBVIOUS
<1>2. j = 3 * ((j - 1) \div 3) + ((j - 1) % 3) + 1
  OBVIOUS
<1> QED BY <1>1, <1>2

\* The digits of n bytes make n bytes.
LEMMA DigitsBytes == ASSUME NEW n \in Nat PROVE (DigitsOf(n) * 3) \div 4 = n
<1> PICK m \in Nat : m = (4 * n + 2) \div 3 OBVIOUS
<1>1. 3 * m <= 4 * n + 2 /\ 3 * m >= 4 * n OBVIOUS
<1>2. (m * 3) \div 4 = n BY <1>1
<1> QED BY <1>2 DEF DigitsOf

\* A byte has both of its digits.
LEMMA DigitsEnough == ASSUME NEW n \in Nat, NEW g \in Nat, NEW i \in 0..2, 3 * g + i + 1 <= n PROVE 4 * g + i + 2 <= DigitsOf(n)
BY DEF DigitsOf

\* Base64Slice and back: the digits of bytes decode to bytes.
LEMMA DecodedSlice ==
    ASSUME NEW bytes \in Seq(Byte), NEW digits, NEW part, part = DigitsOf(Len(bytes)),
           digits \in Seq(Six), Len(digits) = part, \A j \in 1..part : digits[j] = Base64Slice(bytes)[j]
    PROVE  DecodedBytes(digits) = bytes
<1> PICK n \in Nat : n = Len(bytes) OBVIOUS
<1> PICK full : full = FullOf(n) OBVIOUS
<1> PICK D : D = Base64Slice(bytes) OBVIOUS
<1>1. /\ full \in Nat /\ part \in Nat /\ part <= full
      /\ \A g \in Nat, k \in 0..3 : 4 * g + k + 1 <= full => D[4 * g + k + 1] = DigitOf(bytes, g, k)
  BY SliceDigits
<1>2. (part * 3) \div 4 = n
  BY DigitsBytes
<1>3. ASSUME NEW g \in Nat, NEW i \in 0..2, 3 * g + i + 1 <= n PROVE ByteAt(digits, g, i) = bytes[3 * g + i + 1]
  <2>1. 4 * g + i + 2 <= part BY <1>3, DigitsEnough
  <2> PICK a \in Byte : a = ByteOf(bytes, 3 * g + 1)
    <3> PICK x \in Nat \ {0} : x = 3 * g + 1 OBVIOUS
    <3> QED BY ByteType
  <2> PICK b \in Byte : b = ByteOf(bytes, 3 * g + 2)
    <3> PICK x \in Nat \ {0} : x = 3 * g + 2 OBVIOUS
    <3> QED BY ByteType
  <2> PICK c \in Byte : c = ByteOf(bytes, 3 * g + 3)
    <3> PICK x \in Nat \ {0} : x = 3 * g + 3 OBVIOUS
    <3> QED BY ByteType
  <2>2. ASSUME NEW k \in 0..3, 4 * g + k + 1 <= part PROVE digits[4 * g + k + 1] = DigitOf(bytes, g, k)
    <3> PICK x \in 1..part : x = 4 * g + k + 1 BY <2>2, <1>1
    <3>1. digits[x] = D[x] OBVIOUS
    <3>2. 4 * g + k + 1 <= full BY <2>2, <1>1
    <3>3. D[4 * g + k + 1] = DigitOf(bytes, g, k) BY <1>1, <3>2
    <3> QED BY <3>1, <3>3
  <2>3. 4 * g + 1 <= part => digits[4 * g + 1] = First(a)
    <3>1. 4 * g + 1 <= part => digits[4 * g + 1] = DigitOf(bytes, g, 0) BY <2>2
    <3> QED BY <3>1 DEF DigitOf
  <2>4. 4 * g + 2 <= part => digits[4 * g + 2] = Second(a, b)
    <3>1. 4 * g + 2 <= part => digits[4 * g + 2] = DigitOf(bytes, g, 1) BY <2>2
    <3> QED BY <3>1 DEF DigitOf
  <2>5. 4 * g + 3 <= part /\ 3 * g + 2 <= n => digits[4 * g + 3] = Third(b, c)
    <3>1. 4 * g + 3 <= part => digits[4 * g + 3] = DigitOf(bytes, g, 2) BY <2>2
    <3> QED BY <3>1 DEF DigitOf
  <2>6. 4 * g + 4 <= part /\ 3 * g + 3 <= n => digits[4 * g + 4] = Fourth(c)
    <3>1. 4 * g + 4 <= part => digits[4 * g + 4] = DigitOf(bytes, g, 3) BY <2>2
    <3> QED BY <3>1 DEF DigitOf
  <2>7. CASE i = 0
    <3>1. digits[4 * g + 1] = First(a) /\ digits[4 * g + 2] = Second(a, b) BY <2>1, <2>3, <2>4, <2>7, <1>1
    <3>2. ByteAt(digits, g, i) = Back1(First(a), Second(a, b)) BY <3>1, <2>7 DEF ByteAt
    <3>3. a = bytes[3 * g + i + 1] BY <2>7, <1>3 DEF ByteOf
    <3> QED BY <3>2, <3>3, BackAgain
  <2>8. CASE i = 1
    <3>1. digits[4 * g + 2] = Second(a, b) /\ digits[4 * g + 3] = Third(b, c) BY <2>1, <2>4, <2>5, <2>8, <1>1, <1>3
    <3>2. ByteAt(digits, g, i) = Back2(Second(a, b), Third(b, c)) BY <3>1, <2>8 DEF ByteAt
    <3>3. b = bytes[3 * g + i + 1] BY <2>8, <1>3 DEF ByteOf
    <3> QED BY <3>2, <3>3, BackAgain
  <2>9. CASE i = 2
    <3>1. digits[4 * g + 3] = Third(b, c) /\ digits[4 * g + 4] = Fourth(c) BY <2>1, <2>5, <2>6, <2>9, <1>1, <1>3
    <3>2. ByteAt(digits, g, i) = Back3(Third(b, c), Fourth(c)) BY <3>1, <2>9 DEF ByteAt
    <3>3. c = bytes[3 * g + i + 1] BY <2>9, <1>3 DEF ByteOf
    <3> QED BY <3>2, <3>3, BackAgain
  <2> QED BY <2>7, <2>8, <2>9
<1>4. \A j \in 1..n : ByteAt(digits, (j - 1) \div 3, (j - 1) % 3) = bytes[j]
  <2> SUFFICES ASSUME NEW j \in 1..n PROVE ByteAt(digits, (j - 1) \div 3, (j - 1) % 3) = bytes[j]
    OBVIOUS
  <2> PICK g \in Nat, i \in 0..2 : g = (j - 1) \div 3 /\ i = (j - 1) % 3 /\ j = 3 * g + i + 1
    <3>1. j \in Nat \ {0} OBVIOUS
    <3> QED BY <3>1, TripleOf, Zenon
  <2>1. 3 * g + i + 1 <= n OBVIOUS
  <2>2. ByteAt(digits, g, i) = bytes[3 * g + i + 1] BY <2>1, <1>3
  <2> QED BY <2>2
<1>5. DecodedBytes(digits) = [j \in 1..n |-> bytes[j]]
  BY <1>2, <1>4 DEF DecodedBytes
<1> QED BY <1>5

-----------------------------------------------------------------------------
\* Base64: padding and size.

\* What a base64 text is made of: digits, padding and blanks.
Code == 0..65

\* Positions past p.
LEMMA Past == ASSUME NEW p \in Nat, NEW f \in Nat, NEW j \in 1..f - p PROVE p + j \in 1..f /\ p + j > p
OBVIOUS

\* Of a Base64Slice the digits are kept, and only the padding goes.
LEMMA KeptOfDigits ==
    ASSUME NEW bytes \in Seq(Byte), NEW part, part = DigitsOf(Len(bytes))
    PROVE  /\ Kept(Base64Slice(bytes), Six) \in Seq(Six) /\ Len(Kept(Base64Slice(bytes), Six)) = part
           /\ \A j \in 1..part : Kept(Base64Slice(bytes), Six)[j] = Base64Slice(bytes)[j]
<1> PICK n : n = Len(bytes) OBVIOUS
<1> PICK full : full = FullOf(n) OBVIOUS
<1> PICK D : D = Base64Slice(bytes) OBVIOUS
<1> DEFINE B == 0..64
<1>1. /\ D \in Seq(B) /\ Len(D) = full
      /\ n \in Nat /\ full \in Nat /\ part \in Nat /\ part <= full /\ full <= part + 2
      /\ \A j \in 1..full : IF j <= part THEN D[j] \in Six ELSE D[j] = Pad
  BY SliceDigits
<1> HIDE DEF B
<1> PICK E : E = SubSeq(D, 1, part) OBVIOUS
<1> PICK F : F = SubSeq(D, part + 1, full) OBVIOUS
<1>2. /\ E \in Seq(B) /\ Len(E) = part /\ \A j \in 1..part : E[j] = D[j]
  BY <1>1
<1>3. /\ F \in Seq(B) /\ Len(F) = full - part /\ \A j \in 1..full - part : F[j] = D[part + j]
  <2>1. part + 1 \in 1..Len(D) + 1 /\ full \in part..Len(D) /\ D \in Seq(B) BY <1>1
  <2>2. F \in Seq(B) BY <2>1
  <2>3. Len(F) = full - part BY <1>1
  <2>4. ASSUME NEW j \in 1..full - part PROVE F[j] = D[part + j] BY <1>1
  <2> QED BY <2>2, <2>3, <2>4
<1>4. D = E \o F
  <2> PICK w \in 1..Len(D) + 1 : w = 1 BY <1>1
  <2> part \in w - 1..Len(D) /\ full \in part..Len(D) BY <1>1
  <2>1. SubSeq(D, w, part) \o SubSeq(D, part + 1, full) = SubSeq(D, w, full)
    BY <1>1, ConcatAdjacentSubSeq, Zenon
  <2>2. SubSeq(D, 1, full) = D BY <1>1, SubSeqFull
  <2> QED BY <2>1, <2>2
<1>5. Kept(D, Six) = Kept(E, Six) \o Kept(F, Six)
  <2>1. \A S : \A t \in Seq(B) : Kept(E \o t, S) = Kept(E, S) \o Kept(t, S)
    BY <1>2, KeptConcat
  <2> QED BY <1>3, <1>4, <2>1
<1>6. Kept(E, Six) = E
  <2>1. \A j \in 1..Len(E) : E[j] \in Six BY <1>1, <1>2
  <2> QED BY <1>2, <2>1, KeptAll
<1>7. Kept(F, Six) = <<>>
  <2>1. \A j \in 1..Len(F) : F[j] \notin Six
    <3> SUFFICES ASSUME NEW j \in 1..Len(F) PROVE F[j] \notin Six
      OBVIOUS
    <3> PICK k : k = part + j OBVIOUS
    <3>1. j \in 1..full - part BY <1>1, <1>3
    <3>2. k \in 1..full /\ k > part
      <4>1. part \in Nat /\ full \in Nat BY <1>1
      <4> QED BY <4>1, <3>1, Past, Zenon
    <3>3. F[j] = D[k] BY <1>3, <3>1
    <3>4. D[k] = Pad BY <1>1, <3>2
    <3>5. Pad \notin Six BY DEF Six, Pad
    <3> QED BY <3>3, <3>4, <3>5
  <2> QED BY <1>3, <2>1, KeptNone
<1>8. Kept(D, Six) = E
  BY <1>2, <1>5, <1>6, <1>7, ConcatEmptySeq
<1>9. E \in Seq(Six)
  <2>1. \A j \in 1..part : E[j] \in Six BY <1>1, <1>2
  <2>2. E \in [1..part -> Six] BY <1>2, <2>1, LenProperties
  <2> QED BY <1>1, <2>2, SeqDef
<1> QED BY <1>2, <1>8, <1>9

\* A character put into a sequence at its second place.
LEMMA Inserted ==
    ASSUME NEW B, NEW s \in Seq(B), s # <<>>, NEW x \in B
    PROVE  /\ InsertAt(s, 2, x) \in Seq(B) /\ Len(InsertAt(s, 2, x)) = Len(s) + 1
           /\ InsertAt(s, 2, x)[2] = x
           /\ \A j \in 2..Len(s) : InsertAt(s, 2, x)[j + 1] = s[j]
           /\ InsertAt(s, 2, x)[1] = s[1]
<1>0. Len(s) \in Nat \ {0} BY EmptySeq
<1> PICK a : a = SubSeq(s, 1, 1) OBVIOUS
<1> PICK b : b = SubSeq(s, 2, Len(s)) OBVIOUS
<1> PICK e : e = <<x>> OBVIOUS
<1>1. /\ a \in Seq(B) /\ Len(a) = 1 /\ a[1] = s[1]
  BY <1>0
<1>2. b \in Seq(B) /\ Len(b) = Len(s) - 1 /\ \A j \in 1..Len(s) - 1 : b[j] = s[j + 1]
  <2>1. CASE Len(s) = 1 
    <3>1. b = <<>> BY <2>1, SubSeqEmpty
    <3> QED BY <2>1, <3>1, EmptySeq
  <2>2. CASE Len(s) > 1
    <3>1. b \in Seq(B) BY <2>2, <1>0
    <3>2. Len(b) = Len(s) - 1 BY <2>2, <1>0
    <3>3. \A j \in 1..Len(s) - 1 : b[j] = s[j + 1] BY <2>2, <1>0
    <3> QED BY <3>1, <3>2, <3>3, Zenon
  <2> QED BY <1>0, <2>1, <2>2
<1> PICK i : i = InsertAt(s, 2, x) OBVIOUS
<1>3. i = (a \o e) \o b
  BY DEF InsertAt
<1>4. PICK c : c = a \o e /\ c \in Seq(B) /\ Len(c) = 2 /\ c[1] = s[1] /\ c[2] = x
  <2>1. e \in Seq(B) /\ Len(e) = 1 /\ e[1] = x OBVIOUS
  <2>2. /\ a \o e \in Seq(B) /\ Len(a \o e) = Len(a) + Len(e)
        /\ \A z \in 1..Len(a) + Len(e) : (a \o e)[z] = IF z <= Len(a) THEN a[z] ELSE e[z - Len(a)]
    BY <1>1, <2>1, ConcatProperties
  <2> PICK c : c = a \o e OBVIOUS
  <2>3. c \in Seq(B) /\ Len(c) = 2 /\ \A z \in 1..2 : c[z] = IF z <= 1 THEN a[z] ELSE e[z - 1]
    BY <1>1, <2>1, <2>2
  <2>4. c[1] = a[1] /\ c[2] = e[1] BY <2>3
  <2> QED BY <1>1, <2>1, <2>3, <2>4
<1>5. i = c \o b BY <1>3, <1>4
<1>60. /\ i \in Seq(B) /\ Len(i) = Len(c) + Len(b)
       /\ \A j \in 1..Len(c) + Len(b) : i[j] = IF j <= Len(c) THEN c[j] ELSE b[j - Len(c)]
  <2>1. /\ c \o b \in Seq(B) /\ Len(c \o b) = Len(c) + Len(b)
        /\ \A j \in 1..Len(c) + Len(b) : (c \o b)[j] = IF j <= Len(c) THEN c[j] ELSE b[j - Len(c)]
    BY <1>2, <1>4, ConcatProperties
  <2> QED BY <1>5, <2>1, Zenon
<1>6. i \in Seq(B) /\ Len(i) = Len(s) + 1 /\ i[1] = s[1] /\ i[2] = x
  <2>1. Len(b) = Len(s) - 1 /\ Len(c) = 2 /\ Len(s) \in Nat \ {0} BY <1>0, <1>2, <1>4
  <2> PICK n \in Nat : n = Len(s) BY <1>0
  <2> PICK lb \in Nat : lb = Len(b) /\ lb = n - 1 BY <2>1
  <2>4. Len(i) = 2 + lb BY <2>1, <1>60
  <2>5. \A k \in Nat, l \in Nat : l = k - 1 => 2 + l = k + 1 OBVIOUS
  <2>2. Len(i) = Len(s) + 1 BY <2>4, <2>5, Zenon
  <2>3. i[1] = c[1] /\ i[2] = c[2] BY <2>1, <1>60
  <2> QED BY <1>4, <1>60, <2>2, <2>3
<1>7. \A j \in 2..Len(s) : i[j + 1] = b[j - 1] BY <1>0, <1>2, <1>4, <1>60
<1>8. \A j \in 2..Len(s) : b[j - 1] = s[j] BY <1>0, <1>2
<1> QED BY <1>6, <1>7, <1>8

\* A character that is not kept, put into a text, changes nothing of what is kept.
LEMMA KeptInserted ==
    ASSUME NEW B, NEW S, NEW s \in Seq(B), s # <<>>, NEW x \in B, x \notin S
    PROVE  Kept(InsertAt(s, 2, x), S) = Kept(s, S)
<1>0. Len(s) \in Nat \ {0} BY EmptySeq
<1> DEFINE a == SubSeq(s, 1, 1)
           b == SubSeq(s, 2, Len(s))
           e == <<x>>
<1>1. a \in Seq(B)
  BY <1>0
<1>2. b \in Seq(B)
  <2>1. CASE Len(s) = 1 
    <3>1. b = <<>> BY <2>1, SubSeqEmpty
    <3> QED BY <2>1, <3>1, EmptySeq
  <2>2. CASE Len(s) > 1 BY <2>2, <1>0
  <2> QED BY <1>0, <2>1, <2>2
<1>3. s = a \o b
  BY <1>0, <1>1, <1>2
<1>4. InsertAt(s, 2, x) = a \o e \o b
  BY DEF InsertAt
<1>5. e \in Seq(B) /\ \A i \in 1..Len(e) : e[i] \notin S
  OBVIOUS
<1> HIDE DEF a, b, e
<1>6. PICK c : c = a \o e /\ c \in Seq(B)
  BY <1>1, <1>5, ConcatProperties
<1>7. Kept(e, S) = <<>>
  BY <1>5, KeptNone
<1>8. Kept(c, S) = Kept(a, S)
  <2>1. Kept(c, S) = Kept(a, S) \o Kept(e, S) BY <1>1, <1>5, <1>6, KeptConcat
  <2>2. Kept(a, S) \in Seq(B) BY <1>1, KeptType
  <2> QED BY <2>1, <2>2, <1>7, ConcatEmptySeq
<1>9. Kept(c \o b, S) = Kept(c, S) \o Kept(b, S)
  BY <1>2, <1>6, KeptConcat
<1>10. Kept(a \o b, S) = Kept(a, S) \o Kept(b, S)
  BY <1>1, <1>2, KeptConcat
<1> QED BY <1>3, <1>4, <1>6, <1>8, <1>9, <1>10

\* The size that base64_decoded_size computes, before padding.
SizeOf(n) ==
    LET whole == (n \div 4) * 3
        rest == n % 4
    IN  IF rest = 0 \/ (whole = 0 /\ rest = 1) THEN whole ELSE whole + (IF rest = 3 THEN 2 ELSE 1)

\* The padding that base64_decoded_size looks for: the last two characters.
Padding(chars, n) == {k \in {n - 1, n} : k > 0 /\ chars[k] = Pad}

\* base64_decoded_size, from the length and the padding.
LEMMA SizeIs == \A chars : base64_decoded_size(chars) =
    IF SizeOf(Len(chars)) > 0 THEN SizeOf(Len(chars)) - Cardinality(Padding(chars, Len(chars))) ELSE SizeOf(Len(chars))
BY DEF base64_decoded_size, SizeOf, Padding

\* The size computed from the length of a base64 text is that of its bytes, or more with a blank in it.
LEMMA SizesOf == ASSUME NEW n \in Nat
    PROVE  /\ SizeOf(DigitsOf(n)) = n
           /\ SizeOf(FullOf(n)) \in Nat /\ SizeOf(FullOf(n)) - (FullOf(n) - DigitsOf(n)) = n
           /\ n > 0 => SizeOf(DigitsOf(n) + 1) \in Nat /\ SizeOf(DigitsOf(n) + 1) >= n
           /\ n > 0 => SizeOf(FullOf(n) + 1) = SizeOf(FullOf(n)) + 1
<1> PICK q \in Nat, r \in 0..2 : n = 3 * q + r
  <2>1. n \div 3 \in Nat /\ n % 3 \in 0..2 /\ n = 3 * (n \div 3) + (n % 3) OBVIOUS
  <2> QED BY <2>1
<1>1. CASE r = 0
  <2>1. DigitsOf(n) = 4 * q /\ FullOf(n) = 4 * q BY <1>1 DEF DigitsOf, FullOf
  <2>2. SizeOf(4 * q) = 3 * q BY DEF SizeOf
  <2>3. q > 0 => SizeOf(4 * q + 1) = 3 * q + 1 BY DEF SizeOf
  <2> QED BY <1>1, <2>1, <2>2, <2>3
<1>2. CASE r = 1
  <2>1. DigitsOf(n) = 4 * q + 2 /\ FullOf(n) = 4 * q + 4 BY <1>2 DEF DigitsOf, FullOf
  <2>2. SizeOf(4 * q + 2) = 3 * q + 1 BY DEF SizeOf
  <2>3. SizeOf(4 * q + 4) = 3 * q + 3 BY DEF SizeOf
  <2>4. SizeOf(4 * q + 3) = 3 * q + 2 BY DEF SizeOf
  <2>5. SizeOf(4 * q + 5) = 3 * q + 4 BY DEF SizeOf
  <2> QED BY <1>2, <2>1, <2>2, <2>3, <2>4, <2>5
<1>3. CASE r = 2
  <2>1. DigitsOf(n) = 4 * q + 3 /\ FullOf(n) = 4 * q + 4 BY <1>3 DEF DigitsOf, FullOf
  <2>2. SizeOf(4 * q + 3) = 3 * q + 2 BY DEF SizeOf
  <2>3. SizeOf(4 * q + 4) = 3 * q + 3 BY DEF SizeOf
  <2>5. SizeOf(4 * q + 5) = 3 * q + 4 BY DEF SizeOf
  <2> QED BY <1>3, <2>1, <2>2, <2>3, <2>5
<1> QED BY <1>1, <1>2, <1>3

-----------------------------------------------------------------------------
\* Base64: the texts of some bytes.

\* The strings that a Buffer and the application make of bytes.
Broken(s) == InsertAt(s, 2, Blank)

\* The digits of some bytes, and the base64 texts a program may hold of them: with padding, without, with a blank.
Digits(from) == Kept(Base64Slice(from), Six)
IsBase64(chars, from) ==
    \/ chars = Base64Slice(from)
    \/ chars = Digits(from)
    \/ from # <<>> /\ chars = Broken(Base64Slice(from))
    \/ from # <<>> /\ chars = Broken(Digits(from))

\* A text without padding has none at its end.
LEMMA NoPadding ==
    ASSUME NEW chars, \A k \in 1..Len(chars) : chars[k] # Pad, Len(chars) \in Nat
    PROVE  Cardinality(Padding(chars, Len(chars))) = 0
<1>1. Padding(chars, Len(chars)) = {}
  BY DEF Padding
<1> QED BY <1>1, FS_EmptySet

\* The padding of a text whose padding is all at its end.
LEMMA PaddingAtEnd ==
    ASSUME NEW chars, NEW n \in Nat, Len(chars) = n, NEW p \in 0..n, n <= p + 2,
           \A k \in 1..n : k >= n - 1 => (chars[k] = Pad <=> k > p)
    PROVE  Cardinality(Padding(chars, n)) = n - p
<1>1. Padding(chars, n) = p + 1..n
  BY DEF Padding
<1>2. Cardinality(p + 1..n) = n - p
  <2> PICK a \in Int : a = p + 1 OBVIOUS
  <2>1. Cardinality(a..n) = IF a > n THEN 0 ELSE n - a + 1
    BY FS_Interval
  <2> QED BY <2>1
<1> QED BY <1>1, <1>2

\* What the lemmas above say of the base64 of some bytes.
LEMMA Base64Facts ==
    ASSUME NEW from \in Seq(Byte), NEW n, n = Len(from), NEW full, full = FullOf(n), NEW part, part = DigitsOf(n)
    PROVE  /\ n \in Nat /\ full \in Nat /\ part \in Nat /\ part <= full /\ full <= part + 2 /\ (n > 0 => part >= 2)
           /\ Base64Slice(from) \in Seq(Code) /\ Len(Base64Slice(from)) = full
           /\ \A k \in 1..full : Base64Slice(from)[k] = Pad <=> k > part
           /\ \A k \in 1..full : Base64Slice(from)[k] # Blank
           /\ Digits(from) \in Seq(Code) /\ Len(Digits(from)) = part
           /\ \A k \in 1..part : Digits(from)[k] \in Six
           /\ Kept(Base64Slice(from), Six) = Digits(from) /\ Kept(Digits(from), Six) = Digits(from)
<1> PICK D : D = Base64Slice(from) OBVIOUS
<1> PICK K : K = Digits(from) OBVIOUS
<1>1. /\ D \in Seq(0..64) /\ Len(D) = full
      /\ n \in Nat /\ full \in Nat /\ part \in Nat /\ part <= full /\ full <= part + 2
      /\ \A j \in 1..full : IF j <= part THEN D[j] \in Six ELSE D[j] = Pad
  BY SliceDigits
<1>2. K \in Seq(Six) /\ Len(K) = part
  BY KeptOfDigits DEF Digits
<1>3. n > 0 => part >= 2
  BY <1>1 DEF DigitsOf
<1>4. D \in Seq(Code)
  <2>1. 0..64 \subseteq Code BY DEF Code
  <2> QED BY <1>1, <2>1, SeqMonotonic
<1>5. K \in Seq(Code)
  <2>1. Six \subseteq Code BY DEF Code, Six
  <2> QED BY <1>2, <2>1, SeqMonotonic
<1>6. Pad \notin Six /\ Blank \notin Six /\ Pad # Blank
  BY DEF Pad, Blank, Six
<1>7. ASSUME NEW k \in 1..full PROVE (D[k] = Pad <=> k > part) /\ D[k] # Blank
  BY <1>1, <1>6
<1>8. \A k \in 1..part : K[k] \in Six
  BY <1>2, ElementOfSeq
<1>9. Kept(K, Six) = K
  BY <1>2, <1>8, KeptAll
<1> QED BY <1>1, <1>2, <1>3, <1>4, <1>5, <1>7, <1>8, <1>9 DEF Digits

\* Two texts with the same digits decode to the same bytes.
LEMMA Base64Decoded ==
    ASSUME NEW from \in Seq(Byte), NEW chars, Kept(chars, Six) = Digits(from)
    PROVE  Base64Bytes(chars) = from
<1>1. Base64Bytes(chars) = DecodedBytes(Digits(from))
  BY BytesAreDecoded
<1>2. DecodedBytes(Digits(from)) = from
  <2> PICK part : part = DigitsOf(Len(from)) OBVIOUS
  <2> PICK K : K = Digits(from) OBVIOUS
  <2>1. K \in Seq(Six) /\ Len(K) = part /\ \A j \in 1..part : K[j] = Base64Slice(from)[j]
    BY KeptOfDigits DEF Digits
  <2> QED BY <2>1, DecodedSlice
<1> QED BY <1>1, <1>2

\* What holds of a base64 string that stands for bytes.
GoodBase64(chars, from) ==
    /\ chars \in Seq(Code)
    /\ Base64Bytes(chars) = from
    /\ base64_decoded_size(chars) \in Nat
    /\ base64_decoded_size(chars) >= Len(from)
    /\ (\A k \in 1..Len(chars) : chars[k] # Blank) => base64_decoded_size(chars) = Len(from)

\* A padded text is decoded to its bytes, and measured exactly.
LEMMA SizeOfSlice == 
    ASSUME NEW from \in Seq(Byte), NEW n, n = Len(from) PROVE  GoodBase64(Base64Slice(from), from)
<1> PICK D : D = Base64Slice(from) OBVIOUS
<1> PICK full : full = FullOf(n) OBVIOUS
<1> PICK part : part = DigitsOf(n) OBVIOUS
<1>1. /\ n \in Nat /\ full \in Nat /\ part \in Nat /\ part <= full /\ full <= part + 2
      /\ D \in Seq(Code) /\ Len(D) = full
      /\ \A k \in 1..full : D[k] = Pad <=> k > part
      /\ Kept(D, Six) = Digits(from)
  BY Base64Facts
<1>2. Cardinality(Padding(D, full)) = full - part
  BY <1>1, PaddingAtEnd
<1>3. SizeOf(full) \in Nat /\ SizeOf(full) - (full - part) = n
  BY <1>1, SizesOf
<1>4. base64_decoded_size(D) = IF SizeOf(full) > 0 THEN SizeOf(full) - (full - part) ELSE SizeOf(full)
  BY <1>1, <1>2, SizeIs
<1>5. base64_decoded_size(D) = n
  BY <1>1, <1>3, <1>4
<1> QED BY <1>1, <1>5, Base64Decoded DEF GoodBase64

\* So is one without padding.
LEMMA SizeOfDigits == 
    ASSUME NEW from \in Seq(Byte), NEW n, n = Len(from) PROVE  GoodBase64(Digits(from), from)
<1> PICK K : K = Digits(from) OBVIOUS
<1> PICK part : part = DigitsOf(n) OBVIOUS
<1>1. n \in Nat /\ part \in Nat /\ K \in Seq(Code) /\ Len(K) = part /\ Kept(K, Six) = Digits(from) /\ \A k \in 1..part : K[k] \in Six
  BY Base64Facts
<1>2. Cardinality(Padding(K, part)) = 0
  <2>1. \A k \in 1..Len(K) : K[k] # Pad
    <3>1. Pad \notin Six BY DEF Pad, Six
    <3> QED BY <1>1, <3>1
  <2> QED BY <1>1, <2>1, NoPadding
<1>3. SizeOf(part) = n
  BY <1>1, SizesOf
<1>4. base64_decoded_size(K) = n
  BY <1>1, <1>2, <1>3, SizeIs
<1> QED BY <1>1, <1>4, Base64Decoded DEF GoodBase64

\* A text with a blank after its first character.
LEMMA BrokenFacts ==
    ASSUME NEW s \in Seq(Code), s # <<>>
    PROVE  /\ Broken(s) \in Seq(Code) /\ Len(Broken(s)) = Len(s) + 1 /\ Broken(s)[2] = Blank /\ Broken(s)[1] = s[1]
           /\ \A k \in 2..Len(s) : Broken(s)[k + 1] = s[k]
<1> PICK x \in Code : x = Blank BY DEF Code, Blank
<1> DEFINE B == Code
<1>1. s \in Seq(B) /\ x \in B OBVIOUS
<1> HIDE DEF B
<1>2. /\ InsertAt(s, 2, x) \in Seq(B) /\ Len(InsertAt(s, 2, x)) = Len(s) + 1
      /\ InsertAt(s, 2, x)[2] = x
      /\ \A j \in 2..Len(s) : InsertAt(s, 2, x)[j + 1] = s[j]
      /\ InsertAt(s, 2, x)[1] = s[1]
  BY <1>1, Inserted
<1> QED BY <1>2 DEF Broken, B

\* A padded text with a blank in it is decoded to its bytes, and measured at least as long.
LEMMA SizeOfBrokenSlice == 
    ASSUME NEW from \in Seq(Byte), from # <<>>, NEW n, n = Len(from) PROVE  GoodBase64(Broken(Base64Slice(from)), from)
<1> PICK D : D = Base64Slice(from) OBVIOUS
<1> PICK I : I = Broken(D) OBVIOUS
<1> PICK full : full = FullOf(n) OBVIOUS
<1> PICK part : part = DigitsOf(n) OBVIOUS
<1>0. n > 0 BY EmptySeq
<1>1. /\ n \in Nat /\ full \in Nat /\ part \in Nat /\ part <= full /\ full <= part + 2 /\ part >= 2
      /\ D \in Seq(Code) /\ Len(D) = full
      /\ \A k \in 1..full : D[k] = Pad <=> k > part
      /\ Kept(D, Six) = Digits(from)
  BY <1>0, Base64Facts
<1>2. Blank \in Code /\ Blank \notin Six
  BY DEF Code, Blank, Six
<1>3. /\ D # <<>>
      /\ I \in Seq(Code) /\ Len(I) = full + 1
      /\ I[2] = Blank
      /\ \A k \in 2..full : I[k + 1] = D[k]
  <2>1. D # <<>> BY <1>1, EmptySeq
  <2>2. D \in Seq(Code) /\ Len(D) = full BY <1>1
  <2>3. /\ I \in Seq(Code) /\ Len(I) = Len(D) + 1 /\ I[2] = Blank /\ I[1] = D[1]
        /\ \A k \in 2..Len(D) : I[k + 1] = D[k]
    BY <2>1, <2>2, BrokenFacts
  <2> QED BY <2>1, <2>2, <2>3, Zenon
<1>4. Kept(I, Six) = Digits(from)
  BY <1>1, <1>2, <1>3, KeptInserted DEF Broken
<1>5. Cardinality(Padding(I, full + 1)) = full - part
  <2> PICK m \in Nat : m = full + 1 BY <1>1
  <2> PICK p \in 0..m : p = part + 1 BY <1>1
  <2>1. ASSUME NEW k \in 1..m, k >= m - 1 PROVE I[k] = Pad <=> k > p
    <3>1. full \in Nat /\ part \in Nat /\ part <= full /\ full <= part + 2 /\ part >= 2 BY <1>1
    <3>2. CASE k = 2
      <4>1. I[k] # Pad BY <3>2, <1>3 DEF Blank, Pad
      <4>2. k <= p BY <3>1, <3>2
      <4> QED BY <4>1, <4>2
    <3>3. CASE k > 2
      <4> PICK l \in 2..full : l + 1 = k BY <3>1, <3>3
      <4>1. I[k] = D[l] BY <1>3
      <4>2. l \in 1..full BY <3>1
      <4>3. D[l] = Pad <=> l > part BY <1>1, <4>2
      <4> QED BY <4>1, <4>3, <3>1
    <3> QED BY <3>1, <3>2, <3>3, <2>1
  <2>2. Len(I) = m /\ m <= p + 2 BY <1>1, <1>3
  <2>3. Cardinality(Padding(I, m)) = m - p
    BY <2>1, <2>2, PaddingAtEnd
  <2> QED BY <2>3, <1>1
<1>6. SizeOf(full) \in Nat /\ SizeOf(full) - (full - part) = n /\ SizeOf(full + 1) = SizeOf(full) + 1
  BY <1>0, <1>1, SizesOf
<1>7. base64_decoded_size(I) = IF SizeOf(full + 1) > 0 THEN SizeOf(full + 1) - (full - part) ELSE SizeOf(full + 1)
  BY <1>3, <1>5, SizeIs
<1>8. base64_decoded_size(I) = n + 1
  <2> PICK a \in Nat : a = SizeOf(full) BY <1>6
  <2>1. SizeOf(full + 1) = a + 1 /\ a - (full - part) = n BY <1>6
  <2>2. full \in Nat /\ part \in Nat /\ n \in Nat BY <1>1
  <2>3. base64_decoded_size(I) = IF a + 1 > 0 THEN (a + 1) - (full - part) ELSE a + 1 BY <2>1, <1>7, Zenon
  <2>4. (IF a + 1 > 0 THEN (a + 1) - (full - part) ELSE a + 1) = n + 1 BY <2>1, <2>2
  <2> QED BY <2>3, <2>4, Zenon
<1>9. ~ \A k \in 1..Len(I) : I[k] # Blank
  <2>1. 2 \in 1..Len(I) BY <1>1, <1>3
  <2> QED BY <2>1, <1>3
<1> QED BY <1>1, <1>3, <1>4, <1>8, <1>9, Base64Decoded DEF GoodBase64

\* So is one without padding.
LEMMA SizeOfBrokenDigits == 
    ASSUME NEW from \in Seq(Byte), from # <<>>, NEW n, n = Len(from) PROVE  GoodBase64(Broken(Digits(from)), from)
<1> PICK K : K = Digits(from) OBVIOUS
<1> PICK I : I = Broken(K) OBVIOUS
<1> PICK part : part = DigitsOf(n) OBVIOUS
<1>0. n > 0 BY EmptySeq
<1>1. n \in Nat /\ part \in Nat /\ part >= 2 /\ K \in Seq(Code) /\ Len(K) = part /\ Kept(K, Six) = Digits(from) /\ \A k \in 1..part : K[k] \in Six
  BY <1>0, Base64Facts
<1>2. Blank \in Code /\ Blank \notin Six /\ Pad \notin Six /\ Blank # Pad
  BY DEF Code, Blank, Six, Pad
<1>3. /\ K # <<>>
      /\ I \in Seq(Code) /\ Len(I) = part + 1
      /\ I[2] = Blank /\ I[1] = K[1]
      /\ \A k \in 2..part : I[k + 1] = K[k]
  <2>1. K # <<>> BY <1>1, EmptySeq
  <2>2. K \in Seq(Code) /\ Len(K) = part BY <1>1
  <2>3. /\ I \in Seq(Code) /\ Len(I) = Len(K) + 1 /\ I[2] = Blank /\ I[1] = K[1]
        /\ \A k \in 2..Len(K) : I[k + 1] = K[k]
    BY <2>1, <2>2, BrokenFacts
  <2> QED BY <2>1, <2>2, <2>3, Zenon
<1>4. Kept(I, Six) = Digits(from)
  BY <1>1, <1>2, <1>3, KeptInserted DEF Broken
<1>5. Cardinality(Padding(I, part + 1)) = 0
  <2>1. ASSUME NEW k \in 1..Len(I) PROVE I[k] # Pad
    <3>0. part \in Nat /\ part >= 2 /\ k \in 1..part + 1 BY <1>1, <1>3
    <3>1. CASE k = 1
      <4>1. K[1] \in Six BY <1>1
      <4> QED BY <4>1, <3>1, <1>2, <1>3
    <3>2. CASE k = 2 BY <3>2, <1>2, <1>3
    <3>3. CASE k > 2
      <4> PICK l \in 2..part : l + 1 = k BY <3>0, <3>3
      <4>1. I[k] = K[l] BY <1>3
      <4>2. l \in 1..part BY <3>0
      <4>3. K[l] \in Six BY <1>1, <4>2
      <4> QED BY <4>1, <4>3, <1>2
    <3> QED BY <3>0, <3>1, <3>2, <3>3
  <2>2. Len(I) \in Nat BY <1>1, <1>3
  <2>3. Cardinality(Padding(I, Len(I))) = 0 BY <2>1, <2>2, NoPadding
  <2> QED BY <1>3, <2>3
<1>6. SizeOf(part + 1) \in Nat /\ SizeOf(part + 1) >= n
  BY <1>0, <1>1, SizesOf
<1>7. base64_decoded_size(I) = IF SizeOf(part + 1) > 0 THEN SizeOf(part + 1) - 0 ELSE SizeOf(part + 1)
  BY <1>3, <1>5, SizeIs
<1>8. base64_decoded_size(I) = SizeOf(part + 1)
  BY <1>1, <1>6, <1>7
<1>9. ~ \A k \in 1..Len(I) : I[k] # Blank
  <2>1. 2 \in 1..Len(I) BY <1>1, <1>3
  <2> QED BY <2>1, <1>3
<1> QED BY <1>1, <1>3, <1>4, <1>6, <1>8, <1>9, Base64Decoded DEF GoodBase64

\* Every base64 text of some bytes decodes to them, and is measured at least as long.
LEMMA Base64IsGood ==
    ASSUME NEW from \in Seq(Byte), NEW chars, IsBase64(chars, from) PROVE GoodBase64(chars, from)
BY SizeOfSlice, SizeOfDigits, SizeOfBrokenSlice, SizeOfBrokenDigits DEF IsBase64

\* Leaving the padding out of a base64 text, or putting a blank into it, gives a base64 text of the same bytes.
LEMMA Base64Other ==
    ASSUME NEW from \in Seq(Byte), NEW chars, IsBase64(chars, from), \A k \in 1..Len(chars) : chars[k] # Blank
    PROVE  /\ IsBase64(Kept(chars, 0..63), from)
           /\ chars # <<>> => IsBase64(InsertAt(chars, 2, Blank), from)
<1> PICK n : n = Len(from) OBVIOUS
<1> PICK D : D = Base64Slice(from) OBVIOUS
<1> PICK K : K = Digits(from) OBVIOUS
<1> PICK full : full = FullOf(n) OBVIOUS
<1> PICK part : part = DigitsOf(n) OBVIOUS
<1>1. /\ n \in Nat /\ full \in Nat /\ part \in Nat /\ (n > 0 => part >= 2) /\ part <= full
      /\ D \in Seq(Code) /\ Len(D) = full /\ Kept(D, Six) = K
      /\ K \in Seq(Code) /\ Len(K) = part /\ Kept(K, Six) = K
  BY Base64Facts
<1>2. chars = D \/ chars = K
  <2>1. SUFFICES ASSUME from # <<>>, NEW E \in {D, K}, chars = Broken(E) PROVE FALSE
    BY DEF IsBase64
  <2>2. Blank \in Code BY DEF Code, Blank
  <2>3. n > 0 BY <2>1, EmptySeq
  <2>4. E \in Seq(Code) /\ Len(E) >= 2 BY <1>1, <2>1, <2>3
  <2>5. E # <<>> BY <2>4, EmptySeq
  <2>6. Len(chars) = Len(E) + 1 /\ chars[2] = Blank
    <3>1. chars = InsertAt(E, 2, Blank) BY <2>1 DEF Broken
    <3>2. Len(InsertAt(E, 2, Blank)) = Len(E) + 1 /\ InsertAt(E, 2, Blank)[2] = Blank
      BY <2>2, <2>4, <2>5, Inserted
    <3> QED BY <3>1, <3>2, Zenon
  <2>7. 2 \in 1..Len(chars) BY <2>4, <2>6
  <2> QED BY <2>6, <2>7
<1>3. Kept(chars, 0..63) = K
  BY <1>1, <1>2 DEF Six
<1>4. chars # <<>> => from # <<>>
  <2> SUFFICES ASSUME from = <<>> PROVE chars = <<>>
    OBVIOUS
  <2>1. n = 0 OBVIOUS
  <2>2. full = 0 /\ part = 0 BY <2>1 DEF FullOf, DigitsOf
  <2>3. D = <<>> /\ K = <<>> BY <1>1, <2>2, EmptySeq
  <2> QED BY <1>2, <2>3
<1> QED BY <1>2, <1>3, <1>4 DEF IsBase64, Broken

-----------------------------------------------------------------------------
\* UTF-8 and the totals, one element at a time.

\* The characters that are written as UTF-8, and those that are read.
Plain == (0..127) \cup {233}

\* The characters of the strings, and the step of Utf8Bytes.
TextChar == Plain \cup {Replacement}

Utf8Join(acc, c) == acc \o Utf8Char(c)

\* A character is encoded as bytes.
LEMMA Utf8CharType == \A c \in Nat : Utf8Char(c) \in Seq(Byte)
<1> SUFFICES ASSUME NEW c \in Nat PROVE Utf8Char(c) \in Seq(Byte)
  OBVIOUS
<1>1. c < 128 => c \in Byte BY DEF Byte
<1>2. 195 \in Byte /\ 169 \in Byte /\ 239 \in Byte /\ 191 \in Byte /\ 189 \in Byte BY DEF Byte
<1>3. c < 128 => <<c>> \in Seq(Byte) BY <1>1
<1>4. <<195, 169>> \in Seq(Byte) /\ <<239, 191, 189>> \in Seq(Byte) BY <1>2
<1> QED BY <1>3, <1>4 DEF Utf8Char, TwoBytes

\* Joining the bytes of one more character gives bytes.
LEMMA Utf8BytesStepType == \A a \in Seq(Byte), c \in Nat : Utf8Join(a, c) \in Seq(Byte)
<1> SUFFICES ASSUME NEW a \in Seq(Byte), NEW c \in Nat PROVE Utf8Join(a, c) \in Seq(Byte)
  OBVIOUS
<1> PICK u \in Seq(Byte) : u = Utf8Char(c) BY Utf8CharType
<1>1. a \o u \in Seq(Byte) BY ConcatProperties
<1> QED BY <1>1 DEF Utf8Join

\* The steps of Utf8Bytes.
Utf8BytesTable(s) == [i \in 1..Len(s) |-> [a \in Seq(Byte) |-> Utf8Join(a, s[i])]]

\* Utf8Bytes is the fold with those steps.
LEMMA Utf8BytesFolds ==
    ASSUME NEW s \in Seq(Nat)
    PROVE  /\ Closed(Utf8BytesTable(s), Len(s), Seq(Byte))
           /\ \E it : Folds(it, Utf8BytesTable(s), Len(s), Seq(Byte), <<>>) /\ Utf8Bytes(s) = it[1..Len(s)]
<1> DEFINE A == Seq(Byte)
           base == <<>>
           N == Len(s)
           G == Utf8BytesTable(s)
           E(g) == g = [t \in SUBSET (DOMAIN s) |->
                          IF t = {} THEN <<>>
                          ELSE g[t \ {Max(t)}] \o Utf8Char(s[Max(t)])]
<1>1. N \in Nat /\ DOMAIN s = 1..N /\ base \in A
  BY EmptySeq DEF Utf8Join
<1>2. ASSUME NEW i \in 1..N, NEW a \in A PROVE G[i][a] = Utf8Join(a, s[i]) /\ G[i][a] \in A
  <2>1. Utf8Join(a, s[i]) \in A
    <3>1. s[i] \in Nat BY ElementOfSeq
    <3> QED BY <3>1, Utf8BytesStepType
  <2> QED BY <2>1 DEF Utf8BytesTable
<1>3. Closed(G, N, A)
  BY <1>2 DEF Closed
<1>4. PICK it \in [SUBSET (1..N) -> A] : FoldEq(it, N, base, G)
  <2> HIDE DEF A, G, base
  <2> QED BY <1>1, <1>3, FoldExists
<1>5. ASSUME NEW t \in SUBSET (1..N), t # {}
      PROVE  Max(t) \in 1..N /\ t \ {Max(t)} \in SUBSET (1..N)
  BY <1>5, <1>1, MaxInside
<1>6. E(it)
  <2>1. \A t \in SUBSET (1..N) : it[t] = IF t = {} THEN base ELSE G[Max(t)][it[t \ {Max(t)}]]
    BY <1>4 DEF FoldEq
  <2>2. ASSUME NEW t \in SUBSET (1..N), t # {}
        PROVE  G[Max(t)][it[t \ {Max(t)}]] = Utf8Join(it[t \ {Max(t)}], s[Max(t)])
    <3>1. it[t \ {Max(t)}] \in A /\ Max(t) \in 1..N
      BY <1>5, <2>2
    <3> HIDE DEF G, A, N
    <3> QED BY <3>1, <1>2
  <2>3. \A t \in SUBSET (1..N) : it[t] = IF t = {} THEN base ELSE Utf8Join(it[t \ {Max(t)}], s[Max(t)])
    BY <2>1, <2>2
  <2> QED BY <1>1, <2>3, Zenon DEF Utf8Join
<1> DEFINE g == CHOOSE g : E(g)
<1>7. E(g)
  BY <1>6
<1>8. Utf8Bytes(s) = g[1..N]
  BY <1>1 DEF Utf8Bytes, FoldLeft, MapThenFoldSet
<1>9. g[{}] = base /\ \A t \in SUBSET (1..N) : t # {} => g[t] = Utf8Join(g[t \ {Max(t)}], s[Max(t)])
  BY <1>1, <1>7 DEF Utf8Join
<1> HIDE DEF g
<1>10. Folds(g, G, N, A, base)
  <2> SUFFICES ASSUME NEW t \in SUBSET (1..N), t # {}, g[t \ {Max(t)}] \in A
               PROVE  g[t] = G[Max(t)][g[t \ {Max(t)}]]
    BY <1>9 DEF Folds
  <2> HIDE DEF G
  <2> QED BY <1>2, <1>5, <1>9
<1> QED BY <1>3, <1>8, <1>10

\* The fold of no elements.
LEMMA Utf8BytesEmpty == Utf8Bytes(<<>>) = <<>>
<1> SUFFICES ASSUME NEW s, s = <<>> PROVE Utf8Bytes(s) = <<>>
  OBVIOUS
<1> DEFINE B == Nat
<1>1. s \in Seq(B) /\ Len(s) = 0 /\ 1..0 = {}
  BY EmptySeq
<1>2. \E it : Folds(it, Utf8BytesTable(s), Len(s), Seq(Byte), <<>>) /\ Utf8Bytes(s) = it[1..Len(s)]
  BY <1>1, Utf8BytesFolds
<1>3. PICK it : Folds(it, Utf8BytesTable(s), Len(s), Seq(Byte), <<>>) /\ Utf8Bytes(s) = it[1..Len(s)]
  BY <1>2
<1> QED BY <1>1, <1>3 DEF Folds

\* The fold of one element more.
LEMMA Utf8BytesAppend ==
    ASSUME NEW s \in Seq(Nat), NEW x \in Nat
    PROVE  Utf8Bytes(s) \in Seq(Byte) /\ Utf8Bytes(Append(s, x)) = Utf8Join(Utf8Bytes(s), x)
<1> DEFINE q == Append(s, x)
           N == Len(s)
           A == Seq(Byte)
           base == <<>>
           G == Utf8BytesTable(s)
           H == Utf8BytesTable(q)
<1>1. /\ q \in Seq(Nat) /\ Len(q) = N + 1 /\ q[N + 1] = x /\ (\A i \in 1..N : q[i] = s[i])
      /\ N \in Nat
  OBVIOUS
<1>2. base \in A
  BY EmptySeq
<1> HIDE DEF q, N
<1>3. Closed(G, N, A) /\ \E it : Folds(it, G, N, A, base) /\ Utf8Bytes(s) = it[1..N]
  BY Utf8BytesFolds DEF N
<1>4. Closed(H, N + 1, A) /\ \E it : Folds(it, H, N + 1, A, base) /\ Utf8Bytes(q) = it[1..N + 1]
  BY Utf8BytesFolds, <1>1
<1>5. Agree(G, H, N, A)
  BY <1>1 DEF Utf8BytesTable, N, Agree
<1>6. \A a \in A : H[N + 1][a] = Utf8Join(a, x)
  BY <1>1 DEF Utf8BytesTable
<1> HIDE DEF G, H, A, base
<1>7. PICK it : Folds(it, G, N, A, base) /\ Utf8Bytes(s) = it[1..N]
  BY <1>3
<1>8. PICK jt : Folds(jt, H, N + 1, A, base) /\ Utf8Bytes(q) = jt[1..N + 1]
  BY <1>4
<1>9. it[1..N] \in A /\ jt[1..N + 1] = H[N + 1][it[1..N]]
  BY <1>1, <1>2, <1>3, <1>4, <1>5, <1>7, <1>8, FoldSnoc
<1> QED BY <1>6, <1>7, <1>8, <1>9 DEF q, A

\* Where the reading of UTF-8 is.
Reading == [chars : Seq(TextChar), lead : BOOLEAN]

\* The UTF-8 decoder before the first byte, and after all of them.
AtStart == [chars |-> <<>>, lead |-> FALSE]
Utf8End(bytes) == FoldLeft(Utf8Step, AtStart, bytes)

\* The decoder starts in one of its states.
LEMMA StartIsReading == AtStart \in Reading
BY EmptySeq DEF AtStart, Reading

\* What stands for a torn character is text.
LEMMA TornType == \A b \in Byte : Torn(b) \in Seq(TextChar)
<1> SUFFICES ASSUME NEW b \in Byte PROVE Torn(b) \in Seq(TextChar)
  OBVIOUS
<1>1. Replacement \in TextChar /\ (b < 128 => b \in TextChar) BY DEF TextChar, Plain, Byte
<1>2. <<Replacement>> \in Seq(TextChar) /\ <<Replacement, Replacement>> \in Seq(TextChar) /\ (b < 128 => <<Replacement, b>> \in Seq(TextChar)) BY <1>1
<1>3. CASE b = 195
  <2>1. Torn(b) = <<Replacement>> BY <1>3, Zenon DEF Torn
  <2> QED BY <1>2, <2>1
<1>4. CASE b # 195 /\ b < 128
  <2>1. Torn(b) = <<Replacement, b>> BY <1>4, Zenon DEF Torn
  <2> QED BY <1>2, <1>4, <2>1
<1>5. CASE b # 195 /\ ~(b < 128)
  <2>1. Torn(b) = <<Replacement, Replacement>> BY <1>5, Zenon DEF Torn
  <2> QED BY <1>2, <2>1
<1> QED BY <1>3, <1>4, <1>5

\* The states of the decoder.
LEMMA ReadingOf == \A c \in Seq(TextChar), l \in BOOLEAN : [chars |-> c, lead |-> l] \in Reading
BY DEF Reading

\* A byte takes the decoder from one of its states to another.
LEMMA Utf8EndStepType == \A acc \in Reading, b \in Byte : Utf8Step(acc, b) \in Reading
<1> SUFFICES ASSUME NEW acc \in Reading, NEW b \in Byte PROVE Utf8Step(acc, b) \in Reading
  OBVIOUS
<1>0. acc.chars \in Seq(TextChar) /\ acc.lead \in BOOLEAN /\ acc = [chars |-> acc.chars, lead |-> acc.lead]
  BY DEF Reading
<1>1. 233 \in TextChar /\ Replacement \in TextChar /\ (b < 128 => b \in TextChar) BY DEF TextChar, Plain, Byte
<1> PICK x \in TextChar : x = IF b < 128 THEN b ELSE Replacement BY <1>1
<1>2. Append(acc.chars, 233) \in Seq(TextChar) BY <1>0, <1>1
<1>3. Append(acc.chars, x) \in Seq(TextChar) BY <1>0, <1>1
<1>4. acc.chars \o Torn(b) \in Seq(TextChar)
  BY <1>0, TornType, ConcatProperties
<1>7. CASE acc.lead /\ b = 169
  <2>1. Utf8Step(acc, b) = [chars |-> Append(acc.chars, 233), lead |-> FALSE] BY <1>7 DEF Utf8Step
  <2>2. [chars |-> Append(acc.chars, 233), lead |-> FALSE] \in Reading BY <1>2, ReadingOf
  <2> QED BY <2>1, <2>2, Zenon
<1>8. CASE acc.lead /\ b # 169
  <2>1. Utf8Step(acc, b) = [chars |-> acc.chars \o Torn(b), lead |-> b = 195] BY <1>8 DEF Utf8Step
  <2> PICK l \in BOOLEAN : l = (b = 195) OBVIOUS
  <2>2. [chars |-> acc.chars \o Torn(b), lead |-> l] \in Reading BY <1>4, ReadingOf
  <2> QED BY <2>1, <2>2, Zenon
<1>9. CASE ~acc.lead /\ b = 195
  <2>1. Utf8Step(acc, b) = [acc EXCEPT !.lead = TRUE] BY <1>9 DEF Utf8Step
  <2>2. [acc EXCEPT !.lead = TRUE] \in Reading BY DEF Reading
  <2> QED BY <2>1, <2>2, Zenon
<1>10. CASE ~acc.lead /\ b # 195
  <2>1. Utf8Step(acc, b) = [acc EXCEPT !.chars = Append(@, x)] BY <1>10 DEF Utf8Step
  <2> QED BY <1>3, <2>1 DEF Reading
<1> QED BY <1>0, <1>7, <1>8, <1>9, <1>10

\* The steps of Utf8End.
Utf8EndTable(s) == [i \in 1..Len(s) |-> [a \in Reading |-> Utf8Step(a, s[i])]]

\* Utf8End is the fold with those steps.
LEMMA Utf8EndFolds ==
    ASSUME NEW s \in Seq(Byte)
    PROVE  /\ Closed(Utf8EndTable(s), Len(s), Reading)
           /\ \E it : Folds(it, Utf8EndTable(s), Len(s), Reading, AtStart) /\ Utf8End(s) = it[1..Len(s)]
<1> DEFINE A == Reading
           base == AtStart
           N == Len(s)
           G == Utf8EndTable(s)
           E(g) == g = [t \in SUBSET (DOMAIN s) |->
                          IF t = {} THEN AtStart
                          ELSE Utf8Step(g[t \ {Max(t)}], s[Max(t)])]
<1>1. N \in Nat /\ DOMAIN s = 1..N /\ base \in A
  BY StartIsReading
<1>2. ASSUME NEW i \in 1..N, NEW a \in A PROVE G[i][a] = Utf8Step(a, s[i]) /\ G[i][a] \in A
  <2>1. Utf8Step(a, s[i]) \in A
    <3>1. s[i] \in Byte BY ElementOfSeq
    <3> QED BY <3>1, Utf8EndStepType
  <2> QED BY <2>1 DEF Utf8EndTable
<1>3. Closed(G, N, A)
  BY <1>2 DEF Closed
<1>4. PICK it \in [SUBSET (1..N) -> A] : FoldEq(it, N, base, G)
  <2> HIDE DEF A, G, base
  <2> QED BY <1>1, <1>3, FoldExists
<1>5. ASSUME NEW t \in SUBSET (1..N), t # {}
      PROVE  Max(t) \in 1..N /\ t \ {Max(t)} \in SUBSET (1..N)
  BY <1>5, <1>1, MaxInside
<1>6. E(it)
  <2>1. \A t \in SUBSET (1..N) : it[t] = IF t = {} THEN base ELSE G[Max(t)][it[t \ {Max(t)}]]
    BY <1>4 DEF FoldEq
  <2>2. ASSUME NEW t \in SUBSET (1..N), t # {}
        PROVE  G[Max(t)][it[t \ {Max(t)}]] = Utf8Step(it[t \ {Max(t)}], s[Max(t)])
    <3>1. it[t \ {Max(t)}] \in A /\ Max(t) \in 1..N
      BY <1>5, <2>2
    <3> HIDE DEF G, A, N
    <3> QED BY <3>1, <1>2
  <2>3. \A t \in SUBSET (1..N) : it[t] = IF t = {} THEN base ELSE Utf8Step(it[t \ {Max(t)}], s[Max(t)])
    BY <2>1, <2>2
  <2> QED BY <1>1, <2>3, Zenon
<1> DEFINE g == CHOOSE g : E(g)
<1>7. E(g)
  BY <1>6
<1>8. Utf8End(s) = g[1..N]
  BY <1>1 DEF Utf8End, FoldLeft, MapThenFoldSet
<1>9. g[{}] = base /\ \A t \in SUBSET (1..N) : t # {} => g[t] = Utf8Step(g[t \ {Max(t)}], s[Max(t)])
  BY <1>1, <1>7
<1> HIDE DEF g
<1>10. Folds(g, G, N, A, base)
  <2> SUFFICES ASSUME NEW t \in SUBSET (1..N), t # {}, g[t \ {Max(t)}] \in A
               PROVE  g[t] = G[Max(t)][g[t \ {Max(t)}]]
    BY <1>9 DEF Folds
  <2> HIDE DEF G
  <2> QED BY <1>2, <1>5, <1>9
<1> QED BY <1>3, <1>8, <1>10

\* The fold of no elements.
LEMMA Utf8EndEmpty == Utf8End(<<>>) = AtStart
<1> SUFFICES ASSUME NEW s, s = <<>> PROVE Utf8End(s) = AtStart
  OBVIOUS
<1> DEFINE B == Byte
<1>1. s \in Seq(B) /\ Len(s) = 0 /\ 1..0 = {}
  BY EmptySeq
<1>2. \E it : Folds(it, Utf8EndTable(s), Len(s), Reading, AtStart) /\ Utf8End(s) = it[1..Len(s)]
  BY <1>1, Utf8EndFolds
<1>3. PICK it : Folds(it, Utf8EndTable(s), Len(s), Reading, AtStart) /\ Utf8End(s) = it[1..Len(s)]
  BY <1>2
<1> QED BY <1>1, <1>3 DEF Folds

\* The fold of one element more.
LEMMA Utf8EndAppend ==
    ASSUME NEW s \in Seq(Byte), NEW x \in Byte
    PROVE  Utf8End(s) \in Reading /\ Utf8End(Append(s, x)) = Utf8Step(Utf8End(s), x)
<1> DEFINE q == Append(s, x)
           N == Len(s)
           A == Reading
           base == AtStart
           G == Utf8EndTable(s)
           H == Utf8EndTable(q)
<1>1. /\ q \in Seq(Byte) /\ Len(q) = N + 1 /\ q[N + 1] = x /\ (\A i \in 1..N : q[i] = s[i])
      /\ N \in Nat
  OBVIOUS
<1>2. base \in A
  BY StartIsReading
<1> HIDE DEF q, N
<1>3. Closed(G, N, A) /\ \E it : Folds(it, G, N, A, base) /\ Utf8End(s) = it[1..N]
  BY Utf8EndFolds DEF N
<1>4. Closed(H, N + 1, A) /\ \E it : Folds(it, H, N + 1, A, base) /\ Utf8End(q) = it[1..N + 1]
  BY Utf8EndFolds, <1>1
<1>5. Agree(G, H, N, A)
  BY <1>1 DEF Utf8EndTable, N, Agree
<1>6. \A a \in A : H[N + 1][a] = Utf8Step(a, x)
  BY <1>1 DEF Utf8EndTable
<1> HIDE DEF G, H, A, base
<1>7. PICK it : Folds(it, G, N, A, base) /\ Utf8End(s) = it[1..N]
  BY <1>3
<1>8. PICK jt : Folds(jt, H, N + 1, A, base) /\ Utf8End(q) = jt[1..N + 1]
  BY <1>4
<1>9. it[1..N] \in A /\ jt[1..N + 1] = H[N + 1][it[1..N]]
  BY <1>1, <1>2, <1>3, <1>4, <1>5, <1>7, <1>8, FoldSnoc
<1> QED BY <1>6, <1>7, <1>8, <1>9 DEF q, A

\* Utf8Slice is where the decoder ends, with a replacement for a lead byte left over.
LEMMA Utf8SliceIs == \A bytes : Utf8Slice(bytes) = IF Utf8End(bytes).lead THEN Append(Utf8End(bytes).chars, Replacement) ELSE Utf8End(bytes).chars
BY DEF Utf8Slice, Utf8End, AtStart

\* SlowBuffers.
SlowRecord == [st : {"none", "live", "freed"}, data : Seq(Byte), foreign : BOOLEAN, frees : {0, 1}]

\* The step of HeldByAll.
HeldAdd(sum, sb) == sum + Held(sb)

\* What a SlowBuffer holds is a natural number.
LEMMA HeldType == \A sb \in SlowRecord : Held(sb) \in Nat
<1> SUFFICES ASSUME NEW sb \in SlowRecord PROVE Held(sb) \in Nat
  OBVIOUS
<1>1. sb.data \in Seq(Byte) BY DEF SlowRecord
<1>2. Len(sb.data) \in Nat BY <1>1
<1> QED BY <1>2 DEF Held, HeaderSize

\* So is what it adds up to.
LEMMA HeldByAllStepType == \A a \in Nat, sb \in SlowRecord : HeldAdd(a, sb) \in Nat
BY HeldType DEF HeldAdd

\* The steps of HeldByAll.
HeldByAllTable(s) == [i \in 1..Len(s) |-> [a \in Nat |-> HeldAdd(a, s[i])]]

\* HeldByAll is the fold with those steps.
LEMMA HeldByAllFolds ==
    ASSUME NEW s \in Seq(SlowRecord)
    PROVE  /\ Closed(HeldByAllTable(s), Len(s), Nat)
           /\ \E it : Folds(it, HeldByAllTable(s), Len(s), Nat, 0) /\ HeldByAll(s) = it[1..Len(s)]
<1> DEFINE A == Nat
           base == 0
           N == Len(s)
           G == HeldByAllTable(s)
           E(g) == g = [t \in SUBSET (DOMAIN s) |->
                          IF t = {} THEN 0
                          ELSE g[t \ {Max(t)}] + Held(s[Max(t)])]
<1>1. N \in Nat /\ DOMAIN s = 1..N /\ base \in A
  BY EmptySeq DEF HeldAdd
<1>2. ASSUME NEW i \in 1..N, NEW a \in A PROVE G[i][a] = HeldAdd(a, s[i]) /\ G[i][a] \in A
  <2>1. HeldAdd(a, s[i]) \in A
    <3>1. s[i] \in SlowRecord BY ElementOfSeq
    <3> QED BY <3>1, HeldByAllStepType
  <2> QED BY <2>1 DEF HeldByAllTable
<1>3. Closed(G, N, A)
  BY <1>2 DEF Closed
<1>4. PICK it \in [SUBSET (1..N) -> A] : FoldEq(it, N, base, G)
  <2> HIDE DEF A, G, base
  <2> QED BY <1>1, <1>3, FoldExists
<1>5. ASSUME NEW t \in SUBSET (1..N), t # {}
      PROVE  Max(t) \in 1..N /\ t \ {Max(t)} \in SUBSET (1..N)
  BY <1>5, <1>1, MaxInside
<1>6. E(it)
  <2>1. \A t \in SUBSET (1..N) : it[t] = IF t = {} THEN base ELSE G[Max(t)][it[t \ {Max(t)}]]
    BY <1>4 DEF FoldEq
  <2>2. ASSUME NEW t \in SUBSET (1..N), t # {}
        PROVE  G[Max(t)][it[t \ {Max(t)}]] = HeldAdd(it[t \ {Max(t)}], s[Max(t)])
    <3>1. it[t \ {Max(t)}] \in A /\ Max(t) \in 1..N
      BY <1>5, <2>2
    <3> HIDE DEF G, A, N
    <3> QED BY <3>1, <1>2
  <2>3. \A t \in SUBSET (1..N) : it[t] = IF t = {} THEN base ELSE HeldAdd(it[t \ {Max(t)}], s[Max(t)])
    BY <2>1, <2>2
  <2> QED BY <1>1, <2>3, Zenon DEF HeldAdd
<1> DEFINE g == CHOOSE g : E(g)
<1>7. E(g)
  BY <1>6
<1>8. HeldByAll(s) = g[1..N]
  BY <1>1 DEF HeldByAll, FoldLeft, MapThenFoldSet
<1>9. g[{}] = base /\ \A t \in SUBSET (1..N) : t # {} => g[t] = HeldAdd(g[t \ {Max(t)}], s[Max(t)])
  BY <1>1, <1>7 DEF HeldAdd
<1> HIDE DEF g
<1>10. Folds(g, G, N, A, base)
  <2> SUFFICES ASSUME NEW t \in SUBSET (1..N), t # {}, g[t \ {Max(t)}] \in A
               PROVE  g[t] = G[Max(t)][g[t \ {Max(t)}]]
    BY <1>9 DEF Folds
  <2> HIDE DEF G
  <2> QED BY <1>2, <1>5, <1>9
<1> QED BY <1>3, <1>8, <1>10

\* The fold of no elements.
LEMMA HeldByAllEmpty == HeldByAll(<<>>) = 0
<1> SUFFICES ASSUME NEW s, s = <<>> PROVE HeldByAll(s) = 0
  OBVIOUS
<1> DEFINE B == SlowRecord
<1>1. s \in Seq(B) /\ Len(s) = 0 /\ 1..0 = {}
  BY EmptySeq
<1>2. \E it : Folds(it, HeldByAllTable(s), Len(s), Nat, 0) /\ HeldByAll(s) = it[1..Len(s)]
  BY <1>1, HeldByAllFolds
<1>3. PICK it : Folds(it, HeldByAllTable(s), Len(s), Nat, 0) /\ HeldByAll(s) = it[1..Len(s)]
  BY <1>2
<1> QED BY <1>1, <1>3 DEF Folds

\* The fold of one element more.
LEMMA HeldByAllAppend ==
    ASSUME NEW s \in Seq(SlowRecord), NEW x \in SlowRecord
    PROVE  HeldByAll(s) \in Nat /\ HeldByAll(Append(s, x)) = HeldAdd(HeldByAll(s), x)
<1> DEFINE q == Append(s, x)
           N == Len(s)
           A == Nat
           base == 0
           G == HeldByAllTable(s)
           H == HeldByAllTable(q)
<1>1. /\ q \in Seq(SlowRecord) /\ Len(q) = N + 1 /\ q[N + 1] = x /\ (\A i \in 1..N : q[i] = s[i])
      /\ N \in Nat
  OBVIOUS
<1>2. base \in A
  BY EmptySeq
<1> HIDE DEF q, N
<1>3. Closed(G, N, A) /\ \E it : Folds(it, G, N, A, base) /\ HeldByAll(s) = it[1..N]
  BY HeldByAllFolds DEF N
<1>4. Closed(H, N + 1, A) /\ \E it : Folds(it, H, N + 1, A, base) /\ HeldByAll(q) = it[1..N + 1]
  BY HeldByAllFolds, <1>1
<1>5. Agree(G, H, N, A)
  BY <1>1 DEF HeldByAllTable, N, Agree
<1>6. \A a \in A : H[N + 1][a] = HeldAdd(a, x)
  BY <1>1 DEF HeldByAllTable
<1> HIDE DEF G, H, A, base
<1>7. PICK it : Folds(it, G, N, A, base) /\ HeldByAll(s) = it[1..N]
  BY <1>3
<1>8. PICK jt : Folds(jt, H, N + 1, A, base) /\ HeldByAll(q) = jt[1..N + 1]
  BY <1>4
<1>9. it[1..N] \in A /\ jt[1..N + 1] = H[N + 1][it[1..N]]
  BY <1>1, <1>2, <1>3, <1>4, <1>5, <1>7, <1>8, FoldSnoc
<1> QED BY <1>6, <1>7, <1>8, <1>9 DEF q, A

-----------------------------------------------------------------------------
\* UTF-8: there and back.

\* The bytes and characters of the model.
LEMMA Characters == /\ Plain \subseteq Nat /\ Plain \subseteq TextChar /\ TextChar \subseteq Nat /\ Replacement \notin Plain
                    /\ 0..127 \subseteq Byte /\ 195 \in Byte /\ 169 \in Byte /\ 0 \in Byte /\ Byte \subseteq Nat
<1>1. Replacement \notin Plain /\ Replacement \in Nat BY DEF Replacement, Plain
<1> QED BY <1>1 DEF Plain, TextChar, Byte

\* One element more of the same set.
LEMMA AppendToSeq == ASSUME NEW B, NEW s \in Seq(B), NEW x \in B PROVE Append(s, x) \in Seq(B)
BY AppendProperties

\* What the characters of a text add to its bytes.
LEMMA Utf8BytesStep ==
    ASSUME NEW s \in Seq(Plain), NEW c \in Plain
    PROVE  /\ s \in Seq(Nat) /\ Utf8Bytes(s) \in Seq(Byte) /\ Utf8Bytes(Append(s, c)) \in Seq(Byte)
           /\ c # 233 => c \in Byte /\ c < 128 /\ Utf8Bytes(Append(s, c)) = Append(Utf8Bytes(s), c)
           /\ c = 233 => Utf8Bytes(Append(s, c)) = Append(Append(Utf8Bytes(s), 195), 169)
<1>1. s \in Seq(Nat) /\ Append(s, c) \in Seq(Nat) /\ c \in Nat
  <2>1. s \in Seq(Nat) BY Characters, SeqMonotonic
  <2>2. c \in Nat BY Characters
  <2> QED BY <2>1, <2>2, AppendToSeq
<1>2. Utf8Bytes(s) \in Seq(Byte) /\ Utf8Bytes(Append(s, c)) = Utf8Join(Utf8Bytes(s), c)
  BY <1>1, Utf8BytesAppend
<1> PICK u \in Seq(Byte) : u = Utf8Bytes(s) BY <1>2
<1>3. c # 233 => c \in Byte /\ c < 128
  BY DEF Plain, Byte
<1>4. Utf8Bytes(Append(s, c)) \in Seq(Byte)
  BY <1>1, <1>2, Utf8BytesStepType
<1>5. c # 233 => u \o <<c>> = Append(u, c)
  BY <1>3, AppendIsConcat
<1>6. u \o <<195, 169>> = Append(Append(u, 195), 169)
  <2> PICK k \in Byte : k = 195 BY Characters
  <2> PICK l \in Byte : l = 169 BY Characters
  <2>1. u \o <<k, l>> = Append(Append(u, k), l) OBVIOUS
  <2> QED BY <2>1
<1>7. c # 233 => Utf8Char(c) = <<c>>
  BY <1>3 DEF Utf8Char
<1>8. c = 233 => Utf8Char(c) = <<195, 169>>
  BY DEF Utf8Char, TwoBytes
<1> QED BY <1>1, <1>2, <1>3, <1>4, <1>5, <1>6, <1>7, <1>8 DEF Utf8Join

\* A text is read from its bytes as it was.
LEMMA Utf8EndOfText == \A s \in Seq(Plain) : Utf8End(Utf8Bytes(s)) = [chars |-> s, lead |-> FALSE]
<1> DEFINE P == {s \in Seq(Plain) : Utf8End(Utf8Bytes(s)) = [chars |-> s, lead |-> FALSE]}
<1>1. <<>> \in P
  <2>1. Utf8Bytes(<<>>) = <<>> BY Utf8BytesEmpty
  <2>2. Utf8End(<<>>) = AtStart BY Utf8EndEmpty
  <2>3. <<>> \in Seq(Plain) BY EmptySeq
  <2> QED BY <2>1, <2>2, <2>3 DEF AtStart
<1>2. ASSUME NEW s \in Seq(Plain), s \in P, NEW c \in Plain PROVE Append(s, c) \in P
  <2> PICK u \in Seq(Byte) : u = Utf8Bytes(s) BY Utf8BytesStep
  <2> PICK e : e = [chars |-> s, lead |-> FALSE] OBVIOUS
  <2>1. Utf8End(u) = e BY <1>2
  <2> PICK q \in Seq(Plain) : q = Append(s, c) BY AppendToSeq
  <2>2. CASE c # 233
    <3>1. c \in Byte /\ c < 128 /\ Utf8Bytes(q) = Append(u, c) BY <2>2, Utf8BytesStep
    <3>2. Utf8End(Append(u, c)) = Utf8Step(e, c) BY <2>1, <3>1, Utf8EndAppend
    <3>3. c # 195 BY <3>1 DEF Byte
    <3>4. Utf8Step(e, c) = [chars |-> q, lead |-> FALSE]
      BY <3>1, <3>3 DEF Utf8Step
    <3> QED BY <3>1, <3>2, <3>4
  <2>3. CASE c = 233
    <3>1. Utf8Bytes(q) = Append(Append(u, 195), 169) BY <2>3, Utf8BytesStep
    <3> PICK k \in Byte : k = 195 BY Characters
    <3> PICK l \in Byte : l = 169 BY Characters
    <3> PICK v \in Seq(Byte) : v = Append(u, k) BY AppendToSeq
    <3>20. Utf8End(Append(u, k)) = Utf8Step(Utf8End(u), k) BY Utf8EndAppend
    <3>2. Utf8End(v) = Utf8Step(e, k) BY <2>1, <3>20
    <3>3. Utf8Step(e, k) = [e EXCEPT !.lead = TRUE] BY DEF Utf8Step
    <3> PICK f : f = [e EXCEPT !.lead = TRUE] OBVIOUS
    <3>40. Utf8End(Append(v, l)) = Utf8Step(Utf8End(v), l) BY Utf8EndAppend
    <3>4. Utf8End(Append(v, l)) = Utf8Step(f, l) BY <3>2, <3>3, <3>40
    <3>5. f = [chars |-> s, lead |-> TRUE] OBVIOUS
    <3>6. Utf8Step(f, l) = [chars |-> Append(s, 233), lead |-> FALSE] BY <3>5 DEF Utf8Step
    <3>7. Utf8Step(f, l) = [chars |-> q, lead |-> FALSE] BY <3>6, <2>3
    <3> QED BY <3>1, <3>4, <3>7
  <2> QED BY <2>2, <2>3
<1> HIDE DEF P
<1>3. \A s \in Seq(Plain) : s \in P
  BY <1>1, <1>2, SeqInduction
<1> QED BY <1>3 DEF P

\* Text that has no replacement in it is encoded in UTF-8 and decoded to itself.
LEMMA Utf8RoundTrip == \A s \in Seq(Plain) : Utf8Slice(Utf8Bytes(s)) = s
BY Utf8EndOfText, Utf8SliceIs

\* Any bytes decode to text.
LEMMA Utf8SliceType == \A bytes \in Seq(Byte) : Utf8Slice(bytes) \in Seq(TextChar)
<1> SUFFICES ASSUME NEW bytes \in Seq(Byte) PROVE Utf8Slice(bytes) \in Seq(TextChar)
  OBVIOUS
<1>1. Utf8End(bytes) \in Reading
  BY Utf8EndAppend, Characters
<1>2. Utf8End(bytes).chars \in Seq(TextChar) BY <1>1 DEF Reading
<1>3. Replacement \in TextChar BY DEF TextChar
<1>4. Append(Utf8End(bytes).chars, Replacement) \in Seq(TextChar) BY <1>2, <1>3, AppendToSeq
<1> QED BY <1>2, <1>4, Utf8SliceIs

\* A text whose last byte is NUL ends with that character.
LEMMA NulAtEnd ==
    ASSUME NEW s \in Seq(Plain), NEW c \in Plain, NEW q, q = Append(s, c), Len(Utf8Bytes(q)) \in Nat, Utf8Bytes(q)[Len(Utf8Bytes(q))] = 0
    PROVE  Utf8Bytes(q) = Append(Utf8Bytes(s), 0)
<1> PICK u \in Seq(Byte) : u = Utf8Bytes(s) BY Utf8BytesStep
<1>1. CASE c # 233
  <2>1. c \in Byte /\ Utf8Bytes(q) = Append(u, c) BY <1>1, Utf8BytesStep
  <2>2. Append(u, c)[Len(Append(u, c))] = c BY <2>1
  <2> QED BY <2>1, <2>2
<1>2. CASE c = 233
  <2>1. Utf8Bytes(q) = Append(Append(u, 195), 169) BY <1>2, Utf8BytesStep
  <2> PICK k \in Byte : k = 195 BY Characters
  <2> PICK l \in Byte : l = 169 BY Characters
  <2> PICK v \in Seq(Byte) : v = Append(u, k) BY AppendToSeq
  <2>2. Append(v, l)[Len(Append(v, l))] = l OBVIOUS
  <2> QED BY <2>1, <2>2
<1> QED BY <1>1, <1>2

-----------------------------------------------------------------------------
\* UTF-8: what a write stores.

\* The greatest of a nonempty set of 0..n is one of its elements.
LEMMA MaxBounded == ASSUME NEW n \in Nat, NEW t \in SUBSET (0..n), t # {} PROVE Max(t) \in t
<1> DEFINE U == {n - x : x \in t}
<1>1. U \in SUBSET Nat /\ U # {}
  <2>1. \A x \in t : n - x \in Nat OBVIOUS
  <2> QED BY <2>1
<1>2. PICK y \in U : \A z \in U : y <= z
  <2> HIDE DEF U
  <2> QED BY <1>1, Least
<1>3. PICK x \in t : y = n - x OBVIOUS
<1>4. \A z \in t : x >= z BY <1>2, <1>3
<1> QED BY <1>4 DEF Max

\* The first characters of a text are a prefix of it.
LEMMA FirstIsPrefix ==
    ASSUME NEW B, NEW s \in Seq(B), NEW m \in 0..Len(s)
    PROVE  /\ SubSeq(s, 1, m) \in Seq(B) /\ Len(SubSeq(s, 1, m)) = m
           /\ IsPrefix(SubSeq(s, 1, m), s)
<1> PICK p : p = SubSeq(s, 1, m) OBVIOUS
<1>1. p \in Seq(B) /\ Len(p) = m OBVIOUS
<1>2. SubSeq(p, 1, Len(p)) = p BY <1>1, SubSeqFull
<1>3. SubSeq(p, 1, Len(p)) = SubSeq(s, 1, Len(p)) BY <1>1, <1>2
<1>4. Len(p) <= Len(s) BY <1>1
<1> QED BY <1>1, <1>3, <1>4 DEF IsPrefix

\* What holds of every write of a string to a SlowBuffer.
WriteOK(w, max) ==
    /\ w.ok \in BOOLEAN /\ w.bytes \in Seq(Byte) /\ w.ret \in Nat /\ w.ret <= Len(w.bytes)
    /\ Len(w.bytes) <= max

\* A write that throws stores nothing and returns nothing.
LEMMA ThrowsOK == \A max \in Nat : WriteOK(Throws, max)
BY EmptySeq DEF WriteOK, Throws

\* A write that stores no more than it may, and returns no more than it stored.
LEMMA StoresOK == \A max \in Nat, bytes \in Seq(Byte), ret \in Nat : ret <= Len(bytes) /\ Len(bytes) <= max => WriteOK(Stores(bytes, ret), max)
BY DEF WriteOK, Stores

\* The lesser of two numbers.
LEMMA LeastOf == \A a \in Int, b \in Int : Least2(a, b) \in Int /\ Least2(a, b) <= a /\ Least2(a, b) <= b /\ (Least2(a, b) = a \/ Least2(a, b) = b)
BY DEF Least2

\* What is asked for fits when offset and length were checked against the buffer.
LEMMA RoomIs == \A length, offset, max \in Nat : offset + max <= length => Least2(length - offset, max) = max
BY DEF Least2

\* The end of a text as write counts it.
Reported(bytes) == IF bytes # <<>> /\ Last(bytes) = 0 THEN Len(bytes) - 1 ELSE Len(bytes)

\* What a UTF-8 write reports (the bytes before a terminating 0) is no more than it stored.
LEMMA ReportedFacts == ASSUME NEW bytes \in Seq(Byte) PROVE Reported(bytes) \in Nat /\ Reported(bytes) <= Len(bytes)
<1>1. Len(bytes) \in Nat /\ (bytes # <<>> => Len(bytes) \in Nat \ {0}) BY EmptySeq
<1> QED BY <1>1 DEF Reported

\* What Utf8Write stores: as many whole characters as fit, and a 0 if there is room for it.
LEMMA Utf8WriteBytes ==
    ASSUME NEW chars \in Seq(Nat), NEW length \in Nat, NEW offset \in Nat, NEW max \in Nat, offset + max <= length
    PROVE  \/ Utf8Write(length, chars, offset, max) = Throws
           \/ \E m \in 0..Len(chars), bytes \in Seq(Byte) :
                 /\ Utf8Write(length, chars, offset, max) = Stores(bytes, Reported(bytes))
                 /\ Len(bytes) <= max
                 /\ bytes = Utf8Bytes(SubSeq(chars, 1, m)) \/ bytes = Append(Utf8Bytes(SubSeq(chars, 1, m)), 0)
<1> DEFINE room == Least2(length - offset, max)
           fitting == {k \in 0..Len(chars) : Len(Utf8Bytes(SubSeq(chars, 1, k))) <= room}
<1>0. Len(chars) \in Nat OBVIOUS
<1>10. room = max
  BY RoomIs
<1> HIDE DEF room
<1>1. 0 \in fitting
  <2>1. SubSeq(chars, 1, 0) = <<>> BY SubSeqEmpty
  <2>2. Utf8Bytes(<<>>) = <<>> BY Utf8BytesEmpty
  <2>3. Len(<<>>) = 0 OBVIOUS
  <2>4. 0 \in 0..Len(chars) BY <1>0
  <2>5. Len(Utf8Bytes(SubSeq(chars, 1, 0))) = 0 BY <2>1, <2>2, <2>3
  <2> QED BY <2>4, <2>5, <1>10
<1>2. PICK m : m = Max(fitting) OBVIOUS
<1>3. fitting \in SUBSET (0..Len(chars)) OBVIOUS
<1>4. m \in fitting
  <2> HIDE DEF fitting
  <2> QED BY <1>0, <1>1, <1>2, <1>3, MaxBounded
<1>5. m \in 0..Len(chars) /\ Len(Utf8Bytes(SubSeq(chars, 1, m))) <= max
  BY <1>4, <1>10
<1> PICK p \in Seq(Nat) : p = SubSeq(chars, 1, m)
  BY <1>5, FirstIsPrefix
<1>6. Utf8Bytes(p) \in Seq(Byte)
  BY Utf8BytesAppend
<1> PICK body \in Seq(Byte) : body = Utf8Bytes(p) BY <1>6
<1>7. Append(body, 0) \in Seq(Byte) /\ Len(Append(body, 0)) = Len(body) + 1
  <2>1. 0 \in Byte BY Characters
  <2> QED BY <2>1
<1>8. Len(body) \in Nat /\ Len(body) <= max BY <1>5
<1> PICK bytes : bytes = IF m = Len(chars) /\ Len(body) < room THEN Append(body, 0) ELSE body OBVIOUS
<1>9. bytes \in Seq(Byte) /\ Len(bytes) <= max /\ (bytes = body \/ bytes = Append(body, 0))
  BY <1>7, <1>8, <1>10
<1>11. Utf8Write(length, chars, offset, max) = IF chars # <<>> /\ offset >= length THEN Throws ELSE Stores(bytes, Reported(bytes))
  BY <1>2, Zenon DEF Utf8Write, Reported, room
<1> QED BY <1>5, <1>9, <1>11

\* Utf8Write stores no more than maxLength bytes.
LEMMA Utf8WriteOK ==
    ASSUME NEW chars \in Seq(Nat), NEW length \in Nat, NEW offset \in Nat, NEW max \in Nat, offset + max <= length
    PROVE  WriteOK(Utf8Write(length, chars, offset, max), max)
<1>1. CASE Utf8Write(length, chars, offset, max) = Throws BY <1>1, ThrowsOK
<1>2. CASE Utf8Write(length, chars, offset, max) # Throws
  <2>1. PICK m \in 0..Len(chars), bytes \in Seq(Byte) :
          Utf8Write(length, chars, offset, max) = Stores(bytes, Reported(bytes)) /\ Len(bytes) <= max
    BY <1>2, Utf8WriteBytes
  <2>2. WriteOK(Stores(bytes, Reported(bytes)), max) BY <2>1, ReportedFacts, StoresOK
  <2> QED BY <2>1, <2>2
<1> QED BY <1>1, <1>2

\* What write reports of a text is a beginning of it.
LEMMA Utf8WritePrefix ==
    ASSUME NEW chars \in Seq(Plain), NEW length \in Nat, NEW offset \in Nat, NEW max \in Nat, offset + max <= length,
           NEW w, w = Utf8Write(length, chars, offset, max)
    PROVE  IsPrefix(Utf8Slice(SubSeq(w.bytes, 1, w.ret)), chars)
<1>0. chars \in Seq(Nat) BY Characters, SeqMonotonic
<1>1. ASSUME NEW m \in 0..Len(chars) PROVE IsPrefix(Utf8Slice(Utf8Bytes(SubSeq(chars, 1, m))), chars)
  <2>1. SubSeq(chars, 1, m) \in Seq(Plain) /\ IsPrefix(SubSeq(chars, 1, m), chars) BY FirstIsPrefix
  <2> QED BY <2>1, Utf8RoundTrip
<1>2. CASE w = Throws
  <2>1. SubSeq(<<>>, 1, 0) = <<>> BY SubSeqEmpty
  <2>2. SubSeq(chars, 1, 0) = <<>> BY SubSeqEmpty
  <2>3. Utf8Bytes(<<>>) = <<>> BY Utf8BytesEmpty
  <2>4. 0 \in 0..Len(chars) OBVIOUS
  <2>5. IsPrefix(Utf8Slice(Utf8Bytes(SubSeq(chars, 1, 0))), chars) BY <1>1, <2>4
  <2>6. w.bytes = <<>> /\ w.ret = 0 BY <1>2 DEF Throws
  <2> QED BY <2>1, <2>2, <2>3, <2>5, <2>6
<1>3. CASE w # Throws
  <2>1. PICK m \in 0..Len(chars), bytes \in Seq(Byte) :
          /\ w = Stores(bytes, Reported(bytes))
          /\ bytes = Utf8Bytes(SubSeq(chars, 1, m)) \/ bytes = Append(Utf8Bytes(SubSeq(chars, 1, m)), 0)
    BY <1>0, <1>3, Utf8WriteBytes
  <2>2. w.bytes = bytes /\ w.ret = Reported(bytes) BY <2>1 DEF Stores
  <2> PICK p \in Seq(Plain) : p = SubSeq(chars, 1, m) BY FirstIsPrefix
  <2>3. \E s \in Seq(Nat) : s = p BY Characters, SeqMonotonic
  <2> PICK body \in Seq(Byte) : body = Utf8Bytes(p) BY <2>3, Utf8BytesAppend
  <2>4. CASE bytes = Append(body, 0)
    <3>1. /\ bytes # <<>> /\ Len(bytes) = Len(body) + 1 /\ bytes[Len(bytes)] = 0 /\ SubSeq(bytes, 1, Len(body)) = body
      <4> PICK z \in Byte : z = 0 BY Characters
      <4>1. Append(body, z) # <<>> /\ Len(Append(body, z)) = Len(body) + 1 /\ Append(body, z)[Len(Append(body, z))] = z
        BY AppendProperties
      <4>2. SubSeq(Append(body, z), 1, Len(body)) = body OBVIOUS
      <4> QED BY <2>4, <4>1, <4>2
    <3>2. Reported(bytes) = Len(body) BY <3>1 DEF Reported, Last
    <3> QED BY <1>1, <2>2, <3>1, <3>2
  <2>5. CASE bytes = body /\ ~(bytes # <<>> /\ Last(bytes) = 0)
    <3>1. Reported(bytes) = Len(bytes) BY <2>5, Zenon DEF Reported
    <3>2. SubSeq(bytes, 1, Len(bytes)) = bytes BY SubSeqFull
    <3> QED BY <1>1, <2>2, <2>5, <3>1, <3>2
  <2>6. CASE bytes = body /\ bytes # <<>> /\ Last(bytes) = 0
    <3>1. Reported(bytes) = Len(bytes) - 1 BY <2>6, Zenon DEF Reported
    <3>2. m # 0
      <4> SUFFICES ASSUME m = 0 PROVE FALSE OBVIOUS
      <4>1. SubSeq(chars, 1, 0) = <<>> BY SubSeqEmpty
      <4> QED BY <2>6, <4>1, Utf8BytesEmpty
    <3>3. m - 1 \in 0..Len(chars) BY <3>2
    <3> PICK k \in 0..Len(chars) : k = m - 1 BY <3>3
    <3> PICK r \in Seq(Plain) : r = SubSeq(chars, 1, k) BY FirstIsPrefix
    <3> PICK c \in Plain : c = chars[m] BY <3>2, ElementOfSeq
    <3>4. p = Append(r, c)
      <4>1. Len(p) = m /\ \A i \in 1..m : p[i] = chars[i] OBVIOUS
      <4>2. Len(r) = k /\ \A i \in 1..k : r[i] = chars[i] OBVIOUS
      <4> PICK q \in Seq(Plain) : q = Append(r, c) BY AppendToSeq
      <4>3. Len(q) = k + 1 /\ q[k + 1] = c /\ \A i \in 1..k : q[i] = r[i] BY <4>2
      <4>4. Len(p) = Len(q) BY <3>2, <4>1, <4>3
      <4>5. \A i \in 1..Len(p) : p[i] = q[i]
        <5> SUFFICES ASSUME NEW i \in 1..Len(p) PROVE p[i] = q[i] OBVIOUS
        <5>1. i \in 1..m /\ m = k + 1 BY <3>2, <4>1
        <5>2. CASE i = m BY <4>1, <4>3, <5>1, <5>2
        <5>3. CASE i # m
          <6>1. i \in 1..k BY <5>1, <5>3
          <6> QED BY <4>1, <4>2, <4>3, <5>1, <6>1
        <5> QED BY <5>2, <5>3
      <4>6. p = q BY <4>4, <4>5, SeqEqual
      <4> QED BY <4>6
    <3>5. Len(body) \in Nat /\ body[Len(body)] = 0 BY <2>6 DEF Last
    <3>6. body = Append(Utf8Bytes(r), 0)
      BY <3>4, <3>5, NulAtEnd
    <3> PICK v \in Seq(Byte) : v = Utf8Bytes(r)
      <4>1. \E s \in Seq(Nat) : s = r BY Characters, SeqMonotonic
      <4> QED BY <4>1, Utf8BytesAppend
    <3>7. SubSeq(body, 1, Len(body) - 1) = v
      <4> PICK z \in Byte : z = 0 BY Characters
      <4>1. SubSeq(Append(v, z), 1, Len(Append(v, z)) - 1) = v OBVIOUS
      <4> QED BY <3>6, <4>1
    <3> QED BY <1>1, <2>2, <2>6, <3>1, <3>7
  <2> QED BY <2>1, <2>4, <2>5, <2>6
<1> QED BY <1>2, <1>3

-----------------------------------------------------------------------------
\* What a write stores in the other encodings.

\* What holds of every write, with the encodings that overrun the room given too.
Written(w) == w.ok \in BOOLEAN /\ w.bytes \in Seq(Byte) /\ w.ret \in Nat /\ w.ret <= Len(w.bytes)

\* A write of some bytes returns their number.
LEMMA WrittenOf == \A bytes \in Seq(Byte) : Written(Stores(bytes, Len(bytes))) /\ Stores(bytes, Len(bytes)).ret = Len(bytes) /\ Stores(bytes, Len(bytes)).bytes = bytes
BY DEF Written, Stores

\* A write that throws returns nothing and stores nothing.
LEMMA WrittenThrows == Written(Throws) /\ Throws.ret = 0 /\ Throws.bytes = <<>> /\ Len(<<>>) = 0
BY EmptySeq DEF Written, Throws

\* Bytes computed one for each character.
LEMMA BytesOfChars ==
    ASSUME NEW n \in Nat, NEW f, \A k \in 1..n : f[k] \in Byte
    PROVE  [k \in 1..n |-> f[k]] \in Seq(Byte) /\ Len([k \in 1..n |-> f[k]]) = n
<1> PICK g : g = [k \in 1..n |-> f[k]] OBVIOUS
<1>1. g \in [1..n -> Byte] OBVIOUS
<1>2. g \in Seq(Byte) BY <1>1, SeqDef
<1>3. Len(g) = n BY <1>1, <1>2
<1> QED BY <1>2, <1>3

\* A character gives a byte, in ascii and in binary.
LEMMA ByteOfChar == \A c \in Nat : AsciiByte(c) \in Byte /\ c % 256 \in Byte
<1> SUFFICES ASSUME NEW c \in Nat PROVE AsciiByte(c) \in Byte /\ c % 256 \in Byte
  OBVIOUS
<1>1. c % 256 \in 0..255 OBVIOUS
<1>2. 32 \in 0..255 OBVIOUS
<1> QED BY <1>1, <1>2 DEF AsciiByte, Byte

\* AsciiWrite stores no more than maxLength bytes and returns what it stored.
LEMMA AsciiWriteOK ==
    ASSUME NEW chars \in Seq(Nat), NEW length \in Nat, NEW offset \in Nat, NEW max \in Nat, offset + max <= length
    PROVE  LET w == AsciiWrite(length, chars, offset, max) IN Written(w) /\ Len(w.bytes) <= max
<1> PICK n : n = Least2(Len(chars), Least2(length - offset, max)) OBVIOUS
<1>1. n \in Nat /\ n <= max /\ n <= Len(chars)
  <2>1. n = Least2(Len(chars), max) BY RoomIs
  <2>2. Len(chars) \in Nat OBVIOUS
  <2> QED BY <2>1, <2>2 DEF Least2
<1> PICK bytes : bytes = [k \in 1..n |-> AsciiByte(chars[k])] OBVIOUS
<1>2. bytes \in Seq(Byte) /\ Len(bytes) = n
  <2>1. \A k \in 1..n : AsciiByte(chars[k]) \in Byte
    <3> SUFFICES ASSUME NEW k \in 1..n PROVE AsciiByte(chars[k]) \in Byte OBVIOUS
    <3>1. k \in 1..Len(chars) BY <1>1
    <3> QED BY <3>1, ElementOfSeq, ByteOfChar
  <2>2. \A k \in 1..n : bytes[k] \in Byte BY <2>1
  <2>3. bytes = [k \in 1..n |-> bytes[k]] OBVIOUS
  <2> QED BY <1>1, <2>2, <2>3, BytesOfChars
<1>3. AsciiWrite(length, chars, offset, max) = IF chars # <<>> /\ offset >= length THEN Throws ELSE Stores(bytes, n)
  BY Zenon DEF AsciiWrite
<1> QED BY <1>1, <1>2, <1>3, WrittenOf, WrittenThrows

\* BinaryWrite returns what it stored, at most one byte for each character.
LEMMA BinaryWriteOK ==
    ASSUME NEW chars \in Seq(Nat), NEW length \in Nat, NEW offset \in Nat, NEW max, offset <= length
    PROVE  LET w == BinaryWrite(length, chars, offset, max) IN Written(w) /\ w.ret <= Len(chars)
<1> PICK n : n = Least2(Len(chars), length - offset) OBVIOUS
<1>1. n \in Nat /\ n <= Len(chars)
  <2>2. Len(chars) \in Nat OBVIOUS
  <2> QED BY <2>2 DEF Least2
<1> PICK bytes : bytes = [k \in 1..n |-> chars[k] % 256] OBVIOUS
<1>2. bytes \in Seq(Byte) /\ Len(bytes) = n
  <2>1. \A k \in 1..n : chars[k] % 256 \in Byte
    <3> SUFFICES ASSUME NEW k \in 1..n PROVE chars[k] % 256 \in Byte OBVIOUS
    <3>1. k \in 1..Len(chars) BY <1>1
    <3>2. chars[k] \in Nat BY <3>1, ElementOfSeq
    <3> QED BY <3>2, ByteOfChar
  <2>2. \A k \in 1..n : bytes[k] \in Byte BY <2>1
  <2>3. bytes = [k \in 1..n |-> bytes[k]] OBVIOUS
  <2> QED BY <1>1, <2>2, <2>3, BytesOfChars
<1>3. BinaryWrite(length, chars, offset, max) = IF chars # <<>> /\ offset >= length THEN Throws ELSE Stores(bytes, n)
  BY Zenon DEF BinaryWrite, DecodeWrite
<1>4. Len(chars) \in Nat OBVIOUS
<1> QED BY <1>1, <1>2, <1>3, <1>4, WrittenOf, WrittenThrows

\* Base64Write returns what it stored, at most base64_decoded_size.
LEMMA Base64WriteOK ==
    ASSUME NEW from \in Seq(Byte), NEW chars, GoodBase64(chars, from), NEW length \in Nat, NEW offset \in Nat, NEW max
    PROVE  LET w == Base64Write(length, chars, offset, max) IN Written(w) /\ w.ret <= base64_decoded_size(chars)
<1>1. Base64Bytes(chars) = from /\ base64_decoded_size(chars) \in Nat /\ Len(from) <= base64_decoded_size(chars)
  BY DEF GoodBase64
<1>2. Base64Write(length, chars, offset, max) \in {Throws, Stores(<<>>, 0), Stores(from, Len(from))}
  BY <1>1, Zenon DEF Base64Write
<1>3. Written(Stores(<<>>, 0)) /\ Stores(<<>>, 0).ret = 0
  BY EmptySeq DEF Stores, Written
<1> QED BY <1>1, <1>2, <1>3, WrittenOf, WrittenThrows

\* The encodings, and what is known of a string that Buffer.write is given.
Encodings == {"utf8", "ascii", "binary", "base64"}

\* A string of which the bytes are known, if it is base64.
GoodString(chars, enc, from) ==
    /\ chars \in Seq(Nat) /\ from \in Seq(Byte) /\ enc \in Encodings
    /\ enc = "base64" => GoodBase64(chars, from)

\* Buffer.write, whatever the encoding.
LEMMA WriteToOK ==
    ASSUME NEW chars, NEW enc, NEW from, GoodString(chars, enc, from),
           NEW length \in Nat, NEW offset \in Nat, NEW max \in Nat, offset + max <= length,
           NEW w, w = WriteTo(length, chars, enc, offset, max)
    PROVE  /\ Written(w)
           /\ enc \in {"utf8", "ascii"} => Len(w.bytes) <= max
           /\ max = ByteLength(chars, enc) => w.ret <= max
<1>1. chars \in Seq(Nat) /\ from \in Seq(Byte) /\ enc \in Encodings /\ (enc = "base64" => GoodBase64(chars, from))
  BY DEF GoodString
<1>2. CASE enc = "utf8"
  <2>1. w = Utf8Write(length, chars, offset, max) BY <1>2 DEF WriteTo
  <2>2. WriteOK(w, max) BY <1>1, <2>1, Utf8WriteOK
  <2>3. w.ret <= max
    <3>1. w.ret \in Nat /\ w.ret <= Len(w.bytes) /\ Len(w.bytes) <= max /\ Len(w.bytes) \in Nat BY <2>2 DEF WriteOK
    <3> QED BY <3>1
  <2> QED BY <1>2, <2>2, <2>3 DEF WriteOK, Written
<1>3. CASE enc = "ascii"
  <2>1. w = AsciiWrite(length, chars, offset, max) BY <1>3 DEF WriteTo
  <2>2. Written(w) /\ Len(w.bytes) <= max BY <1>1, <2>1, AsciiWriteOK
  <2>3. w.ret <= max
    <3>1. w.ret \in Nat /\ w.ret <= Len(w.bytes) /\ Len(w.bytes) <= max /\ Len(w.bytes) \in Nat BY <2>2 DEF Written
    <3> QED BY <3>1
  <2> QED BY <1>3, <2>2, <2>3
<1>4. CASE enc = "binary"
  <2>1. w = BinaryWrite(length, chars, offset, max) BY <1>4 DEF WriteTo
  <2>2. Written(w) /\ w.ret <= Len(chars) BY <1>1, <2>1, BinaryWriteOK
  <2>3. ByteLength(chars, enc) = Len(chars) BY <1>4 DEF ByteLength
  <2> QED BY <1>4, <2>2, <2>3
<1>5. CASE enc = "base64"
  <2>1. w = Base64Write(length, chars, offset, max) BY <1>5 DEF WriteTo
  <2>2. Written(w) /\ w.ret <= base64_decoded_size(chars) BY <1>1, <1>5, <2>1, Base64WriteOK
  <2>3. ByteLength(chars, enc) = base64_decoded_size(chars) BY <1>5 DEF ByteLength
  <2> QED BY <1>5, <2>2, <2>3
<1> QED BY <1>1, <1>2, <1>3, <1>4, <1>5 DEF Encodings

\* Buffer.byteLength is a natural number.
LEMMA ByteLengthType == ASSUME NEW chars, NEW enc, NEW from, GoodString(chars, enc, from) PROVE ByteLength(chars, enc) \in Nat
<1>1. chars \in Seq(Nat) /\ enc \in Encodings /\ (enc = "base64" => base64_decoded_size(chars) \in Nat)
  BY DEF GoodString, GoodBase64
<1>2. Len(chars) \in Nat BY <1>1
<1>3. Len(Utf8Bytes(chars)) \in Nat
  <2>1. 0 \in Nat OBVIOUS
  <2>2. Utf8Bytes(chars) \in Seq(Byte) BY <1>1, <2>1, Utf8BytesAppend
  <2> QED BY <2>2
<1> QED BY <1>1, <1>2, <1>3 DEF ByteLength, Encodings

\* Memory after a write.
LEMMA StoredFacts ==
    ASSUME NEW data \in Seq(Byte), NEW offset \in Nat, NEW bytes \in Seq(Byte), NEW d, d = Stored(data, offset, bytes)
    PROVE  /\ d \in Seq(Byte) /\ Len(d) = Len(data) /\ (d = <<>> <=> data = <<>>)
           /\ \A k \in 1..Len(data) : IF k \in offset + 1..offset + Len(bytes) THEN d[k] = bytes[k - offset] ELSE d[k] = data[k]
<1> PICK n \in Nat : n = Len(data) OBVIOUS
<1> PICK l \in Nat : l = Len(bytes) OBVIOUS
<1>1. d = [k \in 1..n |-> IF k \in offset + 1..offset + l THEN bytes[k - offset] ELSE data[k]]
  BY Zenon DEF Stored
<1>2. ASSUME NEW k \in 1..n PROVE d[k] \in Byte /\ IF k \in offset + 1..offset + l THEN d[k] = bytes[k - offset] ELSE d[k] = data[k]
  <2>1. CASE k \in offset + 1..offset + l
    <3> PICK j \in 1..l : j = k - offset BY <2>1
    <3>1. d[k] = bytes[j] BY <1>1, <2>1
    <3>2. bytes[j] \in Byte BY ElementOfSeq
    <3> QED BY <2>1, <3>1, <3>2
  <2>2. CASE k \notin offset + 1..offset + l
    <3>1. d[k] = data[k] BY <1>1, <2>2
    <3>2. data[k] \in Byte BY ElementOfSeq
    <3> QED BY <2>2, <3>1, <3>2
  <2> QED BY <2>1, <2>2
<1>3. d \in Seq(Byte) /\ Len(d) = n
  <2>1. d = [k \in 1..n |-> d[k]] BY <1>1
  <2> QED BY <1>2, <2>1, BytesOfChars
<1>4. d = <<>> <=> data = <<>>
  BY <1>3, EmptySeq
<1> QED BY <1>2, <1>3, <1>4

-----------------------------------------------------------------------------
\* What V8 is told.

\* What V8 is told is a natural number.
LEMMA HeldIsNat == \A s \in Seq(SlowRecord) : HeldByAll(s) \in Nat
<1> SUFFICES ASSUME NEW s \in Seq(SlowRecord) PROVE HeldByAll(s) \in Nat
  OBVIOUS
<1>1. NoSlow \in SlowRecord
  BY EmptySeq DEF NoSlow, SlowRecord
<1> QED BY <1>1, HeldByAllAppend

\* One SlowBuffer more, or another in its place.
LEMMA HeldExcept ==
    \A s \in Seq(SlowRecord) : \A i \in 1..Len(s), x \in SlowRecord :
        HeldByAll([s EXCEPT ![i] = x]) + Held(s[i]) = HeldByAll(s) + Held(x)
<1> DEFINE Same(s) == \A i \in 1..Len(s), x \in SlowRecord : HeldByAll([s EXCEPT ![i] = x]) + Held(s[i]) = HeldByAll(s) + Held(x)
           P == {s \in Seq(SlowRecord) : Same(s)}
<1>1. <<>> \in P
  <2>1. <<>> \in Seq(SlowRecord) /\ 1..Len(<<>>) = {} BY EmptySeq
  <2> QED BY <2>1
<1>2. ASSUME NEW s \in Seq(SlowRecord), s \in P, NEW y \in SlowRecord PROVE Append(s, y) \in P
  <2> PICK n \in Nat : n = Len(s) OBVIOUS
  <2> PICK q \in Seq(SlowRecord) : q = Append(s, y) BY AppendToSeq
  <2>1. Len(q) = n + 1 /\ q[n + 1] = y /\ \A i \in 1..n : q[i] = s[i] BY AppendProperties
  <2>2. HeldByAll(q) = HeldByAll(s) + Held(y)
    <3>1. HeldByAll(Append(s, y)) = HeldAdd(HeldByAll(s), y) BY HeldByAllAppend
    <3> QED BY <3>1 DEF HeldAdd
  <2>3. Same(s) BY <1>2
  <2>4. Same(q)
    <3> SUFFICES ASSUME NEW i \in 1..Len(q), NEW x \in SlowRecord PROVE HeldByAll([q EXCEPT ![i] = x]) + Held(q[i]) = HeldByAll(q) + Held(x)
      OBVIOUS
    <3> PICK e \in Seq(SlowRecord) : e = [q EXCEPT ![i] = x] BY ExceptSeq
    <3>1. Len(e) = n + 1 /\ \A j \in 1..n + 1 : e[j] = IF j = i THEN x ELSE q[j]
      <4>2. Len([q EXCEPT ![i] = x]) = Len(q) BY ExceptSeq
      <4>3. q \in [1..Len(q) -> SlowRecord] BY LenProperties
      <4>4. \A j \in 1..Len(q) : [q EXCEPT ![i] = x][j] = IF j = i THEN x ELSE q[j] BY <4>3
      <4>1. Len(e) = Len(q) /\ \A j \in 1..Len(q) : e[j] = IF j = i THEN x ELSE q[j] BY <4>2, <4>4, Zenon
      <4> QED BY <2>1, <4>1
    <3>2. HeldByAll(s) \in Nat /\ Held(y) \in Nat /\ Held(x) \in Nat BY HeldIsNat, HeldType
    <3>3. CASE i = n + 1
      <4> PICK f \in Seq(SlowRecord) : f = Append(s, x) BY AppendToSeq
      <4>1. Len(f) = n + 1 /\ f[n + 1] = x /\ \A j \in 1..n : f[j] = s[j] BY AppendProperties
      <4>2. \A j \in 1..n + 1 : e[j] = f[j]
        <5> SUFFICES ASSUME NEW j \in 1..n + 1 PROVE e[j] = f[j] OBVIOUS
        <5>1. CASE j = n + 1 BY <3>1, <3>3, <4>1, <5>1
        <5>2. CASE j # n + 1
          <6>1. j \in 1..n BY <5>2
          <6> QED BY <2>1, <3>1, <3>3, <4>1, <5>2, <6>1
        <5> QED BY <5>1, <5>2
      <4>3. e = f BY <3>1, <4>1, <4>2, SeqEqual
      <4>4. HeldByAll(Append(s, x)) = HeldAdd(HeldByAll(s), x) BY HeldByAllAppend
      <4>5. HeldByAll(e) = HeldByAll(s) + Held(x) BY <4>3, <4>4 DEF HeldAdd
      <4>6. q[i] = y BY <2>1, <3>3
      <4> QED BY <2>2, <3>2, <4>5, <4>6
    <3>4. CASE i # n + 1
      <4>1. i \in 1..n BY <2>1, <3>4
      <4> PICK g \in Seq(SlowRecord) : g = [s EXCEPT ![i] = x] BY <4>1, ExceptSeq
      <4>2. Len(g) = n /\ \A j \in 1..n : g[j] = IF j = i THEN x ELSE s[j] BY <4>1, ExceptSeq
      <4> PICK f \in Seq(SlowRecord) : f = Append(g, y) BY AppendToSeq
      <4>3. Len(f) = n + 1 /\ f[n + 1] = y /\ \A j \in 1..n : f[j] = g[j] BY <4>2, AppendProperties
      <4>4. \A j \in 1..n + 1 : e[j] = f[j]
        <5> SUFFICES ASSUME NEW j \in 1..n + 1 PROVE e[j] = f[j] OBVIOUS
        <5>1. CASE j = n + 1
          <6>1. e[j] = q[j] BY <3>1, <3>4, <5>1
          <6> QED BY <2>1, <4>3, <5>1, <6>1
        <5>2. CASE j # n + 1
          <6>1. j \in 1..n BY <5>2
          <6>2. f[j] = IF j = i THEN x ELSE s[j] BY <4>2, <4>3, <6>1
          <6>3. e[j] = IF j = i THEN x ELSE q[j] BY <3>1
          <6>4. q[j] = s[j] BY <2>1, <6>1
          <6> QED BY <6>2, <6>3, <6>4
        <5> QED BY <5>1, <5>2
      <4>5. e = f BY <3>1, <4>3, <4>4, SeqEqual
      <4>6. HeldByAll(Append(g, y)) = HeldAdd(HeldByAll(g), y) BY HeldByAllAppend
      <4>7. HeldByAll(e) = HeldByAll(g) + Held(y) BY <4>5, <4>6 DEF HeldAdd
      <4>8. HeldByAll(g) + Held(s[i]) = HeldByAll(s) + Held(x) BY <2>3, <4>1
      <4>9. q[i] = s[i] /\ s[i] \in SlowRecord BY <2>1, <4>1, ElementOfSeq
      <4>10. HeldByAll(g) \in Nat /\ Held(s[i]) \in Nat BY <4>9, HeldIsNat, HeldType
      <4>12. (HeldByAll(g) + Held(y)) + Held(s[i]) = (HeldByAll(s) + Held(y)) + Held(x)
        <5> DEFINE a == HeldByAll(g)
                   b == Held(s[i])
                   c == HeldByAll(s)
                   d == Held(x)
                   h == Held(y)
        <5>1. a \in Nat /\ b \in Nat /\ c \in Nat /\ d \in Nat /\ h \in Nat /\ a + b = c + d
          BY <3>2, <4>8, <4>10
        <5> HIDE DEF a, b, c, d, h
        <5>2. (a + h) + b = (c + h) + d BY <5>1
        <5> QED BY <5>2 DEF a, b, c, d, h
      <4> QED BY <2>2, <4>7, <4>9, <4>12, Zenon
    <3> QED BY <3>3, <3>4
  <2> QED BY <2>4
<1> HIDE DEF P
<1>3. \A s \in Seq(SlowRecord) : s \in P
  BY <1>1, <1>2, SeqInduction
<1> QED BY <1>3 DEF P

\* When no SlowBuffer holds memory, V8 is told of none.
LEMMA HeldNone ==
    \A s \in Seq(SlowRecord) : (\A i \in 1..Len(s) : Held(s[i]) = 0) => HeldByAll(s) = 0
<1> DEFINE Nothing(s) == (\A i \in 1..Len(s) : Held(s[i]) = 0) => HeldByAll(s) = 0
           P == {s \in Seq(SlowRecord) : Nothing(s)}
<1>1. <<>> \in P
  BY EmptySeq, HeldByAllEmpty
<1>2. ASSUME NEW s \in Seq(SlowRecord), s \in P, NEW y \in SlowRecord PROVE Append(s, y) \in P
  <2> PICK n \in Nat : n = Len(s) OBVIOUS
  <2> PICK q \in Seq(SlowRecord) : q = Append(s, y) BY AppendToSeq
  <2>1. Len(q) = n + 1 /\ q[n + 1] = y /\ \A i \in 1..n : q[i] = s[i] BY AppendProperties
  <2>2. HeldByAll(q) = HeldByAll(s) + Held(y)
    <3>1. HeldByAll(Append(s, y)) = HeldAdd(HeldByAll(s), y) BY HeldByAllAppend
    <3> QED BY <3>1 DEF HeldAdd
  <2>3. ASSUME \A i \in 1..Len(q) : Held(q[i]) = 0 PROVE HeldByAll(q) = 0
    <3>1. \A i \in 1..n : Held(s[i]) = 0
      <4> SUFFICES ASSUME NEW i \in 1..n PROVE Held(s[i]) = 0 OBVIOUS
      <4>1. i \in 1..Len(q) /\ q[i] = s[i] BY <2>1
      <4> QED BY <2>3, <4>1
    <3>2. HeldByAll(s) = 0 BY <1>2, <3>1
    <3>3. Held(y) = 0
      <4>1. n + 1 \in 1..Len(q) BY <2>1
      <4> QED BY <2>1, <2>3, <4>1
    <3> QED BY <2>2, <3>2, <3>3
  <2> QED BY <2>3
<1> HIDE DEF P
<1>3. \A s \in Seq(SlowRecord) : s \in P
  BY <1>1, <1>2, SeqInduction
<1> QED BY <1>3 DEF P

\* The SlowBuffers with one of them replaced.
HeldMoves(sl, p, x, m) == HeldByAll(m) = HeldByAll(sl) + Held(x) - Held(sl[p])

\* When one SlowBuffer changes, what V8 is told changes by what that one holds more or less.
LEMMA HeldUpdate ==
    ASSUME NEW n \in Nat, NEW sl \in [1..n -> SlowRecord], NEW p \in 1..n, NEW x \in SlowRecord, NEW m, m = [sl EXCEPT ![p] = x]
    PROVE  /\ m \in [1..n -> SlowRecord]
           /\ HeldByAll(sl) \in Nat
           /\ HeldMoves(sl, p, x, m)
<1>1. sl \in Seq(SlowRecord) BY SeqDef
<1>2. Len(sl) = n BY <1>1
<1>3. m \in [1..n -> SlowRecord] OBVIOUS
<1>4. m \in Seq(SlowRecord) BY <1>3, SeqDef
<1>5. HeldByAll(m) + Held(sl[p]) = HeldByAll(sl) + Held(x) BY <1>1, <1>2, HeldExcept
<1>6. HeldByAll(m) \in Nat /\ HeldByAll(sl) \in Nat /\ Held(sl[p]) \in Nat /\ Held(x) \in Nat
  BY <1>1, <1>4, HeldIsNat, HeldType
<1> QED BY <1>3, <1>5, <1>6 DEF HeldMoves

-----------------------------------------------------------------------------
\* The memory: one Buffer, one SlowBuffer more.

\* The Buffers, what keeps them inside their SlowBuffer and apart from each other, and all of Memory for given
\* values of the four variables.
BufRecord == [live : BOOLEAN, parent : 0..MaxSlow, offset : Nat, length : Nat, kind : {"none", "new", "slice"}]

\* A SlowBuffer that is not used holds nothing, and none in use was given back.
SlowOK(sl) ==
    /\ sl \in [1..MaxSlow -> SlowRecord]
    /\ \A s \in 1..MaxSlow : (sl[s].st = "none" => sl[s] = NoSlow) /\ (sl[s].st = "live" => sl[s].frees = 0)

\* The pool is a live SlowBuffer of its size.
PoolOK(sl, pool) ==
    /\ pool \in [id : 0..MaxSlow, used : 0..PoolLength]
    /\ pool.id # 0 => sl[pool.id].st = "live" /\ Len(sl[pool.id].data) = PoolLength

\* A Buffer in use lies in live memory, and one of the pool in what the pool gave out.
Inside(sl, x) == x.live => x.parent # 0 /\ sl[x.parent].st = "live" /\ x.offset + x.length <= Len(sl[x.parent].data)
InPool(pool, x) == x.live /\ x.kind = "new" /\ x.parent = pool.id => x.offset + x.length <= pool.used
Apart(x, y) ==
    x.live /\ y.live /\ x.parent = y.parent /\ x.kind = "new" /\ y.kind = "new" =>
        x.offset + x.length <= y.offset \/ y.offset + y.length <= x.offset

BufsOK(sl, pool, bs) ==
    /\ bs \in Seq(BufRecord)
    /\ \A b \in 1..Len(bs) : Inside(sl, bs[b]) /\ InPool(pool, bs[b])
    /\ \A b, c \in 1..Len(bs) : b # c => Apart(bs[b], bs[c])

MemOK(sl, pool, bs, ext) == SlowOK(sl) /\ PoolOK(sl, pool) /\ BufsOK(sl, pool, bs) /\ ext = HeldByAll(sl)

\* One Buffer more, inside its SlowBuffer and apart from every other.
LEMMA Appended ==
    ASSUME NEW sl, NEW pool, NEW bs, BufsOK(sl, pool, bs), NEW x \in BufRecord, Inside(sl, x), InPool(pool, x),
           \A b \in 1..Len(bs) : Apart(bs[b], x)
    PROVE  BufsOK(sl, pool, Append(bs, x))
<1> PICK n : n = Len(bs) OBVIOUS
<1>1. /\ bs \in Seq(BufRecord) /\ n \in Nat /\ (\A b \in 1..n : Inside(sl, bs[b]) /\ InPool(pool, bs[b]))
      /\ \A b, c \in 1..n : b # c => Apart(bs[b], bs[c])
  BY DEF BufsOK
<1> PICK q : q = Append(bs, x) OBVIOUS
<1>2. q \in Seq(BufRecord) /\ Len(q) = n + 1 /\ q[n + 1] = x /\ \A i \in 1..n : q[i] = bs[i]
  BY <1>1, AppendProperties
<1>3. \A b \in 1..n + 1 : b \in 1..n \/ b = n + 1
  BY <1>1
<1>4. \A b \in 1..n + 1 : Inside(sl, q[b]) /\ InPool(pool, q[b])
  BY <1>1, <1>2, <1>3
<1>5. \A b \in 1..n : Apart(x, bs[b])
  <2> SUFFICES ASSUME NEW b \in 1..n PROVE Apart(x, bs[b]) OBVIOUS
  <2>1. Apart(bs[b], x) OBVIOUS
  <2> QED BY <2>1, Zenon DEF Apart
<1>6. ASSUME NEW b \in 1..n + 1, NEW c \in 1..n + 1, b # c PROVE Apart(q[b], q[c])
  <2>1. CASE b \in 1..n /\ c \in 1..n BY <1>1, <1>2, <1>6, <2>1
  <2>2. CASE b = n + 1 /\ c \in 1..n BY <1>2, <1>5, <2>2
  <2>3. CASE c = n + 1 /\ b \in 1..n BY <1>2, <2>3
  <2> QED BY <1>3, <1>6, <2>1, <2>2, <2>3
<1> QED BY <1>2, <1>4, <1>6 DEF BufsOK

\* Writing to the memory of a live SlowBuffer.
LEMMA DataStored ==
    ASSUME NEW sl, NEW pool, NEW bs, NEW ext, MemOK(sl, pool, bs, ext),
           NEW p \in 1..MaxSlow, sl[p].st = "live", NEW d \in Seq(Byte), Len(d) = Len(sl[p].data)
    PROVE  MemOK([sl EXCEPT ![p].data = d], pool, bs, ext)
<1>1. SlowOK(sl) /\ PoolOK(sl, pool) /\ BufsOK(sl, pool, bs) /\ ext = HeldByAll(sl)
  BY DEF MemOK
<1>2. sl \in [1..MaxSlow -> SlowRecord] /\ \A s \in 1..MaxSlow : (sl[s].st = "none" => sl[s] = NoSlow) /\ (sl[s].st = "live" => sl[s].frees = 0)
  BY <1>1 DEF SlowOK
<1>0. MaxSlow \in Nat BY BufferAssumption
<1> PICK r \in SlowRecord : r = sl[p] BY <1>2
<1> PICK x : x = [r EXCEPT !.data = d] OBVIOUS
<1>3. x \in SlowRecord /\ x.st = r.st /\ x.data = d /\ x.foreign = r.foreign /\ x.frees = r.frees
  BY DEF SlowRecord
<1> PICK m : m = [sl EXCEPT ![p] = x] OBVIOUS
<1>4. m = [sl EXCEPT ![p].data = d]
  BY <1>2
<1>5. m \in [1..MaxSlow -> SlowRecord] /\ HeldByAll(m) = HeldByAll(sl) + Held(x) - Held(r) /\ HeldByAll(sl) \in Nat
  <2>1. sl \in [1..MaxSlow -> SlowRecord] /\ x \in SlowRecord BY <1>2, <1>3
  <2>n. PICK n \in Nat : n = MaxSlow BY <1>0
  <2>3. sl \in [1..n -> SlowRecord] /\ p \in 1..n BY <2>1, <2>n
  <2>4. /\ m \in [1..n -> SlowRecord]
        /\ HeldByAll(sl) \in Nat
        /\ HeldMoves(sl, p, x, m)
    BY <2>1, <2>3, HeldUpdate
  <2> QED BY <2>4, <2>n, Zenon DEF HeldMoves
<1>6. Held(x) = Held(r) /\ Held(r) \in Nat
  <2>1. d # <<>> <=> r.data # <<>>
    <3>1. r.data \in Seq(Byte) BY DEF SlowRecord
    <3> QED BY <3>1, EmptySeq
  <2>2. Held(x) = Held(r) BY <1>3, <2>1 DEF Held
  <2> QED BY <2>2, HeldType
<1>7. ext = HeldByAll(m)
  BY <1>1, <1>5, <1>6
<1>8. \A s \in 1..MaxSlow : m[s].st = sl[s].st /\ Len(m[s].data) = Len(sl[s].data) /\ m[s].frees = sl[s].frees /\ (s # p => m[s] = sl[s])
  BY <1>2, <1>3
<1>9. SlowOK(m)
  <2> SUFFICES ASSUME NEW s \in 1..MaxSlow PROVE (m[s].st = "none" => m[s] = NoSlow) /\ (m[s].st = "live" => m[s].frees = 0)
    BY <1>5 DEF SlowOK
  <2> QED BY <1>2, <1>8
<1>10. PoolOK(m, pool)
  BY <1>1, <1>8 DEF PoolOK
<1>11. BufsOK(m, pool, bs)
  <2> SUFFICES ASSUME NEW b \in 1..Len(bs) PROVE Inside(m, bs[b])
    BY <1>1 DEF BufsOK
  <2>1. bs[b] \in BufRecord /\ Inside(sl, bs[b])
    <3>1. bs \in Seq(BufRecord) BY <1>1 DEF BufsOK
    <3> QED BY <1>1, <3>1, ElementOfSeq DEF BufsOK
  <2>2. bs[b].parent \in 0..MaxSlow BY <2>1 DEF BufRecord
  <2>3. bs[b].parent # 0 => bs[b].parent \in 1..MaxSlow BY <2>2
  <2> QED BY <1>8, <2>1, <2>3 DEF Inside
<1> QED BY <1>4, <1>7, <1>9, <1>10, <1>11 DEF MemOK

\* A SlowBuffer that was not used is taken into use.
FreshOK(sl, pool, bs, ext, s, r, m) ==
    /\ MemOK(m, pool, bs, ext + Held(r))
    /\ pool.id # s /\ m[s] = r
    /\ \A b \in 1..Len(bs) : bs[b].live => bs[b].parent # s
    /\ \A u \in 0..PoolLength : Len(r.data) = PoolLength => MemOK(m, [id |-> s, used |-> u], bs, ext + Held(r))

\* One SlowBuffer more.
LEMMA Fresh ==
    ASSUME NEW sl, NEW pool, NEW bs, NEW ext, MemOK(sl, pool, bs, ext),
           NEW s \in 1..MaxSlow, sl[s].st = "none", NEW r \in SlowRecord, r.st = "live", r.frees = 0,
           NEW m, m = [sl EXCEPT ![s] = r]
    PROVE  FreshOK(sl, pool, bs, ext, s, r, m)
<1>0. MaxSlow \in Nat BY BufferAssumption
<1>1. SlowOK(sl) /\ PoolOK(sl, pool) /\ BufsOK(sl, pool, bs) /\ ext = HeldByAll(sl)
  BY DEF MemOK
<1>2. sl \in [1..MaxSlow -> SlowRecord] /\ \A t \in 1..MaxSlow : (sl[t].st = "none" => sl[t] = NoSlow) /\ (sl[t].st = "live" => sl[t].frees = 0)
  BY <1>1 DEF SlowOK
<1>3. m \in [1..MaxSlow -> SlowRecord] /\ HeldByAll(m) = HeldByAll(sl) + Held(r) - Held(sl[s]) /\ HeldByAll(sl) \in Nat
  <2>1. sl \in [1..MaxSlow -> SlowRecord] /\ r \in SlowRecord BY <1>2
  <2>n. PICK n \in Nat : n = MaxSlow BY <1>0
  <2>3. sl \in [1..n -> SlowRecord] /\ s \in 1..n BY <2>1, <2>n
  <2>4. /\ m \in [1..n -> SlowRecord]
        /\ HeldByAll(sl) \in Nat
        /\ HeldMoves(sl, s, r, m)
    BY <2>1, <2>3, HeldUpdate
  <2> QED BY <2>4, <2>n, Zenon DEF HeldMoves
<1>4. Held(sl[s]) = 0 BY DEF Held
<1>5. ext + Held(r) = HeldByAll(m)
  <2>1. Held(r) \in Nat BY HeldType
  <2> QED BY <1>1, <1>3, <1>4, <2>1
<1>6. m[s] = r /\ \A t \in 1..MaxSlow : t # s => m[t] = sl[t]
  BY <1>2
<1>7. SlowOK(m)
  <2> SUFFICES ASSUME NEW t \in 1..MaxSlow PROVE (m[t].st = "none" => m[t] = NoSlow) /\ (m[t].st = "live" => m[t].frees = 0)
    BY <1>3 DEF SlowOK
  <2> QED BY <1>2, <1>6
<1>8. pool.id # s /\ pool \in [id : 0..MaxSlow, used : 0..PoolLength]
  <2>1. s # 0 OBVIOUS
  <2> QED BY <1>1, <2>1 DEF PoolOK
<1>9. PoolOK(m, pool)
  <2>1. pool.id # 0 => pool.id \in 1..MaxSlow BY <1>8
  <2> QED BY <1>1, <1>6, <1>8, <2>1 DEF PoolOK
<1>10. \A b \in 1..Len(bs) : (bs[b].live => bs[b].parent # s) /\ Inside(m, bs[b])
  <2> SUFFICES ASSUME NEW b \in 1..Len(bs) PROVE (bs[b].live => bs[b].parent # s) /\ Inside(m, bs[b])
    OBVIOUS
  <2>1. bs[b] \in BufRecord /\ Inside(sl, bs[b])
    <3>1. bs \in Seq(BufRecord) BY <1>1 DEF BufsOK
    <3> QED BY <1>1, <3>1, ElementOfSeq DEF BufsOK
  <2>2. bs[b].parent \in 0..MaxSlow BY <2>1 DEF BufRecord
  <2>3. bs[b].parent # 0 => bs[b].parent \in 1..MaxSlow BY <2>2
  <2>4. bs[b].live => bs[b].parent # s BY <2>1 DEF Inside
  <2> QED BY <1>6, <2>1, <2>3, <2>4 DEF Inside
<1>11. BufsOK(m, pool, bs)
  BY <1>1, <1>10 DEF BufsOK
<1>12. ASSUME NEW u \in 0..PoolLength, Len(r.data) = PoolLength PROVE MemOK(m, [id |-> s, used |-> u], bs, ext + Held(r))
  <2> PICK np : np = [id |-> s, used |-> u] OBVIOUS
  <2>1. np \in [id : 0..MaxSlow, used : 0..PoolLength] /\ np.id = s OBVIOUS
  <2>2. PoolOK(m, np) BY <1>6, <1>12, <2>1 DEF PoolOK
  <2>3. \A b \in 1..Len(bs) : InPool(np, bs[b]) BY <1>10, <2>1 DEF InPool
  <2>4. BufsOK(m, np, bs) BY <1>1, <1>10, <2>3 DEF BufsOK
  <2> QED BY <1>5, <1>7, <2>2, <2>4 DEF MemOK
<1> QED BY <1>5, <1>6, <1>7, <1>8, <1>9, <1>10, <1>11, <1>12 DEF MemOK, FreshOK

-----------------------------------------------------------------------------
\* Allocation.

\* The SlowBuffers, the pool, the Buffers and the account now.
Memory == MemOK(slow, bufPool, bufs, extMem)

\* The memory of a new SlowBuffer.
LEMMA ZerosFacts == ASSUME NEW n \in Nat PROVE Zeros(n) \in Seq(Byte) /\ Len(Zeros(n)) = n
<1> PICK z : z = Zeros(n) OBVIOUS
<1>1. z = [k \in 1..n |-> 0] BY DEF Zeros
<1>2. \A k \in 1..n : z[k] \in Byte BY <1>1, Characters
<1>3. z = [k \in 1..n |-> z[k]] BY <1>1
<1> QED BY <1>2, <1>3, BytesOfChars

\* A new SlowBuffer, and what V8 is told of it.
LEMMA NewSlowFacts ==
    ASSUME Memory, NEW s \in UnusedSlow, NEW n \in Nat, NEW r, r = NewSlow(s, n).sb
    PROVE  /\ s \in 1..MaxSlow /\ slow[s].st = "none" /\ slow[s] = NoSlow
           /\ r \in SlowRecord /\ r.st = "live" /\ r.frees = 0 /\ Len(r.data) = n
           /\ NewSlow(s, n).adjust = Held(r)
<1>1. s \in 1..MaxSlow /\ slow[s].st = "none" BY DEF UnusedSlow
<1>2. slow[s] = NoSlow BY <1>1 DEF Memory, MemOK, SlowOK
<1> PICK z \in Seq(Byte) : z = Zeros(n) /\ Len(z) = n BY ZerosFacts
<1> PICK o \in SlowRecord : o = NoSlow BY EmptySeq DEF NoSlow, SlowRecord
<1>8. o.foreign = FALSE /\ o.frees = 0 BY DEF NoSlow
<1>9. NewSlow(s, n) = Replace(o, z, FALSE) BY <1>2, Zenon DEF NewSlow
<1>10. r = [o EXCEPT !.st = "live", !.data = z, !.foreign = FALSE, !.frees = 0]
  <2>1. (IF o.foreign THEN o.frees + 1 ELSE o.frees) = 0 BY <1>8
  <2>2. Replace(o, z, FALSE).sb = [o EXCEPT !.st = "live", !.data = z, !.foreign = FALSE, !.frees = 0]
    BY <2>1 DEF Replace
  <2> QED BY <1>9, <2>2, Zenon
<1>3. r.st = "live" /\ r.data = z /\ r.foreign = FALSE /\ r.frees = 0 /\ r \in SlowRecord
  BY <1>10 DEF SlowRecord
<1>4. r \in SlowRecord BY <1>3
<1>5. NewSlow(s, n).adjust = (IF z # <<>> THEN HeaderSize + Len(z) ELSE 0) - 0
  BY <1>2 DEF NewSlow, Replace, NoSlow
<1>6. NewSlow(s, n).adjust = Held(r)
  BY <1>3, <1>5 DEF Held, HeaderSize
<1> QED BY <1>1, <1>2, <1>3, <1>4, <1>6

\* The place that the constructor finds for n bytes.
LEMMA Allocated ==
    ASSUME Memory, NEW n \in Nat, NEW a \in Allocations(n)
    PROVE  /\ MemOK(a.slow, a.pool, bufs, extMem + a.adjust)
           /\ a.buf \in BufRecord /\ a.buf.live /\ a.buf.parent \in 1..MaxSlow /\ a.buf.length = n /\ a.buf.kind = "new"
           /\ Inside(a.slow, a.buf) /\ InPool(a.pool, a.buf)
           /\ \A b \in 1..Len(bufs) : Apart(bufs[b], a.buf)
<1>0. MaxSlow \in Nat /\ PoolLength \in Nat BY BufferAssumption
<1>1. MemOK(slow, bufPool, bufs, extMem) BY DEF Memory
<1>2. bufPool \in [id : 0..MaxSlow, used : 0..PoolLength] /\ (bufPool.id # 0 => slow[bufPool.id].st = "live" /\ Len(slow[bufPool.id].data) = PoolLength)
  BY <1>1 DEF MemOK, PoolOK
<1>3. CASE n > PoolLength
  <2> PICK s \in UnusedSlow : a = [slow |-> [slow EXCEPT ![s] = NewSlow(s, n).sb], adjust |-> NewSlow(s, n).adjust, pool |-> bufPool,
           buf |-> [live |-> TRUE, parent |-> s, offset |-> 0, length |-> n, kind |-> "new"]]
    BY <1>3 DEF Allocations
  <2> PICK r : r = NewSlow(s, n).sb OBVIOUS
  <2> PICK m : m = [slow EXCEPT ![s] = r] OBVIOUS
  <2> PICK x : x = [live |-> TRUE, parent |-> s, offset |-> 0, length |-> n, kind |-> "new"] OBVIOUS
  <2>1. /\ s \in 1..MaxSlow /\ slow[s].st = "none"
        /\ r \in SlowRecord /\ r.st = "live" /\ r.frees = 0 /\ Len(r.data) = n
        /\ NewSlow(s, n).adjust = Held(r)
    BY NewSlowFacts
  <2>2. /\ MemOK(m, bufPool, bufs, extMem + Held(r)) /\ bufPool.id # s /\ m[s] = r
        /\ \A b \in 1..Len(bufs) : bufs[b].live => bufs[b].parent # s
    <3>1. FreshOK(slow, bufPool, bufs, extMem, s, r, m) BY <1>1, <2>1, Fresh
    <3> QED BY <3>1, Zenon DEF FreshOK
  <2>3. a.slow = m /\ a.adjust = Held(r) /\ a.pool = bufPool /\ a.buf = x BY <2>1
  <2>4. x \in BufRecord /\ x.live /\ x.parent = s /\ x.length = n /\ x.kind = "new" /\ x.offset = 0 BY <2>1 DEF BufRecord
  <2>5. Inside(m, x) BY <2>1, <2>2, <2>4 DEF Inside
  <2>6. InPool(bufPool, x) BY <2>2, <2>4 DEF InPool
  <2>7. \A b \in 1..Len(bufs) : Apart(bufs[b], x) BY <2>2, <2>4 DEF Apart
  <2> QED BY <2>1, <2>2, <2>3, <2>4, <2>5, <2>6, <2>7
<1>4. CASE ~(n > PoolLength) /\ NeedsPool(n)
  <2> PICK s \in UnusedSlow : a = [slow |-> [slow EXCEPT ![s] = NewSlow(s, PoolLength).sb], adjust |-> NewSlow(s, PoolLength).adjust, pool |-> [id |-> s, used |-> n],
           buf |-> [live |-> TRUE, parent |-> s, offset |-> 0, length |-> n, kind |-> "new"]]
    BY <1>4 DEF Allocations
  <2> PICK r : r = NewSlow(s, PoolLength).sb OBVIOUS
  <2> PICK m : m = [slow EXCEPT ![s] = r] OBVIOUS
  <2> PICK x : x = [live |-> TRUE, parent |-> s, offset |-> 0, length |-> n, kind |-> "new"] OBVIOUS
  <2> PICK np : np = [id |-> s, used |-> n] OBVIOUS
  <2>0. n \in 0..PoolLength BY <1>0, <1>4
  <2>1. /\ s \in 1..MaxSlow /\ slow[s].st = "none"
        /\ r \in SlowRecord /\ r.st = "live" /\ r.frees = 0 /\ Len(r.data) = PoolLength
        /\ NewSlow(s, PoolLength).adjust = Held(r)
    BY <1>0, NewSlowFacts
  <2>2. /\ m[s] = r
        /\ \A b \in 1..Len(bufs) : bufs[b].live => bufs[b].parent # s
        /\ \A u \in 0..PoolLength : Len(r.data) = PoolLength => MemOK(m, [id |-> s, used |-> u], bufs, extMem + Held(r))
    <3>1. FreshOK(slow, bufPool, bufs, extMem, s, r, m) BY <1>1, <2>1, Fresh
    <3> QED BY <3>1, Zenon DEF FreshOK
  <2>8. MemOK(m, np, bufs, extMem + Held(r)) BY <2>0, <2>1, <2>2
  <2>3. a.slow = m /\ a.adjust = Held(r) /\ a.pool = np /\ a.buf = x BY <2>1
  <2>4. x \in BufRecord /\ x.live /\ x.parent = s /\ x.length = n /\ x.kind = "new" /\ x.offset = 0 BY <2>1 DEF BufRecord
  <2>5. Inside(m, x) BY <2>0, <2>1, <2>2, <2>4 DEF Inside
  <2>6. InPool(np, x) BY <2>0, <2>4 DEF InPool
  <2>7. \A b \in 1..Len(bufs) : Apart(bufs[b], x) BY <2>2, <2>4 DEF Apart
  <2> QED BY <2>1, <2>3, <2>4, <2>5, <2>6, <2>7, <2>8
<1>5. CASE ~(n > PoolLength) /\ ~NeedsPool(n)
  <2> DEFINE np == [bufPool EXCEPT !.used = @ + n]
             x == [live |-> TRUE, parent |-> bufPool.id, offset |-> bufPool.used, length |-> n, kind |-> "new"]
  <2>1. a = [slow |-> slow, adjust |-> 0, pool |-> np, buf |-> x]
    BY <1>5 DEF Allocations
  <2>2. bufPool.id # 0 /\ bufPool.used + n <= PoolLength /\ bufPool.id \in 0..MaxSlow /\ bufPool.used \in 0..PoolLength
    BY <1>0, <1>2, <1>5 DEF NeedsPool
  <2>3. a.slow = slow /\ a.adjust = 0 /\ a.pool = np /\ a.buf = x BY <2>1
  <2>4. np \in [id : 0..MaxSlow, used : 0..PoolLength] /\ np.id = bufPool.id /\ np.used = bufPool.used + n BY <1>0, <1>2, <2>2
  <2>5. x \in BufRecord /\ x.live /\ x.parent = bufPool.id /\ x.length = n /\ x.kind = "new" /\ x.offset = bufPool.used /\ x.parent \in 1..MaxSlow
    BY <2>2 DEF BufRecord
  <2> HIDE DEF np, x
  <2>6. Inside(slow, x) BY <1>2, <2>2, <2>5 DEF Inside
  <2>7. InPool(np, x) BY <2>4, <2>5 DEF InPool
  <2>8. BufsOK(slow, bufPool, bufs) BY <1>1 DEF MemOK
  <2>9. ASSUME NEW b \in 1..Len(bufs) PROVE InPool(np, bufs[b]) /\ Apart(bufs[b], x)
    <3>1. bufs[b] \in BufRecord /\ InPool(bufPool, bufs[b])
      <4>1. bufs \in Seq(BufRecord) BY <2>8 DEF BufsOK
      <4> QED BY <2>8, <4>1, ElementOfSeq DEF BufsOK
    <3> PICK y \in BufRecord : y = bufs[b] BY <3>1
    <3>2. y.offset \in Nat /\ y.length \in Nat BY DEF BufRecord
    <3>3. y.live /\ y.kind = "new" /\ y.parent = bufPool.id => y.offset + y.length <= bufPool.used BY <3>1 DEF InPool
    <3>4. InPool(np, y) BY <2>2, <2>4, <3>2, <3>3 DEF InPool
    <3>5. Apart(y, x) BY <2>5, <3>3 DEF Apart
    <3> QED BY <3>4, <3>5
  <2>10. BufsOK(slow, np, bufs) BY <2>8, <2>9 DEF BufsOK
  <2>11. PoolOK(slow, np) BY <1>2, <2>4 DEF PoolOK
  <2>12. extMem + 0 = extMem
    <3>1. slow \in [1..MaxSlow -> SlowRecord] BY <1>1 DEF MemOK, SlowOK
    <3>2. slow \in Seq(SlowRecord) BY <1>0, <3>1, SeqDef
    <3>3. extMem \in Nat BY <1>1, <3>2, HeldIsNat DEF MemOK
    <3> QED BY <3>3
  <2>13. MemOK(slow, np, bufs, extMem) BY <1>1, <2>10, <2>11 DEF MemOK
  <2> QED BY <2>3, <2>5, <2>6, <2>7, <2>9, <2>12, <2>13
<1> QED BY <1>3, <1>4, <1>5

\* The same Buffer with fewer bytes.
LEMMA Shorter ==
    ASSUME NEW sl, NEW pool, pool.used \in Nat, NEW x \in BufRecord, NEW l \in Nat, l <= x.length, NEW z, z = [x EXCEPT !.length = l],
           Inside(sl, x), InPool(pool, x), x.live, Len(sl[x.parent].data) \in Nat
    PROVE  /\ z \in BufRecord /\ Inside(sl, z) /\ InPool(pool, z)
           /\ \A y \in BufRecord : Apart(y, x) => Apart(y, z)
<1>1. z \in BufRecord /\ z.live = x.live /\ z.parent = x.parent /\ z.offset = x.offset /\ z.length = l /\ z.kind = x.kind
      /\ x.offset \in Nat /\ x.length \in Nat
  BY DEF BufRecord
<1>2. Inside(sl, z) BY <1>1 DEF Inside
<1>3. InPool(pool, z) BY <1>1 DEF InPool
<1>4. ASSUME NEW y \in BufRecord, Apart(y, x) PROVE Apart(y, z)
  <2>1. y.offset \in Nat /\ y.length \in Nat BY DEF BufRecord
  <2>2. SUFFICES ASSUME y.live, x.live, y.parent = x.parent, y.kind = "new", x.kind = "new" PROVE y.offset + y.length <= x.offset \/ x.offset + l <= y.offset
    BY <1>1 DEF Apart
  <2>3. y.offset + y.length <= x.offset \/ x.offset + x.length <= y.offset BY <1>4, <2>2 DEF Apart
  <2> QED BY <1>1, <2>1, <2>3
<1> QED BY <1>1, <1>2, <1>3, <1>4

-----------------------------------------------------------------------------
\* The memory: slices, replacement, collection.

\* Memory, part by part.
LEMMA MemoryParts ==
    ASSUME Memory
    PROVE  /\ MaxSlow \in Nat /\ slow \in [1..MaxSlow -> SlowRecord] /\ extMem = HeldByAll(slow) /\ extMem \in Nat
           /\ bufPool \in [id : 0..MaxSlow, used : 0..PoolLength]
           /\ bufs \in Seq(BufRecord)
           /\ \A b \in 1..Len(bufs) : bufs[b] \in BufRecord /\ Inside(slow, bufs[b]) /\ InPool(bufPool, bufs[b])
           /\ \A b \in 1..Len(bufs) : bufs[b].live => bufs[b].parent \in 1..MaxSlow /\ slow[bufs[b].parent].data \in Seq(Byte)
<1>0. MaxSlow \in Nat BY BufferAssumption
<1>1. SlowOK(slow) /\ PoolOK(slow, bufPool) /\ BufsOK(slow, bufPool, bufs) /\ extMem = HeldByAll(slow)
  BY DEF Memory, MemOK
<1>2. slow \in [1..MaxSlow -> SlowRecord] BY <1>1 DEF SlowOK
<1>3. bufPool \in [id : 0..MaxSlow, used : 0..PoolLength] BY <1>1 DEF PoolOK
<1>4. bufs \in Seq(BufRecord) /\ \A b \in 1..Len(bufs) : Inside(slow, bufs[b]) /\ InPool(bufPool, bufs[b]) BY <1>1 DEF BufsOK
<1>5. \A b \in 1..Len(bufs) : bufs[b] \in BufRecord BY <1>4, ElementOfSeq
<1>6. extMem \in Nat
  <2>1. slow \in Seq(SlowRecord) BY <1>0, <1>2, SeqDef
  <2> QED BY <1>1, <2>1, HeldIsNat
<1>7. ASSUME NEW b \in 1..Len(bufs), bufs[b].live PROVE bufs[b].parent \in 1..MaxSlow /\ slow[bufs[b].parent].data \in Seq(Byte)
  <2>1. bufs[b].parent \in 0..MaxSlow BY <1>5 DEF BufRecord
  <2>2. bufs[b].parent # 0 BY <1>4, <1>7 DEF Inside
  <2>3. bufs[b].parent \in 1..MaxSlow BY <2>1, <2>2
  <2>4. slow[bufs[b].parent] \in SlowRecord BY <1>2, <2>3
  <2> QED BY <2>3, <2>4 DEF SlowRecord
<1> QED BY <1>0, <1>1, <1>2, <1>3, <1>4, <1>5, <1>6, <1>7

\* A slice stays inside the Buffer it is a slice of, and a Buffer that slices overlap is not a new one.
LEMMA SliceMemory ==
    ASSUME Memory, NEW b \in 1..Len(bufs), bufs[b].live, NEW i \in 0..bufs[b].length, NEW j \in 0..bufs[b].length, i <= j, SliceBuffer(b, i, j)
    PROVE  Memory'
<1> PICK x \in BufRecord : x = bufs[b] BY MemoryParts
<1> PICK z : z = [x EXCEPT !.offset = @ + i, !.length = j - i, !.kind = "slice"] OBVIOUS
<1>1. x.offset \in Nat /\ x.length \in Nat /\ i \in Nat /\ j \in Nat /\ i <= j /\ j <= x.length BY DEF BufRecord
<1>o. PICK o \in Nat : o = x.offset + i BY <1>1
<1>l. PICK l \in Nat : l = j - i BY <1>1
<1>z. z = [x EXCEPT !.offset = o, !.length = l, !.kind = "slice"] BY <1>o, <1>l
<1>r. z \in BufRecord /\ z.live = x.live /\ z.parent = x.parent /\ z.offset = o /\ z.length = l /\ z.kind = "slice"
  BY <1>z DEF BufRecord
<1>2. z \in BufRecord /\ z.live = x.live /\ z.parent = x.parent /\ z.offset = x.offset + i /\ z.length = j - i /\ z.kind = "slice"
  BY <1>o, <1>l, <1>r, Zenon
<1>3. bufs' = Append(bufs, z) /\ slow' = slow /\ bufPool' = bufPool /\ extMem' = extMem BY DEF SliceBuffer
<1>4. Inside(slow, z)
  <2>1. x.live /\ x.parent # 0 /\ slow[x.parent].st = "live" /\ x.offset + x.length <= Len(slow[x.parent].data)
    BY MemoryParts DEF Inside
  <2>2. Len(slow[x.parent].data) \in Nat
    <3>1. slow[x.parent].data \in Seq(Byte) BY MemoryParts
    <3> QED BY <3>1
  <2>4. (x.offset + i) + (j - i) <= Len(slow[x.parent].data)
    <3> DEFINE p == x.offset
               q == x.length
               n == Len(slow[x.parent].data)
    <3>1. p \in Nat /\ q \in Nat /\ n \in Nat /\ p + q <= n /\ i \in Nat /\ j \in Nat /\ i <= j /\ j <= q
      BY <1>1, <2>1, <2>2
    <3> HIDE DEF p, q, n
    <3>2. \A c, d \in Nat : c <= d /\ d <= q => (p + c) + (d - c) <= n BY <3>1
    <3>3. (p + i) + (j - i) <= n BY <3>1, <3>2, Zenon
    <3> QED BY <3>3, Zenon DEF p, n
  <2>3. z.offset + z.length <= Len(slow[x.parent].data) BY <1>2, <2>4, Zenon
  <2> QED BY <1>2, <2>1, <2>3 DEF Inside
<1>5. InPool(bufPool, z) /\ \A c \in 1..Len(bufs) : Apart(bufs[c], z)
  BY <1>2 DEF InPool, Apart
<1>6. BufsOK(slow, bufPool, Append(bufs, z))
  <2>1. BufsOK(slow, bufPool, bufs) BY DEF Memory, MemOK
  <2> QED BY <1>2, <1>4, <1>5, <2>1, Appended
<1> QED BY <1>3, <1>6 DEF Memory, MemOK

\* A Buffer that is dropped leaves the others apart.
LEMMA DropMemory ==
    ASSUME Memory, NEW b \in 1..Len(bufs), DropBuffer(b)
    PROVE  Memory'
<1> PICK q : q = [bufs EXCEPT ![b] = NoBuffer] OBVIOUS
<1>1. bufs' = q /\ slow' = slow /\ bufPool' = bufPool /\ extMem' = extMem BY DEF DropBuffer
<1>0. NoBuffer \in BufRecord /\ NoBuffer.live = FALSE
  <2>1. 0 \in 0..MaxSlow BY BufferAssumption
  <2> QED BY <2>1 DEF NoBuffer, BufRecord
<1>2. bufs \in Seq(BufRecord) BY MemoryParts
<1>3. q \in Seq(BufRecord) /\ Len(q) = Len(bufs) BY <1>0, <1>2, ExceptSeq
<1>4. \A c \in 1..Len(bufs) : q[c] = IF c = b THEN NoBuffer ELSE bufs[c]
  <2>1. bufs \in [1..Len(bufs) -> BufRecord] BY <1>2, LenProperties
  <2> QED BY <2>1
<1>5. BufsOK(slow, bufPool, bufs) BY DEF Memory, MemOK
<1>6. \A c \in 1..Len(q) : Inside(slow, q[c]) /\ InPool(bufPool, q[c])
  <2> SUFFICES ASSUME NEW c \in 1..Len(q) PROVE Inside(slow, q[c]) /\ InPool(bufPool, q[c]) OBVIOUS
  <2>1. c \in 1..Len(bufs) BY <1>3
  <2>2. CASE c = b BY <1>0, <1>4, <2>1, <2>2 DEF Inside, InPool
  <2>3. CASE c # b
    <3>1. q[c] = bufs[c] BY <1>4, <2>1, <2>3
    <3> QED BY <1>5, <2>1, <3>1 DEF BufsOK
  <2> QED BY <2>2, <2>3
<1>7. ASSUME NEW c \in 1..Len(q), NEW d \in 1..Len(q), c # d PROVE Apart(q[c], q[d])
  <2>1. c \in 1..Len(bufs) /\ d \in 1..Len(bufs) BY <1>3
  <2>2. CASE c = b \/ d = b
    <3>1. q[c].live = FALSE \/ q[d].live = FALSE BY <1>0, <1>4, <2>1, <2>2
    <3> QED BY <3>1 DEF Apart
  <2>3. CASE c # b /\ d # b
    <3>1. q[c] = bufs[c] /\ q[d] = bufs[d] BY <1>4, <2>1, <2>3
    <3> QED BY <1>5, <1>7, <2>1, <3>1 DEF BufsOK
  <2> QED BY <2>2, <2>3
<1>8. BufsOK(slow, bufPool, q) BY <1>3, <1>6, <1>7 DEF BufsOK
<1> QED BY <1>1, <1>8 DEF Memory, MemOK

\* What a SlowBuffer becomes when its memory is replaced, and what V8 is told.
Weight(foreign, data) == IF ~foreign /\ data # <<>> THEN HeaderSize + Len(data) ELSE 0
ReplacedOK(sb, d, f, r) ==
    /\ r \in SlowRecord /\ r.st = "live" /\ r.data = d /\ r.foreign = f
    /\ r.frees = IF sb.foreign THEN 1 ELSE 0
    /\ Replace(sb, d, f).adjust = Weight(f, d) - Weight(sb.foreign, sb.data)

\* SlowBuffer::Replace gives back what the buffer held before it holds something else.
LEMMA Replaced ==
    ASSUME NEW sb \in SlowRecord, sb.frees = 0, NEW d \in Seq(Byte), NEW f \in BOOLEAN, NEW r, r = Replace(sb, d, f).sb
    PROVE  ReplacedOK(sb, d, f, r)
<1> PICK k \in {0, 1} : k = IF sb.foreign THEN 1 ELSE 0 OBVIOUS
<1>1. (IF sb.foreign THEN sb.frees + 1 ELSE sb.frees) = k OBVIOUS
<1>2. Replace(sb, d, f).sb = [sb EXCEPT !.st = "live", !.data = d, !.foreign = f, !.frees = k]
  BY <1>1 DEF Replace
<1>3. r = [sb EXCEPT !.st = "live", !.data = d, !.foreign = f, !.frees = k] BY <1>2, Zenon
<1>4. r \in SlowRecord /\ r.st = "live" /\ r.data = d /\ r.foreign = f /\ r.frees = k BY <1>3 DEF SlowRecord
<1>5. Replace(sb, d, f).adjust = Weight(f, d) - Weight(sb.foreign, sb.data)
  BY Zenon DEF Replace, Weight
<1> QED BY <1>4, <1>5, Zenon DEF ReplacedOK

\* A SlowBuffer around memory of somebody else is not told to V8.
LEMMA ForeignMemory == ASSUME Memory, NewForeign PROVE Memory'
<1> PICK s \in UnusedSlow :
      LET made == Replace(slow[s], <<>>, FALSE)
          given == Replace(made.sb, Zeros(1), TRUE)
      IN  /\ slow' = [slow EXCEPT ![s] = given.sb]
          /\ extMem' = extMem + made.adjust + given.adjust
          /\ bufs' = Append(bufs, [live |-> TRUE, parent |-> s, offset |-> 0, length |-> 1, kind |-> "new"])
          /\ bufPool' = bufPool
  BY DEF NewForeign
<1> PICK m : m = Replace(slow[s], <<>>, FALSE).sb OBVIOUS
<1> PICK g : g = Replace(m, Zeros(1), TRUE).sb OBVIOUS
<1> PICK x : x = [live |-> TRUE, parent |-> s, offset |-> 0, length |-> 1, kind |-> "new"] OBVIOUS
<1> PICK sl : sl = [slow EXCEPT ![s] = g] OBVIOUS
<1>1. slow' = sl /\ bufs' = Append(bufs, x) /\ bufPool' = bufPool
  OBVIOUS
<1>2. extMem' = extMem + Replace(slow[s], <<>>, FALSE).adjust + Replace(m, Zeros(1), TRUE).adjust
  OBVIOUS
<1>3. s \in 1..MaxSlow /\ slow[s].st = "none" /\ slow[s] = NoSlow
  <2>1. 0 \in Nat OBVIOUS
  <2> QED BY <2>1, NewSlowFacts
<1>4. slow[s] \in SlowRecord /\ slow[s].frees = 0 /\ slow[s].foreign = FALSE /\ slow[s].data = <<>>
  BY <1>3, EmptySeq DEF NoSlow, SlowRecord
<1>5. m \in SlowRecord /\ m.frees = 0 /\ m.foreign = FALSE /\ m.data = <<>> /\ Replace(slow[s], <<>>, FALSE).adjust = 0
  <2> PICK e \in Seq(Byte) : e = <<>> BY EmptySeq
  <2> PICK sb \in SlowRecord : sb = slow[s] BY <1>4
  <2> PICK f \in BOOLEAN : f = FALSE OBVIOUS
  <2>1. m = Replace(sb, e, f).sb OBVIOUS
  <2>2. ReplacedOK(sb, e, f, m) BY <1>4, <2>1, Replaced
  <2>3. /\ m \in SlowRecord /\ m.data = e /\ m.foreign = f
        /\ m.frees = IF sb.foreign THEN 1 ELSE 0
        /\ Replace(sb, e, f).adjust = Weight(f, e) - Weight(sb.foreign, sb.data)
    BY <2>2, Zenon DEF ReplacedOK
  <2>4. Weight(f, e) = 0 /\ Weight(sb.foreign, sb.data) = 0 BY <1>4 DEF Weight
  <2>5. 0 - 0 = 0 OBVIOUS
  <2> QED BY <1>4, <2>3, <2>4, <2>5, Zenon
<1>6. g \in SlowRecord /\ g.st = "live" /\ g.frees = 0 /\ g.foreign = TRUE /\ Len(g.data) = 1 /\ Replace(m, Zeros(1), TRUE).adjust = 0
  <2> PICK e \in Seq(Byte) : e = Zeros(1) /\ Len(e) = 1
    <3>1. 1 \in Nat OBVIOUS
    <3> QED BY <3>1, ZerosFacts
  <2> PICK f \in BOOLEAN : f = TRUE OBVIOUS
  <2>1. g = Replace(m, e, f).sb OBVIOUS
  <2>2. ReplacedOK(m, e, f, g) BY <1>5, <2>1, Replaced
  <2>3. /\ g \in SlowRecord /\ g.st = "live" /\ g.data = e /\ g.foreign = f
        /\ g.frees = IF m.foreign THEN 1 ELSE 0
        /\ Replace(m, e, f).adjust = Weight(f, e) - Weight(m.foreign, m.data)
    BY <2>2, Zenon DEF ReplacedOK
  <2>4. Weight(f, e) = 0 /\ Weight(m.foreign, m.data) = 0 BY <1>5 DEF Weight
  <2>5. 0 - 0 = 0 OBVIOUS
  <2> QED BY <1>5, <2>3, <2>4, <2>5, Zenon
<1>7. Held(g) = 0 BY <1>6 DEF Held
<1>8. extMem' = extMem + Held(g)
  <2>1. extMem \in Nat BY MemoryParts
  <2> PICK v \in Nat : v = extMem BY <2>1
  <2>2. v + 0 + 0 = v + 0 OBVIOUS
  <2> QED BY <1>2, <1>5, <1>6, <1>7, <2>2, Zenon
<1>9. FreshOK(slow, bufPool, bufs, extMem, s, g, sl)
  <2>1. MemOK(slow, bufPool, bufs, extMem) BY DEF Memory
  <2> QED BY <1>3, <1>6, <2>1, Fresh
<1>10. /\ MemOK(sl, bufPool, bufs, extMem + Held(g)) /\ bufPool.id # s /\ sl[s] = g
       /\ \A b \in 1..Len(bufs) : bufs[b].live => bufs[b].parent # s
  BY <1>9, Zenon DEF FreshOK
<1>11. x \in BufRecord /\ x.live /\ x.parent = s /\ x.offset = 0 /\ x.length = 1 BY <1>3 DEF BufRecord
<1>14. Inside(sl, x)
  <2>1. x.offset + x.length = 1 BY <1>11
  <2>2. s # 0 BY <1>3
  <2>3. sl[s].st = "live" /\ Len(sl[s].data) = 1 BY <1>6, <1>10, Zenon
  <2>5. 1 <= 1 OBVIOUS
  <2>4. x.offset + x.length <= Len(sl[s].data) BY <2>1, <2>3, <2>5, Zenon
  <2> QED BY <1>11, <2>2, <2>3, <2>4, Zenon DEF Inside
<1>15. InPool(bufPool, x) BY <1>10, <1>11, Zenon DEF InPool
<1>16. \A b \in 1..Len(bufs) : Apart(bufs[b], x) BY <1>10, <1>11, Zenon DEF Apart
<1>12. Inside(sl, x) /\ InPool(bufPool, x) /\ \A b \in 1..Len(bufs) : Apart(bufs[b], x)
  BY <1>14, <1>15, <1>16
<1>13. BufsOK(sl, bufPool, Append(bufs, x))
  <2>1. BufsOK(sl, bufPool, bufs) BY <1>10 DEF MemOK
  <2> QED BY <1>11, <1>12, <2>1, Appended
<1> QED BY <1>1, <1>8, <1>10, <1>13 DEF Memory, MemOK

\* A SlowBuffer is collected only when no Buffer and no pool refers to it, and what it held is given back.
LEMMA CollectMemory == ASSUME Memory, CollectSlow PROVE Memory'
<1> PICK s \in 1..MaxSlow :
      /\ slow[s].st = "live" /\ bufPool.id # s
      /\ \A b \in 1..Len(bufs) : bufs[b].live => bufs[b].parent # s
      /\ slow' = [slow EXCEPT ![s] = [Replace(slow[s], <<>>, FALSE).sb EXCEPT !.st = "freed"]]
      /\ extMem' = extMem + Replace(slow[s], <<>>, FALSE).adjust
      /\ bufPool' = bufPool /\ bufs' = bufs
  BY DEF CollectSlow
<1> PICK m : m = Replace(slow[s], <<>>, FALSE).sb OBVIOUS
<1> PICK g : g = [m EXCEPT !.st = "freed"] OBVIOUS
<1> PICK sl : sl = [slow EXCEPT ![s] = g] OBVIOUS
<1>1. slow' = sl OBVIOUS
<1>0. SlowOK(slow) /\ PoolOK(slow, bufPool) /\ BufsOK(slow, bufPool, bufs) BY DEF Memory, MemOK
<1>2. slow \in [1..MaxSlow -> SlowRecord] /\ slow[s].frees = 0 BY <1>0 DEF SlowOK
<1> PICK o \in SlowRecord : o = slow[s] BY <1>2
<1>3. /\ m \in SlowRecord /\ m.data = <<>> /\ m.foreign = FALSE
      /\ Replace(slow[s], <<>>, FALSE).adjust = 0 - Held(o)
  <2> PICK e \in Seq(Byte) : e = <<>> BY EmptySeq
  <2> PICK f \in BOOLEAN : f = FALSE OBVIOUS
  <2>1. m = Replace(o, e, f).sb OBVIOUS
  <2>5. ReplacedOK(o, e, f, m) BY <1>2, <2>1, Replaced
  <2>2. /\ m \in SlowRecord /\ m.data = e /\ m.foreign = f
        /\ Replace(o, e, f).adjust = Weight(f, e) - Weight(o.foreign, o.data)
    BY <2>5, Zenon DEF ReplacedOK
  <2>3. Held(o) = Weight(o.foreign, o.data) BY Zenon DEF Held, Weight
  <2>4. Weight(f, e) = 0 BY DEF Weight
  <2> QED BY <2>2, <2>3, <2>4, Zenon
<1>4. g \in SlowRecord /\ g.st = "freed" BY <1>3 DEF SlowRecord
<1>5. Held(g) = 0 BY <1>4 DEF Held
<1>6. sl \in [1..MaxSlow -> SlowRecord] /\ HeldMoves(slow, s, g, sl) /\ HeldByAll(slow) \in Nat
  <2>1. PICK n \in Nat : n = MaxSlow BY MemoryParts
  <2>2. slow \in [1..n -> SlowRecord] /\ s \in 1..n BY <1>2, <2>1
  <2>3. sl \in [1..n -> SlowRecord] /\ HeldMoves(slow, s, g, sl) /\ HeldByAll(slow) \in Nat
    BY <1>4, <2>2, HeldUpdate
  <2> QED BY <2>1, <2>3
<1>7. extMem' = HeldByAll(sl)
  <2>1. HeldByAll(sl) = HeldByAll(slow) + Held(g) - Held(o) BY <1>6 DEF HeldMoves
  <2>2. Held(o) \in Nat /\ extMem = HeldByAll(slow) BY HeldType, MemoryParts
  <2>3. extMem' = extMem + (0 - Held(o)) BY <1>3
  <2> QED BY <1>5, <1>6, <2>1, <2>2, <2>3
<1>8. sl[s] = g /\ \A t \in 1..MaxSlow : t # s => sl[t] = slow[t] BY <1>2
<1>9. SlowOK(sl)
  <2> SUFFICES ASSUME NEW t \in 1..MaxSlow PROVE (sl[t].st = "none" => sl[t] = NoSlow) /\ (sl[t].st = "live" => sl[t].frees = 0)
    BY <1>6 DEF SlowOK
  <2>1. CASE t = s BY <1>4, <1>8, <2>1
  <2>2. CASE t # s
    <3>1. sl[t] = slow[t] BY <1>8, <2>2
    <3> QED BY <1>0, <3>1 DEF SlowOK
  <2> QED BY <2>1, <2>2
<1>10. PoolOK(sl, bufPool)
  <2>1. bufPool \in [id : 0..MaxSlow, used : 0..PoolLength] BY MemoryParts
  <2>2. bufPool.id # 0 => bufPool.id \in 1..MaxSlow BY <2>1
  <2> QED BY <1>0, <1>8, <2>1, <2>2 DEF PoolOK
<1>11. BufsOK(sl, bufPool, bufs)
  <2> SUFFICES ASSUME NEW b \in 1..Len(bufs) PROVE Inside(sl, bufs[b])
    BY <1>0 DEF BufsOK
  <2>1. Inside(slow, bufs[b]) /\ (bufs[b].live => bufs[b].parent \in 1..MaxSlow /\ bufs[b].parent # s)
    BY MemoryParts
  <2> QED BY <1>8, <2>1 DEF Inside
<1> QED BY <1>1, <1>7, <1>9, <1>10, <1>11 DEF Memory, MemOK

-----------------------------------------------------------------------------
\* The memory: new Buffers.

\* A stretch of bytes.
IsCut(t, s, o, l) == t \in Seq(Byte) /\ Len(t) = l /\ \A k \in 1..l : t[k] = s[o + k]

\* The bytes of a range.
LEMMA CutBytes ==
    ASSUME NEW s \in Seq(Byte), NEW o \in Nat, NEW l \in Nat, o + l <= Len(s), NEW t, t = SubSeq(s, o + 1, o + l)
    PROVE  IsCut(t, s, o, l)
<1> PICK m \in Nat : m = o + 1 OBVIOUS
<1> PICK n \in Nat : n = o + l OBVIOUS
<1>1. \A k \in m..n : s[k] \in Byte
  <2> SUFFICES ASSUME NEW k \in m..n PROVE s[k] \in Byte OBVIOUS
  <2>1. k \in 1..Len(s) OBVIOUS
  <2> QED BY <2>1, ElementOfSeq
<1>2. /\ t \in Seq(Byte)
      /\ Len(t) = IF m <= n THEN n - m + 1 ELSE 0
      /\ \A k \in 1..n - m + 1 : t[k] = s[m + k - 1]
  BY <1>1, SubSeqProperties
<1>3. (IF m <= n THEN n - m + 1 ELSE 0) = l /\ n - m + 1 = l OBVIOUS
<1>4. \A k \in 1..l : m + k - 1 = o + k OBVIOUS
<1> QED BY <1>2, <1>3, <1>4, Zenon DEF IsCut

\* What was stored in a Buffer at one of its offsets is read there.
LEMMA SameCut ==
    ASSUME NEW data \in Seq(Byte), NEW o \in Nat, NEW l \in Nat, o + l <= Len(data), NEW at \in Nat, NEW n \in Nat, at + n <= l,
           NEW src \in Seq(Byte), n <= Len(src), \A k \in 1..n : data[o + at + k] = src[k]
    PROVE  SubSeq(SubSeq(data, o + 1, o + l), at + 1, at + n) = SubSeq(src, 1, n)
<1> PICK t : t = SubSeq(data, o + 1, o + l) OBVIOUS
<1> PICK u : u = SubSeq(t, at + 1, at + n) OBVIOUS
<1> PICK v : v = SubSeq(src, 1, n) OBVIOUS
<1>1. t \in Seq(Byte) /\ Len(t) = l /\ \A k \in 1..l : t[k] = data[o + k]
  <2>1. IsCut(t, data, o, l) BY CutBytes
  <2> QED BY <2>1, Zenon DEF IsCut
<1>2. u \in Seq(Byte) /\ Len(u) = n /\ \A k \in 1..n : u[k] = t[at + k]
  <2>1. at + n <= Len(t) BY <1>1
  <2>2. t \in Seq(Byte) BY <1>1
  <2>3. IsCut(u, t, at, n) BY <2>1, <2>2, CutBytes
  <2> QED BY <2>3, Zenon DEF IsCut
<1>3. v \in Seq(Byte) /\ Len(v) = n /\ \A k \in 1..n : v[k] = src[k]
  <2> PICK z \in Nat : z = 0 OBVIOUS
  <2>1. v = SubSeq(src, z + 1, z + n) /\ z + n <= Len(src) OBVIOUS
  <2>3. IsCut(v, src, z, n) BY <2>1, CutBytes
  <2>2. v \in Seq(Byte) /\ Len(v) = n /\ \A k \in 1..n : v[k] = src[z + k] BY <2>3, Zenon DEF IsCut
  <2> QED BY <2>2
<1>4. \A k \in 1..n : u[k] = v[k]
  <2> SUFFICES ASSUME NEW k \in 1..n PROVE u[k] = v[k] OBVIOUS
  <2> PICK j \in 1..l : j = at + k OBVIOUS
  <2>1. u[k] = data[o + j] BY <1>1, <1>2
  <2>2. o + j = o + at + k OBVIOUS
  <2> QED BY <1>3, <2>1, <2>2
<1>5. u = v BY <1>2, <1>3, <1>4, SeqEqual
<1> QED BY <1>5

\* Bytes are stored in memory, and a Buffer is made there.
LEMMA StoredMemory ==
    ASSUME NEW sl, NEW pool, NEW bs, NEW ext, MemOK(sl, pool, bs, ext), NEW x \in BufRecord, x.live, x.parent \in 1..MaxSlow,
           Inside(sl, x), InPool(pool, x), \A b \in 1..Len(bs) : Apart(bs[b], x),
           NEW bytes \in Seq(Byte), NEW o \in Nat, NEW m, m = [sl EXCEPT ![x.parent].data = Stored(sl[x.parent].data, o, bytes)]
    PROVE  MemOK(m, pool, bs, ext) /\ MemOK(m, pool, Append(bs, x), ext)
<1> PICK p \in 1..MaxSlow : p = x.parent OBVIOUS
<1>1. sl \in [1..MaxSlow -> SlowRecord] BY DEF MemOK, SlowOK
<1>2. sl[p].data \in Seq(Byte) BY <1>1 DEF SlowRecord
<1> PICK old \in Seq(Byte) : old = sl[p].data BY <1>2
<1> PICK d : d = Stored(old, o, bytes) OBVIOUS
<1>3. d \in Seq(Byte) /\ Len(d) = Len(old) BY StoredFacts
<1>4. m = [sl EXCEPT ![p].data = d] BY <1>1
<1>5. sl[p].st = "live" BY DEF Inside
<1>6. MemOK(m, pool, bs, ext)
  <2>1. Len(d) = Len(sl[p].data) BY <1>3
  <2>2. MemOK([sl EXCEPT ![p].data = d], pool, bs, ext) BY <1>3, <1>5, <2>1, DataStored, Zenon
  <2> QED BY <1>4, <2>2, Zenon
<1>7. m[p].st = "live" /\ Len(m[p].data) = Len(sl[p].data)
  BY <1>1, <1>3, <1>4, <1>5
<1>8. Inside(m, x)
  <2>1. Inside(sl, x) OBVIOUS
  <2> QED BY <1>7, <2>1 DEF Inside
<1>9. BufsOK(m, pool, Append(bs, x))
  <2>1. BufsOK(m, pool, bs) BY <1>6 DEF MemOK
  <2> QED BY <1>8, <2>1, Appended
<1> QED BY <1>6, <1>9 DEF MemOK

\* A new Buffer is cut out of the pool past all the others, or has a SlowBuffer of its own.
LEMMA NewBufferMemory ==
    ASSUME Memory, NEW n \in Nat, NEW bytes \in [1..n -> ByteValue], NewBuffer(bytes)
    PROVE  Memory'
<1>1. bytes \in Seq(Byte) /\ Len(bytes) = n
  <2>1. ByteValue \subseteq Byte BY BufferAssumption DEF Byte
  <2>2. bytes = [k \in 1..n |-> bytes[k]] /\ \A k \in 1..n : bytes[k] \in Byte BY <2>1
  <2> QED BY <2>2, BytesOfChars
<1> PICK a \in Allocations(n) :
      /\ slow' = [a.slow EXCEPT ![a.buf.parent].data = Stored(@, a.buf.offset, bytes)]
      /\ bufPool' = a.pool /\ extMem' = extMem + a.adjust
      /\ bufs' = Append(bufs, a.buf)
  BY <1>1 DEF NewBuffer
<1> PICK x : x = a.buf OBVIOUS
<1> PICK sl : sl = a.slow OBVIOUS
<1> PICK pool : pool = a.pool OBVIOUS
<1> PICK ext : ext = extMem + a.adjust OBVIOUS
<1>2. /\ MemOK(sl, pool, bufs, ext)
      /\ x \in BufRecord /\ x.live /\ x.parent \in 1..MaxSlow
      /\ Inside(sl, x) /\ InPool(pool, x)
      /\ \A b \in 1..Len(bufs) : Apart(bufs[b], x)
  BY Allocated
<1> PICK o : o = x.offset OBVIOUS
<1>3. o \in Nat BY <1>2 DEF BufRecord
<1> PICK m : m = [sl EXCEPT ![x.parent].data = Stored(sl[x.parent].data, o, bytes)] OBVIOUS
<1>4. slow' = m OBVIOUS
<1>5. MemOK(m, pool, Append(bufs, x), ext) BY <1>1, <1>2, <1>3, StoredMemory
<1> QED BY <1>4, <1>5 DEF Memory

-----------------------------------------------------------------------------
\* The string that was made last, and what is known of the bytes of which it was made.
StringRecord == [enc : Encodings \cup {"none"}, chars : Seq(Nat), from : Seq(Byte), made : Nat]

\* The string of the model, and that a base64 one came of bytes.
StringOK ==
    /\ bufStr \in StringRecord
    /\ bufStr.enc = "base64" => IsBase64(bufStr.chars, bufStr.from)
    /\ bufStr.enc \in {"utf8", "ascii"} => bufStr.chars \in Seq(TextChar)

\* The string is one that Buffer.write can be given.
LEMMA StringIsGood == ASSUME StringOK, bufStr.enc # "none" PROVE GoodString(bufStr.chars, bufStr.enc, bufStr.from)
<1>1. bufStr.chars \in Seq(Nat) /\ bufStr.from \in Seq(Byte) /\ bufStr.enc \in Encodings
  BY DEF StringOK, StringRecord
<1>2. bufStr.enc = "base64" => GoodBase64(bufStr.chars, bufStr.from)
  BY <1>1, Base64IsGood DEF StringOK
<1> QED BY <1>1, <1>2 DEF GoodString

\* A Buffer made of a string: its length is that of the string, and the bytes go where the Buffer is.
LEMMA FromStringMemory == ASSUME Memory, StringOK, NewFromString PROVE Memory'
<1> PICK chars : chars = bufStr.chars OBVIOUS
<1> PICK enc : enc = bufStr.enc OBVIOUS
<1> PICK from : from = bufStr.from OBVIOUS
<1>1. GoodString(chars, enc, from) BY StringIsGood DEF NewFromString, Writable
<1> PICK n : n = ByteLength(chars, enc) OBVIOUS
<1>2. n \in Nat BY <1>1, ByteLengthType
<1>3. \E a \in Allocations(n) :
         LET data == a.slow[a.buf.parent].data
             w == WriteTo(Len(data), chars, enc, a.buf.offset, a.buf.length)
         IN  /\ bufPool' = a.pool /\ extMem' = extMem + a.adjust
             /\ slow' = [a.slow EXCEPT ![a.buf.parent].data = Stored(data, a.buf.offset, w.bytes)]
             /\ bufs' = IF w.ok THEN Append(bufs, [a.buf EXCEPT !.length = w.ret]) ELSE bufs
  BY DEF NewFromString
<1>a. PICK a \in Allocations(n) :
         LET data == a.slow[a.buf.parent].data
             w == WriteTo(Len(data), chars, enc, a.buf.offset, a.buf.length)
         IN  /\ bufPool' = a.pool /\ extMem' = extMem + a.adjust
             /\ slow' = [a.slow EXCEPT ![a.buf.parent].data = Stored(data, a.buf.offset, w.bytes)]
             /\ bufs' = IF w.ok THEN Append(bufs, [a.buf EXCEPT !.length = w.ret]) ELSE bufs
  BY <1>3
<1> PICK x : x = a.buf OBVIOUS
<1> PICK sl : sl = a.slow OBVIOUS
<1> PICK pool : pool = a.pool OBVIOUS
<1> PICK ext : ext = extMem + a.adjust OBVIOUS
<1>4. /\ MemOK(sl, pool, bufs, ext)
      /\ x \in BufRecord /\ x.live /\ x.parent \in 1..MaxSlow /\ x.length = n
      /\ Inside(sl, x) /\ InPool(pool, x)
      /\ \A b \in 1..Len(bufs) : Apart(bufs[b], x)
  BY <1>2, Allocated
<1> PICK o : o = x.offset OBVIOUS
<1> PICK length : length = Len(sl[x.parent].data) OBVIOUS
<1>w. PICK w : w = WriteTo(length, chars, enc, o, n) OBVIOUS
<1>z. PICK z : z = [x EXCEPT !.length = w.ret] OBVIOUS
<1>m. PICK m : m = [sl EXCEPT ![x.parent].data = Stored(sl[x.parent].data, o, w.bytes)] OBVIOUS
<1>5. bufPool' = pool /\ extMem' = ext /\ slow' = m /\ bufs' = IF w.ok THEN Append(bufs, z) ELSE bufs
  BY <1>a, <1>w, <1>z, <1>m, <1>4
<1>6. o \in Nat /\ length \in Nat /\ o + n <= length
  <2>1. o \in Nat BY <1>4 DEF BufRecord
  <2>2. sl[x.parent].data \in Seq(Byte)
    <3>1. sl \in [1..MaxSlow -> SlowRecord] BY <1>4 DEF MemOK, SlowOK
    <3> QED BY <1>4, <3>1 DEF SlowRecord
  <2>3. length \in Nat BY <2>2
  <2>4. o + n <= length BY <1>4 DEF Inside
  <2> QED BY <2>1, <2>3, <2>4
<1>7. Written(w) /\ w.ret <= n BY <1>w, <1>1, <1>2, <1>6, WriteToOK
<1>8. w.bytes \in Seq(Byte) /\ w.ret \in Nat BY <1>7 DEF Written
<1>9. /\ z \in BufRecord /\ Inside(sl, z) /\ InPool(pool, z)
      /\ \A y \in BufRecord : Apart(y, x) => Apart(y, z)
  <2>1. pool.used \in Nat
    <3>1. pool.used \in 0..PoolLength BY <1>4 DEF MemOK, PoolOK
    <3> QED BY <3>1
  <2> PICK l \in Nat : l = w.ret BY <1>8
  <2>2. l <= x.length BY <1>4, <1>7
  <2>3. Len(sl[x.parent].data) \in Nat BY <1>6
  <2>4. z = [x EXCEPT !.length = l] BY <1>z
  <2> QED BY <1>4, <2>1, <2>2, <2>3, <2>4, Shorter
<1>10. \A b \in 1..Len(bufs) : Apart(bufs[b], z)
  BY <1>4, <1>9, MemoryParts
<1>11. z.live /\ z.parent = x.parent BY <1>z, <1>4 DEF BufRecord
<1>12. m = [sl EXCEPT ![z.parent].data = Stored(sl[z.parent].data, o, w.bytes)] BY <1>m, <1>11, Zenon
<1>13. MemOK(m, pool, bufs, ext) /\ MemOK(m, pool, Append(bufs, z), ext)
  <2>1. /\ MemOK(sl, pool, bufs, ext) /\ z \in BufRecord /\ z.live /\ z.parent \in 1..MaxSlow
        /\ Inside(sl, z) /\ InPool(pool, z) /\ (\A b \in 1..Len(bufs) : Apart(bufs[b], z))
        /\ w.bytes \in Seq(Byte) /\ o \in Nat
    BY <1>4, <1>6, <1>8, <1>9, <1>10, <1>11
  <2> PICK bytes \in Seq(Byte) : bytes = w.bytes BY <2>1
  <2>2. m = [sl EXCEPT ![z.parent].data = Stored(sl[z.parent].data, o, bytes)] BY <1>12
  <2> QED BY <2>1, <2>2, StoredMemory
<1> QED BY <1>5, <1>13 DEF Memory

-----------------------------------------------------------------------------
\* Writing, filling, copying.

\* What is stored at an offset of a Buffer lies within it.
OnlyIn(b) ==
    \A s \in 1..MaxSlow : \A k \in 1..Len(slow[s].data) :
        \/ slow'[s].data[k] = slow[s].data[k]
        \/ bufs[b].parent = s /\ k \in bufs[b].offset + 1..bufs[b].offset + bufs[b].length

\* The memory of one Buffer is replaced by other bytes.
LEMMA MemoryOf ==
    ASSUME Memory, NEW b \in 1..Len(bufs), bufs[b].live, NEW d \in Seq(Byte), Len(d) = Len(slow[bufs[b].parent].data),
           slow' = [slow EXCEPT ![bufs[b].parent].data = d], UNCHANGED <<bufPool, bufs, extMem>>
    PROVE  /\ Memory'
           /\ slow'[bufs[b].parent].data = d
           /\ \A s \in 1..MaxSlow : s # bufs[b].parent => slow'[s].data = slow[s].data
<1> PICK p \in 1..MaxSlow : p = bufs[b].parent BY MemoryParts
<1>1. slow \in [1..MaxSlow -> SlowRecord] BY MemoryParts
<1>2. slow[p].st = "live" BY MemoryParts DEF Inside
<1>3. MemOK(slow, bufPool, bufs, extMem) BY DEF Memory
<1>4. MemOK([slow EXCEPT ![p].data = d], bufPool, bufs, extMem)
  <2>1. Len(d) = Len(slow[p].data) OBVIOUS
  <2> QED BY <1>2, <1>3, <2>1, DataStored, Zenon
<1>5. Memory' BY <1>4 DEF Memory
<1>6. slow' = [slow EXCEPT ![p].data = d] OBVIOUS
<1>7. slow'[p].data = d
  <2>1. slow[p] \in SlowRecord BY <1>1
  <2> QED BY <1>1, <1>6, <2>1 DEF SlowRecord
<1>8. \A s \in 1..MaxSlow : s # p => slow'[s].data = slow[s].data BY <1>1, <1>6
<1> QED BY <1>5, <1>7, <1>8

\* The place of a Buffer in its SlowBuffer.
LEMMA PlaceOf ==
    ASSUME Memory, NEW b \in 1..Len(bufs), bufs[b].live
    PROVE  /\ bufs[b].offset \in Nat /\ bufs[b].length \in Nat /\ bufs[b].parent \in 1..MaxSlow
           /\ slow[bufs[b].parent].data \in Seq(Byte) /\ Len(slow[bufs[b].parent].data) \in Nat
           /\ bufs[b].offset + bufs[b].length <= Len(slow[bufs[b].parent].data)
<1>1. bufs[b] \in BufRecord /\ Inside(slow, bufs[b]) BY MemoryParts
<1>2. bufs[b].offset \in Nat /\ bufs[b].length \in Nat BY <1>1 DEF BufRecord
<1>3. bufs[b].parent \in 1..MaxSlow /\ slow[bufs[b].parent].data \in Seq(Byte) BY MemoryParts
<1>4. bufs[b].offset + bufs[b].length <= Len(slow[bufs[b].parent].data) BY <1>1 DEF Inside
<1> QED BY <1>2, <1>3, <1>4

\* The target after n bytes of the source were copied to it.
IsCopy(d, source, target, from, at, n) ==
    /\ d \in Seq(Byte) /\ Len(d) = Len(target)
    /\ \A k \in 1..Len(target) : IF k \in at + 1..at + n THEN d[k] = source[from + k - at] ELSE d[k] = target[k]

\* memmove: what is copied, and that the rest of the target stays.
LEMMA CopyFacts ==
    ASSUME NEW source \in Seq(Byte), NEW target \in Seq(Byte), NEW from \in Nat, NEW at \in Nat, NEW n \in Nat,
           from + n <= Len(source), NEW data, data.from = source, data.to = target, NEW d, d = CopyBytes(data, from, at, n)
    PROVE  IsCopy(d, source, target, from, at, n)
<1>l. PICK l \in Nat : l = Len(target) OBVIOUS
<1>1. d = [k \in 1..l |-> IF k \in at + 1..at + n THEN source[from + k - at] ELSE target[k]]
  BY <1>l, Zenon DEF CopyBytes
<1>2. ASSUME NEW k \in 1..l PROVE d[k] \in Byte /\ IF k \in at + 1..at + n THEN d[k] = source[from + k - at] ELSE d[k] = target[k]
  <2>1. CASE k \in at + 1..at + n
    <3>1. PICK j \in 1..Len(source) : j = from + k - at BY <2>1
    <3>2. d[k] = source[j] BY <1>1, <2>1, <3>1
    <3>3. source[j] \in Byte BY ElementOfSeq
    <3> QED BY <2>1, <3>1, <3>2, <3>3
  <2>2. CASE k \notin at + 1..at + n
    <3>1. d[k] = target[k] BY <1>1, <2>2
    <3>2. target[k] \in Byte BY <1>l, ElementOfSeq
    <3> QED BY <2>2, <3>1, <3>2
  <2> QED BY <2>1, <2>2
<1>3. d \in Seq(Byte) /\ Len(d) = l
  <2>1. d = [k \in 1..l |-> d[k]] BY <1>1
  <2> QED BY <1>2, <2>1, BytesOfChars
<1> QED BY <1>l, <1>2, <1>3, Zenon DEF IsCopy

\* A string is written to a Buffer.
LEMMA WriteStep ==
    ASSUME Memory, StringOK, NEW b \in 1..Len(bufs), bufs[b].live, NEW i \in Nat, WriteString(b, i)
    PROVE  /\ Memory' /\ UNCHANGED bufStr /\ wrote'.op = bufStr.enc /\ wrote'.buf = b
           /\ bufStr.enc \in {"utf8", "ascii"} => OnlyIn(b)
           /\ bufStr.enc = "utf8" => Utf8IsPrefix'
<1>s. PICK chars, enc, from : chars = bufStr.chars /\ enc = bufStr.enc /\ from = bufStr.from OBVIOUS
<1>1. GoodString(chars, enc, from) BY <1>s, StringIsGood DEF WriteString, Writable
<1>p. PICK p, o, l, data : p = bufs[b].parent /\ o = bufs[b].offset /\ l = bufs[b].length /\ data = slow[p].data OBVIOUS
<1>2. /\ o \in Nat /\ l \in Nat /\ p \in 1..MaxSlow /\ data \in Seq(Byte) /\ Len(data) \in Nat /\ o + l <= Len(data)
  BY <1>p, PlaceOf
<1>3. i <= l /\ l - i \in Nat /\ o + i \in Nat
  <2>1. i <= l BY <1>p DEF WriteString
  <2> QED BY <1>2, <2>1
<1>o. PICK at \in Nat : at = o + i BY <1>3
<1>m. PICK max \in Nat : max = l - i BY <1>3
<1>n. PICK length \in Nat : length = Len(data) BY <1>2
<1>w. PICK w : w = WriteTo(length, chars, enc, at, max) OBVIOUS
<1>4. at + max <= length
  BY <1>2, <1>3, <1>o, <1>m, <1>n
<1>5. Written(w) /\ (enc \in {"utf8", "ascii"} => Len(w.bytes) <= max)
  BY <1>w, <1>1, <1>4, WriteToOK
<1>6. w.bytes \in Seq(Byte) /\ w.ret \in Nat /\ w.ret <= Len(w.bytes) BY <1>5 DEF Written
<1>b. PICK bytes \in Seq(Byte) : bytes = w.bytes BY <1>6
<1>d. PICK d : d = Stored(data, at, bytes) OBVIOUS
<1>7. slow' = [slow EXCEPT ![p].data = d] /\ wrote' = [op |-> enc, buf |-> b, ret |-> w.ret, at |-> i] /\ UNCHANGED <<bufPool, bufs, extMem, bufStr>>
  BY <1>s, <1>p, <1>o, <1>m, <1>n, <1>w, <1>b, <1>d DEF WriteString
<1>8. /\ d \in Seq(Byte) /\ Len(d) = Len(data)
      /\ \A k \in 1..Len(data) : IF k \in at + 1..at + Len(bytes) THEN d[k] = bytes[k - at] ELSE d[k] = data[k]
  BY <1>2, <1>d, StoredFacts
<1>9. Memory' /\ slow'[p].data = d /\ \A s \in 1..MaxSlow : s # p => slow'[s].data = slow[s].data
  <2>1. slow' = [slow EXCEPT ![bufs[b].parent].data = d] /\ Len(d) = Len(slow[bufs[b].parent].data)
    BY <1>p, <1>7, <1>8
  <2>2. Memory' /\ slow'[bufs[b].parent].data = d /\ \A s \in 1..MaxSlow : s # bufs[b].parent => slow'[s].data = slow[s].data
    BY <1>7, <1>8, <2>1, MemoryOf
  <2> QED BY <1>p, <2>2, Zenon
<1>10. ASSUME enc \in {"utf8", "ascii"} PROVE OnlyIn(b)
  <2>1. Len(bytes) \in Nat /\ Len(bytes) <= max BY <1>5, <1>10, <1>b
  <2> SUFFICES ASSUME NEW s \in 1..MaxSlow, NEW k \in 1..Len(slow[s].data), slow'[s].data[k] # slow[s].data[k]
      PROVE p = s /\ k \in o + 1..o + l
    BY <1>p DEF OnlyIn
  <2>2. p = s BY <1>9
  <2>3. k \in at + 1..at + Len(bytes) BY <1>p, <1>8, <1>9, <2>2
  <2>4. k \in o + 1..o + l
    <3>z. PICK z \in Nat : z = Len(bytes) BY <2>1
    <3>1. z <= max /\ k \in at + 1..at + z BY <2>1, <2>3, <3>z
    <3>2. at = o + i /\ max = l - i /\ o \in Nat /\ l \in Nat /\ i \in Nat /\ i <= l BY <1>2, <1>3, <1>o, <1>m
    <3>3. k \in Nat /\ at + 1 <= k /\ k <= at + z BY <3>1, <3>z
    <3>4. o + 1 <= k BY <3>2, <3>3
    <3>5. k <= o + l BY <3>1, <3>2, <3>3
    <3> QED BY <1>2, <3>3, <3>4, <3>5
  <2> QED BY <2>2, <2>4
<1>11. ASSUME enc = "utf8" PROVE Utf8IsPrefix'
  <2>1. chars \in Seq(Plain)
    <3>1. chars \in Seq(TextChar) BY <1>s, <1>11 DEF StringOK
    <3>2. \A k \in 1..Len(chars) : chars[k] \in Plain
      <4> SUFFICES ASSUME NEW k \in 1..Len(chars) PROVE chars[k] \in Plain OBVIOUS
      <4>1. chars[k] # Replacement BY <1>s DEF WriteString, Writable
      <4>2. chars[k] \in TextChar BY <3>1, ElementOfSeq
      <4> QED BY <4>1, <4>2 DEF TextChar
    <3>3. chars = [k \in 1..Len(chars) |-> chars[k]] BY <3>1
    <3>4. Len(chars) \in Nat BY <3>1
    <3> QED BY <3>2, <3>3, <3>4, SeqDef
  <2>2. w = Utf8Write(length, chars, at, max) BY <1>w, <1>11 DEF WriteTo
  <2>3. IsPrefix(Utf8Slice(SubSeq(w.bytes, 1, w.ret)), chars)
    BY <1>4, <2>1, <2>2, Utf8WritePrefix
  <2>n. PICK n : n = w.ret OBVIOUS
  <2>4. n \in Nat /\ Len(bytes) \in Nat /\ n <= Len(bytes) /\ Len(bytes) <= max BY <1>5, <1>6, <1>b, <1>11, <2>n
  <2>5. i + n <= l BY <1>2, <1>3, <1>m, <2>4
  <2>6. \A k \in 1..n : d[o + i + k] = bytes[k]
    <3> SUFFICES ASSUME NEW k \in 1..n PROVE d[o + i + k] = bytes[k] OBVIOUS
    <3>z. PICK z \in Nat : z = Len(bytes) BY <2>4
    <3>p. PICK j : j = at + k OBVIOUS
    <3>1. j \in at + 1..at + z /\ j \in 1..Len(data) /\ j - at = k
      <4>1. n <= z /\ z <= max BY <2>4, <3>z
      <4>2. at + max <= Len(data) BY <1>4, <1>n
      <4>3. at + k \in at + 1..at + z /\ at + k <= at + max /\ (at + k) - at = k BY <2>4, <4>1
      <4>4. at + k \in 1..Len(data) BY <1>2, <4>2, <4>3
      <4> QED BY <3>p, <4>3, <4>4, Zenon
    <3>2. d[j] = bytes[j - at] BY <1>8, <3>1, <3>z
    <3>3. o + i + k = j BY <1>2, <1>o, <3>p
    <3> QED BY <3>1, <3>2, <3>3, Zenon
  <2>7. SubSeq(SubSeq(d, o + 1, o + l), i + 1, i + n) = SubSeq(bytes, 1, n)
    <3>1. o + l <= Len(d) BY <1>2, <1>8
    <3> QED BY <1>2, <1>8, <2>4, <2>5, <2>6, <3>1, SameCut
  <2>8. BytesOf(b)' = SubSeq(d, o + 1, o + l) BY <1>p, <1>7, <1>9, Zenon DEF BytesOf
  <2>9. wrote'.buf = b /\ wrote'.at = i /\ wrote'.ret = n /\ bufStr'.chars = chars BY <2>n, <1>s, <1>7
  <2>10. IsPrefix(Utf8Slice(SubSeq(SubSeq(d, o + 1, o + l), i + 1, i + n)), chars) BY <1>b, <2>n, <2>3, <2>7, Zenon
  <2> QED BY <2>8, <2>9, <2>10, Zenon DEF Utf8IsPrefix, BytesOf
<1>12. wrote'.op = enc /\ wrote'.buf = b BY <1>7
<1> QED BY <1>s, <1>7, <1>9, <1>10, <1>11, <1>12

-----------------------------------------------------------------------------
\* The invariant.

\* A Buffer is copied to another, or to itself.
LEMMA CopyStep ==
    ASSUME Memory, NEW b \in 1..Len(bufs), bufs[b].live, NEW t \in 1..Len(bufs), bufs[t].live, NEW i \in Nat, CopyTo(b, t, i)
    PROVE  Memory' /\ UNCHANGED bufStr /\ wrote'.op = "copy" /\ wrote'.buf = t /\ OnlyIn(t) /\ CopyIsExact'
<1>p. PICK p, o, l, target : p = bufs[t].parent /\ o = bufs[t].offset /\ l = bufs[t].length /\ target = slow[p].data OBVIOUS
<1>q. PICK q, f, m, source : q = bufs[b].parent /\ f = bufs[b].offset /\ m = bufs[b].length /\ source = slow[q].data OBVIOUS
<1>1. /\ o \in Nat /\ l \in Nat /\ p \in 1..MaxSlow /\ target \in Seq(Byte) /\ Len(target) \in Nat /\ o + l <= Len(target)
  BY <1>p, PlaceOf
<1>2. /\ f \in Nat /\ m \in Nat /\ source \in Seq(Byte) /\ Len(source) \in Nat /\ f + m <= Len(source)
  BY <1>q, PlaceOf
<1>3. i < l BY <1>p DEF CopyTo
<1>4. l - i \in Nat BY <1>1, <1>3
<1>n. PICK n : n = Least2(m, l - i) OBVIOUS
<1>5. n \in Nat /\ n <= m /\ n <= l - i BY <1>2, <1>4, <1>n DEF Least2
<1>6. n \in Nat /\ n <= m /\ i + n <= l BY <1>1, <1>5
<1>s. PICK src : src = BytesOf(b) OBVIOUS
<1>7. src \in Seq(Byte) /\ Len(src) = m /\ \A k \in 1..m : src[k] = source[f + k]
  <2>1. src = SubSeq(source, f + 1, f + m) BY <1>q, <1>s, Zenon DEF BytesOf
  <2>2. IsCut(src, source, f, m) BY <1>2, <2>1, CutBytes
  <2> QED BY <2>2, Zenon DEF IsCut
<1>a. PICK at \in Nat : at = o + i BY <1>1
<1>x. PICK data : data = [from |-> source, to |-> target, same |-> q = p] OBVIOUS
<1>d. PICK d : d = CopyBytes(data, f, at, n) OBVIOUS
<1>8. slow' = [slow EXCEPT ![p].data = d] /\ wrote' = [op |-> "copy", buf |-> t, ret |-> n, from |-> SubSeq(src, 1, n), at |-> i]
      /\ UNCHANGED <<bufPool, bufs, extMem, bufStr>>
  BY <1>p, <1>q, <1>n, <1>s, <1>a, <1>x, <1>d DEF CopyTo
<1>9. /\ d \in Seq(Byte) /\ Len(d) = Len(target)
      /\ \A k \in 1..Len(target) : IF k \in at + 1..at + n THEN d[k] = source[f + k - at] ELSE d[k] = target[k]
  <2>1. data.from = source /\ data.to = target BY <1>x
  <2>2. f + n <= Len(source) BY <1>2, <1>6
  <2>3. IsCopy(d, source, target, f, at, n) BY <1>1, <1>2, <1>6, <1>d, <2>1, <2>2, CopyFacts
  <2> QED BY <2>3, Zenon DEF IsCopy
<1>10. Memory' /\ slow'[p].data = d /\ \A s \in 1..MaxSlow : s # p => slow'[s].data = slow[s].data
  <2>1. slow' = [slow EXCEPT ![bufs[t].parent].data = d] /\ Len(d) = Len(slow[bufs[t].parent].data)
    BY <1>p, <1>8, <1>9
  <2>2. Memory' /\ slow'[bufs[t].parent].data = d /\ \A s \in 1..MaxSlow : s # bufs[t].parent => slow'[s].data = slow[s].data
    BY <1>8, <1>9, <2>1, MemoryOf
  <2> QED BY <1>p, <2>2, Zenon
<1>11. OnlyIn(t)
  <2>4. \A k \in at + 1..at + n : k \in o + 1..o + l BY <1>1, <1>6, <1>a
  <2> SUFFICES ASSUME NEW s \in 1..MaxSlow, NEW k \in 1..Len(slow[s].data), slow'[s].data[k] # slow[s].data[k]
      PROVE p = s /\ k \in o + 1..o + l
    BY <1>p DEF OnlyIn
  <2>1. p = s BY <1>10
  <2>2. k \in at + 1..at + n BY <1>p, <1>9, <1>10, <2>1
  <2>3. k \in o + 1..o + l BY <2>2, <2>4
  <2> QED BY <2>1, <2>3
<1>12. \A k \in 1..n : d[o + i + k] = src[k]
  <2> SUFFICES ASSUME NEW k \in 1..n PROVE d[o + i + k] = src[k] OBVIOUS
  <2>j. PICK j : j = at + k OBVIOUS
  <2>1. j \in at + 1..at + n /\ j \in 1..Len(target) /\ f + j - at = f + k
    <3>1. at + k \in at + 1..at + n /\ at + k <= o + l /\ f + (at + k) - at = f + k BY <1>1, <1>2, <1>6, <1>a
    <3>2. at + k \in 1..Len(target) BY <1>1, <3>1
    <3> QED BY <2>j, <3>1, <3>2, Zenon
  <2>2. d[j] = source[f + j - at] BY <1>9, <2>1
  <2>3. o + i + k = j BY <1>1, <1>a, <2>j
  <2>4. k \in 1..m BY <1>2, <1>6
  <2> QED BY <1>7, <2>1, <2>2, <2>3, <2>4, Zenon
<1>13. SubSeq(SubSeq(d, o + 1, o + l), i + 1, i + n) = SubSeq(src, 1, n)
  <2>1. o + l <= Len(d) BY <1>1, <1>9
  <2>2. n <= Len(src) BY <1>6, <1>7
  <2> QED BY <1>1, <1>6, <1>7, <1>9, <1>12, <2>1, <2>2, SameCut
<1>14. BytesOf(t)' = SubSeq(d, o + 1, o + l) BY <1>p, <1>8, <1>10, Zenon DEF BytesOf
<1>15. wrote'.buf = t /\ wrote'.at = i /\ wrote'.ret = n /\ wrote'.from = SubSeq(src, 1, n) /\ wrote'.op = "copy" BY <1>8
<1>16. CopyIsExact' BY <1>13, <1>14, <1>15, Zenon DEF CopyIsExact
<1> QED BY <1>8, <1>10, <1>11, <1>15, <1>16

-----------------------------------------------------------------------------
\* The inductive invariant.
BInv == Memory /\ StringOK /\ (wrote.op = "utf8" => bufStr.enc = "utf8") /\ CopyIsExact /\ Utf8IsPrefix

\* What does not write leaves the last string and operation consistent.
LEMMA NothingWritten ==
    ASSUME BInv, Memory', UNCHANGED bufStr, wrote'.op \notin {"utf8", "copy"}
    PROVE  BInv'
BY DEF BInv, StringOK, StringRecord, CopyIsExact, Utf8IsPrefix

\* A string is made of the bytes of a Buffer.
LEMMA ToStringStep ==
    ASSUME BInv, NEW b \in 1..Len(bufs), bufs[b].live, NEW enc \in Encodings, BufferToString(b, enc)
    PROVE  BInv' /\ wrote'.op = "none"
<1>1. Memory /\ StringOK BY DEF BInv
<1>p. PICK p, o, l, data : p = bufs[b].parent /\ o = bufs[b].offset /\ l = bufs[b].length /\ data = slow[p].data OBVIOUS
<1>2. o \in Nat /\ l \in Nat /\ data \in Seq(Byte) /\ o + l <= Len(data) BY <1>1, <1>p, PlaceOf
<1>s. PICK src : src = BytesOf(b) OBVIOUS
<1>3. src \in Seq(Byte)
  <2>1. src = SubSeq(data, o + 1, o + l) BY <1>p, <1>s, Zenon DEF BytesOf
  <2>2. IsCut(src, data, o, l) BY <1>2, <2>1, CutBytes
  <2> QED BY <2>2, Zenon DEF IsCut
<1>c. PICK chars : chars = Slice(src, enc) OBVIOUS
<1>m. PICK made \in Nat : made = bufStr.made + 1 BY <1>1 DEF StringOK, StringRecord
<1>4. bufStr' = [enc |-> enc, chars |-> chars, from |-> src, made |-> made] /\ wrote' = Nowhere /\ UNCHANGED <<slow, bufPool, bufs, extMem>>
  BY <1>s, <1>c, <1>m DEF BufferToString
<1>5. enc = "base64" => IsBase64(chars, src) /\ chars \in Seq(Nat)
  <2> SUFFICES ASSUME enc = "base64" PROVE IsBase64(chars, src) /\ chars \in Seq(Nat) OBVIOUS
  <2>1. chars = Base64Slice(src) BY <1>c DEF Slice
  <2>2. IsBase64(chars, src) BY <2>1 DEF IsBase64
  <2>3. GoodBase64(chars, src) BY <1>3, <2>2, Base64IsGood
  <2>4. chars \in Seq(Code) BY <2>3 DEF GoodBase64
  <2>5. Code \subseteq Nat BY DEF Code
  <2> QED BY <2>2, <2>4, <2>5, SeqMonotonic
<1>6. enc \in {"utf8", "ascii"} => chars \in Seq(TextChar)
  <2> SUFFICES ASSUME enc \in {"utf8", "ascii"} PROVE chars \in Seq(TextChar) OBVIOUS
  <2>1. chars = Utf8Slice(src) BY <1>c DEF Slice, AsciiSlice
  <2> QED BY <1>3, <2>1, Utf8SliceType
<1>7. enc = "binary" => chars \in Seq(Nat)
  <2> SUFFICES ASSUME enc = "binary" PROVE chars \in Seq(Nat) OBVIOUS
  <2>1. chars = src BY <1>c DEF Slice, BinarySlice
  <2> QED BY <1>3, <2>1, Characters, SeqMonotonic
<1>8. chars \in Seq(Nat)
  <2>1. enc \in {"utf8", "ascii"} => chars \in Seq(Nat) BY <1>6, Characters, SeqMonotonic
  <2> QED BY <1>5, <1>7, <2>1 DEF Encodings
<1>9. bufStr' \in StringRecord BY <1>3, <1>4, <1>8 DEF StringRecord
<1>10. bufStr'.enc = enc /\ bufStr'.chars = chars /\ bufStr'.from = src BY <1>4
<1>11. StringOK' BY <1>5, <1>6, <1>9, <1>10, Zenon DEF StringOK, StringRecord
<1>12. wrote'.op = "none" BY <1>4 DEF Nowhere
<1>13. Memory' BY <1>1, <1>4 DEF Memory
<1> QED BY <1>11, <1>12, <1>13 DEF BInv, CopyIsExact, Utf8IsPrefix

\* A base64 string loses its padding or gets a line break.
LEMMA OtherStep == ASSUME BInv, OtherBase64 PROVE BInv' /\ UNCHANGED slow
<1>1. Memory /\ StringOK BY DEF BInv
<1>s. PICK chars, from, made : chars = bufStr.chars /\ from = bufStr.from /\ made = bufStr.made OBVIOUS
<1>2. chars \in Seq(Nat) /\ from \in Seq(Byte) /\ made \in Nat /\ IsBase64(chars, from) /\ bufStr \in StringRecord /\ bufStr.enc = "base64"
      /\ \A k \in 1..Len(chars) : chars[k] # Blank
  BY <1>1, <1>s DEF OtherBase64, StringOK, StringRecord
<1>3. IsBase64(Kept(chars, 0..63), from) /\ (chars # <<>> => IsBase64(InsertAt(chars, 2, Blank), from))
  BY <1>2, Base64Other
<1>4. PICK c : IsBase64(c, from) /\ bufStr' = [bufStr EXCEPT !.chars = c]
  BY <1>3, <1>s DEF OtherBase64
<1>5. c \in Seq(Nat)
  <2>1. GoodBase64(c, from) BY <1>2, <1>4, Base64IsGood
  <2>2. c \in Seq(Code) BY <2>1 DEF GoodBase64
  <2>3. Code \subseteq Nat BY DEF Code
  <2> QED BY <2>2, <2>3, SeqMonotonic
<1>6. bufStr' \in StringRecord /\ bufStr'.enc = "base64" /\ bufStr'.chars = c /\ bufStr'.from = from
  BY <1>2, <1>4, <1>5, <1>s DEF StringRecord
<1>7. StringOK' BY <1>4, <1>6 DEF StringOK, StringRecord
<1>8. UNCHANGED <<slow, bufPool, bufs, extMem, wrote>> BY DEF OtherBase64
<1>9. Memory' BY <1>1, <1>8 DEF Memory
<1>10. wrote.op # "utf8" BY <1>2 DEF BInv
<1>11. CopyIsExact' BY <1>8 DEF BInv, CopyIsExact, BytesOf
<1> QED BY <1>7, <1>8, <1>9, <1>10, <1>11 DEF BInv, Utf8IsPrefix

\* The invariant holds before anything is allocated.
LEMMA InitInv == ASSUME BufferInit PROVE BInv
<1>0. MaxSlow \in Nat /\ PoolLength \in Nat BY BufferAssumption
<1>1. slow = [s \in 1..MaxSlow |-> NoSlow] /\ bufPool = [id |-> 0, used |-> 0] /\ bufs = <<>> /\ bufStr = NoString /\ extMem = 0 /\ wrote = Nowhere
  BY DEF BufferInit
<1>2. NoSlow \in SlowRecord BY EmptySeq DEF NoSlow, SlowRecord
<1>3. slow \in [1..MaxSlow -> SlowRecord] /\ \A s \in 1..MaxSlow : slow[s] = NoSlow BY <1>1, <1>2
<1>4. SlowOK(slow) BY <1>3 DEF SlowOK, NoSlow
<1>5. PoolOK(slow, bufPool) BY <1>0, <1>1 DEF PoolOK
<1>6. BufsOK(slow, bufPool, bufs)
  <2>1. bufs \in Seq(BufRecord) /\ 1..Len(bufs) = {} BY <1>1, EmptySeq
  <2> QED BY <2>1 DEF BufsOK
<1>7. HeldByAll(slow) = 0
  <2>1. slow \in Seq(SlowRecord) /\ Len(slow) = MaxSlow BY <1>0, <1>3, SeqDef
  <2>2. Held(NoSlow) = 0 BY DEF Held, NoSlow
  <2>3. \A s \in 1..Len(slow) : Held(slow[s]) = 0 BY <1>3, <2>1, <2>2
  <2> QED BY <2>1, <2>3, HeldNone
<1>8. Memory BY <1>1, <1>4, <1>5, <1>6, <1>7 DEF Memory, MemOK
<1>9. StringOK
  <2>1. <<>> \in Seq(Nat) /\ <<>> \in Seq(Byte) BY EmptySeq
  <2>2. bufStr \in StringRecord /\ bufStr.enc = "none" BY <1>1, <2>1 DEF NoString, StringRecord
  <2> QED BY <2>2 DEF StringOK
<1>10. wrote.op = "none" BY <1>1 DEF Nowhere
<1> QED BY <1>8, <1>9, <1>10 DEF BInv, CopyIsExact, Utf8IsPrefix

-----------------------------------------------------------------------------
\* The theorems about the Buffers.

\* What a step does to the bytes of Buffers.
OwnBytes == wrote'.op \in {"utf8", "ascii", "copy"} => OnlyIn(wrote'.buf)

\* A step that writes to no SlowBuffer writes to nobody's bytes.
LEMMA UnchangedBytes == ASSUME UNCHANGED slow PROVE OwnBytes
BY DEF OwnBytes, OnlyIn

\* One step of BufferNext.
LEMMA BufferStep == ASSUME BInv, [BufferNext]_bufferVars PROVE BInv' /\ (BufferNext => OwnBytes)
<1>0. Memory /\ StringOK BY DEF BInv
<1>n. wrote' = Nowhere => wrote'.op = "none" BY DEF Nowhere
<1>1. ASSUME NEW n \in 0..PoolLength + 1, NEW bytes \in [1..n -> ByteValue], NewBuffer(bytes) PROVE BInv' /\ OwnBytes
  <2>1. Memory'
    <3>1. n \in Nat BY BufferAssumption
    <3> QED BY <1>0, <1>1, <3>1, NewBufferMemory
  <2>2. UNCHANGED bufStr /\ wrote'.op = "none" BY <1>1, <1>n DEF NewBuffer
  <2> QED BY <2>1, <2>2, NothingWritten DEF OwnBytes
<1>2. ASSUME NewFromString PROVE BInv' /\ OwnBytes
  <2>1. Memory' BY <1>0, <1>2, FromStringMemory
  <2>2. UNCHANGED bufStr BY <1>2 DEF NewFromString
  <2>3. wrote'.op \in {"from", "throws"}
    <3>1. \E ok \in BOOLEAN : \E i, r : wrote' = [op |-> IF ok THEN "from" ELSE "throws", buf |-> i, ret |-> r]
      <4>1. PICK a \in Allocations(ByteLength(bufStr.chars, bufStr.enc)) :
             LET data == a.slow[a.buf.parent].data
                 w == WriteTo(Len(data), bufStr.chars, bufStr.enc, a.buf.offset, a.buf.length)
             IN  wrote' = [op |-> IF w.ok THEN "from" ELSE "throws", buf |-> IF w.ok THEN Len(bufs) + 1 ELSE 0, ret |-> w.ret]
        BY <1>2 DEF NewFromString
      <4>w. PICK w : w = WriteTo(Len(a.slow[a.buf.parent].data), bufStr.chars, bufStr.enc, a.buf.offset, a.buf.length) OBVIOUS
      <4>2. wrote' = [op |-> IF w.ok THEN "from" ELSE "throws", buf |-> IF w.ok THEN Len(bufs) + 1 ELSE 0, ret |-> w.ret]
        BY <4>1, <4>w
      <4>3. CASE w.ok BY <4>2, <4>3
      <4>4. CASE ~w.ok BY <4>2, <4>4
      <4> QED BY <4>3, <4>4
    <3> QED BY <3>1
  <2> QED BY <2>1, <2>2, <2>3, NothingWritten DEF OwnBytes
<1>3. ASSUME NewForeign PROVE BInv' /\ OwnBytes
  <2>1. Memory' BY <1>0, <1>3, ForeignMemory
  <2>2. UNCHANGED bufStr /\ wrote'.op = "none" BY <1>3, <1>n DEF NewForeign
  <2> QED BY <2>1, <2>2, NothingWritten DEF OwnBytes
<1>4. ASSUME CollectSlow PROVE BInv' /\ OwnBytes
  <2>1. Memory' BY <1>0, <1>4, CollectMemory
  <2>2. UNCHANGED bufStr /\ wrote'.op = "none" BY <1>4, <1>n DEF CollectSlow
  <2> QED BY <2>1, <2>2, NothingWritten DEF OwnBytes
<1>5. ASSUME OtherBase64 PROVE BInv' /\ OwnBytes BY <1>5, OtherStep, UnchangedBytes
<1>6. ASSUME NEW b \in 1..Len(bufs), bufs[b].live, NEW i \in 0..PoolLength, WriteString(b, i) PROVE BInv' /\ OwnBytes
  <2>1. i \in Nat BY BufferAssumption
  <2>2. /\ Memory' /\ UNCHANGED bufStr /\ wrote'.op = bufStr.enc /\ wrote'.buf = b
        /\ bufStr.enc \in {"utf8", "ascii"} => OnlyIn(b)
        /\ bufStr.enc = "utf8" => Utf8IsPrefix'
    BY <1>0, <1>6, <2>1, WriteStep
  <2>3. bufStr.enc \in Encodings \cup {"none"} BY <1>0 DEF StringOK, StringRecord
  <2>4. wrote'.op # "copy" BY <2>2, <2>3 DEF Encodings
  <2>5. OwnBytes BY <2>2, <2>4, Zenon DEF OwnBytes
  <2>6. Utf8IsPrefix'
    <3>1. CASE bufStr.enc = "utf8" BY <2>2, <3>1
    <3>2. CASE bufStr.enc # "utf8" BY <2>2, <3>2 DEF Utf8IsPrefix
    <3> QED BY <3>1, <3>2
  <2>7. CopyIsExact' BY <2>4 DEF CopyIsExact
  <2>8. StringOK' BY <1>0, <2>2 DEF StringOK, StringRecord
  <2> QED BY <2>2, <2>5, <2>6, <2>7, <2>8 DEF BInv
<1>7. ASSUME NEW b \in 1..Len(bufs), bufs[b].live, NEW i \in 0..bufs[b].length, NEW j \in 0..bufs[b].length, i <= j, SliceBuffer(b, i, j)
      PROVE BInv' /\ OwnBytes
  <2>1. Memory' BY <1>0, <1>7, SliceMemory
  <2>2. UNCHANGED bufStr /\ wrote'.op = "none" BY <1>7, <1>n DEF SliceBuffer
  <2> QED BY <2>1, <2>2, NothingWritten DEF OwnBytes
<1>8. ASSUME NEW b \in 1..Len(bufs), bufs[b].live, NEW enc \in {"utf8", "ascii", "binary", "base64"}, BufferToString(b, enc) PROVE BInv' /\ OwnBytes
  <2>1. enc \in Encodings BY DEF Encodings
  <2>2. BInv' /\ wrote'.op = "none" BY <1>8, <2>1, ToStringStep
  <2> QED BY <2>2 DEF OwnBytes
<1>9. ASSUME NEW b \in 1..Len(bufs), bufs[b].live, NEW t \in 1..Len(bufs), NEW at \in 0..1, bufs[t].live, CopyTo(b, t, at) PROVE BInv' /\ OwnBytes
  <2>1. at \in Nat OBVIOUS
  <2>2. Memory' /\ UNCHANGED bufStr /\ wrote'.op = "copy" /\ wrote'.buf = t /\ OnlyIn(t) /\ CopyIsExact'
    BY <1>0, <1>9, <2>1, CopyStep
  <2>3. StringOK' BY <1>0, <2>2 DEF StringOK, StringRecord
  <2>4. OwnBytes BY <2>2, Zenon DEF OwnBytes
  <2> QED BY <2>2, <2>3, <2>4 DEF BInv, Utf8IsPrefix
<1>10. ASSUME NEW b \in 1..Len(bufs), DropBuffer(b) PROVE BInv' /\ OwnBytes
  <2>1. Memory' BY <1>0, <1>10, DropMemory
  <2>2. UNCHANGED bufStr /\ wrote'.op = "none" BY <1>10, <1>n DEF DropBuffer
  <2> QED BY <2>1, <2>2, NothingWritten DEF OwnBytes
<1>11. ASSUME UNCHANGED bufferVars PROVE BInv'
  <2>1. UNCHANGED <<slow, bufPool, bufs, bufStr, extMem, wrote>> BY <1>11 DEF bufferVars
  <2>2. Memory' BY <1>0, <2>1 DEF Memory
  <2>3. StringOK' BY <1>0, <2>1 DEF StringOK, StringRecord
  <2>4. CopyIsExact' BY <2>1 DEF BInv, CopyIsExact, BytesOf
  <2>5. Utf8IsPrefix' BY <2>1 DEF BInv, Utf8IsPrefix, BytesOf
  <2> QED BY <2>1, <2>2, <2>3, <2>4, <2>5 DEF BInv
<1>12. BufferNext => BInv' /\ OwnBytes
  BY <1>1, <1>2, <1>3, <1>4, <1>5, <1>6, <1>7, <1>8, <1>9, <1>10 DEF BufferNext
<1> QED BY <1>11, <1>12

\* The inductive invariant of the buffers.
THEOREM BufferInvariant == BufferSpec => []BInv
<1>1. BufferInit => BInv BY InitInv
<1>2. BInv /\ [BufferNext]_bufferVars => BInv' BY BufferStep
<1> QED BY <1>1, <1>2, PTL DEF BufferSpec

\* Buffers lie inside their SlowBuffer and new ones do not overlap, what V8 was told is what is held, memory is
\* freed once, and what was written, copied and encoded is what a reader gets.
THEOREM BufferIsSafe == BufferSpec => []BufferSafe
<1>1. BInv => BufferSafe
  <2> SUFFICES ASSUME BInv PROVE BufferSafe OBVIOUS
  <2>0. Memory /\ StringOK /\ CopyIsExact /\ Utf8IsPrefix BY DEF BInv
  <2>1. SlowOK(slow) /\ PoolOK(slow, bufPool) /\ BufsOK(slow, bufPool, bufs) /\ extMem = HeldByAll(slow) BY <2>0 DEF Memory, MemOK
  <2>2. BufferTypeOK
    <3>1. bufPool.id \in 0..MaxSlow /\ bufPool.used \in 0..PoolLength BY <2>1 DEF PoolOK
    <3>2. extMem \in Nat BY <2>0, MemoryParts
    <3>3. ASSUME NEW s \in 1..MaxSlow PROVE slow[s].st \in {"none", "live", "freed"} /\ \A k \in 1..Len(slow[s].data) : slow[s].data[k] \in 0..255
      <4>1. slow[s] \in SlowRecord BY <2>1 DEF SlowOK
      <4>2. slow[s].st \in {"none", "live", "freed"} /\ slow[s].data \in Seq(Byte) BY <4>1 DEF SlowRecord
      <4>3. \A k \in 1..Len(slow[s].data) : slow[s].data[k] \in Byte BY <4>2, ElementOfSeq
      <4> QED BY <4>2, <4>3 DEF Byte
    <3> QED BY <3>1, <3>2, <3>3 DEF BufferTypeOK
  <2>3. BuffersHaveMemory BY <2>1 DEF BufsOK, Inside, BuffersHaveMemory
  <2>4. BuffersDisjoint BY <2>1, Zenon DEF BufsOK, Apart, BuffersDisjoint
  <2>5. MemoryIsAccounted
    <3> SUFFICES ASSUME NEW s \in 1..MaxSlow PROVE slow[s].frees = (IF slow[s].st = "freed" /\ slow[s].frees > 0 THEN 1 ELSE 0)
      BY <2>1 DEF MemoryIsAccounted
    <3>1. slow[s] \in SlowRecord /\ (slow[s].st = "none" => slow[s] = NoSlow) /\ (slow[s].st = "live" => slow[s].frees = 0) BY <2>1 DEF SlowOK
    <3>2. slow[s].st \in {"none", "live", "freed"} /\ slow[s].frees \in {0, 1} BY <3>1 DEF SlowRecord
    <3>3. slow[s].st = "none" => slow[s].frees = 0 BY <3>1 DEF NoSlow
    <3> QED BY <3>1, <3>2, <3>3
  <2>6. Base64Exact
    <3> SUFFICES ASSUME bufStr.enc = "base64" PROVE GoodBase64(bufStr.chars, bufStr.from) BY Zenon DEF Base64Exact, GoodBase64
    <3>1. GoodString(bufStr.chars, bufStr.enc, bufStr.from) BY <2>0, StringIsGood
    <3> QED BY <3>1 DEF GoodString
  <2> QED BY <2>0, <2>2, <2>3, <2>4, <2>5, <2>6 DEF BufferSafe
<1> QED BY <1>1, BufferInvariant, PTL

\* Writing UTF-8 or ascii text and copying change no byte outside of the Buffer that is written to, even where its
\* neighbour in the pool begins.
THEOREM BufferOnlyItsOwnBytes == BufferSpec => OnlyItsOwnBytes
<1>1. BInv /\ [BufferNext]_bufferVars =>
        [wrote'.op \in {"utf8", "ascii", "copy"} =>
          \A s \in 1..MaxSlow : \A k \in 1..Len(slow[s].data) :
            \/ slow'[s].data[k] = slow[s].data[k]
            \/ LET b == bufs[wrote'.buf] IN b.parent = s /\ k \in b.offset + 1..b.offset + b.length]_bufferVars
  BY BufferStep, Zenon DEF OwnBytes, OnlyIn
<1> QED BY <1>1, BufferInvariant, PTL DEF BufferSpec, OnlyItsOwnBytes

-----------------------------------------------------------------------------
\* Children on Windows: sequences of sequences.

\* The table of FlattenSeq: each entry joins one more sequence.
IsFlat(f, n, s, B) ==
    /\ f \in [1..n -> Seq(B)]
    /\ \A i \in 1..n : f[i] = IF i = 1 THEN s[1] ELSE f[i - 1] \o s[i]

\* Such a table exists.
LEMMA FlatExists == ASSUME NEW B, NEW s \in Seq(Seq(B)) PROVE \E f : IsFlat(f, Len(s), s, B)
<1> DEFINE A == Seq(B)
           P == {n \in Nat : n <= Len(s) => \E f : IsFlat(f, n, s, B)}
<1>0. Len(s) \in Nat /\ \A i \in 1..Len(s) : s[i] \in A
  OBVIOUS
<1>1. 0 \in P
  <2> DEFINE f == [i \in 1..0 |-> <<>>]
  <2>1. IsFlat(f, 0, s, B) BY DEF IsFlat
  <2> QED BY <2>1
<1>2. ASSUME NEW n \in Nat, n \in P PROVE n + 1 \in P
  <2> SUFFICES ASSUME n + 1 <= Len(s) PROVE \E f : IsFlat(f, n + 1, s, B)
    OBVIOUS
  <2>p. PICK f : IsFlat(f, n, s, B)
    BY <1>0, <1>2
  <2>q. PICK y \in A : y = IF n = 0 THEN s[1] ELSE f[n] \o s[n + 1]
    <3>1. CASE n = 0 BY <1>0, <3>1
    <3>2. CASE n # 0
      <4>1. f[n] \in A /\ s[n + 1] \in A BY <1>0, <2>p, <3>2 DEF IsFlat
      <4>2. f[n] \o s[n + 1] \in A BY <4>1
      <4> QED BY <3>2, <4>2
    <3> QED BY <3>1, <3>2
  <2> DEFINE g == [i \in 1..n + 1 |-> IF i <= n THEN f[i] ELSE y]
  <2>1. g \in [1..n + 1 -> A]
    BY <2>p, <2>q DEF IsFlat
  <2>2. ASSUME NEW i \in 1..n + 1 PROVE g[i] = IF i = 1 THEN s[1] ELSE g[i - 1] \o s[i]
    <3>1. CASE i <= n
      <4>1. i \in 1..n /\ g[i] = f[i] BY <3>1
      <4>2. i # 1 => i - 1 \in 1..n + 1 /\ i - 1 <= n BY <3>1
      <4>3. i # 1 => g[i - 1] = f[i - 1] BY <4>2
      <4>4. f[i] = IF i = 1 THEN s[1] ELSE f[i - 1] \o s[i] BY <2>p, <4>1 DEF IsFlat
      <4> HIDE DEF g
      <4> QED BY <4>1, <4>3, <4>4
    <3>2. CASE i = n + 1
      <4>1. g[i] = y BY <3>2
      <4>2. CASE n = 0 BY <2>q, <3>2, <4>1, <4>2
      <4>3. CASE n # 0
        <5>1. i # 1 /\ i - 1 = n /\ i - 1 \in 1..n + 1 /\ i - 1 <= n BY <3>2, <4>3
        <5>2. g[i - 1] = f[n] BY <5>1
        <5> HIDE DEF g
        <5> QED BY <2>q, <3>2, <4>1, <4>3, <5>1, <5>2
      <4> QED BY <4>2, <4>3
    <3> QED BY <3>1, <3>2
  <2> HIDE DEF g
  <2>3. IsFlat(g, n + 1, s, B) BY <2>1, <2>2 DEF IsFlat
  <2> QED BY <2>3
<1>3. \A n \in Nat : n \in P
  <2> HIDE DEF P
  <2> QED BY <1>1, <1>2, SetInduction
<1> QED BY <1>0, <1>3

\* FlattenSeq is the last entry of it.
LEMMA FlattenIs ==
    ASSUME NEW B, NEW s \in Seq(Seq(B)), s # <<>>
    PROVE  \E f : IsFlat(f, Len(s), s, B) /\ FlattenSeq(s) = f[Len(s)]
<1> DEFINE n == Len(s)
           E(f) == f = [i \in 1..n |-> IF i = 1 THEN s[i] ELSE f[i - 1] \o s[i]]
<1>0. n \in Nat /\ n # 0
  BY EmptySeq
<1>p. PICK h : IsFlat(h, Len(s), s, B)
  BY FlatExists
<1>1. E(h)
  BY <1>p DEF IsFlat
<1> DEFINE f == CHOOSE f : E(f)
<1>2. E(f)
  BY <1>1
<1>3. FlattenSeq(s) = f[n]
  BY <1>0 DEF FlattenSeq
<1> HIDE DEF f
<1>4. \A i \in 1..n : f[i] = IF i = 1 THEN s[1] ELSE f[i - 1] \o s[i]
  BY <1>2
<1> DEFINE P == {i \in Nat : i \in 1..n => f[i] \in Seq(B)}
<1>5. 0 \in P
  BY <1>0
<1>6. ASSUME NEW i \in Nat, i \in P PROVE i + 1 \in P
  <2> SUFFICES ASSUME i + 1 \in 1..n PROVE f[i + 1] \in Seq(B)
    OBVIOUS
  <2>0. s[i + 1] \in Seq(B) OBVIOUS
  <2>1. CASE i = 0
    <3>1. f[i + 1] = s[i + 1] BY <1>4, <2>1
    <3> QED BY <2>0, <3>1
  <2>2. CASE i # 0
    <3>1. i \in 1..n /\ i + 1 # 1 /\ (i + 1) - 1 = i BY <1>0, <2>2
    <3>2. f[i] \in Seq(B) BY <1>6, <3>1
    <3>3. f[i + 1] = f[i] \o s[i + 1] BY <1>4, <3>1
    <3> QED BY <2>0, <3>2, <3>3
  <2> QED BY <2>1, <2>2
<1>7. \A i \in Nat : i \in P
  <2> HIDE DEF P
  <2> QED BY <1>5, <1>6, SetInduction
<1>8. f \in [1..n -> Seq(B)]
  <2>1. f = [i \in 1..n |-> IF i = 1 THEN s[i] ELSE f[i - 1] \o s[i]] BY <1>2
  <2>2. f = [i \in 1..n |-> f[i]] BY <2>1
  <2>3. \A i \in 1..n : f[i] \in Seq(B) BY <1>7
  <2> QED BY <2>2, <2>3
<1> QED BY <1>3, <1>4, <1>8 DEF IsFlat

\* Nothing joined, and one sequence more.
LEMMA FlattenEmpty == FlattenSeq(<<>>) = <<>>
BY EmptySeq DEF FlattenSeq

\* One sequence more is put after the others.
LEMMA FlattenAppend ==
    ASSUME NEW B, NEW s \in Seq(Seq(B)), NEW x \in Seq(B)
    PROVE  FlattenSeq(s) \in Seq(B) /\ FlattenSeq(Append(s, x)) = FlattenSeq(s) \o x
<1> DEFINE n == Len(s)
<1>0. n \in Nat
  OBVIOUS
<1>t. PICK t \in Seq(Seq(B)) : t = Append(s, x)
  <2> DEFINE A == Seq(B)
  <2>1. s \in Seq(A) /\ x \in A OBVIOUS
  <2> HIDE DEF A
  <2>2. Append(s, x) \in Seq(A) BY <2>1
  <2> QED BY <2>2 DEF A
<1>1. Len(t) = n + 1 /\ t[n + 1] = x /\ (\A i \in 1..n : t[i] = s[i]) /\ t # <<>>
  <2>1. Len(t) = n + 1 /\ t[n + 1] = x /\ (\A i \in 1..n : t[i] = s[i]) BY <1>t
  <2> QED BY <2>1, <1>0, EmptySeq
<1>g. PICK g : IsFlat(g, Len(t), t, B) /\ FlattenSeq(t) = g[Len(t)]
  BY <1>1, FlattenIs
<1>2. CASE n = 0
  <2>1. s = <<>> BY <1>2, EmptySeq
  <2>2. FlattenSeq(s) = <<>> BY <2>1, FlattenEmpty
  <2>3. FlattenSeq(t) = x BY <1>1, <1>2, <1>g DEF IsFlat
  <2>4. <<>> \o x = x /\ <<>> \in Seq(B) BY EmptySeq
  <2> QED BY <1>t, <2>2, <2>3, <2>4
<1>3. CASE n # 0
  <2>0. s # <<>> BY <1>3, EmptySeq
  <2>f. PICK f : IsFlat(f, Len(s), s, B) /\ FlattenSeq(s) = f[n]
    BY <2>0, FlattenIs
  <2> DEFINE P == {i \in Nat : i \in 1..n => f[i] = g[i]}
  <2>1. 0 \in P BY <1>0
  <2>2. ASSUME NEW i \in Nat, i \in P PROVE i + 1 \in P
    <3> SUFFICES ASSUME i + 1 \in 1..n PROVE f[i + 1] = g[i + 1]
      OBVIOUS
    <3>0. t[i + 1] = s[i + 1] /\ i + 1 \in 1..Len(t) /\ t[1] = s[1] BY <1>0, <1>1, <1>3
    <3>1. CASE i = 0
      <4>1. 1 \in 1..n /\ 1 \in 1..Len(t) BY <1>0, <1>1, <1>3
      <4>2. f[1] = s[1] BY <2>f, <4>1 DEF IsFlat
      <4>3. g[1] = t[1] BY <1>g, <4>1 DEF IsFlat
      <4>4. i + 1 = 1 BY <3>1
      <4> QED BY <3>0, <4>2, <4>3, <4>4, Zenon
    <3>2. CASE i # 0
      <4>1. i \in 1..n /\ i + 1 # 1 /\ (i + 1) - 1 = i BY <1>0, <3>2
      <4>2. f[i] = g[i] BY <2>2, <4>1
      <4>3. f[i + 1] = f[i] \o s[i + 1] BY <2>f, <4>1 DEF IsFlat
      <4>4. g[i + 1] = g[i] \o t[i + 1] BY <1>g, <3>0, <4>1 DEF IsFlat
      <4> QED BY <3>0, <4>2, <4>3, <4>4
    <3> QED BY <3>1, <3>2
  <2>3. \A i \in Nat : i \in P
    <3> HIDE DEF P
    <3> QED BY <2>1, <2>2, SetInduction
  <2>4. f[n] = g[n] BY <1>0, <1>3, <2>3
  <2>5. n + 1 \in 1..Len(t) /\ n + 1 # 1 /\ (n + 1) - 1 = n /\ n \in 1..n BY <1>0, <1>1, <1>3
  <2>6. g[n + 1] = g[n] \o x BY <1>g, <1>1, <2>5 DEF IsFlat
  <2>7. f[n] \in Seq(B) BY <2>f, <2>5 DEF IsFlat
  <2> QED BY <1>1, <1>t, <1>g, <2>f, <2>4, <2>6, <2>7
<1> QED BY <1>2, <1>3

-----------------------------------------------------------------------------
\* Children on Windows: the quoted argument.

\* The characters of an argument, and of a command line.
Char == STRING \cup {"slash", "quote", "own", "cwd", ""}

\* A directory or an extension that is none.
Unnamed == ""

\* The characters that the model names are among them.
LEMMA CharOf ==
    "slash" \in Char /\ "quote" \in Char /\ "own" \in Char /\ "cwd" \in Char /\ Unnamed \in Char /\ STRING \subseteq Char
BY DEF Char, Unnamed

\* A sequence of elements of S is one of any larger set.
LEMMA SeqOfMore == ASSUME NEW S, NEW T, S \subseteq T PROVE \A s \in Seq(S) : s \in Seq(T)
<1> SUFFICES ASSUME NEW s \in Seq(S) PROVE s \in Seq(T)
  OBVIOUS
<1>1. Len(s) \in Nat /\ DOMAIN s = 1..Len(s) /\ s = [i \in 1..Len(s) |-> s[i]] /\ \A i \in 1..Len(s) : s[i] \in T
  BY LenProperties, ElementOfSeq
<1>2. [i \in 1..Len(s) |-> s[i]] \in [1..Len(s) -> T]
  BY <1>1
<1>3. s \in UNION {[1..n -> T] : n \in Nat}
  BY <1>1, <1>2
<1> QED BY <1>3, SeqDef

\* A sequence with one or two elements more.
LEMMA OneMore ==
    ASSUME NEW B, NEW s \in Seq(B), NEW t \in Seq(B)
    PROVE  /\ s \o t \in Seq(B) /\ Len(s \o t) = Len(s) + Len(t)
           /\ \A i \in 1..Len(s) : (s \o t)[i] = s[i]
           /\ Len(t) >= 1 => (s \o t)[Len(s) + 1] = t[1]
           /\ Len(t) >= 2 => (s \o t)[Len(s) + 2] = t[2]
<1>1. Len(s) \in Nat /\ Len(t) \in Nat OBVIOUS
<1>2. s \o t \in Seq(B) /\ Len(s \o t) = Len(s) + Len(t) BY ConcatProperties
<1>3. \A i \in 1..Len(s) + Len(t) : (s \o t)[i] = IF i <= Len(s) THEN s[i] ELSE t[i - Len(s)] BY ConcatProperties
<1>4. \A i \in 1..Len(s) : (s \o t)[i] = s[i]
  <2>1. \A i \in 1..Len(s) : i \in 1..Len(s) + Len(t) /\ i <= Len(s) BY <1>1
  <2> QED BY <1>3, <2>1
<1>5. ASSUME NEW k \in 1..2, Len(t) >= k PROVE (s \o t)[Len(s) + k] = t[k]
  <2>1. Len(s) + k \in 1..Len(s) + Len(t) /\ ~(Len(s) + k <= Len(s)) /\ (Len(s) + k) - Len(s) = k BY <1>1, <1>5
  <2> QED BY <1>3, <2>1
<1>6. 1 \in 1..2 /\ 2 \in 1..2 OBVIOUS
<1> QED BY <1>2, <1>4, <1>5, <1>6

\* What escaping makes of an argument: at most twice as long, and behind a slash wherever there is a quote.
Escaped(arg) == FlattenSeq([i \in 1..Len(arg) |-> IF arg[i] \in {"quote", "slash"} THEN <<"slash", arg[i]>> ELSE <<arg[i]>>])

\* A line in which no quote of the argument ends it: each has a backslash of its own before it.
IsEscaped(line, n) ==
    /\ line \in Seq(Char) /\ Len(line) <= 2 * n
    /\ \A i \in 1..Len(line) : line[i] = "quote" => i > 1 /\ line[i - 1] = "slash"

\* One character more.
LEMMA EscapedOneMore ==
    ASSUME NEW line, NEW n \in Nat, IsEscaped(line, n), NEW c \in Char
    PROVE  IsEscaped(line \o (IF c \in {"quote", "slash"} THEN <<"slash", c>> ELSE <<c>>), n + 1)
<1>0. line \in Seq(Char) /\ Len(line) \in Nat /\ "slash" \in Char
  BY CharOf DEF IsEscaped
<1>1. CASE c \in {"quote", "slash"}
  <2> DEFINE x == <<"slash", c>>
             y == line \o x
  <2>1. x \in Seq(Char) /\ Len(x) = 2 /\ x[1] = "slash" /\ x[2] = c
    BY <1>0
  <2> HIDE DEF x
  <2>2. y \in Seq(Char) /\ Len(y) = Len(line) + 2 /\ (\A i \in 1..Len(line) : y[i] = line[i])
        /\ y[Len(line) + 1] = "slash" /\ y[Len(line) + 2] = c
    <3>1. /\ line \o x \in Seq(Char) /\ Len(line \o x) = Len(line) + Len(x)
          /\ \A i \in 1..Len(line) : (line \o x)[i] = line[i]
          /\ Len(x) >= 1 => (line \o x)[Len(line) + 1] = x[1]
          /\ Len(x) >= 2 => (line \o x)[Len(line) + 2] = x[2]
      BY <1>0, <2>1, OneMore, Zenon
    <3>2. Len(x) >= 1 /\ Len(x) >= 2 BY <2>1
    <3> QED BY <2>1, <3>1, <3>2
  <2> HIDE DEF y
  <2>3. ASSUME NEW i \in 1..Len(y), y[i] = "quote" PROVE i > 1 /\ y[i - 1] = "slash"
    <3>1. CASE i \in 1..Len(line)
      <4>1. i > 1 /\ line[i - 1] = "slash" BY <2>2, <2>3, <3>1 DEF IsEscaped
      <4>2. i - 1 \in 1..Len(line) BY <3>1, <4>1, <1>0
      <4> QED BY <2>2, <4>1, <4>2
    <3>2. CASE i = Len(line) + 1 BY <2>2, <2>3, <3>2
    <3>3. CASE i = Len(line) + 2
      <4>1. i > 1 /\ i - 1 = Len(line) + 1 BY <3>3, <1>0
      <4> QED BY <2>2, <4>1
    <3> QED BY <3>1, <3>2, <3>3, <2>2, <1>0
  <2>4. IsEscaped(y, n + 1) BY <1>0, <2>2, <2>3 DEF IsEscaped
  <2> QED BY <1>1, <2>4 DEF x, y
<1>2. CASE c \notin {"quote", "slash"}
  <2>p. PICK x : x = <<c>> OBVIOUS
  <2>1. x \in Seq(Char) /\ Len(x) = 1 /\ x[1] = c
    BY <1>0, <2>p
  <2> DEFINE y == line \o x
  <2>2. y \in Seq(Char) /\ Len(y) = Len(line) + 1 /\ (\A i \in 1..Len(line) : y[i] = line[i])
        /\ y[Len(line) + 1] = c
    <3>1. /\ line \o x \in Seq(Char) /\ Len(line \o x) = Len(line) + Len(x)
          /\ \A i \in 1..Len(line) : (line \o x)[i] = line[i]
          /\ Len(x) >= 1 => (line \o x)[Len(line) + 1] = x[1]
          /\ Len(x) >= 2 => (line \o x)[Len(line) + 2] = x[2]
      <4>1. line \in Seq(Char) /\ x \in Seq(Char) BY <1>0, <2>1
      <4> QED BY <4>1, OneMore
    <3>2. Len(x) >= 1 BY <2>1
    <3> QED BY <2>1, <3>1, <3>2
  <2> HIDE DEF y
  <2>3. ASSUME NEW i \in 1..Len(y), y[i] = "quote" PROVE i > 1 /\ y[i - 1] = "slash"
    <3>1. i \in 1..Len(line) BY <1>0, <1>2, <2>2, <2>3
    <3>2. i > 1 /\ line[i - 1] = "slash" BY <2>2, <2>3, <3>1 DEF IsEscaped
    <3>3. i - 1 \in 1..Len(line) BY <3>1, <3>2, <1>0
    <3> QED BY <2>2, <3>2, <3>3
  <2>4. IsEscaped(y, n + 1) BY <1>0, <2>2, <2>3 DEF IsEscaped
  <2> QED BY <1>2, <2>p, <2>4 DEF y
<1> QED BY <1>1, <1>2

\* An argument, however long.
LEMMA EscapedIs == \A arg \in Seq(Char) : IsEscaped(Escaped(arg), Len(arg))
<1> DEFINE Esc(c) == IF c \in {"quote", "slash"} THEN <<"slash", c>> ELSE <<c>>
           Parts(arg) == [i \in 1..Len(arg) |-> Esc(arg[i])]
           P == {arg \in Seq(Char) : IsEscaped(Escaped(arg), Len(arg))}
<1>0. \A c \in Char : Esc(c) \in Seq(Char)
  <2> SUFFICES ASSUME NEW c \in Char PROVE Esc(c) \in Seq(Char)
    OBVIOUS
  <2>p. PICK d : d = "slash" OBVIOUS
  <2>1. d \in Char BY <2>p, CharOf
  <2>2. <<c>> \in Seq(Char) /\ <<d, c>> \in Seq(Char) BY <2>1
  <2> QED BY <2>p, <2>2
<1>p. \A arg \in Seq(Char) : Parts(arg) \in Seq(Seq(Char)) /\ Len(Parts(arg)) = Len(arg)
  <2> SUFFICES ASSUME NEW arg \in Seq(Char) PROVE Parts(arg) \in Seq(Seq(Char)) /\ Len(Parts(arg)) = Len(arg)
    OBVIOUS
  <2>1. \A i \in 1..Len(arg) : Esc(arg[i]) \in Seq(Char)
    <3>1. \A i \in 1..Len(arg) : arg[i] \in Char OBVIOUS
    <3> HIDE DEF Esc
    <3> QED BY <1>0, <3>1
  <2>2. Len(arg) \in Nat OBVIOUS
  <2> HIDE DEF Esc
  <2> QED BY <2>1, <2>2
<1>1. <<>> \in P
  <2>1. Parts(<<>>) = <<>> BY EmptySeq
  <2>2. Escaped(<<>>) = <<>>
    <3>1. Escaped(<<>>) = FlattenSeq(Parts(<<>>)) BY DEF Escaped
    <3> HIDE DEF Parts
    <3> QED BY <2>1, <3>1, FlattenEmpty
  <2>3. IsEscaped(<<>>, 0) BY EmptySeq DEF IsEscaped
  <2> QED BY <2>2, <2>3, EmptySeq
<1>2. ASSUME NEW arg \in Seq(Char), arg \in P, NEW c \in Char PROVE Append(arg, c) \in P
  <2>q. PICK q \in Seq(Char) : q = Append(arg, c)
    <3> DEFINE B == Char
    <3>1. arg \in Seq(B) /\ c \in B OBVIOUS
    <3> HIDE DEF B
    <3>2. Append(arg, c) \in Seq(B) BY <3>1
    <3> QED BY <3>2 DEF B
  <2>0. Len(q) = Len(arg) + 1 /\ Len(arg) \in Nat /\ q[Len(arg) + 1] = c /\ \A i \in 1..Len(arg) : q[i] = arg[i]
    BY <2>q
  <2>1. Parts(q) = Append(Parts(arg), Esc(c))
    <3>1. /\ Parts(q) \in Seq(Seq(Char)) /\ Len(Parts(q)) = Len(arg) + 1
          /\ \A i \in 1..Len(arg) + 1 : Parts(q)[i] = Esc(q[i])
      <4>1. \A i \in 1..Len(q) : Parts(q)[i] = Esc(q[i]) OBVIOUS
      <4> HIDE DEF Parts, Esc
      <4> QED BY <1>p, <2>0, <4>1
    <3>2. /\ Parts(arg) \in Seq(Seq(Char)) /\ Len(Parts(arg)) = Len(arg)
          /\ \A i \in 1..Len(arg) : Parts(arg)[i] = Esc(arg[i])
      <4>1. \A i \in 1..Len(arg) : Parts(arg)[i] = Esc(arg[i]) OBVIOUS
      <4> HIDE DEF Parts, Esc
      <4> QED BY <1>p, <4>1
    <3>3. Esc(c) \in Seq(Char) BY <1>0
    <3> HIDE DEF Parts, Esc
    <3> DEFINE A == Seq(Char)
               u == Parts(q)
               v == Parts(arg)
               x == Esc(c)
    <3>4. u \in Seq(A) /\ v \in Seq(A) /\ x \in A /\ Len(u) = Len(v) + 1 /\ (\A i \in 1..Len(v) : u[i] = v[i]) /\ u[Len(v) + 1] = x
      <4>1. \A i \in 1..Len(arg) : i \in 1..Len(arg) + 1 /\ arg[i] = q[i] BY <2>0
      <4>2. Len(arg) + 1 \in 1..Len(arg) + 1 BY <2>0
      <4> QED BY <2>0, <3>1, <3>2, <3>3, <4>1, <4>2
    <3> HIDE DEF A, u, v, x
    <3>5. u = Append(v, x) BY <3>4
    <3> QED BY <3>5 DEF u, v, x
  <2>2. Escaped(q) = Escaped(arg) \o Esc(c)
    <3>1. Escaped(q) = FlattenSeq(Parts(q)) /\ Escaped(arg) = FlattenSeq(Parts(arg)) BY DEF Escaped
    <3>2. Parts(arg) \in Seq(Seq(Char)) /\ Esc(c) \in Seq(Char)
      <4> HIDE DEF Parts, Esc
      <4> QED BY <1>0, <1>p
    <3> HIDE DEF Parts, Esc
    <3> DEFINE B == Char
               v == Parts(arg)
               x == Esc(c)
    <3>3. v \in Seq(Seq(B)) /\ x \in Seq(B) BY <3>2
    <3> HIDE DEF B, v, x
    <3>4. FlattenSeq(Append(v, x)) = FlattenSeq(v) \o x BY <3>3, FlattenAppend
    <3> QED BY <2>1, <3>1, <3>4 DEF v, x
  <2>3. IsEscaped(Escaped(arg) \o Esc(c), Len(arg) + 1)
    <3>1. PICK line : line = Escaped(arg) OBVIOUS
    <3>2. IsEscaped(line, Len(arg)) /\ Len(arg) \in Nat BY <1>2, <3>1
    <3>3. IsEscaped(line \o Esc(c), Len(arg) + 1) BY <3>2, EscapedOneMore
    <3> QED BY <3>1, <3>3
  <2> QED BY <2>0, <2>q, <2>2, <2>3
<1>3. \A arg \in Seq(Char) : arg \in P
  <2> HIDE DEF P
  <2> QED BY <1>1, <1>2, SeqInduction
<1> QED BY <1>3

\* The line of an argument: inside the room for it, and no quote that ends it early.
LineFits(line, arg) ==
    /\ Len(line) + 1 <= MaxBuf(arg)
    /\ NeedsQuotes(arg) => \A i \in 2..(Len(line) - 1) : line[i] = "quote" => line[i - 1] = "slash"

\* quote_cmd_arg, whatever the argument: what Windows reads back is the argument.
LEMMA QuotedFits == \A arg \in Seq(Char) : LineFits(QuoteCmdArg(arg), arg)
<1> SUFFICES ASSUME NEW arg \in Seq(Char) PROVE LineFits(QuoteCmdArg(arg), arg)
  OBVIOUS
<1>0. Len(arg) \in Nat OBVIOUS
<1>1. CASE ~NeedsQuotes(arg)
  <2>1. QuoteCmdArg(arg) = arg BY <1>1 DEF QuoteCmdArg
  <2> QED BY <1>0, <1>1, <2>1 DEF LineFits, MaxBuf
<1>2. CASE NeedsQuotes(arg)
  <2>p. PICK e : e = Escaped(arg) /\ IsEscaped(e, Len(arg)) BY EscapedIs
  <2>0. e \in Seq(Char) /\ Len(e) \in Nat /\ Len(e) <= 2 * Len(arg) BY <2>p DEF IsEscaped
  <2>1. QuoteCmdArg(arg) = (<<"quote">> \o e) \o <<"quote">> BY <1>2, <2>p DEF QuoteCmdArg, Escaped
  <2>q. PICK line : line = (<<"quote">> \o e) \o <<"quote">> OBVIOUS
  <2>2. Len(line) = Len(e) + 2 /\ line[1] = "quote" /\ \A i \in 1..Len(e) : line[i + 1] = e[i]
    <3>1. <<"quote">> \in Seq(Char) /\ Len(<<"quote">>) = 1
      <4>p. PICK d : d = "quote" OBVIOUS
      <4>1. d \in Char BY <4>p, CharOf
      <4>2. <<d>> \in Seq(Char) /\ Len(<<d>>) = 1 BY <4>1
      <4> QED BY <4>p, <4>2
    <3>2. <<"quote">> \o e \in Seq(Char) /\ Len(<<"quote">> \o e) = 1 + Len(e) /\ (<<"quote">> \o e)[1] = "quote"
          /\ \A i \in 1..Len(e) : (<<"quote">> \o e)[i + 1] = e[i]
      BY <2>0, <3>1
    <3> PICK f : f = <<"quote">> \o e OBVIOUS
    <3>3. f \in Seq(Char) /\ Len(f) = 1 + Len(e) /\ f[1] = "quote" /\ \A i \in 1..Len(e) : f[i + 1] = e[i]
      BY <3>2
    <3>4. line = f \o <<"quote">> BY <2>q
    <3>5. Len(line) = Len(f) + 1 /\ \A i \in 1..Len(f) : line[i] = f[i] BY <3>1, <3>3, <3>4
    <3>6. \A i \in 1..Len(e) : i + 1 \in 1..Len(f) BY <2>0, <3>3
    <3>7. 1 \in 1..Len(f) BY <2>0, <3>3
    <3>8. Len(line) = Len(e) + 2 BY <2>0, <3>3, <3>5
    <3>9. line[1] = "quote" BY <3>3, <3>5, <3>7
    <3>10. \A i \in 1..Len(e) : line[i + 1] = e[i] BY <3>3, <3>5, <3>6
    <3> QED BY <3>8, <3>9, <3>10
  <2>3. ASSUME NEW i \in 2..(Len(line) - 1), line[i] = "quote" PROVE line[i - 1] = "slash"
    <3>1. i - 1 \in 1..Len(e) /\ (i - 1) + 1 = i BY <2>0, <2>2
    <3>2. e[i - 1] = "quote" BY <2>2, <2>3, <3>1
    <3>3. i - 1 > 1 /\ e[(i - 1) - 1] = "slash" BY <2>p, <3>1, <3>2 DEF IsEscaped
    <3>4. (i - 1) - 1 \in 1..Len(e) /\ ((i - 1) - 1) + 1 = i - 1 BY <2>0, <3>1, <3>3
    <3> QED BY <2>2, <3>3, <3>4
  <2>4. Len(line) + 1 <= MaxBuf(arg) BY <1>0, <2>0, <2>2 DEF MaxBuf
  <2> QED BY <2>1, <2>q, <2>3, <2>4 DEF LineFits
<1> QED BY <1>1, <1>2

-----------------------------------------------------------------------------
\* Children on Windows: the places that the search tries.

\* The places of a command, and its files there; their order is strict.
PlacesTo(cmd, n) == {p \in Places(cmd) : p[1] <= n}

\* A command of the application: whether it has a directory and an extension, and what PATH and PATHEXT give.
IsCommand(cmd) ==
    /\ cmd.dir \in BOOLEAN /\ cmd.ext \in BOOLEAN
    /\ cmd.path \in Seq(STRING) /\ cmd.exts \in Seq(STRING)

\* pl says at which place each of the files is: at later ones in order, and at all of them up to the n-th directory.
IsCover(pl, files, cmd, n) ==
    /\ \A j \in 1..Len(files) : pl[j] \in PlacesTo(cmd, n) /\ files[j] = FileAt(cmd, pl[j])
    /\ \A i, j \in 1..Len(files) : i < j => IsBefore(pl[i], pl[j])
    /\ \A q \in PlacesTo(cmd, n) : \E j \in 1..Len(files) : pl[j] = q

\* WalkExt, file by file: without an extension the name as it is is left out.
Skipped(cmd) == IF cmd.ext THEN 1 ELSE 0

\* The places tried in one directory: the name as it is, if it has an extension, and then every extension in turn.
IsWalk(s, cmd, dir) ==
    /\ s \in Seq(Char \X Char) /\ Len(s) = Len(cmd.exts) + Skipped(cmd)
    /\ \A j \in 1..Len(s) :
         /\ j - Skipped(cmd) \in 0..Len(cmd.exts)
         /\ j - Skipped(cmd) = 0 => cmd.ext
         /\ s[j] = <<dir, IF j - Skipped(cmd) # 0 THEN cmd.exts[j - Skipped(cmd)] ELSE Unnamed>>

\* search_path_walk_ext tries those.
LEMMA WalkExtIs ==
    ASSUME NEW cmd, IsCommand(cmd), NEW dir \in Char
    PROVE  IsWalk(WalkExt(cmd, dir), cmd, dir)
<1> DEFINE n == Len(cmd.exts)
           B == Char \X Char
<1>0. n \in Nat /\ \A i \in 1..n : cmd.exts[i] \in Char
  <2>1. cmd.exts \in Seq(Char) BY CharOf, SeqOfMore DEF IsCommand
  <2> QED BY <2>1
<1>p. PICK t : t = [i \in 1..n |-> <<dir, cmd.exts[i]>>]
  OBVIOUS
<1>1. t \in Seq(B) /\ Len(t) = n /\ \A i \in 1..n : t[i] = <<dir, cmd.exts[i]>>
  <2>1. \A i \in 1..n : <<dir, cmd.exts[i]>> \in B BY <1>0
  <2> HIDE DEF B
  <2> QED BY <1>0, <1>p, <2>1
<1>q. PICK h : h = IF cmd.ext THEN <<<<dir, Unnamed>>>> ELSE <<>>
  OBVIOUS
<1>2. h \in Seq(B) /\ Len(h) = Skipped(cmd) /\ (cmd.ext => h[1] = <<dir, Unnamed>>)
  <2>1. CASE cmd.ext
    <3>p. PICK x \in B : x = <<dir, Unnamed>> BY CharOf
    <3>1. h = <<x>> BY <1>q, <2>1, <3>p
    <3> HIDE DEF B
    <3>2. h \in Seq(B) /\ Len(h) = 1 /\ h[1] = x BY <3>1
    <3> QED BY <2>1, <3>2, <3>p DEF Skipped
  <2>2. CASE ~cmd.ext
    <3>1. h = <<>> BY <1>q, <2>2
    <3> QED BY <2>2, <3>1, EmptySeq DEF Skipped
  <2> QED BY <2>1, <2>2
<1>u. Unnamed \in Char BY CharOf
<1>3. WalkExt(cmd, dir) = h \o t
  BY <1>p, <1>q DEF WalkExt, Unnamed
<1> HIDE DEF B
<1>4. /\ h \o t \in Seq(B) /\ Len(h \o t) = Skipped(cmd) + n
      /\ \A j \in 1..Skipped(cmd) + n : (h \o t)[j] = IF j <= Skipped(cmd) THEN h[j] ELSE t[j - Skipped(cmd)]
  <2>1. /\ h \o t \in Seq(B) /\ Len(h \o t) = Len(h) + Len(t)
        /\ \A j \in 1..Len(h) + Len(t) : (h \o t)[j] = IF j <= Len(h) THEN h[j] ELSE t[j - Len(h)]
    <3>1. h \in Seq(B) /\ t \in Seq(B) BY <1>1, <1>2
    <3> QED BY <3>1, ConcatProperties
  <2> QED BY <1>1, <1>2, <2>1
<1>5. Skipped(cmd) \in 0..1 /\ (Skipped(cmd) = 1 <=> cmd.ext)
  BY DEF Skipped
<1>6. ASSUME NEW j \in 1..Skipped(cmd) + n
      PROVE  /\ j - Skipped(cmd) \in 0..n /\ (j - Skipped(cmd) = 0 => cmd.ext)
             /\ (h \o t)[j] = <<dir, IF j - Skipped(cmd) # 0 THEN cmd.exts[j - Skipped(cmd)] ELSE Unnamed>>
  <2>p. PICK i : i = j - Skipped(cmd) OBVIOUS
  <2>1. CASE j <= Skipped(cmd)
    <3>1. i = 0 /\ j = 1 /\ cmd.ext BY <1>5, <2>1, <2>p
    <3>2. (h \o t)[j] = <<dir, Unnamed>> BY <1>2, <1>4, <2>1, <3>1
    <3>3. 0 \in 0..n BY <1>0
    <3> QED BY <2>p, <3>1, <3>2, <3>3
  <2>2. CASE ~(j <= Skipped(cmd))
    <3>1. i \in 1..n /\ i # 0 /\ i \in 0..n BY <1>0, <1>5, <2>2, <2>p
    <3>2. (h \o t)[j] = <<dir, cmd.exts[i]>> BY <1>1, <1>4, <2>2, <2>p, <3>1
    <3> QED BY <2>p, <3>1, <3>2
  <2> QED BY <2>1, <2>2
<1>7. Len(h \o t) = n + Skipped(cmd) BY <1>0, <1>4, <1>5
<1>p2. PICK s : s = h \o t OBVIOUS
<1>8. s \in Seq(B) /\ Len(s) = n + Skipped(cmd) /\ 1..Len(s) = 1..Skipped(cmd) + n BY <1>0, <1>4, <1>5, <1>7, <1>p2
<1>9. \A j \in 1..Len(s) : /\ j - Skipped(cmd) \in 0..n /\ (j - Skipped(cmd) = 0 => cmd.ext)
             /\ s[j] = <<dir, IF j - Skipped(cmd) # 0 THEN cmd.exts[j - Skipped(cmd)] ELSE Unnamed>>
  BY <1>6, <1>8, <1>p2
<1>10. IsWalk(s, cmd, dir)
  BY <1>8, <1>9, Zenon DEF IsWalk, B
<1> QED BY <1>3, <1>p2, <1>10

-----------------------------------------------------------------------------
\* Children on Windows: the places in their order.

\* The directory of a command that is not on the path.
Here(cmd) == IF cmd.dir THEN "own" ELSE "cwd"

\* The directory of a place.
DirAt(cmd, d) == IF d # 0 THEN cmd.path[d] ELSE Here(cmd)

\* The parts of a place.
IsPlace(cmd, d, e) ==
    /\ d \in 0..Len(cmd.path) /\ e \in 0..Len(cmd.exts)
    /\ cmd.dir => d = 0
    /\ d # 0 => cmd.path[d] # Unnamed
    /\ e = 0 => cmd.ext

\* A place is a directory and an extension.
LEMMA PlaceTried ==
    ASSUME NEW cmd, NEW d, NEW e, IsPlace(cmd, d, e)
    PROVE  /\ <<d, e>> \in Places(cmd) /\ <<d, e>>[1] = d
           /\ FileAt(cmd, <<d, e>>) = <<DirAt(cmd, d), IF e # 0 THEN cmd.exts[e] ELSE Unnamed>>
<1>p. PICK p : p = <<d, e>> OBVIOUS
<1>1. p[1] = d /\ p[2] = e BY <1>p
<1>2. p \in (0..Len(cmd.path)) \X (0..Len(cmd.exts)) BY <1>p DEF IsPlace
<1>3. p \in Places(cmd) BY <1>1, <1>2 DEF IsPlace, Places, Unnamed
<1>4. FileAt(cmd, p) = <<DirAt(cmd, d), IF e # 0 THEN cmd.exts[e] ELSE Unnamed>>
  BY <1>1 DEF FileAt, DirAt, Here, Unnamed
<1> QED BY <1>p, <1>1, <1>3, <1>4

\* A place that the search may take, taken apart.
LEMMA PlaceIs ==
    ASSUME NEW cmd, NEW p \in Places(cmd)
    PROVE  p = <<p[1], p[2]>> /\ IsPlace(cmd, p[1], p[2])
<1>1. p \in (0..Len(cmd.path)) \X (0..Len(cmd.exts)) BY DEF Places
<1>2. p = <<p[1], p[2]>> /\ p[1] \in 0..Len(cmd.path) /\ p[2] \in 0..Len(cmd.exts)
  <2> DEFINE X == 0..Len(cmd.path)
             Y == 0..Len(cmd.exts)
  <2>1. p \in X \X Y BY <1>1
  <2> HIDE DEF X, Y
  <2>2. p = <<p[1], p[2]>> /\ p[1] \in X /\ p[2] \in Y BY <2>1
  <2> QED BY <2>2 DEF X, Y
<1>3. (cmd.dir => p[1] = 0) /\ (p[1] # 0 => cmd.path[p[1]] # Unnamed) /\ (p[2] = 0 => cmd.ext)
  BY DEF Places, Unnamed
<1> QED BY <1>2, <1>3 DEF IsPlace

\* One directory: the files of WalkExt are those at its places.
LEMMA WalkPlaces ==
    ASSUME NEW cmd, IsCommand(cmd), NEW d \in 0..Len(cmd.path), cmd.dir => d = 0, d # 0 => cmd.path[d] # Unnamed,
           NEW s, IsWalk(s, cmd, DirAt(cmd, d))
    PROVE  /\ \A j \in 1..Len(s) : /\ <<d, j - Skipped(cmd)>> \in Places(cmd) /\ <<d, j - Skipped(cmd)>>[1] = d
                                   /\ s[j] = FileAt(cmd, <<d, j - Skipped(cmd)>>)
           /\ \A q \in Places(cmd) : q[1] = d => \E j \in 1..Len(s) : q = <<d, j - Skipped(cmd)>>
<1>1. ASSUME NEW j \in 1..Len(s)
      PROVE  /\ <<d, j - Skipped(cmd)>> \in Places(cmd) /\ <<d, j - Skipped(cmd)>>[1] = d
             /\ s[j] = FileAt(cmd, <<d, j - Skipped(cmd)>>)
  <2>p. PICK e : e = j - Skipped(cmd) OBVIOUS
  <2>1. e \in 0..Len(cmd.exts) /\ (e = 0 => cmd.ext) /\ s[j] = <<DirAt(cmd, d), IF e # 0 THEN cmd.exts[e] ELSE Unnamed>>
    BY <1>1, <2>p, Zenon DEF IsWalk
  <2>2. IsPlace(cmd, d, e) BY <2>1 DEF IsPlace
  <2> QED BY <2>p, <2>1, <2>2, PlaceTried
<1>2. ASSUME NEW q \in Places(cmd), q[1] = d PROVE \E j \in 1..Len(s) : q = <<d, j - Skipped(cmd)>>
  <2>p. PICK e : e = q[2] OBVIOUS
  <2>1. q = <<d, e>> /\ IsPlace(cmd, d, e) BY <1>2, <2>p, PlaceIs
  <2>2. Len(cmd.exts) \in Nat BY DEF IsCommand
  <2>3. e \in 0..Len(cmd.exts) /\ (e = 0 => cmd.ext) /\ Skipped(cmd) \in 0..1 /\ (cmd.ext => Skipped(cmd) = 1)
    BY <2>1 DEF IsPlace, Skipped
  <2>4. Len(s) = Len(cmd.exts) + Skipped(cmd) BY DEF IsWalk
  <2>5. e + Skipped(cmd) \in 1..Len(s) /\ (e + Skipped(cmd)) - Skipped(cmd) = e BY <2>2, <2>3, <2>4
  <2> QED BY <2>1, <2>5
<1> QED BY <1>1, <1>2

\* The first directory.
LEMMA CoverStart ==
    ASSUME NEW cmd, IsCommand(cmd), NEW s, IsWalk(s, cmd, Here(cmd))
    PROVE  \E pl : IsCover(pl, s, cmd, 0)
<1>0. Len(cmd.path) \in Nat /\ 0 \in 0..Len(cmd.path) /\ DirAt(cmd, 0) = Here(cmd)
  BY DEF IsCommand, DirAt
<1>1. /\ \A j \in 1..Len(s) : /\ <<0, j - Skipped(cmd)>> \in Places(cmd) /\ <<0, j - Skipped(cmd)>>[1] = 0
                              /\ s[j] = FileAt(cmd, <<0, j - Skipped(cmd)>>)
      /\ \A q \in Places(cmd) : q[1] = 0 => \E j \in 1..Len(s) : q = <<0, j - Skipped(cmd)>>
  <2>1. IsWalk(s, cmd, DirAt(cmd, 0)) BY <1>0
  <2>p. PICK d : d = 0 OBVIOUS
  <2>2. d \in 0..Len(cmd.path) /\ (cmd.dir => d = 0) /\ (d # 0 => cmd.path[d] # Unnamed) /\ IsWalk(s, cmd, DirAt(cmd, d))
    BY <1>0, <2>1, <2>p
  <2>3. /\ \A j \in 1..Len(s) : /\ <<d, j - Skipped(cmd)>> \in Places(cmd) /\ <<d, j - Skipped(cmd)>>[1] = d
                              /\ s[j] = FileAt(cmd, <<d, j - Skipped(cmd)>>)
        /\ \A q \in Places(cmd) : q[1] = d => \E j \in 1..Len(s) : q = <<d, j - Skipped(cmd)>>
    BY <2>2, WalkPlaces
  <2> QED BY <2>3, <2>p
<1>2. Len(s) \in Nat /\ Skipped(cmd) \in Int
  <2>1. s \in Seq(Char \X Char) BY DEF IsWalk
  <2>2. Len(s) \in Nat BY <2>1, LenProperties
  <2> QED BY <2>2 DEF Skipped
<1>p. PICK pl : pl = [j \in 1..Len(s) |-> <<0, j - Skipped(cmd)>>] OBVIOUS
<1>3. \A j \in 1..Len(s) : pl[j] = <<0, j - Skipped(cmd)>> BY <1>p
<1>4. \A j \in 1..Len(s) : pl[j] \in PlacesTo(cmd, 0) /\ s[j] = FileAt(cmd, pl[j])
  <2> SUFFICES ASSUME NEW j \in 1..Len(s) PROVE pl[j] \in PlacesTo(cmd, 0) /\ s[j] = FileAt(cmd, pl[j])
    OBVIOUS
  <2>p. PICK p : p = pl[j] OBVIOUS
  <2>1. p = <<0, j - Skipped(cmd)>> BY <1>3, <2>p
  <2>2. p \in Places(cmd) /\ p[1] = 0 /\ s[j] = FileAt(cmd, p) BY <1>1, <2>1
  <2>3. p[1] <= 0 BY <2>2
  <2> QED BY <2>p, <2>2, <2>3 DEF PlacesTo
<1>5. ASSUME NEW i \in 1..Len(s), NEW j \in 1..Len(s), i < j PROVE IsBefore(pl[i], pl[j])
  <2>1. i - Skipped(cmd) \in Int /\ j - Skipped(cmd) \in Int /\ i - Skipped(cmd) < j - Skipped(cmd) BY <1>2, <1>5
  <2>2. IsBefore(<<0, i - Skipped(cmd)>>, <<0, j - Skipped(cmd)>>) BY <2>1 DEF IsBefore
  <2> QED BY <1>3, <2>2
<1>6. \A q \in PlacesTo(cmd, 0) : \E j \in 1..Len(s) : pl[j] = q
  <2>1. \A q \in PlacesTo(cmd, 0) : q \in Places(cmd) /\ q[1] = 0
    <3> SUFFICES ASSUME NEW q \in PlacesTo(cmd, 0) PROVE q \in Places(cmd) /\ q[1] = 0
      OBVIOUS
    <3>1. q \in Places(cmd) /\ q[1] <= 0 BY DEF PlacesTo
    <3>2. q[1] \in 0..Len(cmd.path) BY <3>1, PlaceIs DEF IsPlace
    <3> QED BY <1>0, <3>1, <3>2
  <2> QED BY <1>1, <1>3, <2>1
<1> QED BY <1>4, <1>5, <1>6 DEF IsCover

-----------------------------------------------------------------------------
\* Children on Windows: the file that the search finds.

\* A directory more, which is named.
LEMMA CoverNamed ==
    ASSUME NEW cmd, IsCommand(cmd), ~cmd.dir, NEW n \in Nat, n + 1 <= Len(cmd.path), cmd.path[n + 1] # Unnamed,
           NEW s \in Seq(Char \X Char), NEW pl, IsCover(pl, s, cmd, n), NEW x, IsWalk(x, cmd, cmd.path[n + 1])
    PROVE  \E pm : IsCover(pm, s \o x, cmd, n + 1)
<1> DEFINE d == n + 1
           k == Skipped(cmd)
           B == Char \X Char
<1>0. d \in Nat /\ d \in 0..Len(cmd.path) /\ d # 0 /\ k \in Int /\ Len(cmd.path) \in Nat /\ cmd.path[d] # Unnamed
      /\ DirAt(cmd, d) = cmd.path[d] /\ ~(d <= n)
  BY DEF Skipped, IsCommand, DirAt
<1>1. /\ \A j \in 1..Len(x) : /\ <<d, j - k>> \in Places(cmd) /\ <<d, j - k>>[1] = d
                              /\ x[j] = FileAt(cmd, <<d, j - k>>)
      /\ \A q \in Places(cmd) : q[1] = d => \E j \in 1..Len(x) : q = <<d, j - k>>
  <2>1. IsWalk(x, cmd, DirAt(cmd, d)) BY <1>0
  <2> HIDE DEF d
  <2> QED BY <1>0, <2>1, WalkPlaces
<1>2. x \in Seq(B) /\ Len(s) \in Nat /\ Len(x) \in Nat
  <2>1. x \in Seq(B) BY DEF IsWalk
  <2> HIDE DEF B
  <2>2. Len(x) \in Nat BY <2>1, LenProperties
  <2>3. Len(s) \in Nat BY LenProperties
  <2> QED BY <2>1, <2>2, <2>3
<1>t. PICK t : t = s \o x OBVIOUS
<1>3. /\ t \in Seq(B) /\ Len(t) = Len(s) + Len(x)
      /\ \A j \in 1..Len(s) + Len(x) : t[j] = IF j <= Len(s) THEN s[j] ELSE x[j - Len(s)]
  <2> HIDE DEF B
  <2>1. s \in Seq(B) BY DEF B
  <2> QED BY <1>2, <1>t, <2>1, ConcatProperties
<1> HIDE DEF B, d, k
<1>p. PICK pm : pm = [j \in 1..Len(t) |-> IF j <= Len(s) THEN pl[j] ELSE <<d, (j - Len(s)) - k>>] OBVIOUS
<1>4. \A j \in 1..Len(t) : (j <= Len(s) => j \in 1..Len(s) /\ pm[j] = pl[j] /\ t[j] = s[j])
  BY <1>2, <1>3, <1>p
<1>5. \A j \in 1..Len(t) : (~(j <= Len(s)) => j - Len(s) \in 1..Len(x) /\ pm[j] = <<d, (j - Len(s)) - k>> /\ t[j] = x[j - Len(s)])
  BY <1>2, <1>3, <1>p
<1>a. \A p : p \in PlacesTo(cmd, n) => p \in PlacesTo(cmd, d) /\ p[1] \in Nat /\ p[2] \in Nat /\ p[1] < d
  <2> SUFFICES ASSUME NEW p, p \in PlacesTo(cmd, n)
               PROVE  p \in PlacesTo(cmd, d) /\ p[1] \in Nat /\ p[2] \in Nat /\ p[1] < d
    OBVIOUS
  <2>1. p \in Places(cmd) /\ p[1] <= n BY DEF PlacesTo
  <2>2. p[1] \in 0..Len(cmd.path) /\ p[2] \in 0..Len(cmd.exts) BY <2>1, PlaceIs DEF IsPlace
  <2>3. p[1] \in Nat /\ p[2] \in Nat BY <2>2
  <2>4. p[1] < d /\ p[1] <= d BY <2>1, <2>3 DEF d
  <2> QED BY <2>1, <2>3, <2>4 DEF PlacesTo
<1>6. ASSUME NEW j \in 1..Len(t) PROVE pm[j] \in PlacesTo(cmd, d) /\ t[j] = FileAt(cmd, pm[j])
  <2>1. CASE j <= Len(s)
    <3>1. j \in 1..Len(s) /\ pm[j] = pl[j] /\ t[j] = s[j] BY <1>4, <2>1
    <3>2. pl[j] \in PlacesTo(cmd, n) /\ s[j] = FileAt(cmd, pl[j]) BY <3>1 DEF IsCover
    <3> QED BY <1>a, <3>1, <3>2
  <2>2. CASE ~(j <= Len(s))
    <3>p. PICK i : i = j - Len(s) OBVIOUS
    <3>1. i \in 1..Len(x) /\ pm[j] = <<d, i - k>> /\ t[j] = x[i] BY <1>5, <2>2, <3>p
    <3>q. PICK p : p = <<d, i - k>> OBVIOUS
    <3>2. p \in Places(cmd) /\ p[1] = d /\ x[i] = FileAt(cmd, p) BY <1>1, <3>1, <3>q
    <3>3. p[1] <= d BY <1>0, <3>2
    <3> QED BY <3>1, <3>q, <3>2, <3>3 DEF PlacesTo
  <2> QED BY <2>1, <2>2
<1>7. ASSUME NEW i \in 1..Len(t), NEW j \in 1..Len(t), i < j PROVE IsBefore(pm[i], pm[j])
  <2>1. CASE j <= Len(s)
    <3>1. i <= Len(s) BY <1>2, <1>7, <2>1
    <3>2. i \in 1..Len(s) /\ pm[i] = pl[i] /\ j \in 1..Len(s) /\ pm[j] = pl[j] BY <1>4, <2>1, <3>1
    <3> QED BY <1>7, <3>2 DEF IsCover
  <2>2. CASE ~(j <= Len(s)) /\ i <= Len(s)
    <3>1. i \in 1..Len(s) /\ pm[i] = pl[i] /\ pm[j] = <<d, (j - Len(s)) - k>> BY <1>4, <1>5, <2>2
    <3>2. pl[i] \in PlacesTo(cmd, n) BY <3>1 DEF IsCover
    <3>3. pl[i][1] < d BY <1>a, <3>2
    <3>p. PICK p : p = pm[i] OBVIOUS
    <3>q. PICK q : q = pm[j] OBVIOUS
    <3>4. q[1] = d /\ p[1] < d BY <3>1, <3>3, <3>p, <3>q
    <3>5. IsBefore(p, q) BY <3>4 DEF IsBefore
    <3> QED BY <3>p, <3>q, <3>5
  <2>3. CASE ~(j <= Len(s)) /\ ~(i <= Len(s))
    <3>p. PICK p : p = pm[i] OBVIOUS
    <3>q. PICK q : q = pm[j] OBVIOUS
    <3>1. p = <<d, (i - Len(s)) - k>> /\ q = <<d, (j - Len(s)) - k>> BY <1>5, <2>3, <3>p, <3>q
    <3>2. p[1] = d /\ q[1] = d /\ p[2] = (i - Len(s)) - k /\ q[2] = (j - Len(s)) - k BY <3>1
    <3>3. (i - Len(s)) - k < (j - Len(s)) - k BY <1>0, <1>2, <1>7
    <3>4. IsBefore(p, q) BY <3>2, <3>3 DEF IsBefore
    <3> QED BY <3>p, <3>q, <3>4
  <2> QED BY <2>1, <2>2, <2>3
<1>8. ASSUME NEW q \in PlacesTo(cmd, d) PROVE \E j \in 1..Len(t) : pm[j] = q
  <2>1. q \in Places(cmd) /\ q[1] <= d BY DEF PlacesTo
  <2>2. q[1] \in 0..Len(cmd.path) BY <2>1, PlaceIs DEF IsPlace
  <2>3. q[1] = d \/ q[1] <= n BY <2>1, <2>2 DEF d
  <2>4. CASE q[1] <= n
    <3>1. q \in PlacesTo(cmd, n) BY <2>1, <2>4 DEF PlacesTo
    <3>p. PICK j \in 1..Len(s) : pl[j] = q BY <3>1 DEF IsCover
    <3>2. j \in 1..Len(t) /\ j <= Len(s) BY <1>2, <1>3
    <3> QED BY <1>4, <3>p, <3>2
  <2>5. CASE q[1] = d
    <3>p. PICK i \in 1..Len(x) : q = <<d, i - k>> BY <1>1, <2>1, <2>5
    <3>1. Len(s) + i \in 1..Len(t) /\ ~(Len(s) + i <= Len(s)) /\ (Len(s) + i) - Len(s) = i BY <1>2, <1>3
    <3>2. pm[Len(s) + i] = <<d, i - k>> BY <1>5, <3>1
    <3> QED BY <3>p, <3>1, <3>2
  <2> QED BY <2>3, <2>4, <2>5
<1>9. IsCover(pm, t, cmd, d) BY <1>6, <1>7, <1>8 DEF IsCover
<1> QED BY <1>t, <1>9 DEF d

\* A directory more, which is empty and skipped.
LEMMA CoverSkipped ==
    ASSUME NEW cmd, IsCommand(cmd), NEW n \in Nat, n + 1 <= Len(cmd.path), cmd.path[n + 1] = Unnamed,
           NEW s, NEW pl, IsCover(pl, s, cmd, n)
    PROVE  IsCover(pl, s, cmd, n + 1)
<1>1. PlacesTo(cmd, n + 1) = PlacesTo(cmd, n)
  <2>1. ASSUME NEW p \in Places(cmd) PROVE p[1] <= n + 1 <=> p[1] <= n
    <3>1. p[1] \in 0..Len(cmd.path) /\ (p[1] # 0 => cmd.path[p[1]] # Unnamed) BY PlaceIs DEF IsPlace
    <3>2. p[1] # n + 1 BY <3>1
    <3>3. p[1] \in Nat BY <3>1 DEF IsCommand
    <3> QED BY <3>2, <3>3
  <2> QED BY <2>1 DEF PlacesTo
<1> QED BY <1>1, Zenon DEF IsCover

\* The files of the first n directories of the path.
WalkTo(cmd, n) ==
    WalkExt(cmd, "cwd") \o FlattenSeq([i \in 1..n |-> IF cmd.path[i] = "" THEN <<>> ELSE WalkExt(cmd, cmd.path[i])])

\* search_path covers the directories of PATH one after the other.
LEMMA WalkToCovers ==
    ASSUME NEW cmd, IsCommand(cmd), ~cmd.dir
    PROVE  \A n \in Nat : n <= Len(cmd.path) => \E pl : IsCover(pl, WalkTo(cmd, n), cmd, n)
<1> DEFINE B == Char \X Char
           D(i) == IF cmd.path[i] = "" THEN <<>> ELSE WalkExt(cmd, cmd.path[i])
           Ds(n) == [i \in 1..n |-> D(i)]
           start == WalkExt(cmd, "cwd")
           P == {n \in Nat : n <= Len(cmd.path) => \E pl : IsCover(pl, WalkTo(cmd, n), cmd, n)}
<1>0. Len(cmd.path) \in Nat /\ \A i \in 1..Len(cmd.path) : cmd.path[i] \in Char
  <2>1. cmd.path \in Seq(Char) BY CharOf, SeqOfMore DEF IsCommand
  <2> QED BY <2>1
<1>d. \A i \in 1..Len(cmd.path) : D(i) \in Seq(B) /\ (cmd.path[i] # Unnamed => IsWalk(D(i), cmd, cmd.path[i]))
  <2> SUFFICES ASSUME NEW i \in 1..Len(cmd.path) PROVE D(i) \in Seq(B) /\ (cmd.path[i] # Unnamed => IsWalk(D(i), cmd, cmd.path[i]))
    OBVIOUS
  <2>1. CASE cmd.path[i] = Unnamed
    <3>1. D(i) = <<>> BY <2>1 DEF Unnamed
    <3> HIDE DEF D
    <3> QED BY <2>1, <3>1, EmptySeq
  <2>2. CASE cmd.path[i] # Unnamed
    <3>1. D(i) = WalkExt(cmd, cmd.path[i]) BY <2>2 DEF Unnamed
    <3> HIDE DEF D
    <3>2. PICK dir \in Char : dir = cmd.path[i] BY <1>0
    <3>3. IsWalk(WalkExt(cmd, dir), cmd, dir) BY WalkExtIs
    <3>4. IsWalk(D(i), cmd, cmd.path[i]) BY <3>1, <3>2, <3>3
    <3> QED BY <3>4 DEF IsWalk
  <2> QED BY <2>1, <2>2
<1>s. IsWalk(start, cmd, "cwd") /\ start \in Seq(B)
  <2>p. PICK dir : dir = "cwd" OBVIOUS
  <2>1. dir \in Char BY <2>p, CharOf
  <2>2. IsWalk(WalkExt(cmd, dir), cmd, dir) BY <2>1, WalkExtIs
  <2>3. IsWalk(start, cmd, "cwd") BY <2>2, <2>p
  <2> QED BY <2>3 DEF IsWalk
<1>w. \A n \in Nat : WalkTo(cmd, n) = start \o FlattenSeq(Ds(n)) BY DEF WalkTo
<1>f. \A n \in Nat : n <= Len(cmd.path) => Ds(n) \in Seq(Seq(B)) /\ Len(Ds(n)) = n /\ \A i \in 1..n : Ds(n)[i] = D(i)
  <2> SUFFICES ASSUME NEW n \in Nat, n <= Len(cmd.path) PROVE Ds(n) \in Seq(Seq(B)) /\ Len(Ds(n)) = n /\ \A i \in 1..n : Ds(n)[i] = D(i)
    OBVIOUS
  <2> DEFINE A == Seq(B)
  <2>1. \A i \in 1..n : D(i) \in A
    <3>1. \A i \in 1..n : i \in 1..Len(cmd.path) BY <1>0
    <3> HIDE DEF D
    <3> QED BY <1>d, <3>1
  <2> HIDE DEF D, A
  <2>2. Ds(n) \in Seq(A) /\ Len(Ds(n)) = n /\ \A i \in 1..n : Ds(n)[i] = D(i) BY <2>1
  <2> QED BY <2>2 DEF A
<1> HIDE DEF D, Ds, start, B
<1>g. \A n \in Nat : n <= Len(cmd.path) => FlattenSeq(Ds(n)) \in Seq(B)
  <2> SUFFICES ASSUME NEW n \in Nat, n <= Len(cmd.path) PROVE FlattenSeq(Ds(n)) \in Seq(B)
    OBVIOUS
  <2>p. PICK v \in Seq(Seq(B)) : v = Ds(n) BY <1>f
  <2>1. <<>> \in Seq(B) BY EmptySeq
  <2>2. FlattenSeq(v) \in Seq(B)
    <3>p. PICK x \in Seq(B) : x = <<>> BY <2>1
    <3> QED BY FlattenAppend
  <2> QED BY <2>p, <2>2
<1>1. 0 \in P
  <2>1. Ds(0) = <<>> BY EmptySeq DEF Ds
  <2>2. FlattenSeq(Ds(0)) = <<>> BY <2>1, FlattenEmpty
  <2>3. start \o <<>> = start BY <1>s
  <2>4. WalkTo(cmd, 0) = start BY <1>w, <2>2, <2>3
  <2>5. Here(cmd) = "cwd" BY DEF Here
  <2>6. \E pl : IsCover(pl, start, cmd, 0) BY <1>s, <2>5, CoverStart
  <2> QED BY <2>4, <2>6
<1>2. ASSUME NEW n \in Nat, n \in P PROVE n + 1 \in P
  <2>0. CASE ~(n + 1 <= Len(cmd.path)) BY <2>0
  <2>1. CASE n + 1 <= Len(cmd.path)
    <3>0. n <= Len(cmd.path) /\ n + 1 \in 1..Len(cmd.path) /\ n + 1 \in Nat BY <1>0, <2>1
    <3>p. PICK pl : IsCover(pl, WalkTo(cmd, n), cmd, n) BY <1>2, <3>0
    <3>v. PICK v \in Seq(Seq(B)) : v = Ds(n) BY <1>f, <3>0
    <3>x. PICK x \in Seq(B) : x = D(n + 1) BY <1>d, <3>0
    <3>1. Ds(n + 1) = Append(v, x)
      <4> DEFINE A == Seq(B)
      <4>p. PICK u : u = Ds(n + 1) OBVIOUS
      <4>1. /\ u \in Seq(A) /\ v \in Seq(A) /\ x \in A /\ Len(u) = n + 1 /\ Len(v) = n
            /\ u[n + 1] = x /\ \A i \in 1..n : u[i] = v[i]
        <5>1. n + 1 \in 1..n + 1 /\ \A i \in 1..n : i \in 1..n + 1 BY <3>0
        <5> QED BY <1>f, <3>0, <3>v, <3>x, <4>p, <5>1
      <4> HIDE DEF A
      <4>2. u = Append(v, x) BY <4>1
      <4> QED BY <4>p, <4>2
    <3>2. FlattenSeq(Append(v, x)) = FlattenSeq(v) \o x /\ FlattenSeq(v) \in Seq(B) BY FlattenAppend
    <3>f. PICK f \in Seq(B) : f = FlattenSeq(v) BY <3>2
    <3>3. WalkTo(cmd, n) = start \o f BY <1>w, <3>v, <3>f
    <3>4. WalkTo(cmd, n + 1) = start \o (f \o x)
      <4>1. FlattenSeq(Ds(n + 1)) = f \o x BY <3>1, <3>2, <3>f
      <4> QED BY <1>w, <3>0, <4>1
    <3>5. start \o (f \o x) = (start \o f) \o x BY <1>s, ConcatAssociative
    <3>s. PICK s \in Seq(B) : s = start \o f BY <1>s, ConcatProperties
    <3>6. CASE cmd.path[n + 1] = Unnamed
      <4>1. x = <<>> BY <3>x, <3>6 DEF D, Unnamed
      <4>2. s \o x = s BY <4>1
      <4>3. IsCover(pl, s, cmd, n + 1) BY <2>1, <3>p, <3>3, <3>s, <3>6, CoverSkipped
      <4>4. IsCover(pl, WalkTo(cmd, n + 1), cmd, n + 1) BY <3>4, <3>5, <3>s, <4>2, <4>3
      <4> HIDE DEF P
      <4>5. \E pm : IsCover(pm, WalkTo(cmd, n + 1), cmd, n + 1) BY <4>4
      <4> QED BY <3>0, <4>5 DEF P
    <3>7. CASE cmd.path[n + 1] # Unnamed
      <4>1. IsWalk(x, cmd, cmd.path[n + 1]) BY <1>d, <3>0, <3>x, <3>7
      <4>2. s \in Seq(Char \X Char) /\ IsCover(pl, s, cmd, n) BY <3>p, <3>3, <3>s DEF B
      <4>3. \E pm : IsCover(pm, s \o x, cmd, n + 1) BY <2>1, <3>7, <4>1, <4>2, CoverNamed
      <4>4. \E pm : IsCover(pm, WalkTo(cmd, n + 1), cmd, n + 1) BY <3>4, <3>5, <3>s, <4>3
      <4> QED BY <3>0, <4>4 DEF P
    <3> QED BY <3>6, <3>7
  <2> QED BY <2>0, <2>1
<1>3. \A n \in Nat : n \in P
  <2> HIDE DEF P
  <2> QED BY <1>1, <1>2, SetInduction
<1> QED BY <1>3

\* The whole search: the files of WalkPath are those at all the places, in their order.
LEMMA WalkPathCovers ==
    ASSUME NEW cmd, IsCommand(cmd)
    PROVE  \E pl : /\ \A j \in 1..Len(WalkPath(cmd)) : pl[j] \in Places(cmd) /\ WalkPath(cmd)[j] = FileAt(cmd, pl[j])
                   /\ \A i, j \in 1..Len(WalkPath(cmd)) : i < j => IsBefore(pl[i], pl[j])
                   /\ \A q \in Places(cmd) : \E j \in 1..Len(WalkPath(cmd)) : pl[j] = q
<1>0. Len(cmd.path) \in Nat BY DEF IsCommand
<1>1. CASE cmd.dir
  <2>p. PICK dir : dir = "own" OBVIOUS
  <2>1. dir \in Char BY <2>p, CharOf
  <2>2. IsWalk(WalkExt(cmd, dir), cmd, dir) BY <2>1, WalkExtIs
  <2>3. WalkPath(cmd) = WalkExt(cmd, dir) /\ Here(cmd) = dir BY <1>1, <2>p DEF WalkPath, Here
  <2>q. PICK pl : IsCover(pl, WalkPath(cmd), cmd, 0) BY <2>2, <2>3, CoverStart
  <2>4. PlacesTo(cmd, 0) = Places(cmd)
    <3>1. \A p \in Places(cmd) : p[1] = 0 BY <1>1 DEF Places
    <3>2. \A p \in Places(cmd) : p[1] <= 0 BY <3>1
    <3> QED BY <3>2 DEF PlacesTo
  <2> QED BY <2>q, <2>4 DEF IsCover
<1>2. CASE ~cmd.dir
  <2>1. WalkPath(cmd) = WalkTo(cmd, Len(cmd.path)) BY <1>2 DEF WalkPath, WalkTo
  <2>q. PICK pl : IsCover(pl, WalkPath(cmd), cmd, Len(cmd.path)) BY <1>0, <1>2, <2>1, WalkToCovers
  <2>2. PlacesTo(cmd, Len(cmd.path)) = Places(cmd)
    <3>1. \A p \in Places(cmd) : p[1] <= Len(cmd.path)
      <4>1. \A p \in Places(cmd) : p[1] \in 0..Len(cmd.path) BY PlaceIs DEF IsPlace
      <4> QED BY <1>0, <4>1
    <3> QED BY <3>1 DEF PlacesTo
  <2> QED BY <2>q, <2>2 DEF IsCover
<1> QED BY <1>1, <1>2

\* What runs is the file at the first place that has one.
RunsFirst(cmd, file) ==
    \E p \in Places(cmd) :
        /\ file = FileAt(cmd, p) /\ FileAt(cmd, p) \in cmd.exists
        /\ \A q \in Places(cmd) : FileAt(cmd, q) \in cmd.exists => ~IsBefore(q, p)

\* What the search finds is there, and nothing is at an earlier place.
LEMMA SearchRunsFirst ==
    ASSUME NEW cmd, IsCommand(cmd), SearchPath(cmd) # 0
    PROVE  RunsFirst(cmd, WalkPath(cmd)[SearchPath(cmd)])
<1>w. PICK w : w = WalkPath(cmd) OBVIOUS
<1>p. PICK pl : /\ \A j \in 1..Len(w) : pl[j] \in Places(cmd) /\ w[j] = FileAt(cmd, pl[j])
                /\ \A i, j \in 1..Len(w) : i < j => IsBefore(pl[i], pl[j])
                /\ \A q \in Places(cmd) : \E j \in 1..Len(w) : pl[j] = q
  BY <1>w, WalkPathCovers
<1> DEFINE I == {i \in 1..Len(w) : w[i] \in cmd.exists}
<1>1. I # {} /\ SearchPath(cmd) = Min(I) BY <1>w DEF SearchPath, SelectInSeq
<1>2. PICK f \in I : f = Min(I) /\ \A i \in I : f <= i
  <2>1. I \in SUBSET Nat OBVIOUS
  <2> HIDE DEF I
  <2>2. \E x \in I : \A y \in I : x <= y BY <1>1, <2>1, Least
  <2>3. Min(I) = CHOOSE x \in I : \A y \in I : x <= y BY DEF Min
  <2> QED BY <2>2, <2>3
<1>3. f \in 1..Len(w) /\ w[f] \in cmd.exists /\ \A i \in 1..Len(w) : w[i] \in cmd.exists => f <= i
  BY <1>2
<1> HIDE DEF I
<1>r. PICK p : p = pl[f] OBVIOUS
<1>4. p \in Places(cmd) /\ w[f] = FileAt(cmd, p) BY <1>p, <1>3, <1>r
<1>5. ASSUME NEW q \in Places(cmd), FileAt(cmd, q) \in cmd.exists PROVE ~IsBefore(q, p)
  <2>j. PICK j \in 1..Len(w) : pl[j] = q BY <1>p
  <2>1. w[j] = FileAt(cmd, q) BY <1>p, <2>j
  <2>2. f <= j BY <1>3, <1>5, <2>1
  <2>3. p[1] \in Int /\ p[2] \in Int /\ q[1] \in Int /\ q[2] \in Int
    <3>1. \A z \in Places(cmd) : z[1] \in 0..Len(cmd.path) /\ z[2] \in 0..Len(cmd.exts) BY PlaceIs DEF IsPlace
    <3>2. \A z \in Places(cmd) : z[1] \in Int /\ z[2] \in Int BY <3>1
    <3> QED BY <1>4, <3>2
  <2>4. CASE f = j
    <3>1. q = p BY <2>4, <2>j, <1>r
    <3> QED BY <2>3, <3>1 DEF IsBefore
  <2>5. CASE f # j
    <3>1. f < j BY <1>3, <2>2, <2>5
    <3>2. IsBefore(p, q) BY <1>p, <1>3, <1>r, <2>j, <3>1
    <3> QED BY <2>3, <3>2 DEF IsBefore
  <2> QED BY <2>4, <2>5
<1>6. RunsFirst(cmd, w[f]) BY <1>3, <1>4, <1>5 DEF RunsFirst
<1> QED BY <1>1, <1>2, <1>6, <1>w

-----------------------------------------------------------------------------
\* Children on Windows: what a child was told.

\* The records of the children, and what a child was told to run and with what.
ChildRecord ==
    [st : {"new", "spawned"}, refs : Int, did_start : BOOLEAN, kill_me : BOOLEAN, exit_signal : BOOLEAN,
     pid : {"undefined", "null", "number", "zero"}, handle : BOOLEAN, stdio : BOOLEAN, exits : Int,
     cmd : Command \cup {NoCommand}, arg : Argument \cup {<<>>},
     arguments : {QuoteCmdArg(arg) : arg \in Argument} \cup {<<>>},
     runs : {WalkPath(cmd)[SearchPath(cmd)] : cmd \in Command \cup {NoCommand}} \cup {<<>>},
     after : BOOLEAN, registered : BOOLEAN]

\* A child that has been told something has a command and a quoted argument; it gets past the search
\* only with a file, which is the one that it runs.
ToldOK(c, e) ==
    /\ c.st # "new" => c.cmd \in Command /\ c.arg \in Argument /\ c.arguments = QuoteCmdArg(c.arg)
    /\ e # "none" => c.st # "new"
    /\ e \in {"enter", "create"} => SearchPath(c.cmd) # 0
    /\ c.runs # <<>> => c.st # "new" /\ SearchPath(c.cmd) # 0 /\ c.runs = WalkPath(c.cmd)[SearchPath(c.cmd)]

\* The invariant: every child was told what its step says.
LineInv ==
    /\ kid \in [Kid -> ChildRecord]
    /\ win32Eio \in [Kid -> {"none", "search", "enter", "create", "watch", "leave", "fails", "done"}]
    /\ \A k \in Kid : ToldOK(kid[k], win32Eio[k])

\* New children were told nothing.
LEMMA LineStarts == Win32Init => LineInv
<1> SUFFICES ASSUME Win32Init PROVE LineInv
  OBVIOUS
<1>1. NewKid \in ChildRecord BY DEF NewKid, ChildRecord
<1>2. kid = [k \in Kid |-> NewKid] /\ win32Eio = [k \in Kid |-> "none"] BY DEF Win32Init
<1>3. NewKid.st = "new" /\ NewKid.runs = <<>> BY DEF NewKid
<1>4. ToldOK(NewKid, "none") BY <1>3 DEF ToldOK
<1> QED BY <1>1, <1>2, <1>4 DEF LineInv

\* A step that changes one child.
LEMMA LineKeeps ==
    ASSUME LineInv, NEW k \in Kid, NEW c \in ChildRecord, kid' = [kid EXCEPT ![k] = c],
           NEW e \in {"none", "search", "enter", "create", "watch", "leave", "fails", "done"},
           win32Eio' = [win32Eio EXCEPT ![k] = e], ToldOK(c, e)
    PROVE  LineInv'
<1>1. kid' \in [Kid -> ChildRecord] BY DEF LineInv
<1>2. win32Eio' \in [Kid -> {"none", "search", "enter", "create", "watch", "leave", "fails", "done"}] BY DEF LineInv
<1>3. \A j \in Kid : ToldOK(kid'[j], win32Eio'[j])
  <2> SUFFICES ASSUME NEW j \in Kid PROVE ToldOK(kid'[j], win32Eio'[j])
    OBVIOUS
  <2>1. CASE j = k
    <3>1. kid'[j] = c /\ win32Eio'[j] = e BY <2>1 DEF LineInv
    <3> QED BY <3>1
  <2>2. CASE j # k
    <3>1. kid'[j] = kid[j] /\ win32Eio'[j] = win32Eio[j] BY <2>2 DEF LineInv
    <3> QED BY <3>1 DEF LineInv
  <2> QED BY <2>1, <2>2
<1> QED BY <1>1, <1>2, <1>3 DEF LineInv

\* One in which the child is told nothing new.
Unsaid(c, d) ==
    c.st = d.st /\ c.cmd = d.cmd /\ c.arg = d.arg /\ c.arguments = d.arguments /\ c.runs = d.runs

\* So what it was told stays right.
LEMMA UnsaidKeeps ==
    ASSUME NEW c, NEW d, Unsaid(c, d), NEW e, NEW f, ToldOK(c, e), e = f \/ (e # "none" /\ f \notin {"none", "enter", "create"})
    PROVE  ToldOK(d, f)
<1>1. d.st = c.st /\ d.cmd = c.cmd /\ d.arg = c.arg /\ d.arguments = c.arguments /\ d.runs = c.runs
  BY Zenon DEF Unsaid
<1>2. /\ d.st # "new" => d.cmd \in Command /\ d.arg \in Argument /\ d.arguments = QuoteCmdArg(d.arg)
      /\ d.runs # <<>> => d.st # "new" /\ SearchPath(d.cmd) # 0 /\ d.runs = WalkPath(d.cmd)[SearchPath(d.cmd)]
  BY <1>1, Zenon DEF ToldOK
<1>3. (e # "none" => d.st # "new") /\ (e \in {"enter", "create"} => SearchPath(d.cmd) # 0)
  BY <1>1, Zenon DEF ToldOK
<1>4. (f # "none" => d.st # "new") /\ (f \in {"enter", "create"} => SearchPath(d.cmd) # 0)
  BY <1>3
<1> QED BY <1>2, <1>4, Zenon DEF ToldOK

\* What one child is told is what follows for it, and what does not change keeps.
LEMMA LineSame == ASSUME LineInv, UNCHANGED <<kid, win32Eio>> PROVE LineInv'
BY Zenon DEF LineInv

-----------------------------------------------------------------------------
\* Children on Windows: the steps of the threads.

\* A step that tells a child nothing and does not take it further.
LEMMA LineKid ==
    ASSUME LineInv, NEW k \in Kid, NEW c \in ChildRecord, kid' = [kid EXCEPT ![k] = c], UNCHANGED win32Eio,
           Unsaid(kid[k], c)
    PROVE  LineInv'
<1>1. win32Eio' = [win32Eio EXCEPT ![k] = win32Eio[k]] BY DEF LineInv
<1>2. win32Eio[k] \in {"none", "search", "enter", "create", "watch", "leave", "fails", "done"} BY DEF LineInv
<1>3. ToldOK(kid[k], win32Eio[k]) BY DEF LineInv
<1>4. ToldOK(c, win32Eio[k]) BY <1>3, UnsaidKeeps
<1> QED BY <1>1, <1>2, <1>4, LineKeeps

\* One that takes it further.
LEMMA LineFurther ==
    ASSUME LineInv, NEW k \in Kid, NEW c \in ChildRecord, kid' = [kid EXCEPT ![k] = c],
           NEW e \in {"search", "watch", "leave", "fails", "done"}, win32Eio[k] # "none",
           win32Eio' = [win32Eio EXCEPT ![k] = e], Unsaid(kid[k], c)
    PROVE  LineInv'
<1>1. e \in {"none", "search", "enter", "create", "watch", "leave", "fails", "done"} OBVIOUS
<1>2. ToldOK(kid[k], win32Eio[k]) BY DEF LineInv
<1>3. e \notin {"none", "enter", "create"} OBVIOUS
<1>4. ToldOK(c, e) BY <1>2, <1>3, UnsaidKeeps
<1> QED BY <1>1, <1>4, LineKeeps

\* The main thread.
LEMMA LineSpawn ==
    ASSUME LineInv, NEW k \in Kid, NEW cmd \in Command, NEW arg \in Argument, SpawnWin32(k, cmd, arg)
    PROVE  LineInv'
<1>r. PICK r : r = kid[k].refs + 1 OBVIOUS
<1>c. PICK c : c = [kid[k] EXCEPT !.st = "spawned", !.refs = r, !.stdio = TRUE,
                                  !.cmd = cmd, !.arg = arg, !.arguments = QuoteCmdArg(arg)]
  OBVIOUS
<1>0. kid[k] \in ChildRecord BY DEF LineInv
<1>1. /\ c \in ChildRecord /\ c.st = "spawned" /\ c.cmd = cmd /\ c.arg = arg /\ c.arguments = QuoteCmdArg(arg)
      /\ c.runs = kid[k].runs
  <2>p. PICK a : a = QuoteCmdArg(arg) OBVIOUS
  <2>1. a \in {QuoteCmdArg(b) : b \in Argument} \cup {<<>>} BY <2>p
  <2>2. c = [kid[k] EXCEPT !.st = "spawned", !.refs = r, !.stdio = TRUE,
                           !.cmd = cmd, !.arg = arg, !.arguments = a]
    BY <1>c, <2>p
  <2>r. kid[k].refs \in Int BY <1>0 DEF ChildRecord
  <2>i. r \in Int BY <1>r, <2>r
  <2>a. PICK A : A = {QuoteCmdArg(b) : b \in Argument} \cup {<<>>} OBVIOUS
  <2>b. a \in A BY <2>1, <2>a
  <2>w. PICK W : W = {WalkPath(b)[SearchPath(b)] : b \in Command \cup {NoCommand}} \cup {<<>>} OBVIOUS
  <2>d. ChildRecord =
          [st : {"new", "spawned"}, refs : Int, did_start : BOOLEAN, kill_me : BOOLEAN, exit_signal : BOOLEAN,
           pid : {"undefined", "null", "number", "zero"}, handle : BOOLEAN, stdio : BOOLEAN, exits : Int,
           cmd : Command \cup {NoCommand}, arg : Argument \cup {<<>>}, arguments : A, runs : W,
           after : BOOLEAN, registered : BOOLEAN]
    BY <2>a, <2>w DEF ChildRecord
  <2>3. c \in ChildRecord BY <1>0, <2>b, <2>i, <2>2, <2>d
  <2>4. c.st = "spawned" /\ c.cmd = cmd /\ c.arg = arg /\ c.arguments = a /\ c.runs = kid[k].runs
    BY <1>0, <2>2 DEF ChildRecord
  <2> QED BY <2>3, <2>4, <2>p
<1>2. kid' = [kid EXCEPT ![k] = c] /\ win32Eio' = [win32Eio EXCEPT ![k] = "search"]
  BY <1>c, <1>r DEF SpawnWin32
<1>3. kid[k].runs = <<>>
  <2>1. kid[k].st = "new" BY DEF SpawnWin32
  <2>2. ToldOK(kid[k], win32Eio[k]) BY DEF LineInv
  <2> QED BY <2>1, <2>2 DEF ToldOK
<1>4. ToldOK(c, "search") BY <1>1, <1>3 DEF ToldOK
<1> QED BY <1>1, <1>2, <1>4, LineKeeps

\* kill of a child, started or not.
LEMMA LineKill == ASSUME LineInv, DoKill PROVE LineInv'
<1>k. PICK k : k = win32Main.kid OBVIOUS
<1>1. kid' = [kid EXCEPT ![k] = [kid[k] EXCEPT !.exit_signal = TRUE, !.kill_me = kid[k].kill_me \/ ~kid[k].did_start]]
      /\ UNCHANGED win32Eio
  BY <1>k DEF DoKill
<1>2. CASE k \in Kid
  <2>m. PICK m \in BOOLEAN : m = (kid[k].kill_me \/ ~kid[k].did_start) OBVIOUS
  <2>c. PICK c : c = [kid[k] EXCEPT !.exit_signal = TRUE, !.kill_me = m] OBVIOUS
  <2>0. kid[k] \in ChildRecord BY <1>2 DEF LineInv
  <2>1. c \in ChildRecord /\ Unsaid(kid[k], c) BY <2>0, <2>c DEF ChildRecord, Unsaid
  <2>2. kid' = [kid EXCEPT ![k] = c] BY <1>1, <2>m, <2>c
  <2> QED BY <1>1, <1>2, <2>1, <2>2, LineKid
<1>3. CASE k \notin Kid
  <2>1. kid' = kid BY <1>1, <1>3 DEF LineInv
  <2> QED BY <1>1, <2>1, LineSame
<1> QED BY <1>2, <1>3

\* OnExit gives the handle up.
LEMMA LineExit == ASSUME LineInv, OnExit32 PROVE LineInv'
<1>k. PICK k : k = win32Main.kid OBVIOUS
<1>1. kid' = [kid EXCEPT ![k] = [kid[k] EXCEPT !.handle = FALSE, !.refs = kid[k].refs - 1, !.pid = "null",
                                               !.exits = kid[k].exits + 1]]
      /\ UNCHANGED win32Eio
  BY <1>k DEF OnExit32
<1>2. CASE k \in Kid
  <2>r. PICK r : r = kid[k].refs - 1 OBVIOUS
  <2>e. PICK n : n = kid[k].exits + 1 OBVIOUS
  <2>c. PICK c : c = [kid[k] EXCEPT !.handle = FALSE, !.refs = r, !.pid = "null", !.exits = n] OBVIOUS
  <2>0. kid[k] \in ChildRecord BY <1>2 DEF LineInv
  <2>3. kid[k].refs \in Int /\ kid[k].exits \in Int BY <2>0 DEF ChildRecord
  <2>4. r \in Int BY <2>r, <2>3
  <2>5. n \in Int BY <2>e, <2>3
  <2>1. c \in ChildRecord /\ Unsaid(kid[k], c) BY <2>0, <2>c, <2>4, <2>5 DEF ChildRecord, Unsaid
  <2>2. kid' = [kid EXCEPT ![k] = c] BY <1>1, <2>r, <2>e, <2>c
  <2> QED BY <1>1, <1>2, <2>1, <2>2, LineKid
<1>3. CASE k \notin Kid
  <2>1. kid' = kid BY <1>1, <1>3 DEF LineInv
  <2> QED BY <1>1, <2>1, LineSame
<1> QED BY <1>2, <1>3

\* after_spawn tells the pid.
LEMMA LineAfter == ASSUME LineInv, NEW k \in Kid, AfterSpawn(k) PROVE LineInv'
<1>p. PICK pid : pid = IF ~kid[k].did_start THEN "null" ELSE IF kid[k].handle THEN "number" ELSE "zero" OBVIOUS
<1>c. PICK c : c = [kid[k] EXCEPT !.after = FALSE, !.pid = pid] OBVIOUS
<1>0. kid[k] \in ChildRecord BY DEF LineInv
<1>1. kid' = [kid EXCEPT ![k] = c] /\ UNCHANGED win32Eio BY <1>c, <1>p DEF AfterSpawn
<1>2. c \in ChildRecord /\ Unsaid(kid[k], c) BY <1>0, <1>c, <1>p DEF ChildRecord, Unsaid
<1> QED BY <1>1, <1>2, LineKid

\* The thread of the pool.
LEMMA LineSearch == ASSUME LineInv, NEW k \in Kid, Win32Search(k) PROVE LineInv'
<1>1. win32Eio[k] = "search" /\ UNCHANGED kid
      /\ win32Eio' = [win32Eio EXCEPT ![k] = IF SearchPath(kid[k].cmd) = 0 THEN "fails" ELSE "enter"]
  BY DEF Win32Search, Eio
<1>c. PICK c : c = kid[k] OBVIOUS
<1>2. c \in ChildRecord /\ kid' = [kid EXCEPT ![k] = c] /\ ToldOK(c, "search") BY <1>1, <1>c DEF LineInv
<1>p. PICK e : e = IF SearchPath(c.cmd) = 0 THEN "fails" ELSE "enter" OBVIOUS
<1>3. e \in {"none", "search", "enter", "create", "watch", "leave", "fails", "done"} BY <1>p
<1>4. /\ c.st # "new" => c.cmd \in Command /\ c.arg \in Argument /\ c.arguments = QuoteCmdArg(c.arg)
      /\ c.st # "new"
      /\ c.runs # <<>> => c.st # "new" /\ SearchPath(c.cmd) # 0 /\ c.runs = WalkPath(c.cmd)[SearchPath(c.cmd)]
  BY <1>2 DEF ToldOK
<1>5. e \in {"enter", "create"} => SearchPath(c.cmd) # 0 BY <1>p
<1>6. ToldOK(c, e) BY <1>4, <1>5, Zenon DEF ToldOK
<1>7. win32Eio' = [win32Eio EXCEPT ![k] = e] BY <1>1, <1>c, <1>p
<1> QED BY <1>2, <1>3, <1>6, <1>7, LineKeeps

\* The critical section is entered.
LEMMA LineEnter == ASSUME LineInv, NEW k \in Kid, Enter(k) PROVE LineInv'
<1>1. win32Eio[k] = "enter" /\ UNCHANGED kid /\ win32Eio' = [win32Eio EXCEPT ![k] = "create"] BY DEF Enter, Eio
<1>c. PICK c : c = kid[k] OBVIOUS
<1>2. c \in ChildRecord /\ kid' = [kid EXCEPT ![k] = c] /\ ToldOK(c, "enter") BY <1>1, <1>c DEF LineInv
<1>3. ToldOK(c, "create") BY <1>2 DEF ToldOK
<1> QED BY <1>1, <1>2, <1>3, LineKeeps

\* CreateProcess: what runs is what the search found.
LEMMA LineDoSpawn == ASSUME LineInv, NEW k \in Kid, NEW success \in BOOLEAN, DoSpawn(k, success) PROVE LineInv'
<1>0. kid[k] \in ChildRecord /\ ToldOK(kid[k], win32Eio[k]) BY DEF LineInv
<1>1. win32Eio[k] = "create" /\ win32Eio' = [win32Eio EXCEPT ![k] = IF success THEN "watch" ELSE "fails"]
  BY DEF DoSpawn, Eio
<1>2. CASE success
  <2>r. PICK r : r = WalkPath(kid[k].cmd)[SearchPath(kid[k].cmd)] OBVIOUS
  <2>c. PICK c : c = [kid[k] EXCEPT !.handle = TRUE, !.did_start = TRUE, !.runs = r] OBVIOUS
  <2>1. kid' = [kid EXCEPT ![k] = c] BY <1>2, <2>r, <2>c DEF DoSpawn
  <2>2. r \in {WalkPath(cmd)[SearchPath(cmd)] : cmd \in Command \cup {NoCommand}} \cup {<<>>}
    <3>1. kid[k].cmd \in Command \cup {NoCommand} BY <1>0 DEF ChildRecord
    <3> QED BY <2>r, <3>1
  <2>3. c \in ChildRecord /\ c.st = kid[k].st /\ c.cmd = kid[k].cmd /\ c.arg = kid[k].arg /\ c.arguments = kid[k].arguments
        /\ c.runs = r
    BY <1>0, <2>c, <2>2 DEF ChildRecord
  <2>4. /\ kid[k].st # "new" /\ SearchPath(kid[k].cmd) # 0
        /\ kid[k].cmd \in Command /\ kid[k].arg \in Argument /\ kid[k].arguments = QuoteCmdArg(kid[k].arg)
    BY <1>0, <1>1 DEF ToldOK
  <2>5. ToldOK(c, "watch") BY <2>r, <2>3, <2>4 DEF ToldOK
  <2>6. win32Eio' = [win32Eio EXCEPT ![k] = "watch"] BY <1>1, <1>2
  <2> QED BY <2>1, <2>3, <2>5, <2>6, LineKeeps
<1>3. CASE ~success
  <2>1. UNCHANGED kid BY <1>3 DEF DoSpawn
  <2>c. PICK c : c = kid[k] OBVIOUS
  <2>2. c \in ChildRecord /\ kid' = [kid EXCEPT ![k] = c] /\ Unsaid(kid[k], c) BY <1>0, <2>1, <2>c DEF LineInv, Unsaid
  <2>3. win32Eio' = [win32Eio EXCEPT ![k] = "fails"] /\ win32Eio[k] # "none" BY <1>1, <1>3
  <2> QED BY <2>2, <2>3, LineFurther
<1> QED BY <1>2, <1>3

\* The wait for its end is registered.
LEMMA LineWatch == ASSUME LineInv, NEW k \in Kid, Watch(k) PROVE LineInv'
<1>c. PICK c : c = [kid[k] EXCEPT !.registered = TRUE] OBVIOUS
<1>0. kid[k] \in ChildRecord BY DEF LineInv
<1>1. kid' = [kid EXCEPT ![k] = c] /\ win32Eio[k] # "none" /\ win32Eio' = [win32Eio EXCEPT ![k] = "leave"]
  BY <1>c DEF Watch, Eio
<1>2. c \in ChildRecord /\ Unsaid(kid[k], c) BY <1>0, <1>c DEF ChildRecord, Unsaid
<1> QED BY <1>1, <1>2, LineFurther

\* The critical section is left.
LEMMA LineLeave == ASSUME LineInv, NEW k \in Kid, Leave(k) PROVE LineInv'
<1>c. PICK c : c = [kid[k] EXCEPT !.after = TRUE] OBVIOUS
<1>0. kid[k] \in ChildRecord BY DEF LineInv
<1>1. kid' = [kid EXCEPT ![k] = c] /\ win32Eio[k] # "none" /\ win32Eio' = [win32Eio EXCEPT ![k] = "done"]
  BY <1>c DEF Leave, Eio
<1>2. c \in ChildRecord /\ Unsaid(kid[k], c) BY <1>0, <1>c DEF ChildRecord, Unsaid
<1> QED BY <1>1, <1>2, LineFurther

\* The failure is told.
LEMMA LineFailure == ASSUME LineInv, NEW k \in Kid, NotifySpawnFailure(k) PROVE LineInv'
<1>c. PICK c : c = [kid[k] EXCEPT !.stdio = FALSE, !.after = TRUE] OBVIOUS
<1>0. kid[k] \in ChildRecord BY DEF LineInv
<1>q. [CloseStdio(kid[k]) EXCEPT !.after = TRUE] = c BY <1>0, <1>c DEF CloseStdio, ChildRecord
<1>1. kid' = [kid EXCEPT ![k] = c] /\ win32Eio[k] # "none" /\ win32Eio' = [win32Eio EXCEPT ![k] = "done"]
  BY <1>q DEF NotifySpawnFailure, Eio
<1>2. c \in ChildRecord /\ Unsaid(kid[k], c) BY <1>0, <1>c DEF ChildRecord, Unsaid
<1> QED BY <1>1, <1>2, LineFurther

\* The wait thread.
LEMMA LineWait == ASSUME LineInv, NEW k \in Kid, WaitCallback(k) PROVE LineInv'
<1>c. PICK c : c = [kid[k] EXCEPT !.stdio = FALSE, !.registered = FALSE] OBVIOUS
<1>0. kid[k] \in ChildRecord BY DEF LineInv
<1>q. [CloseStdio(kid[k]) EXCEPT !.registered = FALSE] = c BY <1>0, <1>c DEF CloseStdio, ChildRecord
<1>1. kid' = [kid EXCEPT ![k] = c] /\ UNCHANGED win32Eio BY <1>q DEF WaitCallback
<1>2. c \in ChildRecord /\ Unsaid(kid[k], c) BY <1>0, <1>c DEF ChildRecord, Unsaid
<1> QED BY <1>1, <1>2, LineKid

\* The other steps tell no child anything.
LEMMA LineOthers ==
    ASSUME LineInv, \/ \E k \in Kid : KillCall(k) \/ ProcessEnds32(k)
                    \/ WaitSends \/ NotifyExit \/ UNCHANGED win32Vars
    PROVE  LineInv'
<1>1. UNCHANGED <<kid, win32Eio>> BY DEF KillCall, ProcessEnds32, WaitSends, NotifyExit, win32Vars
<1> QED BY <1>1, LineSame

\* The command lines that the children get, whatever the threads do.
THEOREM CommandLinesAreSafe == Win32Spec => []CommandLineSafe
<1>1. Win32Init => LineInv BY LineStarts
<1>2. LineInv /\ [Win32Next]_win32Vars => LineInv'
  <2> SUFFICES ASSUME LineInv, [Win32Next]_win32Vars PROVE LineInv'
    OBVIOUS
  <2>1. CASE \E k \in Kid, cmd \in Command, arg \in Argument : SpawnWin32(k, cmd, arg) BY <2>1, LineSpawn
  <2>2. CASE \E k \in Kid : Win32Search(k) \/ Enter(k) \/ Watch(k) \/ Leave(k) \/ NotifySpawnFailure(k)
    BY <2>2, LineSearch, LineEnter, LineWatch, LineLeave, LineFailure
  <2>3. CASE \E k \in Kid, success \in BOOLEAN : DoSpawn(k, success) BY <2>3, LineDoSpawn
  <2>4. CASE \E k \in Kid : WaitCallback(k) \/ AfterSpawn(k) BY <2>4, LineWait, LineAfter
  <2>5. CASE DoKill \/ OnExit32 BY <2>5, LineKill, LineExit
  <2>6. CASE \/ \E k \in Kid : KillCall(k) \/ ProcessEnds32(k)
             \/ WaitSends \/ NotifyExit \/ UNCHANGED win32Vars
    BY <2>6, LineOthers
  <2> QED BY <2>1, <2>2, <2>3, <2>4, <2>5, <2>6 DEF Win32Next
<1>3. LineInv => CommandLineSafe
  <2> SUFFICES ASSUME LineInv PROVE CommandLineSafe
    OBVIOUS
  <2>1. ASSUME NEW k \in Kid, kid[k].runs # <<>> PROVE RunsFirst(kid[k].cmd, kid[k].runs)
    <3>1. ToldOK(kid[k], win32Eio[k]) BY DEF LineInv
    <3>2. SearchPath(kid[k].cmd) # 0 /\ kid[k].runs = WalkPath(kid[k].cmd)[SearchPath(kid[k].cmd)] /\ kid[k].cmd \in Command
      BY <2>1, <3>1 DEF ToldOK
    <3>p. PICK cmd \in Command : cmd = kid[k].cmd BY <3>2
    <3>3. IsCommand(cmd) BY Win32Assumption DEF IsCommand
    <3>4. RunsFirst(cmd, WalkPath(cmd)[SearchPath(cmd)]) BY <3>2, <3>3, <3>p, SearchRunsFirst
    <3> QED BY <3>2, <3>4, <3>p
  <2>2. ASSUME NEW k \in Kid, kid[k].st # "new" PROVE LineFits(kid[k].arguments, kid[k].arg)
    <3>1. ToldOK(kid[k], win32Eio[k]) BY DEF LineInv
    <3>2. kid[k].arg \in Argument /\ kid[k].arguments = QuoteCmdArg(kid[k].arg) BY <2>2, <3>1 DEF ToldOK
    <3>3. kid[k].arg \in Seq(Char)
      <4>1. kid[k].arg \in Seq(STRING) BY <3>2, Win32Assumption
      <4> QED BY <4>1, CharOf, SeqOfMore
    <3> QED BY <3>2, <3>3, QuotedFits
  <2>3. RunsTheFirst BY <2>1, Zenon DEF RunsTheFirst, RunsFirst
  <2>4. ArgumentsFit BY <2>2, Zenon DEF ArgumentsFit, LineFits
  <2> QED BY <2>3, <2>4 DEF CommandLineSafe
<1> QED BY <1>1, <1>2, <1>3, PTL DEF Win32Spec

-----------------------------------------------------------------------------
\* Ciphers: the invariant.

\* How far the ciphertext is fed after a number of units of its text, if no unit was torn.
FedTo(read) ==
    CASE use.from = "binary" -> read
      [] use.from = "hex" -> read \div 2
      [] use.from = "base64" -> IF 3 * (read \div 4) <= CipherLength THEN 3 * (read \div 4) ELSE CipherLength

\* The units that were read and not torn.
ReadOK(d) ==
    /\ d.fed = Stretch(0, FedTo(d.read))
    /\ use.from = "hex" /\ d.read % 2 = 1 => d.hex_flag /\ d.hex = d.read
    /\ use.from = "hex" /\ ~d.hex_flag => d.read % 2 = 0
    /\ use.from = "base64" => d.read % 4 = 0

\* The texts that were returned show the plaintext up to q, and the object keeps the rest of what EVP made.
ShownTo(q, d, t) ==
    /\ Kept(t, Nat \ {0}) = Stretch(0, q)
    /\ use.to = "utf8" => Kind(q + 1) # "c"
    /\ ~d.over => q <= d.made /\ d.incomplete_utf8 = Stretch(q, d.made) /\ d.made - q <= 3
    /\ ~d.over /\ q < d.made => Kind(d.made + 1) = "c"
    /\ d.over /\ d.read = TextLength /\ ~PaddingFails => q >= Len(Plaintext)

\* A Decipher.
DecipherRecord == [initialised : BOOLEAN, read : Nat, fed : Seq(Nat), made : Nat,
                   torn : BOOLEAN, incomplete_utf8 : Seq(Nat), hex_flag : BOOLEAN, hex : Nat, over : BOOLEAN]

\* What is true of a Decipher d and the texts t that it returned.
DecipherOK(d, t) ==
    /\ d \in DecipherRecord
    /\ d.read <= TextLength
    /\ d.initialised => ~d.over
    /\ d.made = DecipherMade(d.fed)
    /\ use.to = "utf8" => ~d.torn
    /\ use.to = "binary" => d.incomplete_utf8 = <<>>
    /\ Len(d.incomplete_utf8) < 4
    /\ ~d.torn => ReadOK(d) /\ \E q \in Nat : ShownTo(q, d, t)

\* A Cipher.
CipherRecord == [initialised : BOOLEAN, given : 0..MaxBytes, made : Nat,
                 incomplete_base64 : Seq(Nat), over : BOOLEAN]

\* What is true of a Cipher c and the texts t: they and the overhang are what EVP made, in order; once final was
\* called the overhang is what is missing between a and b.
CipherOK(c, t) ==
    /\ c \in CipherRecord
    /\ c.initialised => ~c.over
    /\ Len(c.incomplete_base64) < 3
    /\ use.out # "base64" => c.incomplete_base64 = <<>>
    /\ ~c.over => c.made = CipherMade(c.given)
    /\ use.out # "unknown" =>
         \E a \in Nat, b \in Nat :
            /\ a <= b /\ b <= c.made /\ c.incomplete_base64 = Stretch(a, b)
            /\ t = Stretch(0, a) \o Stretch(b, c.made)
            /\ ~c.over => b = c.made

\* The invariant: the object in use is right, and the other one is new.
CiphersInv ==
    /\ use \in Use
    /\ text \in Seq(Nat)
    /\ use.object = "Cipher" => decipher = NewDecipher /\ CipherOK(cipher, text)
    /\ use.object = "Decipher" => cipher = NewCipher /\ DecipherOK(decipher, text)

-----------------------------------------------------------------------------
\* Ciphers: blocks, and stretches of positions.

\* Whole blocks: of symbolic size, and as many as fit.
LEMMA DivType == ASSUME NEW B \in Nat \ {0}, NEW x \in Nat PROVE x \div B \in Nat
OBVIOUS

\* The whole blocks of x, and less than one block more.
LEMMA DivBounds == ASSUME NEW B \in Nat \ {0}, NEW x \in Nat PROVE (x \div B) * B <= x /\ x < (x \div B) * B + B
OBVIOUS

\* A position before K blocks is in one of them.
LEMMA DivBlock == ASSUME NEW B \in Nat \ {0}, NEW x \in Nat, NEW K \in Nat, x < K * B PROVE x \div B < K
OBVIOUS

\* The number of whole blocks.
LEMMA DivWhole == ASSUME NEW B \in Nat \ {0}, NEW j \in Nat PROVE (j * B) \div B = j
OBVIOUS

\* More blocks are more bytes.
LEMMA BlocksMonotone == ASSUME NEW B \in Nat \ {0}, NEW j \in Nat, NEW K \in Nat, j <= K PROVE j * B <= K * B
OBVIOUS

\* One block more.
LEMMA BlockMore == ASSUME NEW B \in Nat \ {0}, NEW j \in Nat PROVE j * B \in Nat /\ (j + 1) * B = j * B + B
OBVIOUS

\* The positions of a stretch.
LEMMA StretchType ==
    ASSUME NEW a \in Nat, NEW b \in Nat, a <= b
    PROVE  /\ Stretch(a, b) \in Seq(Nat) /\ Len(Stretch(a, b)) = b - a
           /\ \A i \in 1..(b - a) : Stretch(a, b)[i] = a + i
<1>1. b - a \in Nat OBVIOUS
<1>2. \A i \in 1..(b - a) : a + i \in Nat OBVIOUS
<1> QED BY <1>1, <1>2 DEF Stretch

\* No positions.
LEMMA StretchEmpty == ASSUME NEW a \in Nat, NEW b \in Nat, b <= a PROVE Stretch(a, b) = <<>>
<1>1. 1..(b - a) = {} OBVIOUS
<1>2. Stretch(a, b) \in Seq(Nat) /\ Len(Stretch(a, b)) = 0
  <2>1. Stretch(a, b) = [i \in {} |-> a + i] BY <1>1 DEF Stretch
  <2>2. <<>> = [i \in {} |-> a + i] /\ <<>> \in Seq(Nat) /\ Len(<<>>) = 0 OBVIOUS
  <2> QED BY <2>1, <2>2
<1> QED BY <1>2

\* A sequence of positions that go up by one.
LEMMA StretchIs ==
    ASSUME NEW a \in Nat, NEW b \in Nat, a <= b, NEW s \in Seq(Nat), Len(s) = b - a, \A i \in 1..(b - a) : s[i] = a + i
    PROVE  s = Stretch(a, b)
<1>p. PICK t \in Seq(Nat) : t = Stretch(a, b) BY StretchType
<1>1. Len(t) = b - a /\ \A i \in 1..(b - a) : t[i] = a + i BY <1>p, StretchType
<1>2. Len(s) = Len(t) /\ \A i \in 1..Len(s) : s[i] = t[i] BY <1>1
<1> QED BY <1>2, <1>p

\* Two parts of it.
LEMMA StretchHead ==
    ASSUME NEW a \in Nat, NEW b \in Nat, NEW c \in Nat, a <= b, b <= c
    PROVE  SubSeq(Stretch(a, c), 1, b - a) = Stretch(a, b)
<1>0. a <= c OBVIOUS
<1>p. PICK t \in Seq(Nat) : t = Stretch(a, c) BY <1>0, StretchType
<1>1. Len(t) = c - a /\ \A i \in 1..(c - a) : t[i] = a + i BY <1>0, <1>p, StretchType
<1>n. PICK n \in Nat : n = b - a OBVIOUS
<1>2. n <= Len(t) BY <1>1, <1>n
<1>s. PICK s : s = SubSeq(t, 1, n) OBVIOUS
<1>3. s \in Seq(Nat) /\ Len(s) = n /\ \A i \in 1..n : s[i] = t[i] BY <1>2, <1>s
<1>4. \A i \in 1..(b - a) : s[i] = a + i BY <1>1, <1>3, <1>n
<1>5. s = Stretch(a, b) BY <1>3, <1>4, <1>n, StretchIs
<1> QED BY <1>5, <1>s, <1>n, <1>p

\* The second one.
LEMMA StretchTail ==
    ASSUME NEW a \in Nat, NEW b \in Nat, NEW c \in Nat, a <= b, b <= c
    PROVE  SubSeq(Stretch(a, c), b - a + 1, c - a) = Stretch(b, c)
<1>0. a <= c OBVIOUS
<1>p. PICK t \in Seq(Nat) : t = Stretch(a, c) BY <1>0, StretchType
<1>1. Len(t) = c - a /\ \A i \in 1..(c - a) : t[i] = a + i BY <1>0, <1>p, StretchType
<1>n. PICK n \in Nat : n = b - a OBVIOUS
<1>m. PICK m \in Nat : m = c - a OBVIOUS
<1>2. n <= m /\ Len(t) = m BY <1>1, <1>n, <1>m
<1>s. PICK s : s = SubSeq(t, n + 1, m) OBVIOUS
<1>3. s \in Seq(Nat) /\ Len(s) = m - n /\ \A i \in 1..(m - n) : s[i] = t[n + i]
  <2>1. s \in Seq(Nat) BY <1>2, <1>s
  <2>2. Len(s) = m - n BY <1>2, <1>s
  <2>3. \A i \in 1..(m - n) : s[i] = t[n + i] BY <1>2, <1>s
  <2> QED BY <2>1, <2>2, <2>3
<1>4. m - n = c - b BY <1>n, <1>m
<1>5. \A i \in 1..(c - b) : s[i] = b + i
  <2> SUFFICES ASSUME NEW i \in 1..(c - b) PROVE s[i] = b + i
    OBVIOUS
  <2>1. s[i] = t[n + i] BY <1>3, <1>4
  <2>2. n + i \in 1..(c - a) BY <1>n, <1>m
  <2>3. t[n + i] = a + (n + i) BY <1>1, <2>2
  <2> QED BY <2>1, <2>3, <1>n
<1>6. s = Stretch(b, c) BY <1>3, <1>4, <1>5, StretchIs
<1> QED BY <1>6, <1>s, <1>n, <1>m, <1>p

\* And the two together.
LEMMA StretchJoin ==
    ASSUME NEW a \in Nat, NEW b \in Nat, NEW c \in Nat, a <= b, b <= c
    PROVE  Stretch(a, b) \o Stretch(b, c) = Stretch(a, c)
<1>p. PICK s \in Seq(Nat) : s = Stretch(a, b) BY StretchType
<1>q. PICK t \in Seq(Nat) : t = Stretch(b, c) BY StretchType
<1>1. Len(s) = b - a /\ \A i \in 1..(b - a) : s[i] = a + i BY <1>p, StretchType
<1>2. Len(t) = c - b /\ \A i \in 1..(c - b) : t[i] = b + i BY <1>q, StretchType
<1>r. PICK r : r = s \o t OBVIOUS
<1>3. /\ r \in Seq(Nat) /\ Len(r) = Len(s) + Len(t)
      /\ \A i \in 1..(Len(s) + Len(t)) : r[i] = IF i <= Len(s) THEN s[i] ELSE t[i - Len(s)]
  BY <1>r
<1>4. Len(r) = c - a BY <1>1, <1>2, <1>3
<1>5. \A i \in 1..(c - a) : r[i] = a + i
  <2> SUFFICES ASSUME NEW i \in 1..(c - a) PROVE r[i] = a + i
    OBVIOUS
  <2>1. i \in 1..(Len(s) + Len(t)) BY <1>1, <1>2
  <2>2. CASE i <= Len(s) BY <1>1, <1>3, <2>1, <2>2
  <2>3. CASE i > Len(s)
    <3>1. r[i] = t[i - Len(s)] BY <1>3, <2>1, <2>3, <1>1
    <3>2. i - Len(s) \in 1..(c - b) BY <1>1, <2>3
    <3>3. t[i - Len(s)] = b + (i - Len(s)) BY <1>2, <3>2
    <3> QED BY <1>1, <3>1, <3>3
  <2> QED BY <1>1, <2>2, <2>3
<1>6. r = Stretch(a, c) BY <1>3, <1>4, <1>5, StretchIs
<1> QED BY <1>6, <1>p, <1>q, <1>r

\* What is kept of a stretch that is inside or outside of a set.
LEMMA StretchInside ==
    ASSUME NEW a \in Nat, NEW b \in Nat, a <= b, NEW S, \A i \in a+1..b : i \in S
    PROVE  Kept(Stretch(a, b), S) = Stretch(a, b)
<1>p. PICK s \in Seq(Nat) : s = Stretch(a, b) BY StretchType
<1>1. Len(s) = b - a /\ \A i \in 1..(b - a) : s[i] = a + i BY <1>p, StretchType
<1>2. \A i \in 1..Len(s) : s[i] \in S
  <2> SUFFICES ASSUME NEW i \in 1..(b - a) PROVE s[i] \in S
    BY <1>1
  <2>1. a + i \in a+1..b OBVIOUS
  <2> QED BY <1>1, <2>1
<1>3. Kept(s, S) = s BY <1>2, KeptAll
<1> QED BY <1>3, <1>p

\* None of them is kept.
LEMMA StretchOutside ==
    ASSUME NEW a \in Nat, NEW b \in Nat, a <= b, NEW S, \A i \in a+1..b : i \notin S
    PROVE  Kept(Stretch(a, b), S) = <<>>
<1>p. PICK s \in Seq(Nat) : s = Stretch(a, b) BY StretchType
<1>1. Len(s) = b - a /\ \A i \in 1..(b - a) : s[i] = a + i BY <1>p, StretchType
<1>2. \A i \in 1..Len(s) : s[i] \notin S
  <2> SUFFICES ASSUME NEW i \in 1..(b - a) PROVE s[i] \notin S
    BY <1>1
  <2>1. a + i \in a+1..b OBVIOUS
  <2> QED BY <1>1, <2>1
<1>3. Kept(s, S) = <<>> BY <1>2, KeptNone
<1> QED BY <1>3, <1>p

\* A stretch from the start goes on; and what is kept of two sequences of positions.
LEMMA StretchOn == ASSUME NEW b \in Nat, NEW c \in Nat, b <= c PROVE Stretch(0, b) \o Stretch(b, c) = Stretch(0, c)
<1>z. PICK z \in Nat : z = 0 OBVIOUS
<1>1. z <= b BY <1>z
<1>2. Stretch(z, b) \o Stretch(b, c) = Stretch(z, c) BY <1>1, StretchJoin
<1> QED BY <1>2, <1>z

\* Kept is the one of both, for positions.
LEMMA KeptBoth ==
    ASSUME NEW S, NEW s \in Seq(Nat), NEW t \in Seq(Nat)
    PROVE  Kept(s \o t, S) = Kept(s, S) \o Kept(t, S)
<1>b. PICK B : B = Nat OBVIOUS
<1>1. s \in Seq(B) /\ t \in Seq(B) BY <1>b
<1> QED BY <1>1, KeptConcat, Zenon

-----------------------------------------------------------------------------
\* Ciphers: what a Cipher returned and kept.

\* Whole blocks of what was given, and more of them of more.
LEMMA CipherMadeType == ASSUME NEW n \in Nat PROVE CipherMade(n) \in Nat
<1>b. BlockSize \in Nat \ {0} BY CipherAssumption
<1>p. PICK k \in Nat : k = n \div BlockSize BY <1>b, DivType
<1>1. k * BlockSize \in Nat BY <1>b, BlockMore
<1> QED BY <1>1, <1>p DEF CipherMade

\* More input makes no fewer blocks.
LEMMA CipherMadeMore == ASSUME NEW m \in Nat, NEW n \in Nat, m <= n PROVE CipherMade(m) <= CipherMade(n)
<1>b. BlockSize \in Nat \ {0} BY CipherAssumption
<1>p. PICK k \in Nat : k = n \div BlockSize BY <1>b, DivType
<1>q. PICK j \in Nat : j = m \div BlockSize BY <1>b, DivType
<1>1. n < k * BlockSize + BlockSize BY <1>b, <1>p, DivBounds
<1>2. (k + 1) * BlockSize = k * BlockSize + BlockSize /\ k * BlockSize \in Nat BY <1>b, BlockMore
<1>k. PICK K \in Nat : K = k + 1 OBVIOUS
<1>x. PICK x \in Nat : x = k * BlockSize BY <1>2
<1>y. PICK y : y = K * BlockSize OBVIOUS
<1>3. m < K * BlockSize
  <2>1. n < x + BlockSize /\ y = x + BlockSize BY <1>1, <1>2, <1>k, <1>x, <1>y
  <2>2. m < y BY <1>b, <2>1
  <2> QED BY <2>2, <1>y
<1>4. m \div BlockSize < K BY <1>b, <1>3, DivBlock
<1>5. j <= k BY <1>4, <1>q, <1>k
<1>6. j * BlockSize <= k * BlockSize BY <1>b, <1>5, BlocksMonotone
<1> QED BY <1>6, <1>p, <1>q DEF CipherMade

\* The two parts that a stretch is cut into.
LEMMA CutIs ==
    ASSUME NEW a \in Nat, NEW m \in Nat, a <= m, NEW rest \in 0..(m - a)
    PROVE  Without(Stretch(a, m), rest) = Stretch(a, m - rest) /\ Overhang(Stretch(a, m), rest) = Stretch(m - rest, m)
<1>p. PICK s \in Seq(Nat) : s = Stretch(a, m) BY StretchType
<1>1. Len(s) = m - a BY <1>p, StretchType
<1>b. PICK b \in Nat : b = m - rest OBVIOUS
<1>2. a <= b /\ b <= m BY <1>b
<1>3. SubSeq(s, 1, b - a) = Stretch(a, b) BY <1>2, <1>p, StretchHead
<1>4. SubSeq(s, b - a + 1, m - a) = Stretch(b, m) BY <1>2, <1>p, StretchTail
<1>5. Len(s) - rest = b - a BY <1>1, <1>b
<1>6. Without(s, rest) = Stretch(a, b) BY <1>3, <1>5 DEF Without
<1>7. Overhang(s, rest) = Stretch(b, m) BY <1>1, <1>4, <1>5 DEF Overhang
<1> QED BY <1>6, <1>7, <1>b, <1>p

\* What the Cipher has returned and kept so far.
LEMMA CipherSoFar ==
    ASSUME CipherOK(cipher, text), use.out # "unknown", ~cipher.over
    PROVE  \E a \in Nat : /\ a <= cipher.made /\ cipher.incomplete_base64 = Stretch(a, cipher.made)
                          /\ text = Stretch(0, a) /\ (use.out # "base64" => a = cipher.made)
<1>1. PICK a \in Nat, b \in Nat :
         /\ a <= b /\ cipher.incomplete_base64 = Stretch(a, b)
         /\ text = Stretch(0, a) \o Stretch(b, cipher.made) /\ b = cipher.made
  BY DEF CipherOK
<1>2. Stretch(b, b) = <<>> BY StretchEmpty
<1>p. PICK s \in Seq(Nat) : s = Stretch(0, a) BY StretchType
<1>3. s \o <<>> = s OBVIOUS
<1>4. text = Stretch(0, a) BY <1>1, <1>2, <1>3, <1>p
<1>5. ASSUME use.out # "base64" PROVE a = b
  <2>1. cipher.incomplete_base64 = <<>> BY <1>5 DEF CipherOK
  <2>2. Len(Stretch(a, b)) = b - a BY <1>1, StretchType
  <2>3. Len(Stretch(a, b)) = 0 BY <2>1, <1>1
  <2> QED BY <2>2, <2>3
<1> QED BY <1>1, <1>4, <1>5

\* It carries on so, with a new object and new text.
LEMMA CipherGoesOn ==
    ASSUME NEW c \in CipherRecord, NEW a \in Nat, a <= c.made, c.incomplete_base64 = Stretch(a, c.made),
           ~c.over, c.made = CipherMade(c.given), c.made - a < 3, use.out # "base64" => a = c.made
    PROVE  CipherOK(c, Stretch(0, a))
<1>0. c.made \in Nat BY DEF CipherRecord
<1>1. Stretch(c.made, c.made) = <<>> BY <1>0, StretchEmpty
<1>p. PICK s \in Seq(Nat) : s = Stretch(0, a) BY StretchType
<1>2. s \o <<>> = s OBVIOUS
<1>3. s = Stretch(0, a) \o Stretch(c.made, c.made) BY <1>1, <1>2, <1>p
<1>m. PICK m \in Nat : m = c.made BY <1>0
<1>4. Len(c.incomplete_base64) = m - a BY <1>m, StretchType
<1>5. use.out # "base64" => c.incomplete_base64 = <<>> BY <1>1
<1>6. \E i \in Nat, j \in Nat : /\ i <= j /\ j <= c.made /\ c.incomplete_base64 = Stretch(i, j)
                                /\ s = Stretch(0, i) \o Stretch(j, c.made)
                                /\ ~c.over => j = c.made
  <2>1. c.made <= c.made BY <1>0
  <2> WITNESS a \in Nat, c.made \in Nat
  <2> QED BY <1>0, <1>3, <2>1
<1>7. Len(c.incomplete_base64) < 3 BY <1>4, <1>m
<1>8. CipherOK(c, s) BY <1>5, <1>6, <1>7 DEF CipherOK
<1> QED BY <1>8, <1>p

\* init, update and final.
LEMMA CipherInitOK ==
    ASSUME CipherOK(cipher, text), CipherInit
    PROVE  CipherOK(cipher', text')
<1>1. cipher = NewCipher /\ cipher' = [NewCipher EXCEPT !.initialised = TRUE] /\ text' = text
  <2>1. cipher = NewCipher /\ cipher' = CipherContext([cipher EXCEPT !.incomplete_base64 = <<>>]) /\ text' = text
    BY DEF CipherInit
  <2>2. [NewCipher EXCEPT !.incomplete_base64 = <<>>] = NewCipher BY DEF NewCipher
  <2> QED BY <2>1, <2>2 DEF CipherContext
<1>2. 0 \in 0..MaxBytes BY CipherAssumption
<1>3. /\ cipher'.over = FALSE /\ cipher'.given = 0 /\ cipher'.made = 0 /\ cipher'.incomplete_base64 = <<>>
      /\ cipher.over = FALSE /\ cipher.given = 0 /\ cipher.made = 0 /\ cipher.incomplete_base64 = <<>>
  BY <1>1 DEF NewCipher
<1>4. cipher' \in CipherRecord 
  <2>1. NewCipher \in CipherRecord
    <3>1. <<>> \in Seq(Nat) OBVIOUS
    <3> QED BY <1>2, <3>1 DEF NewCipher, CipherRecord
  <2> QED BY <1>1, <2>1 DEF CipherRecord
<1> QED BY <1>1, <1>3, <1>4 DEF CipherOK

-----------------------------------------------------------------------------
\* Ciphers: the steps of a Cipher.

\* update returns whole groups and keeps the rest, for any number of bytes.
LEMMA CipherUpdateOK ==
    ASSUME CipherOK(cipher, text), NEW n \in 0..MaxPiece, CipherUpdate(n)
    PROVE  CipherOK(cipher', text')
<1>0. cipher \in CipherRecord /\ cipher.initialised /\ ~cipher.over /\ cipher.made = CipherMade(cipher.given)
      /\ cipher.given + n <= MaxBytes
  BY DEF CipherUpdate, CipherOK
<1>t. cipher.given \in 0..MaxBytes /\ cipher.made \in Nat /\ MaxBytes \in Nat /\ MaxPiece \in Nat
  BY <1>0, CipherAssumption DEF CipherRecord
<1>g. PICK given \in 0..MaxBytes : given = cipher.given + n BY <1>0, <1>t
<1>m. PICK made \in Nat : made = CipherMade(given) BY CipherMadeType, <1>t
<1>1. cipher.made <= made BY <1>0, <1>t, <1>g, <1>m, CipherMadeMore
<1>c. PICK c : c = [cipher EXCEPT !.given = given, !.made = made] OBVIOUS
<1>2. /\ c \in CipherRecord /\ ~c.over /\ c.initialised /\ c.given = given /\ c.made = made
      /\ c.incomplete_base64 = cipher.incomplete_base64
  BY <1>0, <1>c DEF CipherRecord
<1>3. IF made = cipher.made \/ use.out = "unknown"
      THEN cipher' = c /\ text' = text
      ELSE CipherReturn(c, Stretch(cipher.made, made))
  BY <1>c, <1>g, <1>m DEF CipherUpdate
<1>4. CASE use.out = "unknown"
  <2>1. cipher' = c /\ text' = text BY <1>3, <1>4
  <2>2. CipherOK(c, text) BY <1>2, <1>4, <1>m DEF CipherOK
  <2> QED BY <2>1, <2>2
<1>5. CASE use.out # "unknown"
  <2>1. PICK a \in Nat : /\ a <= cipher.made /\ cipher.incomplete_base64 = Stretch(a, cipher.made)
                         /\ text = Stretch(0, a) /\ (use.out # "base64" => a = cipher.made)
    BY <1>0, <1>5, CipherSoFar
  <2>2. CASE made = cipher.made
    <3>1. cipher' = c /\ text' = Stretch(0, a) BY <1>3, <2>1, <2>2
    <3>2. c.made - a < 3
      <4>1. Len(Stretch(a, cipher.made)) = cipher.made - a BY <1>t, <2>1, StretchType
      <4>2. Len(cipher.incomplete_base64) < 3 BY DEF CipherOK
      <4> QED BY <1>2, <2>1, <2>2, <4>1, <4>2
    <3>3. CipherOK(c, Stretch(0, a)) BY <1>2, <1>m, <2>1, <2>2, <3>2, CipherGoesOn
    <3> QED BY <3>1, <3>3
  <2>3. CASE made # cipher.made
    <3>1. CipherReturn(c, Stretch(cipher.made, made)) BY <1>3, <1>5, <2>3
    <3>r. PICK rest \in 0..2 : rest = IF use.out = "base64" THEN (made - a) % 3 ELSE 0
      <4>1. (made - a) \in Nat BY <1>1, <1>t, <2>1
      <4>2. (made - a) % 3 \in 0..2 BY <4>1
      <4> QED BY <4>2
    <3>0. a <= made BY <1>1, <1>t, <2>1
    <3>p. PICK all \in Seq(Nat) : all = Stretch(a, made) BY <3>0, StretchType
    <3>l. Len(all) = made - a BY <3>0, <3>p, StretchType
    <3>2. (IF use.out = "base64" THEN c.incomplete_base64 \o Stretch(cipher.made, made) ELSE Stretch(cipher.made, made)) = all
      <4>1. Stretch(a, cipher.made) \o Stretch(cipher.made, made) = all BY <1>1, <1>t, <2>1, <3>p, StretchJoin
      <4> QED BY <1>2, <2>1, <3>p, <4>1
    <3>3. text' = text \o Without(all, rest) /\ cipher' = [c EXCEPT !.incomplete_base64 = Overhang(all, rest)]
      BY <3>1, <3>2, <3>l, <3>r DEF CipherReturn
    <3>4. rest \in 0..(made - a)
      <4>1. CASE use.out = "base64"
        <5>k. PICK k \in Nat : k = made - a BY <3>0
        <5>1. k % 3 <= k BY <5>k
        <5> QED BY <3>r, <4>1, <5>1, <5>k
      <4>2. CASE use.out # "base64" BY <3>0, <3>r, <4>2
      <4> QED BY <4>1, <4>2
    <3>b. PICK b \in Nat : b = made - rest BY <3>0, <3>4
    <3>5. Without(all, rest) = Stretch(a, b) /\ Overhang(all, rest) = Stretch(b, made)
      BY <3>0, <3>4, <3>b, <3>p, CutIs
    <3>6. a <= b /\ b <= made /\ made - b = rest BY <3>0, <3>4, <3>b
    <3>7. text' = Stretch(0, b)
      <4>1. Stretch(0, a) \o Stretch(a, b) = Stretch(0, b) BY <3>6, StretchOn
      <4> QED BY <2>1, <3>3, <3>5, <4>1
    <3>d. PICK d : d = [c EXCEPT !.incomplete_base64 = Stretch(b, made)] OBVIOUS
    <3>8. Stretch(b, made) \in Seq(Nat) BY <3>6, StretchType
    <3>9. /\ d \in CipherRecord /\ ~d.over /\ d.made = made /\ d.given = given /\ d.incomplete_base64 = Stretch(b, made)
      BY <1>2, <3>8, <3>d DEF CipherRecord
    <3>10. d.made - b < 3 BY <3>6, <3>9
    <3>11. use.out # "base64" => b = d.made BY <3>b, <3>9, <3>r
    <3>12. CipherOK(d, Stretch(0, b)) BY <1>m, <3>6, <3>9, <3>10, <3>11, CipherGoesOn
    <3> QED BY <3>3, <3>5, <3>7, <3>12, <3>d
  <2> QED BY <2>2, <2>3
<1> QED BY <1>4, <1>5

\* final leaves the overhang out.
LEMMA CipherFinalOK ==
    ASSUME CipherOK(cipher, text), CipherFinal
    PROVE  CipherOK(cipher', text')
<1>0. cipher \in CipherRecord /\ cipher.initialised /\ ~cipher.over /\ cipher.made = CipherMade(cipher.given)
  BY DEF CipherFinal, CipherOK
<1>t. cipher.given \in 0..MaxBytes /\ cipher.made \in Nat /\ MaxBytes \in Nat /\ BlockSize \in Nat
  BY <1>0, CipherAssumption DEF CipherRecord
<1>m. PICK made \in Nat : made = CipherMadeAtEnd(cipher.given) BY <1>0, <1>t DEF CipherMadeAtEnd
<1>1. cipher.made <= made BY <1>0, <1>t, <1>m DEF CipherMadeAtEnd
<1>c. PICK c : c = [cipher EXCEPT !.initialised = FALSE, !.over = TRUE, !.made = made] OBVIOUS
<1>2. /\ c \in CipherRecord /\ c.over /\ ~c.initialised /\ c.made = made
      /\ c.incomplete_base64 = cipher.incomplete_base64
  BY <1>0, <1>c DEF CipherRecord
<1>3. cipher' = c /\ text' = IF use.out = "unknown" THEN text ELSE text \o Stretch(cipher.made, made)
  BY <1>c, <1>m DEF CipherFinal
<1>4. Len(c.incomplete_base64) < 3 /\ (use.out # "base64" => c.incomplete_base64 = <<>>) BY <1>2 DEF CipherOK
<1>5. CASE use.out = "unknown" BY <1>2, <1>3, <1>4, <1>5 DEF CipherOK
<1>6. CASE use.out # "unknown"
  <2>1. PICK a \in Nat : /\ a <= cipher.made /\ cipher.incomplete_base64 = Stretch(a, cipher.made)
                         /\ text = Stretch(0, a) /\ (use.out # "base64" => a = cipher.made)
    BY <1>0, <1>6, CipherSoFar
  <2>b. PICK b \in Nat : b = cipher.made BY <1>t
  <2>2. text' = Stretch(0, a) \o Stretch(b, c.made) BY <1>2, <1>3, <1>6, <2>1, <2>b
  <2>3. \E i \in Nat, j \in Nat : /\ i <= j /\ j <= c.made /\ c.incomplete_base64 = Stretch(i, j)
                                  /\ text' = Stretch(0, i) \o Stretch(j, c.made)
                                  /\ ~c.over => j = c.made
    <3> WITNESS a \in Nat, b \in Nat
    <3> QED BY <1>1, <1>2, <2>1, <2>2, <2>b
  <2> QED BY <1>2, <1>3, <1>4, <2>3 DEF CipherOK
<1> QED BY <1>5, <1>6

\* Nothing else is in the texts, and nothing twice.
LEMMA CipherKeeps == ASSUME CipherOK(cipher, text), use.out # "unknown" PROVE
    \/ ~cipher.over /\ text \o cipher.incomplete_base64 = Stretch(0, cipher.made)
    \/ cipher.over /\ Kept(Stretch(0, cipher.made), (1..cipher.made) \ Range(cipher.incomplete_base64)) = text
<1>m. PICK m \in Nat : m = cipher.made BY DEF CipherOK, CipherRecord
<1>1. CASE ~cipher.over
  <2>1. PICK a \in Nat : a <= m /\ cipher.incomplete_base64 = Stretch(a, m) /\ text = Stretch(0, a)
    BY <1>1, <1>m, CipherSoFar
  <2>2. Stretch(0, a) \o Stretch(a, m) = Stretch(0, m) BY <2>1, StretchOn
  <2> QED BY <1>1, <1>m, <2>1, <2>2
<1>2. CASE cipher.over
  <2>1. PICK a \in Nat, b \in Nat : /\ a <= b /\ b <= m /\ cipher.incomplete_base64 = Stretch(a, b)
                                    /\ text = Stretch(0, a) \o Stretch(b, m)
    BY <1>m DEF CipherOK
  <2>s. PICK S : S = (1..m) \ Range(Stretch(a, b)) OBVIOUS
  <2>2. \A i \in Nat : i \in Range(Stretch(a, b)) <=> i \in a+1..b
    <3>p. PICK s \in Seq(Nat) : s = Stretch(a, b) BY <2>1, StretchType
    <3>1. Len(s) = b - a /\ \A i \in 1..(b - a) : s[i] = a + i BY <2>1, <3>p, StretchType
    <3>2. ASSUME NEW i \in Nat, i \in Range(s) PROVE i \in a+1..b
      <4>1. PICK j \in DOMAIN s : s[j] = i BY <3>2 DEF Range
      <4>2. j \in 1..(b - a) BY <3>1
      <4> QED BY <3>1, <4>1, <4>2
    <3>3. ASSUME NEW i \in Nat, i \in a+1..b PROVE i \in Range(s)
      <4>j. PICK j \in 1..(b - a) : j = i - a BY <3>3
      <4>1. s[j] = i BY <3>1, <3>3, <4>j
      <4>2. j \in DOMAIN s BY <3>1
      <4> QED BY <4>1, <4>2 DEF Range
    <3> QED BY <3>2, <3>3, <3>p
  <2>3. (\A i \in 1..a : i \in S) /\ (\A i \in b+1..m : i \in S) /\ \A i \in a+1..b : i \notin S
    BY <2>1, <2>2, <2>s
  <2>4. Kept(Stretch(0, a), S) = Stretch(0, a)
    <3>1. \A i \in 0+1..a : i \in S BY <2>3
    <3> QED BY <3>1, StretchInside
  <2>5. Kept(Stretch(a, b), S) = <<>> BY <2>1, <2>3, StretchOutside
  <2>6. Kept(Stretch(b, m), S) = Stretch(b, m) BY <2>1, <2>3, StretchInside
  <2>x. PICK x \in Seq(Nat) : x = Stretch(0, a) BY StretchType
  <2>y. PICK y \in Seq(Nat) : y = Stretch(a, b) BY <2>1, StretchType
  <2>z. PICK z \in Seq(Nat) : z = Stretch(b, m) BY <2>1, StretchType
  <2>w. PICK w : w = x \o y OBVIOUS
  <2>7. w \in Seq(Nat) BY <2>w
  <2>8. Kept(w, S) = x \o <<>>
    <3>1. Kept(x \o y, S) = Kept(x, S) \o Kept(y, S) BY KeptBoth
    <3> QED BY <2>4, <2>5, <2>x, <2>y, <2>w, <3>1
  <2>9. Kept(w \o z, S) = (x \o <<>>) \o z
    <3>1. Kept(w \o z, S) = Kept(w, S) \o Kept(z, S) BY <2>7, KeptBoth
    <3> QED BY <2>6, <2>8, <2>z, <3>1
  <2>10. w \o z = Stretch(0, m)
    <3>1. Stretch(0, a) \o Stretch(a, b) = Stretch(0, b) BY <2>1, StretchOn
    <3>2. Stretch(0, b) \o Stretch(b, m) = Stretch(0, m) BY <2>1, StretchOn
    <3> QED BY <2>w, <2>x, <2>y, <2>z, <3>1, <3>2
  <2>11. x \o <<>> = x OBVIOUS
  <2>12. Kept(Stretch(0, m), S) = text BY <2>1, <2>9, <2>10, <2>11, <2>x, <2>z
  <2> QED BY <1>2, <1>m, <2>1, <2>12, <2>s
<1> QED BY <1>1, <1>2

-----------------------------------------------------------------------------
\* Ciphers: the ciphertext, and what EVP makes of it.

\* What the application asks of a Decipher.
LEMMA UseIs ==
    ASSUME use \in Use, use.object = "Decipher"
    PROVE  /\ use.from \in {"binary", "hex", "base64"} /\ use.to \in {"binary", "utf8"}
           /\ use.pad \in {"pkcs", "zero", "bad"} /\ use.final \in {"final", "finaltol"}
           /\ use.to = "utf8" => use.from = "binary" /\ use.pad = "pkcs"
BY DEF Use

\* The object in use is one of the two.
LEMMA UseOf == ASSUME use \in Use PROVE use.object \in {"Cipher", "Decipher"}
BY DEF Use

\* The length of the ciphertext, and of its text.
LEMMA CipherLengthIs ==
    /\ CipherLength \in Nat /\ Len(Plaintext) \in Nat /\ Len(Plaintext) <= CipherLength
    /\ use.pad # "zero" => Len(Plaintext) < CipherLength /\ CipherLength <= Len(Plaintext) + BlockSize
<1>b. BlockSize \in Nat \ {0} /\ Plaintext \in Seq({"1", "2", "3", "4", "c"}) BY CipherAssumption
<1>l. PICK l \in Nat : l = Len(Plaintext) BY <1>b
<1>1. CASE use.pad = "zero"
  <2>x. PICK x \in Nat : x = l + BlockSize - 1 BY <1>b
  <2>k. PICK k \in Nat : k = x \div BlockSize BY <1>b, DivType
  <2>1. x < k * BlockSize + BlockSize BY <1>b, <2>k, DivBounds
  <2>2. k * BlockSize \in Nat BY <1>b, BlockMore
  <2>3. CipherLength = k * BlockSize BY <1>1, <1>l, <2>x, <2>k DEF CipherLength
  <2> QED BY <1>1, <1>b, <1>l, <2>1, <2>2, <2>3, <2>x
<1>2. CASE use.pad # "zero"
  <2>k. PICK k \in Nat : k = l \div BlockSize BY <1>b, DivType
  <2>1. k * BlockSize <= l /\ l < k * BlockSize + BlockSize BY <1>b, <2>k, DivBounds
  <2>2. k * BlockSize \in Nat /\ (k + 1) * BlockSize = k * BlockSize + BlockSize BY <1>b, BlockMore
  <2>3. CipherLength = (k + 1) * BlockSize BY <1>2, <1>l, <2>k DEF CipherLength
  <2>x. PICK x \in Nat : x = k * BlockSize BY <2>2
  <2>4. CipherLength = x + BlockSize /\ x <= l /\ l < x + BlockSize BY <2>1, <2>2, <2>3, <2>x
  <2> QED BY <1>2, <1>b, <1>l, <2>4
<1> QED BY <1>1, <1>2

\* The text read is not longer than what it stands for, and the whole text stands for all of it.
LEMMA FedToIs ==
    ASSUME use \in Use, use.object = "Decipher", NEW r \in Nat, r <= TextLength
    PROVE  FedTo(r) \in Nat /\ FedTo(r) <= CipherLength /\ (r = TextLength => FedTo(r) = CipherLength)
<1>c. PICK c \in Nat : c = CipherLength BY CipherLengthIs
<1>u. use.from \in {"binary", "hex", "base64"} BY UseIs
<1>1. CASE use.from = "binary"
  <2>1. TextLength = c /\ FedTo(r) = r BY <1>1, <1>c DEF TextLength, FedTo
  <2> QED BY <1>c, <2>1
<1>2. CASE use.from = "hex"
  <2>1. TextLength = 2 * c /\ FedTo(r) = r \div 2 BY <1>2, <1>c DEF TextLength, FedTo
  <2>2. r <= 2 * c BY <2>1
  <2>3. r \div 2 \in Nat /\ r \div 2 <= c /\ (r = 2 * c => r \div 2 = c) BY <2>2
  <2> QED BY <1>c, <2>1, <2>3
<1>3. CASE use.from = "base64"
  <2>x. PICK x \in Nat : x = 3 * (r \div 4) OBVIOUS
  <2>1. TextLength = ((c + 2) \div 3) * 4 BY <1>3, <1>c DEF TextLength
  <2>2. FedTo(r) = IF x <= c THEN x ELSE c BY <1>3, <1>c, <2>x DEF FedTo
  <2>3. ASSUME r = TextLength PROVE x >= c
    <3>y. PICK y \in Nat : y = (c + 2) \div 3 OBVIOUS
    <3>1. 3 * y >= c BY <3>y
    <3>2. r = y * 4 BY <2>1, <2>3, <3>y
    <3>3. r \div 4 = y BY <3>2
    <3> QED BY <2>x, <3>1, <3>3
  <2> QED BY <1>c, <2>2, <2>3
<1> QED BY <1>u, <1>1, <1>2, <1>3

\* The length of the text is a number.
LEMMA TextLengthType == ASSUME use \in Use, use.object = "Decipher" PROVE TextLength \in Nat
<1>c. PICK c \in Nat : c = CipherLength BY CipherLengthIs
<1>u. use.from \in {"binary", "hex", "base64"} BY UseIs
<1>1. 2 * c \in Nat /\ ((c + 2) \div 3) * 4 \in Nat OBVIOUS
<1> QED BY <1>c, <1>u, <1>1 DEF TextLength

\* Blocks that EVP made plaintext of.
LEMMA DecipherMadeIs ==
    ASSUME NEW fed \in Seq(Nat)
    PROVE  /\ DecipherMade(fed) \in Nat /\ DecipherMade(fed) <= Len(fed)
           /\ \E k \in Nat : DecipherMade(fed) = k * BlockSize
           /\ fed = <<>> => DecipherMade(fed) = 0
           /\ fed # <<>> => DecipherMade(fed) < Len(fed) /\ Len(fed) <= DecipherMade(fed) + BlockSize
<1>b. BlockSize \in Nat \ {0} BY CipherAssumption
<1>1. CASE fed = <<>>
  <2>1. DecipherMade(fed) = 0 BY <1>1 DEF DecipherMade
  <2>2. 0 * BlockSize = 0 BY <1>b
  <2>3. \E k \in Nat : 0 = k * BlockSize BY <2>2
  <2>4. Len(fed) = 0 BY <1>1
  <2> QED BY <1>1, <2>1, <2>3, <2>4
<1>2. CASE fed # <<>>
  <2>x. PICK x \in Nat : x = Len(fed) - 1
    <3>1. Len(fed) # 0 BY <1>2
    <3> QED BY <3>1
  <2>k. PICK k \in Nat : k = x \div BlockSize BY <1>b, DivType
  <2>1. k * BlockSize <= x /\ x < k * BlockSize + BlockSize BY <1>b, <2>k, DivBounds
  <2>2. k * BlockSize \in Nat BY <1>b, BlockMore
  <2>3. DecipherMade(fed) = k * BlockSize BY <1>2, <2>x, <2>k DEF DecipherMade
  <2>m. PICK m \in Nat : m = k * BlockSize BY <2>2
  <2>4. m <= x /\ x < m + BlockSize BY <2>1, <2>m
  <2>5. m < Len(fed) /\ Len(fed) <= m + BlockSize BY <1>b, <2>4, <2>x
  <2> QED BY <1>2, <2>3, <2>5, <2>m
<1> QED BY <1>1, <1>2

\* More ciphertext makes no fewer blocks.
LEMMA DecipherMadeMore ==
    ASSUME NEW fed \in Seq(Nat), NEW more \in Seq(Nat), Len(fed) <= Len(more)
    PROVE  DecipherMade(fed) <= DecipherMade(more)
<1>b. BlockSize \in Nat \ {0} BY CipherAssumption
<1>1. PICK j \in Nat : DecipherMade(fed) = j * BlockSize BY DecipherMadeIs
<1>2. PICK k \in Nat : DecipherMade(more) = k * BlockSize BY DecipherMadeIs
<1>3. CASE fed = <<>>
  <2>1. DecipherMade(fed) = 0 BY <1>3, DecipherMadeIs
  <2>2. DecipherMade(more) \in Nat BY DecipherMadeIs
  <2> QED BY <2>1, <2>2
<1>4. CASE fed # <<>>
  <2>1. Len(fed) # 0 BY <1>4
  <2>2. more # <<>> BY <2>1
  <2>x. PICK x \in Nat : x = j * BlockSize BY <1>b, BlockMore
  <2>y. PICK y \in Nat : y = k * BlockSize BY <1>b, BlockMore
  <2>3. x < Len(fed) /\ Len(more) <= y + BlockSize BY <1>1, <1>2, <1>4, <2>2, <2>x, <2>y, DecipherMadeIs
  <2>4. x < y + BlockSize BY <1>b, <2>3
  <2>k. PICK K \in Nat : K = k + 1 OBVIOUS
  <2>5. K * BlockSize = y + BlockSize BY <1>b, <2>k, <2>y, BlockMore
  <2>6. j * BlockSize < K * BlockSize BY <2>4, <2>5, <2>x
  <2>7. j < K
    <3>1. (j * BlockSize) \div BlockSize = j BY <1>b, DivWhole
    <3>2. x \div BlockSize < K BY <1>b, <2>4, <2>5, DivBlock
    <3> QED BY <2>x, <3>1, <3>2
  <2>8. j <= k BY <2>7, <2>k
  <2>9. j * BlockSize <= k * BlockSize BY <1>b, <2>8, BlocksMonotone
  <2> QED BY <1>1, <1>2, <2>9
<1> QED BY <1>3, <1>4

\* What EVP makes of bytes: their number, and all of them if the bytes are the ciphertext's.
LEMMA DecipheredType ==
    ASSUME NEW fed, NEW m \in Nat, NEW n \in Nat, m <= n
    PROVE  Deciphered(fed, m, n) \in Seq(Nat) /\ Len(Deciphered(fed, m, n)) = n - m
<1>k. PICK k \in Nat : k = n - m OBVIOUS
<1>1. \A i \in 1..k : m + i \in Nat OBVIOUS
<1>2. Deciphered(fed, m, n) =
        [i \in 1..k |-> LET block == ((m + i - 1) \div BlockSize + 1) * BlockSize IN
                        IF \A j \in 1..block : fed[j] = j THEN m + i ELSE 0]
  BY <1>k, Zenon DEF Deciphered
<1> HIDE DEF Deciphered
<1>3. \A i \in 1..k : (LET block == ((m + i - 1) \div BlockSize + 1) * BlockSize IN
                        IF \A j \in 1..block : fed[j] = j THEN m + i ELSE 0) \in Nat
  <2> SUFFICES ASSUME NEW i \in 1..k
               PROVE (LET block == ((m + i - 1) \div BlockSize + 1) * BlockSize IN
                        IF \A j \in 1..block : fed[j] = j THEN m + i ELSE 0) \in Nat
    OBVIOUS
  <2>1. m + i \in Nat /\ 0 \in Nat BY <1>1
  <2> QED BY <2>1, Zenon
<1>4. Deciphered(fed, m, n) \in [1..k -> Nat] BY <1>2, <1>3, Zenon
<1> QED BY <1>4, <1>k

\* From a prefix of the ciphertext EVP makes the plaintext.
LEMMA DecipheredAll ==
    ASSUME NEW m \in Nat, NEW k \in Nat, NEW l \in Nat, m <= k * BlockSize, k * BlockSize <= l
    PROVE  Deciphered(Stretch(0, l), m, k * BlockSize) = Stretch(m, k * BlockSize)
<1>b. BlockSize \in Nat \ {0} BY CipherAssumption
<1>n. PICK n \in Nat : n = k * BlockSize BY <1>b, BlockMore
<1>0. m <= n /\ n <= l BY <1>n
<1>f. PICK fed \in Seq(Nat) : fed = Stretch(0, l) BY StretchType
<1>1. \A j \in 1..l : fed[j] = j
  <2>z. PICK z \in Nat : z = 0 OBVIOUS
  <2>1. z <= l BY <2>z
  <2>2. \A j \in 1..(l - z) : Stretch(z, l)[j] = z + j BY <2>1, StretchType
  <2> QED BY <2>2, <2>z, <1>f
<1>2. ASSUME NEW i \in 1..(n - m) PROVE \A j \in 1..(((m + i - 1) \div BlockSize + 1) * BlockSize) : fed[j] = j
  <2>x. PICK x \in Nat : x = m + i - 1 OBVIOUS
  <2>1. x < n BY <2>x
  <2>2. x < k * BlockSize BY <2>1, <1>n
  <2>3. x \div BlockSize < k BY <1>b, <2>2, DivBlock
  <2>d. PICK d \in Nat : d = x \div BlockSize BY <1>b, DivType
  <2>q. PICK q \in Nat : q = d + 1 OBVIOUS
  <2>4. q <= k BY <2>3, <2>q, <2>d
  <2>5. q * BlockSize <= k * BlockSize BY <1>b, <2>4, BlocksMonotone
  <2>y. PICK y \in Nat : y = q * BlockSize BY <1>b, BlockMore
  <2>6. y <= l BY <1>0, <1>n, <2>5, <2>y
  <2>7. \A j \in 1..y : fed[j] = j BY <1>1, <2>6
  <2> QED BY <2>7, <2>y, <2>q, <2>x, <2>d
<1>s. PICK s \in Seq(Nat) : s = Deciphered(fed, m, n) BY <1>0, DecipheredType
<1>3. Len(s) = n - m BY <1>0, <1>s, DecipheredType
<1>4. \A i \in 1..(n - m) : s[i] = m + i BY <1>2, <1>s, Zenon DEF Deciphered
<1>5. s = Stretch(m, n) BY <1>0, <1>3, <1>4, StretchIs
<1> QED BY <1>5, <1>f, <1>n, <1>s

-----------------------------------------------------------------------------
\* Ciphers: units of the text in binary and base64.

\* The next units of the text, decoded: nothing else of the object changes, and the ciphertext goes on
\* where it was unless a unit was torn.
Goes(d, n) ==
    /\ d \in DecipherRecord /\ d.read = decipher.read + n
    /\ d.made = decipher.made /\ d.incomplete_utf8 = decipher.incomplete_utf8
    /\ d.over = decipher.over /\ d.initialised = decipher.initialised
    /\ Len(decipher.fed) <= Len(d.fed)
    /\ ~d.torn => ~decipher.torn /\ ReadOK(d)

\* Two sequences of positions one after the other.
LEMMA ConcatLength == ASSUME NEW s \in Seq(Nat), NEW t \in Seq(Nat) PROVE s \o t \in Seq(Nat) /\ Len(s) <= Len(s \o t)
<1>1. Len(s \o t) = Len(s) + Len(t) /\ Len(t) \in Nat /\ Len(s) \in Nat OBVIOUS
<1> QED BY <1>1

\* Binary: every unit is a byte, and none is torn.
LEMMA DecodedBinary ==
    ASSUME decipher \in DecipherRecord, NEW n \in Nat, use.from = "binary", ~decipher.torn => ReadOK(decipher)
    PROVE  Goes(Decoded(n), n) /\ (~decipher.torn => ~Decoded(n).torn)
<1>r. PICK r \in Nat : r = decipher.read BY DEF DecipherRecord
<1>e. PICK e \in Nat : e = r + n OBVIOUS
<1>p. PICK piece \in Seq(Nat) : piece = Stretch(r, e) BY <1>e, StretchType
<1>f. PICK fed \in Seq(Nat) : fed = decipher.fed BY DEF DecipherRecord
<1>g. PICK g : g = fed \o piece OBVIOUS
<1>1. g \in Seq(Nat) /\ Len(fed) <= Len(g) BY <1>g, ConcatLength
<1>d. PICK d : d = Decoded(n) OBVIOUS
<1>2. d = [[decipher EXCEPT !.read = e] EXCEPT !.fed = g]
  <2>1. [decipher EXCEPT !.read = @ + n] = [decipher EXCEPT !.read = e] BY <1>r, <1>e
  <2>2. [[decipher EXCEPT !.read = e] EXCEPT !.fed = @ \o piece] = [[decipher EXCEPT !.read = e] EXCEPT !.fed = g]
    BY <1>f, <1>g DEF DecipherRecord
  <2>3. Decoded(n) = [[decipher EXCEPT !.read = @ + n] EXCEPT !.fed = @ \o Stretch(decipher.read, decipher.read + n)]
    BY DEF Decoded
  <2> QED BY <1>d, <1>e, <1>p, <1>r, <2>1, <2>2, <2>3
<1>3. /\ d \in DecipherRecord /\ d.read = e /\ d.fed = g /\ d.made = decipher.made
      /\ d.incomplete_utf8 = decipher.incomplete_utf8 /\ d.over = decipher.over
      /\ d.initialised = decipher.initialised /\ d.torn = decipher.torn
  BY <1>1, <1>2 DEF DecipherRecord
<1>4. ASSUME ~d.torn PROVE ReadOK(d)
  <2>1. ReadOK(decipher) BY <1>3, <1>4
  <2>2. fed = Stretch(0, r) BY <2>1, <1>f, <1>r DEF ReadOK, FedTo
  <2>3. Stretch(0, r) \o Stretch(r, e) = Stretch(0, e)
    <3>1. r <= e BY <1>e
    <3> QED BY <3>1, StretchOn
  <2>4. FedTo(e) = e BY DEF FedTo
  <2> QED BY <1>3, <1>g, <1>p, <2>2, <2>3, <2>4 DEF ReadOK
<1> QED BY <1>1, <1>3, <1>4, <1>d, <1>e, <1>f, <1>r DEF Goes

\* Base64: whole groups of four, as far as there is ciphertext.
LEMMA CappedStretch ==
    ASSUME NEW x \in Nat, NEW y \in Nat, x <= y, NEW c \in Nat
    PROVE  Stretch(0, IF x <= c THEN x ELSE c) \o Kept(Stretch(x, y), 0..c) = Stretch(0, IF y <= c THEN y ELSE c)
<1>1. CASE y <= c
  <2>1. \A i \in x+1..y : i \in 0..c BY <1>1
  <2>2. Kept(Stretch(x, y), 0..c) = Stretch(x, y) BY <2>1, StretchInside
  <2>3. Stretch(0, x) \o Stretch(x, y) = Stretch(0, y) BY StretchOn
  <2>4. x <= c BY <1>1
  <2> QED BY <1>1, <2>2, <2>3, <2>4
<1>2. CASE c < x
  <2>1. \A i \in x+1..y : i \notin 0..c BY <1>2
  <2>2. Kept(Stretch(x, y), 0..c) = <<>> BY <2>1, StretchOutside
  <2>3. ~(x <= c) /\ ~(y <= c) BY <1>2
  <2>p. PICK s \in Seq(Nat) : s = Stretch(0, c) BY StretchType
  <2>4. s \o <<>> = s OBVIOUS
  <2> QED BY <2>2, <2>3, <2>4, <2>p
<1>3. CASE x <= c /\ c < y
  <2>1. (\A i \in x+1..c : i \in 0..c) /\ (\A i \in c+1..y : i \notin 0..c) BY <1>3
  <2>2. Kept(Stretch(x, c), 0..c) = Stretch(x, c) BY <1>3, <2>1, StretchInside
  <2>3. Kept(Stretch(c, y), 0..c) = <<>>
    <3>1. c <= y BY <1>3
    <3> QED BY <2>1, <3>1, StretchOutside
  <2>a. PICK a \in Seq(Nat) : a = Stretch(x, c) BY <1>3, StretchType
  <2>b. PICK b \in Seq(Nat) : b = Stretch(c, y)
    <3>1. c <= y BY <1>3
    <3> QED BY <3>1, StretchType
  <2>4. a \o b = Stretch(x, y)
    <3>1. c <= y BY <1>3
    <3> QED BY <1>3, <2>a, <2>b, <3>1, StretchJoin
  <2>5. Kept(a \o b, 0..c) = Kept(a, 0..c) \o Kept(b, 0..c) BY KeptBoth
  <2>6. a \o <<>> = a OBVIOUS
  <2>7. Kept(Stretch(x, y), 0..c) = Stretch(x, c) BY <2>2, <2>3, <2>4, <2>5, <2>6, <2>a, <2>b
  <2>8. Stretch(0, x) \o Stretch(x, c) = Stretch(0, c) BY <1>3, StretchOn
  <2>9. ~(y <= c) BY <1>3
  <2> QED BY <1>3, <2>7, <2>8, <2>9
<1> QED BY <1>1, <1>2, <1>3

\* unbase64 of a piece: bytes, and at the start of a group the bytes that follow.
LEMMA Unbase64Is ==
    ASSUME NEW r \in Nat, NEW n \in Nat
    PROVE  /\ unbase64(r, n) \in Seq(Nat)
           /\ r % 4 = 0 => unbase64(r, n) = Kept(Stretch(3 * (r \div 4), 3 * (r \div 4) + 3 * (n \div 4)), 0..CipherLength)
<1>q. PICK q \in Nat : q = r \div 4 OBVIOUS
<1>k. PICK k \in Nat : k = 3 * (n \div 4) OBVIOUS
<1>x. PICK x \in Nat : x = 3 * q OBVIOUS
<1>b. PICK bytes : bytes = [i \in 1..k |-> IF r % 4 = 0 THEN x + i ELSE 0] OBVIOUS
<1>1. bytes \in Seq(Nat) /\ Len(bytes) = k
  <2>1. \A i \in 1..k : (IF r % 4 = 0 THEN x + i ELSE 0) \in Nat OBVIOUS
  <2> QED BY <1>b, <2>1
<1>2. unbase64(r, n) = Kept(bytes, 0..CipherLength)
  <2>1. [i \in 1..k |-> IF r % 4 = 0 THEN x + i ELSE 0]
          = [i \in 1..(3 * (n \div 4)) |-> IF r % 4 = 0 THEN 3 * (r \div 4) + i ELSE 0]
    BY <1>k, <1>q, <1>x
  <2> QED BY <1>b, <2>1 DEF unbase64
<1>b2. PICK B : B = Nat OBVIOUS
<1>3. Kept(bytes, 0..CipherLength) \in Seq(Nat)
  <2>s. PICK S : S = 0..CipherLength OBVIOUS
  <2>1. bytes \in Seq(B) BY <1>1, <1>b2
  <2>2. Kept(bytes, S) \in Seq(B) BY <2>1, KeptType
  <2> QED BY <1>b2, <2>2, <2>s
<1>4. ASSUME r % 4 = 0 PROVE bytes = Stretch(x, x + k)
  <2>y. PICK y \in Nat : y = x + k OBVIOUS
  <2>1. x <= y /\ Len(bytes) = y - x BY <1>1, <2>y
  <2>2. \A i \in 1..(y - x) : bytes[i] = x + i BY <1>4, <1>b, <2>y
  <2>3. bytes = Stretch(x, y) BY <1>1, <2>1, <2>2, StretchIs
  <2> QED BY <2>3, <2>y
<1> QED BY <1>2, <1>3, <1>4, <1>k, <1>q, <1>x

\* Base64: a piece of whole groups goes on where the last one ended.
LEMMA DecodedBase64 ==
    ASSUME decipher \in DecipherRecord, NEW n \in Nat, use.from = "base64", ~decipher.torn => ReadOK(decipher)
    PROVE  Goes(Decoded(n), n)
<1>r. PICK r \in Nat : r = decipher.read BY DEF DecipherRecord
<1>e. PICK e \in Nat : e = r + n OBVIOUS
<1>p. PICK more \in Seq(Nat) : more = unbase64(r, n) BY Unbase64Is
<1>f. PICK fed \in Seq(Nat) : fed = decipher.fed BY DEF DecipherRecord
<1>g. PICK g : g = fed \o more OBVIOUS
<1>1. g \in Seq(Nat) /\ Len(fed) <= Len(g) BY <1>g, ConcatLength
<1>t. PICK t \in BOOLEAN : t = (decipher.torn \/ n % 4 # 0) OBVIOUS
<1>d. PICK d : d = Decoded(n) OBVIOUS
<1>2. d = [[decipher EXCEPT !.read = e] EXCEPT !.fed = g, !.torn = t]
  <2>1. [decipher EXCEPT !.read = @ + n] = [decipher EXCEPT !.read = e] BY <1>r, <1>e
  <2>2. [[decipher EXCEPT !.read = e] EXCEPT !.fed = @ \o more, !.torn = @ \/ n % 4 # 0]
          = [[decipher EXCEPT !.read = e] EXCEPT !.fed = g, !.torn = t]
    BY <1>f, <1>g, <1>t DEF DecipherRecord
  <2>3. Decoded(n) = [[decipher EXCEPT !.read = @ + n] EXCEPT !.fed = @ \o unbase64(decipher.read, n), !.torn = @ \/ n % 4 # 0]
    BY DEF Decoded
  <2> QED BY <1>d, <1>p, <1>r, <2>1, <2>2, <2>3
<1>3. /\ d \in DecipherRecord /\ d.read = e /\ d.fed = g /\ d.made = decipher.made
      /\ d.incomplete_utf8 = decipher.incomplete_utf8 /\ d.over = decipher.over
      /\ d.initialised = decipher.initialised /\ d.torn = t
  BY <1>1, <1>2 DEF DecipherRecord
<1>4. ASSUME ~d.torn PROVE ReadOK(d)
  <2>1. ~decipher.torn /\ n % 4 = 0 BY <1>3, <1>4, <1>t
  <2>2. r % 4 = 0 /\ fed = Stretch(0, FedTo(r)) BY <2>1, <1>f, <1>r DEF ReadOK
  <2>c. PICK c \in Nat : c = CipherLength BY CipherLengthIs
  <2>x. PICK x \in Nat : x = 3 * (r \div 4) OBVIOUS
  <2>y. PICK y \in Nat : y = x + 3 * (n \div 4) BY <2>x
  <2>3. x <= y /\ e % 4 = 0 /\ y = 3 * (e \div 4)
    <3>1. e = r + n /\ r % 4 = 0 /\ n % 4 = 0 BY <1>e, <2>1, <2>2
    <3>2. e % 4 = 0 /\ e \div 4 = (r \div 4) + (n \div 4) BY <3>1
    <3> QED BY <2>x, <2>y, <3>2
  <2>4. more = Kept(Stretch(x, y), 0..c) BY <1>p, <2>2, <2>c, <2>x, <2>y, Unbase64Is
  <2>5. FedTo(r) = (IF x <= c THEN x ELSE c) /\ FedTo(e) = (IF y <= c THEN y ELSE c)
    BY <2>3, <2>c, <2>x DEF FedTo
  <2>6. Stretch(0, IF x <= c THEN x ELSE c) \o Kept(Stretch(x, y), 0..c) = Stretch(0, IF y <= c THEN y ELSE c)
    BY <2>3, CappedStretch
  <2>7. g = Stretch(0, FedTo(e)) BY <1>g, <2>2, <2>4, <2>5, <2>6
  <2> QED BY <1>3, <2>3, <2>7 DEF ReadOK
<1> QED BY <1>1, <1>3, <1>4, <1>d, <1>e, <1>f, <1>r, <1>t DEF Goes

-----------------------------------------------------------------------------
\* Ciphers: units of the text in hex.

\* Hex: the digits in pairs.
LEMMA HexDecodeIs ==
    ASSUME NEW digits \in Seq(Nat)
    PROVE  /\ HexDecode(digits) \in Seq(Nat)
           /\ Len(HexDecode(digits)) = Len(digits) \div 2
           /\ \A k \in 1..(Len(digits) \div 2) :
                HexDecode(digits)[k] = IF digits[2 * k - 1] % 2 = 1 /\ digits[2 * k] = digits[2 * k - 1] + 1
                                       THEN digits[2 * k] \div 2 ELSE 0
<1>l. PICK l \in Nat : l = Len(digits) OBVIOUS
<1>m. PICK m \in Nat : m = l \div 2 OBVIOUS
<1>1. \A k \in 1..m : 2 * k \in 1..l BY <1>m
<1>2. \A k \in 1..m : digits[2 * k] \in Nat BY <1>1, <1>l
<1>3. \A k \in 1..m : digits[2 * k] \div 2 \in Nat BY <1>2
<1>v. PICK v : v = [k \in 1..m |-> IF digits[2 * k - 1] % 2 = 1 /\ digits[2 * k] = digits[2 * k - 1] + 1
                                   THEN digits[2 * k] \div 2 ELSE 0]
  OBVIOUS
<1>4. HexDecode(digits) = v BY <1>l, <1>m, <1>v, Zenon DEF HexDecode
<1>5. \A k \in 1..m : (IF digits[2 * k - 1] % 2 = 1 /\ digits[2 * k] = digits[2 * k - 1] + 1
                       THEN digits[2 * k] \div 2 ELSE 0) \in Nat
  <2>1. 0 \in Nat OBVIOUS
  <2> QED BY <1>3, <2>1, Zenon
<1>6. v \in [1..m -> Nat] BY <1>5, <1>v, Zenon
<1>7. v \in Seq(Nat) /\ Len(v) = m BY <1>6
<1>8. \A k \in 1..m : v[k] = IF digits[2 * k - 1] % 2 = 1 /\ digits[2 * k] = digits[2 * k - 1] + 1
                             THEN digits[2 * k] \div 2 ELSE 0
  BY <1>v, Zenon
<1> QED BY <1>4, <1>7, <1>8, <1>l, <1>m

\* Digits that begin and end with a byte are those bytes.
LEMMA HexOfStretch ==
    ASSUME NEW s \in Nat, NEW e \in Nat, s <= e, s % 2 = 0, e % 2 = 0
    PROVE  HexDecode(Stretch(s, e)) = Stretch(s \div 2, e \div 2)
<1>a. PICK a \in Nat : a = s \div 2 OBVIOUS
<1>b. PICK b \in Nat : b = e \div 2 OBVIOUS
<1>1. s = 2 * a /\ e = 2 * b BY <1>a, <1>b
<1>2. a <= b BY <1>1
<1>d. PICK digits \in Seq(Nat) : digits = Stretch(s, e) BY StretchType
<1>3. Len(digits) = e - s /\ \A i \in 1..(e - s) : digits[i] = s + i BY <1>d, StretchType
<1>v. PICK v : v = HexDecode(digits) OBVIOUS
<1>4. Len(digits) \div 2 = b - a
  <2>n. PICK n \in Nat : n = b - a BY <1>2
  <2>1. Len(digits) = 2 * n BY <1>1, <1>3, <2>n
  <2>2. (2 * n) \div 2 = n OBVIOUS
  <2> QED BY <2>1, <2>2, <2>n
<1>5. /\ v \in Seq(Nat) /\ Len(v) = b - a
      /\ \A k \in 1..(b - a) : v[k] = IF digits[2 * k - 1] % 2 = 1 /\ digits[2 * k] = digits[2 * k - 1] + 1
                                      THEN digits[2 * k] \div 2 ELSE 0
  BY <1>4, <1>v, HexDecodeIs
<1>6. \A i \in 1..(b - a) : v[i] = a + i
  <2> SUFFICES ASSUME NEW i \in 1..(b - a) PROVE v[i] = a + i
    OBVIOUS
  <2>i. PICK j \in Nat : j = 2 * i OBVIOUS
  <2>1. j \in 1..(e - s) /\ j - 1 \in 1..(e - s) BY <1>1, <2>i
  <2>2. digits[j] = s + j /\ digits[j - 1] = s + (j - 1) BY <1>3, <2>1
  <2>3. (s + (j - 1)) % 2 = 1 /\ (s + j) \div 2 = a + i /\ s + j = (s + (j - 1)) + 1 BY <1>1, <2>i
  <2>4. digits[j - 1] % 2 = 1 /\ digits[j] = digits[j - 1] + 1 /\ digits[j] \div 2 = a + i BY <2>2, <2>3
  <2>5. v[i] = IF digits[j - 1] % 2 = 1 /\ digits[j] = digits[j - 1] + 1 THEN digits[j] \div 2 ELSE 0
    BY <1>5, <2>i
  <2> QED BY <2>4, <2>5
<1>7. v = Stretch(a, b) BY <1>2, <1>5, <1>6, StretchIs
<1> QED BY <1>7, <1>a, <1>b, <1>d, <1>v

\* The digits to decode, and what they are if none was torn.
LEMMA HexPieceIs ==
    ASSUME decipher \in DecipherRecord, NEW n \in Nat, use.from = "hex",
           NEW piece, piece = Stretch(decipher.read, decipher.read + n), NEW buf, buf = HexPiece(piece).buf
    PROVE  /\ buf \in Seq(Nat)
           /\ HexPiece(piece).flag = (decipher.hex_flag \/ Len(buf) % 2 = 1)
           /\ ReadOK(decipher) /\ ~(decipher.hex_flag /\ decipher.read % 2 = 0) =>
                \E s \in Nat : /\ s % 2 = 0 /\ s \div 2 = decipher.read \div 2 /\ s <= decipher.read
                               /\ buf = Stretch(s, decipher.read + n)
<1>r. PICK r \in Nat : r = decipher.read BY DEF DecipherRecord
<1>x. PICK x \in Nat : x = decipher.hex BY DEF DecipherRecord
<1>e. PICK e \in Nat : e = r + n OBVIOUS
<1>0. r <= e BY <1>e
<1>1. piece \in Seq(Nat) /\ piece = Stretch(r, e) BY <1>0, <1>e, <1>r, StretchType
<1>2. buf = IF decipher.hex_flag THEN <<x>> \o piece ELSE piece BY <1>x DEF HexPiece
<1>3. HexPiece(piece).flag = (decipher.hex_flag \/ Len(buf) % 2 = 1) BY DEF HexPiece
<1>4. buf \in Seq(Nat)
  <2>1. <<x>> \in Seq(Nat) OBVIOUS
  <2>2. <<x>> \o piece \in Seq(Nat) BY <1>1, <2>1, ConcatLength
  <2> QED BY <1>1, <1>2, <2>2
<1>5. ASSUME ReadOK(decipher), ~(decipher.hex_flag /\ r % 2 = 0)
      PROVE \E s \in Nat : s % 2 = 0 /\ s \div 2 = r \div 2 /\ s <= r /\ buf = Stretch(s, e)
  <2>1. CASE decipher.hex_flag
    <3>1. r % 2 = 1 BY <1>5, <2>1
    <3>2. x = r BY <1>5, <1>r, <1>x, <3>1 DEF ReadOK
    <3>s. PICK s \in Nat : s = r - 1 BY <3>1
    <3>3. s % 2 = 0 /\ s \div 2 = r \div 2 /\ s <= r BY <3>1, <3>s
    <3>4. <<x>> = Stretch(s, r)
      <4>o. PICK o : o = <<x>> OBVIOUS
      <4>1. o \in Seq(Nat) /\ Len(o) = 1 /\ o[1] = x BY <4>o
      <4>2. Len(o) = r - s BY <3>s, <4>1
      <4>3. \A i \in 1..(r - s) : o[i] = s + i
        <5> SUFFICES ASSUME NEW i \in 1..(r - s) PROVE o[i] = s + i
          OBVIOUS
        <5>1. i = 1 BY <3>s
        <5> QED BY <3>2, <3>s, <4>1, <5>1
      <4>4. o = Stretch(s, r) BY <3>3, <4>1, <4>2, <4>3, StretchIs
      <4> QED BY <4>4, <4>o
    <3>5. Stretch(s, r) \o Stretch(r, e) = Stretch(s, e) BY <1>0, <3>3, StretchJoin
    <3>6. buf = Stretch(s, e) BY <1>1, <1>2, <2>1, <3>4, <3>5
    <3> QED BY <3>3, <3>6
  <2>2. CASE ~decipher.hex_flag
    <3>1. r % 2 = 0 BY <1>5, <1>r, <2>2 DEF ReadOK
    <3>2. buf = Stretch(r, e) BY <1>1, <1>2, <2>2
    <3>3. r <= r OBVIOUS
    <3> QED BY <3>1, <3>2, <3>3
  <2> QED BY <2>1, <2>2
<1>6. decipher.read = r /\ decipher.read + n = e BY <1>e, <1>r
<1> QED BY <1>3, <1>4, <1>5, <1>6

\* Hex: the digit that was kept comes before the piece, unless it was used already.
LEMMA DecodedHex ==
    ASSUME decipher \in DecipherRecord, NEW n \in Nat, use.from = "hex", ~decipher.torn => ReadOK(decipher)
    PROVE  Goes(Decoded(n), n)
<1>r. PICK r \in Nat : r = decipher.read BY DEF DecipherRecord
<1>e. PICK e \in Nat : e = r + n OBVIOUS
<1>v. PICK old \in Nat : old = decipher.hex BY DEF DecipherRecord
<1>p. PICK piece : piece = Stretch(decipher.read, decipher.read + n) OBVIOUS
<1>b. PICK buf : buf = HexPiece(piece).buf OBVIOUS
<1>h. /\ buf \in Seq(Nat)
      /\ HexPiece(piece).flag = (decipher.hex_flag \/ Len(buf) % 2 = 1)
      /\ ReadOK(decipher) /\ ~(decipher.hex_flag /\ decipher.read % 2 = 0) =>
           \E s \in Nat : /\ s % 2 = 0 /\ s \div 2 = decipher.read \div 2 /\ s <= decipher.read
                          /\ buf = Stretch(s, decipher.read + n)
  BY <1>b, <1>p, HexPieceIs
<1>o. PICK odd \in 0..1 : odd = Len(buf) % 2
  <2>1. Len(buf) \in Nat BY <1>h
  <2>2. Len(buf) % 2 \in 0..1 BY <2>1
  <2> QED BY <2>2
<1>l. PICK l \in Nat : l = Len(buf) BY <1>h
<1>i. odd <= l /\ (l - odd) % 2 = 0 BY <1>o, <1>l
<1>w. PICK whole : whole = Without(buf, odd) OBVIOUS
<1>1. whole \in Seq(Nat)
  <2>1. whole = SubSeq(buf, 1, l - odd) BY <1>w, <1>l DEF Without
  <2>2. l - odd \in 0..Len(buf) BY <1>i, <1>l
  <2> QED BY <1>h, <2>1, <2>2
<1>m. PICK more \in Seq(Nat) : more = HexDecode(whole) BY <1>1, HexDecodeIs
<1>f. PICK fed \in Seq(Nat) : fed = decipher.fed BY DEF DecipherRecord
<1>g. PICK g : g = fed \o more OBVIOUS
<1>2. g \in Seq(Nat) /\ Len(fed) <= Len(g) BY <1>g, ConcatLength
<1>y. PICK flag \in BOOLEAN : flag = (decipher.hex_flag \/ l % 2 = 1) OBVIOUS
<1>z. PICK hex \in Nat : hex = IF odd = 1 THEN buf[l] ELSE old
  <2>1. ASSUME odd = 1 PROVE buf[l] \in Nat
    <3>1. l \in 1..Len(buf) BY <1>l, <1>o, <2>1
    <3> QED BY <1>h, <3>1
  <2> QED BY <2>1
<1>t. PICK t \in BOOLEAN : t = (decipher.torn \/ (decipher.hex_flag /\ r % 2 = 0)) OBVIOUS
<1>d. PICK d : d = Decoded(n) OBVIOUS
<1>3. d = [[decipher EXCEPT !.read = e] EXCEPT !.fed = g, !.hex_flag = flag, !.hex = hex, !.torn = t]
  <2>1. [decipher EXCEPT !.read = @ + n] = [decipher EXCEPT !.read = e] BY <1>r, <1>e
  <2>2. Decoded(n) = [[decipher EXCEPT !.read = @ + n] EXCEPT
                        !.fed = @ \o HexDecode(Without(HexPiece(piece).buf, Len(HexPiece(piece).buf) % 2)),
                        !.hex_flag = HexPiece(piece).flag,
                        !.hex = IF Len(HexPiece(piece).buf) % 2 = 1 THEN HexPiece(piece).buf[Len(HexPiece(piece).buf)] ELSE @,
                        !.torn = @ \/ (decipher.hex_flag /\ decipher.read % 2 = 0)]
    BY <1>p DEF Decoded
  <2>3. HexPiece(piece).flag = flag BY <1>h, <1>l, <1>y
  <2>4. [[decipher EXCEPT !.read = e] EXCEPT
           !.fed = @ \o HexDecode(Without(buf, Len(buf) % 2)), !.hex_flag = flag,
           !.hex = IF Len(buf) % 2 = 1 THEN buf[Len(buf)] ELSE @,
           !.torn = @ \/ (decipher.hex_flag /\ decipher.read % 2 = 0)]
        = [[decipher EXCEPT !.read = e] EXCEPT !.fed = g, !.hex_flag = flag, !.hex = hex, !.torn = t]
    <3>a. PICK a : a = [decipher EXCEPT !.read = e] OBVIOUS
    <3>1. a.fed = fed /\ a.hex = old /\ a.torn = decipher.torn /\ a \in DecipherRecord
      BY <3>a, <1>f, <1>v DEF DecipherRecord
    <3>2. a.fed \o HexDecode(Without(buf, Len(buf) % 2)) = g BY <1>g, <1>m, <1>o, <1>w, <3>1
    <3>3. (IF Len(buf) % 2 = 1 THEN buf[Len(buf)] ELSE a.hex) = hex BY <1>l, <1>o, <1>z, <3>1
    <3>4. (a.torn \/ (decipher.hex_flag /\ decipher.read % 2 = 0)) = t BY <1>r, <1>t, <3>1
    <3>5. [a EXCEPT !.fed = a.fed \o HexDecode(Without(buf, Len(buf) % 2)), !.hex_flag = flag,
                    !.hex = IF Len(buf) % 2 = 1 THEN buf[Len(buf)] ELSE a.hex,
                    !.torn = a.torn \/ (decipher.hex_flag /\ decipher.read % 2 = 0)]
          = [a EXCEPT !.fed = g, !.hex_flag = flag, !.hex = hex, !.torn = t]
      BY <3>2, <3>3, <3>4, Zenon
    <3> QED BY <3>5, <3>a, Zenon
  <2> QED BY <1>b, <1>d, <2>1, <2>2, <2>3, <2>4
<1>4. /\ d \in DecipherRecord /\ d.read = e /\ d.fed = g /\ d.made = decipher.made
      /\ d.incomplete_utf8 = decipher.incomplete_utf8 /\ d.over = decipher.over
      /\ d.initialised = decipher.initialised /\ d.torn = t /\ d.hex_flag = flag /\ d.hex = hex
  BY <1>2, <1>3 DEF DecipherRecord
<1>5. ASSUME ~d.torn PROVE ReadOK(d)
  <2>1. ~decipher.torn /\ ~(decipher.hex_flag /\ r % 2 = 0) BY <1>4, <1>5, <1>t
  <2>2. ReadOK(decipher) BY <2>1
  <2>s. PICK s \in Nat : s % 2 = 0 /\ s \div 2 = r \div 2 /\ s <= r /\ buf = Stretch(s, e)
    BY <1>e, <1>h, <1>r, <2>1, <2>2
  <2>3. s <= e BY <1>e, <2>s
  <2>4. l = e - s /\ \A i \in 1..(e - s) : buf[i] = s + i BY <1>l, <2>3, <2>s, StretchType
  <2>w. PICK w \in Nat : w = e - odd BY <1>i, <2>4, <2>3
  <2>5. s <= w /\ w % 2 = 0 /\ w \div 2 = e \div 2 /\ odd = e % 2
    <3>1. s % 2 = 0 /\ odd = (e - s) % 2 /\ w = e - odd /\ odd <= e - s BY <1>i, <1>l, <1>o, <2>4, <2>s, <2>w
    <3>a. PICK a \in Nat : s = 2 * a
      <4>a. PICK a \in Nat : a = s \div 2 OBVIOUS
      <4>1. s = 2 * a BY <3>1, <4>a
      <4> QED BY <4>1
    <3>2. odd = e % 2 BY <3>1, <3>a, <2>3
    <3> QED BY <3>1, <3>2, <3>a
  <2>6. whole = Stretch(s, w)
    <3>1. odd \in 0..(e - s) BY <1>i, <2>4
    <3> QED BY <1>w, <2>3, <2>s, <2>w, <3>1, CutIs
  <2>7. more = Stretch(r \div 2, e \div 2) BY <1>m, <2>5, <2>6, <2>s, HexOfStretch
  <2>a. PICK a \in Nat : a = r \div 2 OBVIOUS
  <2>b. PICK b \in Nat : b = e \div 2 OBVIOUS
  <2>8. a <= b BY <1>e, <2>a, <2>b
  <2>9. Stretch(0, a) \o Stretch(a, b) = Stretch(0, b) BY <2>8, StretchOn
  <2>10. fed = Stretch(0, a) BY <1>f, <1>r, <2>2, <2>a DEF ReadOK, FedTo
  <2>11. FedTo(e) = b BY <2>b DEF FedTo
  <2>12. g = Stretch(0, FedTo(e)) BY <1>g, <2>7, <2>9, <2>10, <2>11, <2>a, <2>b
  <2>13. ASSUME e % 2 = 1 PROVE flag /\ hex = e
    <3>1. odd = 1 /\ l % 2 = 1 BY <1>l, <1>o, <2>5, <2>13
    <3>2. l \in 1..(e - s) BY <2>4, <3>1
    <3>3. buf[l] = s + l BY <2>4, <3>2
    <3>4. s + l = e BY <2>3, <2>4
    <3> QED BY <1>y, <1>z, <3>1, <3>3, <3>4
  <2>14. ASSUME ~flag PROVE e % 2 = 0
    <3>1. l % 2 # 1 BY <1>y, <2>14
    <3> QED BY <1>l, <1>o, <2>5, <3>1
  <2> QED BY <1>4, <2>12, <2>13, <2>14 DEF ReadOK
<1> QED BY <1>2, <1>4, <1>5, <1>d, <1>e, <1>f, <1>r, <1>t DEF Goes

-----------------------------------------------------------------------------
\* Ciphers: the end of a piece of UTF-8.

\* A position begins a character or goes on with one; after a lead byte the character's other bytes follow,
\* and then another character.
LEMMA KindIs == ASSUME NEW i PROVE Kind(i) \in {"1", "2", "3", "4", "c"}
<1>1. Plaintext \in Seq({"1", "2", "3", "4", "c"}) BY CipherAssumption
<1>2. \A j \in 1..Len(Plaintext) : Plaintext[j] \in {"1", "2", "3", "4", "c"} BY <1>1
<1> QED BY <1>2 DEF Kind

\* The bytes of the character that a lead byte begins, and the next character.
LEMMA LeadIs ==
    ASSUME NEW p \in Nat \ {0}, Kind(p) # "c", NEW w, w = CharacterBytes(Kind(p))
    PROVE  w \in 1..4 /\ Kind(p + w) # "c" /\ \A q \in p+1..p+w-1 : Kind(q) = "c"
<1>1. Kind(p) \in {"1", "2", "3", "4"} BY KindIs
<1>2. w \in 1..4 BY <1>1 DEF CharacterBytes
<1>l. PICK l \in Nat : l = Len(Plaintext) BY CipherLengthIs
<1>3. CASE p <= l
  <2>1. p \in 1..Len(Plaintext) BY <1>3, <1>l
  <2>2. Kind(p + w) # "c" /\ \A q \in p+1..p+w-1 : Kind(q) = "c"
    <3>1. \A x \in 1..Len(Plaintext) : Kind(x) # "c" =>
            /\ Kind(x + CharacterBytes(Kind(x))) # "c"
            /\ \A q \in x+1..(x+CharacterBytes(Kind(x)))-1 : Kind(q) = "c"
      <4>1. \A x \in 1..Len(Plaintext) : Kind(x) # "c" =>
              LET next == x + CharacterBytes(Kind(x)) IN
              Kind(next) # "c" /\ \A q \in x+1..next-1 : Kind(q) = "c"
        BY CipherAssumption
      <4> QED BY <4>1
    <3>2. /\ Kind(p + CharacterBytes(Kind(p))) # "c"
          /\ \A q \in p+1..(p+CharacterBytes(Kind(p)))-1 : Kind(q) = "c"
      BY <2>1, <3>1, Zenon
    <3>3. (p + w) - 1 = p + w - 1 BY <1>2
    <3> QED BY <3>2, <3>3
  <2> QED BY <1>2, <2>2
<1>4. CASE p > l
  <2>1. p \notin 1..l /\ p + 1 \notin 1..l BY <1>4
  <2>2. Kind(p) = "1" /\ Kind(p + 1) = "1" BY <1>l, <2>1 DEF Kind
  <2>3. w = 1 BY <2>2 DEF CharacterBytes
  <2>4. p+1..p+w-1 = {} BY <2>3
  <2> QED BY <1>2, <2>2, <2>3, <2>4
<1> QED BY <1>3, <1>4

\* How far back the last lead byte is, and the length that follows from it.
SeenOf(out) ==
    LET tail == {k \in 0..(Len(out) - 1) : \A j \in (Len(out) - k + 1)..Len(out) : Kind(out[j]) = "c"}
    IN  CHOOSE k \in tail : k = Len(out) - 1 \/ Kind(out[Len(out) - k]) # "c"

\* The length for the kind of that lead byte and the number of bytes after it.
LengthFor(lead, seen, answer) ==
    CASE lead = "1" -> answer
      [] lead = "2" -> IF seen >= 1 THEN answer + 2 ELSE answer - 1
      [] lead = "3" -> IF seen >= 2 THEN answer + 3 ELSE answer - 1
      [] lead = "4" -> IF seen >= 3 THEN answer + 4 ELSE answer - 1
      [] lead = "c" -> 0

\* It is what LengthWithoutIncompleteUtf8 computes.
LEMMA LengthIs ==
    \A out : LengthWithoutIncompleteUtf8(out) = LengthFor(Kind(out[Len(out) - SeenOf(out)]), SeenOf(out), Len(out) - SeenOf(out))
BY Zenon DEF LengthWithoutIncompleteUtf8, LengthFor, SeenOf

\* The length is short of the lead byte if its character is incomplete, and otherwise the whole, or one too many.
LEMMA LengthForIs ==
    ASSUME NEW seen \in Nat, NEW answer \in Nat, NEW lead \in {"1", "2", "3", "4"}, NEW w, w = CharacterBytes(lead)
    PROVE  /\ seen < w - 1 => LengthFor(lead, seen, answer) = answer - 1
           /\ seen = w - 1 => LengthFor(lead, seen, answer) = IF w = 1 THEN answer ELSE answer + w
<1>1. CASE lead = "1"
  <2>1. w = 1 /\ LengthFor(lead, seen, answer) = answer BY <1>1 DEF CharacterBytes, LengthFor
  <2> QED BY <2>1
<1>2. CASE lead = "2"
  <2>1. w = 2 /\ LengthFor(lead, seen, answer) = IF seen >= 1 THEN answer + 2 ELSE answer - 1
    BY <1>2 DEF CharacterBytes, LengthFor
  <2> QED BY <2>1
<1>3. CASE lead = "3"
  <2>1. w = 3 /\ LengthFor(lead, seen, answer) = IF seen >= 2 THEN answer + 3 ELSE answer - 1
    BY <1>3 DEF CharacterBytes, LengthFor
  <2> QED BY <2>1
<1>4. CASE lead = "4"
  <2>1. w = 4 /\ LengthFor(lead, seen, answer) = IF seen >= 3 THEN answer + 4 ELSE answer - 1
    BY <1>4 DEF CharacterBytes, LengthFor
  <2> QED BY <2>1
<1> QED BY <1>1, <1>2, <1>3, <1>4

\* The last lead byte is found, and only bytes of its character follow.
LEMMA LastCharacter ==
    ASSUME NEW q \in Nat, NEW m \in Nat, q < m, Kind(q + 1) # "c", NEW all \in Seq(Nat), all = Stretch(q, m)
    PROVE  \E seen \in 0..(m - q - 1), lead \in {"1", "2", "3", "4"} :
              /\ lead = Kind(m - seen) /\ \A i \in m-seen+1..m : Kind(i) = "c"
              /\ LengthWithoutIncompleteUtf8(all) = LengthFor(lead, seen, m - q - seen)
<1>n. PICK n \in Nat : n = m - q OBVIOUS
<1>0. n > 0 /\ q <= m BY <1>n
<1>1. Len(all) = n /\ \A i \in 1..n : all[i] = q + i BY <1>0, <1>n, StretchType
<1>t. PICK tail : tail = {k \in 0..(n - 1) : \A j \in (n - k + 1)..n : Kind(all[j]) = "c"} OBVIOUS
<1>2. \E k \in tail : k = n - 1 \/ Kind(all[n - k]) # "c"
  <2>c. PICK C : C = {k \in 0..(n - 1) : Kind(all[n - k]) # "c"} OBVIOUS
  <2>1. n - 1 \in C
    <3>1. n - (n - 1) = 1 /\ n - 1 \in 0..(n - 1) BY <1>0
    <3>2. all[1] = q + 1 BY <1>0, <1>1
    <3> QED BY <2>c, <3>1, <3>2
  <2>2. C \in SUBSET Nat /\ C # {}
    <3>1. \A k \in C : k \in 0..(n - 1) BY <2>c, Zenon
    <3>2. \A k \in 0..(n - 1) : k \in Nat OBVIOUS
    <3> QED BY <2>1, <3>1, <3>2
  <2>3. PICK k \in C : \A j \in C : k <= j BY <2>2, Least
  <2>4. k \in 0..(n - 1) /\ Kind(all[n - k]) # "c" BY <2>3, <2>c
  <2>5. ASSUME NEW j \in (n - k + 1)..n PROVE Kind(all[j]) = "c"
    <3>i. PICK i \in Nat : i = n - j BY <2>4
    <3>1. i < k /\ i \in 0..(n - 1) /\ n - i = j BY <2>4, <3>i
    <3>2. i \notin C
      <4> SUFFICES ASSUME i \in C PROVE FALSE
        OBVIOUS
      <4>1. k <= i BY <2>3
      <4> QED BY <2>4, <3>1, <4>1
    <3> QED BY <2>c, <3>1, <3>2
  <2>6. k \in tail BY <1>t, <2>4, <2>5
  <2> QED BY <2>4, <2>6
<1>s. PICK seen : seen = CHOOSE k \in tail : k = n - 1 \/ Kind(all[n - k]) # "c" OBVIOUS
<1>3. seen \in tail /\ (seen = n - 1 \/ Kind(all[n - seen]) # "c") BY <1>2, <1>s, Zenon
<1>4. seen \in 0..(n - 1) /\ \A j \in (n - seen + 1)..n : Kind(all[j]) = "c" BY <1>3, <1>t
<1>a. PICK answer \in 1..n : answer = n - seen BY <1>4
<1>5. all[answer] = m - seen BY <1>1, <1>a, <1>n, <1>4
<1>6. Kind(all[answer]) # "c"
  <2>1. CASE seen = n - 1
    <3>1. answer = 1 BY <1>a, <2>1
    <3>2. all[answer] = q + 1 BY <1>1, <1>a, <3>1
    <3> QED BY <3>2
  <2> QED BY <1>3, <1>a, <2>1
<1>l. PICK lead : lead = Kind(all[answer]) OBVIOUS
<1>7. lead \in {"1", "2", "3", "4"} BY <1>6, <1>l, KindIs
<1>8. \A i \in m-seen+1..m : Kind(i) = "c"
  <2> SUFFICES ASSUME NEW i \in m-seen+1..m PROVE Kind(i) = "c"
    OBVIOUS
  <2>j. PICK j \in Nat : j = i - q BY <1>4, <1>n
  <2>1. j \in (n - seen + 1)..n /\ j \in 1..n /\ q + j = i BY <1>4, <1>n, <2>j
  <2>2. all[j] = i BY <1>1, <2>1
  <2> QED BY <1>4, <2>1, <2>2
<1>9. SeenOf(all) = seen
  <2>1. {k \in 0..(Len(all) - 1) : \A j \in (Len(all) - k + 1)..Len(all) : Kind(all[j]) = "c"} = tail
    BY <1>1, <1>t, Zenon
  <2> QED BY <1>1, <1>s, <2>1, Zenon DEF SeenOf
<1>10. LengthWithoutIncompleteUtf8(all) = LengthFor(lead, seen, m - q - seen)
  <2>1. answer = m - q - seen BY <1>a, <1>n, <1>4
  <2>2. LengthWithoutIncompleteUtf8(all) = LengthFor(Kind(all[n - seen]), seen, n - seen)
    BY <1>1, <1>9, LengthIs, Zenon
  <2> QED BY <1>a, <1>l, <2>1, <2>2, Zenon
<1>11. seen \in 0..(m - q - 1) BY <1>4, <1>n
<1>12. lead = Kind(m - seen) BY <1>5, <1>l
<1> QED BY <1>7, <1>8, <1>10, <1>11, <1>12

\* What is returned of the bytes, and what is kept: whole characters, and the beginning of one.
CutAt(q, m, all, len, p) ==
    /\ Kind(p + 1) # "c" /\ m - p <= 3 /\ (p < m => Kind(m + 1) = "c")
    /\ Encoded(all, len) \in Seq(Nat) /\ Kept(Encoded(all, len), Nat \ {0}) = Stretch(q, p)
    /\ SubSeq(all, len + 1, Len(all)) = Stretch(p, m)

\* Encoded returns that, with at most a byte 0 after it.
LEMMA Utf8Cut ==
    ASSUME NEW q \in Nat, NEW m \in Nat, q < m, Kind(q + 1) # "c", NEW all \in Seq(Nat), all = Stretch(q, m),
           NEW len, len = LengthWithoutIncompleteUtf8(all)
    PROVE  \E p \in q..m : CutAt(q, m, all, len, p)
<1>n. PICK n \in Nat : n = m - q OBVIOUS
<1>0. n > 0 /\ q <= m BY <1>n
<1>1. Len(all) = n BY <1>0, <1>n, StretchType
<1>l. \E seen \in 0..(m - q - 1), lead \in {"1", "2", "3", "4"} :
              /\ lead = Kind(m - seen) /\ \A i \in m-seen+1..m : Kind(i) = "c"
              /\ LengthWithoutIncompleteUtf8(all) = LengthFor(lead, seen, m - q - seen)
  BY LastCharacter
<1>2. PICK seen \in 0..(m - q - 1), lead \in {"1", "2", "3", "4"} :
              /\ lead = Kind(m - seen) /\ \A i \in m-seen+1..m : Kind(i) = "c"
              /\ len = LengthFor(lead, seen, m - q - seen)
  BY <1>l, Zenon
<1>p. PICK p \in Nat \ {0} : p = m - seen OBVIOUS
<1>w. PICK w : w = CharacterBytes(lead) OBVIOUS
<1>3. Kind(p) = lead /\ Kind(p) # "c" BY <1>2, <1>p
<1>4. w \in 1..4 /\ Kind(p + w) # "c" /\ \A i \in p+1..p+w-1 : Kind(i) = "c" BY <1>3, <1>w, LeadIs
<1>5. seen <= w - 1
  <2> SUFFICES ASSUME seen > w - 1 PROVE FALSE
    BY <1>4
  <2>1. p + w \in m-seen+1..m BY <1>4, <1>p
  <2> QED BY <1>2, <1>4, <2>1
<1>7. CASE seen = w - 1
  <2>1. p + w = m + 1 BY <1>4, <1>7, <1>p
  <2>2. Kind(m + 1) # "c" BY <1>4, <2>1
  <2>3. len = n \/ len = n + 1
    <3>a. PICK a \in Nat : a = m - q - seen BY <1>n
    <3>s. PICK s \in Nat : s = seen OBVIOUS
    <3>1. len = LengthFor(lead, s, a) BY <1>2, <3>a, <3>s
    <3>2. len = IF w = 1 THEN a ELSE a + w BY <1>7, <1>w, <3>1, <3>s, LengthForIs
    <3> QED BY <1>4, <1>7, <1>n, <3>2, <3>a
  <2>4. SubSeq(all, len + 1, Len(all)) = Stretch(m, m)
    <3>1. Stretch(m, m) = <<>> BY StretchEmpty
    <3>2. SubSeq(all, len + 1, Len(all)) = <<>> BY <1>1, <2>3
    <3> QED BY <3>1, <3>2
  <2>5. Kept(all, Nat \ {0}) = all
    <3>1. \A i \in q+1..m : i \in Nat \ {0} OBVIOUS
    <3> QED BY <1>0, <3>1, StretchInside
  <2>6. Encoded(all, len) \in Seq(Nat) /\ Kept(Encoded(all, len), Nat \ {0}) = Stretch(q, m)
    <3>1. CASE len = n
      <4>1. SubSeq(all, 1, n) = all BY <1>1
      <4>2. Encoded(all, len) = all BY <1>1, <3>1, <4>1 DEF Encoded
      <4> QED BY <2>5, <4>2
    <3>2. CASE len = n + 1
      <4>z. PICK z : z = <<0>> OBVIOUS
      <4>1. z \in Seq(Nat) /\ Len(z) = 1 /\ z[1] = 0 BY <4>z
      <4>2. Encoded(all, len) = all \o z BY <1>1, <3>2, <4>z DEF Encoded
      <4>3. Kept(all \o z, Nat \ {0}) = Kept(all, Nat \ {0}) \o Kept(z, Nat \ {0}) BY <4>1, KeptBoth
      <4>4. Kept(z, Nat \ {0}) = <<>>
        <5>1. \A i \in 1..Len(z) : z[i] \notin Nat \ {0} BY <4>1
        <5> QED BY <4>1, <5>1, KeptNone
      <4>5. all \o <<>> = all OBVIOUS
      <4>6. all \o z \in Seq(Nat) BY <4>1, ConcatLength
      <4> QED BY <2>5, <4>2, <4>3, <4>4, <4>5, <4>6
    <3> QED BY <2>3, <3>1, <3>2
  <2>7. m \in q..m /\ m - m <= 3 /\ ~(m < m) OBVIOUS
  <2>8. CutAt(q, m, all, len, m) BY <2>2, <2>4, <2>6, <2>7 DEF CutAt
  <2> QED BY <2>7, <2>8
<1>8. CASE seen # w - 1
  <2>b. PICK b \in q..m : b = p - 1 BY <1>p
  <2>0. q <= b /\ b <= m /\ b \in Nat OBVIOUS
  <2>1. len = b - q /\ m - b <= 3 /\ b < m /\ b + 1 = p
    <3>a. PICK a \in Nat : a = m - q - seen BY <1>n
    <3>s. PICK s \in Nat : s = seen OBVIOUS
    <3>1. len = LengthFor(lead, s, a) BY <1>2, <3>a, <3>s
    <3>2. s < w - 1 BY <1>4, <1>5, <1>8, <3>s
    <3>3. len = a - 1 BY <1>w, <3>1, <3>2, LengthForIs
    <3> QED BY <1>4, <1>p, <2>b, <3>2, <3>3, <3>a, <3>s
  <2>2. Kind(m + 1) = "c"
    <3>1. m + 1 \in p+1..p+w-1 BY <1>4, <1>5, <1>8, <1>p
    <3> QED BY <1>4, <3>1
  <2>3. SubSeq(all, b - q + 1, m - q) = Stretch(b, m) BY <2>0, StretchTail
  <2>4. SubSeq(all, len + 1, Len(all)) = Stretch(b, m) BY <1>1, <1>n, <2>1, <2>3
  <2>5. SubSeq(all, 1, b - q) = Stretch(q, b) BY <2>0, StretchHead
  <2>6. ~(len > Len(all)) BY <1>1, <1>n, <2>1
  <2>7. Encoded(all, len) = Stretch(q, b) BY <2>1, <2>5, <2>6 DEF Encoded
  <2>8. Stretch(q, b) \in Seq(Nat) BY StretchType
  <2>9. Kept(Stretch(q, b), Nat \ {0}) = Stretch(q, b)
    <3>1. \A i \in q+1..b : i \in Nat \ {0} OBVIOUS
    <3> QED BY <3>1, StretchInside
  <2>10. Kind(b + 1) # "c" BY <1>3, <2>1
  <2>11. CutAt(q, m, all, len, b) BY <2>1, <2>2, <2>4, <2>7, <2>8, <2>9, <2>10 DEF CutAt
  <2> QED BY <2>11
<1> QED BY <1>7, <1>8

-----------------------------------------------------------------------------
\* Ciphers: update of a Decipher.

\* The next units, in any encoding.
LEMMA DecodedGoes ==
    ASSUME use \in Use, use.object = "Decipher", DecipherOK(decipher, text), NEW n \in Nat
    PROVE  Goes(Decoded(n), n) /\ (use.to = "utf8" => ~Decoded(n).torn)
<1>1. decipher \in DecipherRecord /\ (~decipher.torn => ReadOK(decipher)) /\ (use.to = "utf8" => ~decipher.torn)
  BY DEF DecipherOK
<1>2. use.from \in {"binary", "hex", "base64"} /\ (use.to = "utf8" => use.from = "binary") BY UseIs
<1>3. CASE use.from = "binary" BY <1>1, <1>3, DecodedBinary
<1>4. CASE use.from = "hex" BY <1>1, <1>2, <1>4, DecodedHex
<1>5. CASE use.from = "base64" BY <1>1, <1>2, <1>5, DecodedBase64
<1> QED BY <1>2, <1>3, <1>4, <1>5

\* What was shown, when more is shown after it.
LEMMA ShowsMore ==
    ASSUME NEW t \in Seq(Nat), NEW q \in Nat, Kept(t, Nat \ {0}) = Stretch(0, q), NEW p \in Nat, q <= p,
           NEW s \in Seq(Nat), Kept(s, Nat \ {0}) = Stretch(q, p)
    PROVE  t \o s \in Seq(Nat) /\ Kept(t \o s, Nat \ {0}) = Stretch(0, p)
<1>1. t \o s \in Seq(Nat) BY ConcatLength
<1>2. Kept(t \o s, Nat \ {0}) = Kept(t, Nat \ {0}) \o Kept(s, Nat \ {0}) BY KeptBoth
<1>3. Stretch(0, q) \o Stretch(q, p) = Stretch(0, p) BY StretchOn
<1> QED BY <1>1, <1>2, <1>3

\* No position is 0.
LEMMA KeptStretch == ASSUME NEW q \in Nat, NEW p \in Nat, q <= p PROVE Kept(Stretch(q, p), Nat \ {0}) = Stretch(q, p)
<1>1. \A i \in q+1..p : i \in Nat \ {0} OBVIOUS
<1> QED BY <1>1, StretchInside

\* The ciphertext that was fed and not torn, and what EVP makes of it next.
LEMMA NextBytes ==
    ASSUME use \in Use, use.object = "Decipher", NEW d \in DecipherRecord, d.read <= TextLength, ReadOK(d),
           NEW m \in Nat, m <= DecipherMade(d.fed), NEW made, made = DecipherMade(d.fed)
    PROVE  Deciphered(d.fed, m, made) = Stretch(m, made)
<1>r. PICK r \in Nat : r = d.read BY DEF DecipherRecord
<1>l. PICK l \in Nat : l = FedTo(r) BY <1>r, FedToIs
<1>f. PICK fed \in Seq(Nat) : fed = d.fed BY DEF DecipherRecord
<1>1. fed = Stretch(0, l) BY <1>f, <1>l, <1>r DEF ReadOK
<1>2. Len(fed) = l
  <2>z. PICK z \in Nat : z = 0 OBVIOUS
  <2>1. z <= l BY <2>z
  <2>2. Len(Stretch(z, l)) = l - z BY <2>1, StretchType
  <2> QED BY <1>1, <2>2, <2>z
<1>3. PICK k \in Nat : made = k * BlockSize BY <1>f, DecipherMadeIs
<1>4. k * BlockSize <= l BY <1>2, <1>3, <1>f, DecipherMadeIs
<1>5. m <= k * BlockSize BY <1>3
<1>6. Deciphered(Stretch(0, l), m, k * BlockSize) = Stretch(m, k * BlockSize) BY <1>4, <1>5, DecipheredAll
<1> QED BY <1>1, <1>3, <1>6, <1>f

\* An object that was fed more, with what it kept of it, and the text that was returned.
LEMMA DecipherGoesOn ==
    ASSUME NEW c \in DecipherRecord, c.read <= TextLength, c.initialised => ~c.over, use.to = "utf8" => ~c.torn,
           ~c.torn => ReadOK(c), NEW made \in Nat, made = DecipherMade(c.fed),
           NEW kept \in Seq(Nat), Len(kept) < 4, use.to = "binary" => kept = <<>>,
           NEW d, d = [c EXCEPT !.made = made, !.incomplete_utf8 = kept],
           NEW t, ~c.torn => \E q \in Nat : ShownTo(q, d, t)
    PROVE  DecipherOK(d, t)
<1>1. /\ d \in DecipherRecord /\ d.read = c.read /\ d.initialised = c.initialised /\ d.over = c.over
      /\ d.torn = c.torn /\ d.fed = c.fed /\ d.hex_flag = c.hex_flag /\ d.hex = c.hex
      /\ d.made = made /\ d.incomplete_utf8 = kept
  BY DEF DecipherRecord
<1>2. ~d.torn => ReadOK(d) BY <1>1 DEF ReadOK
<1> QED BY <1>1, <1>2 DEF DecipherOK

\* update, for any number of units.
LEMMA DecipherUpdateOK ==
    ASSUME use \in Use, use.object = "Decipher", DecipherOK(decipher, text), text \in Seq(Nat),
           NEW n \in 0..MaxPiece, DecipherUpdate(n)
    PROVE  DecipherOK(decipher', text') /\ text' \in Seq(Nat)
<1>n. n \in Nat BY CipherAssumption
<1>c. PICK c : c = Decoded(n) OBVIOUS
<1>1. Goes(c, n) /\ (use.to = "utf8" => ~c.torn) BY <1>c, <1>n, DecodedGoes
<1>2. /\ c \in DecipherRecord /\ c.read = decipher.read + n
      /\ c.made = decipher.made /\ c.incomplete_utf8 = decipher.incomplete_utf8
      /\ c.over = decipher.over /\ c.initialised = decipher.initialised
      /\ Len(decipher.fed) <= Len(c.fed)
      /\ ~c.torn => ~decipher.torn /\ ReadOK(c)
  BY <1>1 DEF Goes
<1>3. decipher.initialised /\ ~decipher.over /\ decipher.read + n <= TextLength BY DEF DecipherUpdate, DecipherOK
<1>4. /\ decipher \in DecipherRecord /\ decipher.made = DecipherMade(decipher.fed)
      /\ Len(decipher.incomplete_utf8) < 4 /\ (use.to = "binary" => decipher.incomplete_utf8 = <<>>)
      /\ ~decipher.torn => \E q \in Nat : ShownTo(q, decipher, text)
  BY DEF DecipherOK
<1>u. use.to \in {"binary", "utf8"} BY UseIs
<1>f. PICK fed \in Seq(Nat) : fed = c.fed BY <1>2 DEF DecipherRecord
<1>m. PICK m \in Nat : m = decipher.made BY <1>4 DEF DecipherRecord
<1>i. PICK inc \in Seq(Nat) : inc = decipher.incomplete_utf8 BY <1>4 DEF DecipherRecord
<1>k. PICK made \in Nat : made = DecipherMade(fed) BY DecipherMadeIs
<1>5. m <= made
  <2>f. PICK old \in Seq(Nat) : old = decipher.fed BY <1>4 DEF DecipherRecord
  <2>1. DecipherMade(old) <= DecipherMade(fed) BY <1>2, <1>f, <2>f, DecipherMadeMore
  <2> QED BY <1>4, <1>k, <1>m, <2>1, <2>f
<1>o. PICK out \in Seq(Nat) : out = Deciphered(fed, m, made) BY <1>5, DecipheredType
<1>6. Len(out) = made - m BY <1>5, <1>o, DecipheredType
<1>7. ASSUME ~c.torn PROVE out = Stretch(m, made) BY <1>2, <1>3, <1>5, <1>7, <1>f, <1>k, <1>o, NextBytes
<1>8. ASSUME ~c.torn
      PROVE \E q \in Nat : /\ Kept(text, Nat \ {0}) = Stretch(0, q) /\ (use.to = "utf8" => Kind(q + 1) # "c")
                           /\ q <= m /\ inc = Stretch(q, m) /\ m - q <= 3 /\ (q < m => Kind(m + 1) = "c")
  <2>1. PICK q \in Nat : ShownTo(q, decipher, text) BY <1>2, <1>4, <1>8
  <2> QED BY <1>3, <1>i, <1>m, <2>1 DEF ShownTo
<1>a. PICK all : all = inc \o out OBVIOUS
<1>l. PICK len : len = LengthWithoutIncompleteUtf8(all) OBVIOUS
<1>9. IF out = <<>> \/ use.to = "binary"
      THEN decipher' = [c EXCEPT !.made = made] /\ text' = text \o out
      ELSE /\ decipher' = [c EXCEPT !.made = made, !.incomplete_utf8 = SubSeq(all, len + 1, Len(all))]
           /\ text' = text \o Encoded(all, len)
  BY <1>a, <1>c, <1>f, <1>i, <1>k, <1>l, <1>m, <1>o DEF DecipherUpdate
<1>10. c.read <= TextLength /\ c.initialised /\ ~c.over BY <1>2, <1>3
<1>11. CASE out = <<>> \/ use.to = "binary"
  <2>d. PICK d : d = [c EXCEPT !.made = made, !.incomplete_utf8 = inc] OBVIOUS
  <2>1. decipher' = d
    <3>1. c.incomplete_utf8 = inc BY <1>2, <1>i
    <3>2. [c EXCEPT !.made = made, !.incomplete_utf8 = inc] = [c EXCEPT !.made = made]
      BY <1>2, <3>1 DEF DecipherRecord
    <3> QED BY <1>9, <1>11, <2>d, <3>2
  <2>2. text' = text \o out BY <1>9, <1>11
  <2>3. text' \in Seq(Nat) BY <2>2, ConcatLength
  <2>4. d.over = c.over /\ d.made = made /\ d.incomplete_utf8 = inc BY <1>2, <2>d DEF DecipherRecord
  <2>5. ASSUME ~c.torn PROVE \E q \in Nat : ShownTo(q, d, text')
    <3>1. PICK q \in Nat : /\ Kept(text, Nat \ {0}) = Stretch(0, q) /\ (use.to = "utf8" => Kind(q + 1) # "c")
                           /\ q <= m /\ inc = Stretch(q, m) /\ m - q <= 3 /\ (q < m => Kind(m + 1) = "c")
      BY <1>8, <2>5
    <3>2. CASE use.to = "binary"
      <4>1. q = m
        <5>1. Len(inc) = m - q BY <3>1, StretchType
        <5>2. Len(inc) = 0 BY <1>4, <1>i, <3>2
        <5> QED BY <5>1, <5>2
      <4>2. Kept(out, Nat \ {0}) = Stretch(m, made) BY <1>5, <1>7, <2>5, KeptStretch
      <4>3. Kept(text', Nat \ {0}) = Stretch(0, made) BY <1>5, <2>2, <3>1, <4>1, <4>2, ShowsMore
      <4>4. Stretch(made, made) = <<>> BY StretchEmpty
      <4>5. d.incomplete_utf8 = Stretch(made, made) BY <1>4, <1>i, <2>4, <3>2, <4>4
      <4>6. ShownTo(made, d, text') BY <1>10, <2>4, <3>2, <4>3, <4>5 DEF ShownTo
      <4> QED BY <4>6
    <3>3. CASE use.to # "binary"
      <4>1. out = <<>> BY <1>11, <3>3
      <4>2. made = m BY <1>5, <1>6, <4>1
      <4>3. text' = text BY <2>2, <4>1
      <4>4. ShownTo(q, d, text') BY <1>10, <2>4, <3>1, <4>2, <4>3 DEF ShownTo
      <4> QED BY <4>4
    <3> QED BY <3>2, <3>3
  <2>6. use.to = "binary" => inc = <<>> BY <1>4, <1>i
  <2>7. Len(inc) < 4 BY <1>4, <1>i
  <2>8. DecipherOK(d, text') BY <1>1, <1>2, <1>10, <1>f, <1>k, <2>5, <2>6, <2>7, <2>d, DecipherGoesOn
  <2> QED BY <2>1, <2>3, <2>8
<1>12. CASE out # <<>> /\ use.to # "binary"
  <2>0. use.to = "utf8" /\ ~c.torn BY <1>1, <1>12, <1>u
  <2>1. PICK q \in Nat : /\ Kept(text, Nat \ {0}) = Stretch(0, q) /\ (use.to = "utf8" => Kind(q + 1) # "c")
                         /\ q <= m /\ inc = Stretch(q, m) /\ m - q <= 3 /\ (q < m => Kind(m + 1) = "c")
    BY <1>8, <2>0
  <2>2. m < made
    <3>1. Len(out) # 0 BY <1>12
    <3> QED BY <1>5, <1>6, <3>1
  <2>3. all = Stretch(q, made)
    <3>1. out = Stretch(m, made) BY <1>7, <2>0
    <3>2. Stretch(q, m) \o Stretch(m, made) = Stretch(q, made) BY <1>5, <2>1, StretchJoin
    <3> QED BY <1>a, <2>1, <3>1, <3>2
  <2>4. q < made /\ q <= made BY <2>1, <2>2
  <2>5. all \in Seq(Nat) BY <2>3, <2>4, StretchType
  <2>c. Kind(q + 1) # "c" BY <2>0, <2>1
  <2>e. PICK p \in q..made : CutAt(q, made, all, len, p) BY <1>l, <2>c, <2>3, <2>4, <2>5, Utf8Cut
  <2>6. /\ Kind(p + 1) # "c" /\ made - p <= 3 /\ (p < made => Kind(made + 1) = "c")
        /\ Encoded(all, len) \in Seq(Nat) /\ Kept(Encoded(all, len), Nat \ {0}) = Stretch(q, p)
        /\ SubSeq(all, len + 1, Len(all)) = Stretch(p, made)
    BY <2>e DEF CutAt
  <2>p. p \in Nat /\ q <= p /\ p <= made OBVIOUS
  <2>k. PICK kept \in Seq(Nat) : kept = Stretch(p, made) BY <2>p, StretchType
  <2>d. PICK d : d = [c EXCEPT !.made = made, !.incomplete_utf8 = kept] OBVIOUS
  <2>7. decipher' = d /\ text' = text \o Encoded(all, len) BY <1>9, <1>12, <2>6, <2>d, <2>k
  <2>8. text' \in Seq(Nat) /\ Kept(text', Nat \ {0}) = Stretch(0, p)
    <3>e. PICK e \in Seq(Nat) : e = Encoded(all, len) BY <2>6
    <3>1. Kept(e, Nat \ {0}) = Stretch(q, p) BY <2>6, <3>e
    <3>2. text \o e \in Seq(Nat) /\ Kept(text \o e, Nat \ {0}) = Stretch(0, p) BY <2>1, <2>p, <3>1, ShowsMore
    <3> QED BY <2>7, <3>2, <3>e
  <2>9. d.over = c.over /\ d.made = made /\ d.incomplete_utf8 = kept BY <1>2, <2>d DEF DecipherRecord
  <2>10. ShownTo(p, d, text') BY <1>10, <2>6, <2>8, <2>9, <2>k, <2>p DEF ShownTo
  <2>11. Len(kept) < 4
    <3>1. Len(kept) = made - p BY <2>k, <2>p, StretchType
    <3> QED BY <2>6, <3>1
  <2>12. \E x \in Nat : ShownTo(x, d, text') BY <2>10, <2>p
  <2>13. DecipherOK(d, text') BY <1>2, <1>10, <1>f, <1>k, <2>0, <2>11, <2>12, <2>d, DecipherGoesOn
  <2> QED BY <2>7, <2>8, <2>13
<1> QED BY <1>11, <1>12

-----------------------------------------------------------------------------
\* Ciphers: final of a Decipher.

\* A new Decipher.
LEMMA NewDecipherType == NewDecipher \in DecipherRecord /\ NewDecipher.incomplete_utf8 = <<>> /\ NewDecipher.hex_flag = FALSE
<1>1. <<>> \in Seq(Nat) OBVIOUS
<1> QED BY <1>1 DEF NewDecipher, DecipherRecord

\* init or initiv of a Decipher.
LEMMA DecipherInitOK ==
    ASSUME DecipherOK(decipher, text), DecipherInit
    PROVE  DecipherOK(decipher', text') /\ text' = text
<1>1. decipher = NewDecipher /\ decipher' = [NewDecipher EXCEPT !.initialised = TRUE] /\ text' = text
  <2>1. decipher = NewDecipher /\ text' = text
        /\ decipher' = DecipherContext([decipher EXCEPT !.incomplete_utf8 = <<>>, !.hex_flag = FALSE])
    BY DEF DecipherInit
  <2>2. [NewDecipher EXCEPT !.incomplete_utf8 = <<>>, !.hex_flag = FALSE] = NewDecipher
    <3>a. PICK a : a = NewDecipher OBVIOUS
    <3>1. a \in DecipherRecord /\ a.incomplete_utf8 = <<>> /\ a.hex_flag = FALSE BY <3>a, NewDecipherType
    <3>2. [a EXCEPT !.incomplete_utf8 = <<>>] = a BY <3>1 DEF DecipherRecord
    <3>3. [a EXCEPT !.hex_flag = FALSE] = a BY <3>1 DEF DecipherRecord
    <3>4. [[a EXCEPT !.incomplete_utf8 = <<>>] EXCEPT !.hex_flag = FALSE] = [a EXCEPT !.incomplete_utf8 = <<>>, !.hex_flag = FALSE]
      OBVIOUS
    <3> QED BY <3>2, <3>3, <3>4, <3>a
  <2> QED BY <2>1, <2>2 DEF DecipherContext
<1>d. PICK d : d = [decipher EXCEPT !.initialised = TRUE] OBVIOUS
<1>2. decipher \in DecipherRecord BY DEF DecipherOK
<1>3. /\ d \in DecipherRecord /\ d.read = decipher.read /\ d.over = decipher.over
      /\ d.torn = decipher.torn /\ d.fed = decipher.fed /\ d.hex_flag = decipher.hex_flag /\ d.hex = decipher.hex
      /\ d.made = decipher.made /\ d.incomplete_utf8 = decipher.incomplete_utf8
  BY <1>2, <1>d DEF DecipherRecord
<1>4. ~d.over BY <1>1, <1>3 DEF NewDecipher
<1>5. ReadOK(decipher) => ReadOK(d) BY <1>3 DEF ReadOK
<1>6. ASSUME NEW q \in Nat, ShownTo(q, decipher, text) PROVE ShownTo(q, d, text)
  BY <1>3, <1>6 DEF ShownTo
<1>7. DecipherOK(d, text) BY <1>3, <1>4, <1>5, <1>6 DEF DecipherOK
<1> QED BY <1>1, <1>7, <1>d

\* The bytes of the last block: any number of bytes, and from the ciphertext those of the text.
LEMMA LastBytesType ==
    ASSUME decipher \in DecipherRecord, decipher.made = DecipherMade(decipher.fed)
    PROVE  LastBytes \in Seq(Nat)
<1>b. BlockSize \in Nat \ {0} BY CipherAssumption
<1>m. PICK m \in Nat : m = decipher.made BY DEF DecipherRecord
<1>l. PICK last \in Nat : last = m + BlockSize BY <1>b
<1>o. PICK out \in Seq(Nat) : out = Deciphered(decipher.fed, m, last)
  <2>1. m <= last BY <1>b, <1>l
  <2> QED BY <2>1, DecipheredType
<1>1. Len(out) = BlockSize
  <2>1. m <= last /\ last - m = BlockSize BY <1>b, <1>l
  <2> QED BY <2>1, <1>o, DecipheredType
<1>2. LastBytes = IF Len(decipher.fed) # last \/ last < CipherLength \/ PaddingFails \/ out[1] = 0 THEN <<>>
                  ELSE SubSeq(out, 1, (IF use.pad = "zero" THEN last ELSE Len(Plaintext)) - m)
  BY <1>m, <1>l, <1>o DEF LastBytes
<1>3. CASE Len(decipher.fed) # last \/ last < CipherLength \/ PaddingFails \/ out[1] = 0
  <2>1. LastBytes = <<>> BY <1>2, <1>3
  <2> QED BY <2>1
<1>4. CASE ~(Len(decipher.fed) # last \/ last < CipherLength \/ PaddingFails \/ out[1] = 0)
  <2>c. PICK c \in Nat : c = CipherLength BY CipherLengthIs
  <2>p. PICK l \in Nat : l = Len(Plaintext) BY CipherLengthIs
  <2>e. PICK e \in Int : e = (IF use.pad = "zero" THEN last ELSE l) - m OBVIOUS
  <2>1. e <= BlockSize
    <3>1. CASE use.pad = "zero"
      <4>1. e = last - m BY <2>e, <3>1
      <4> QED BY <1>b, <1>l, <4>1
    <3>2. CASE use.pad # "zero"
      <4>1. l < c BY <2>c, <2>p, <3>2, CipherLengthIs
      <4>2. c <= last BY <1>4, <2>c
      <4>3. e = l - m BY <2>e, <3>2
      <4> QED BY <1>b, <1>l, <4>1, <4>2, <4>3
    <3> QED BY <3>1, <3>2
  <2>2. LastBytes = SubSeq(out, 1, e) BY <1>2, <1>4, <2>e, <2>p
  <2>3. CASE e >= 0
    <3>1. e \in 0..Len(out) BY <1>1, <1>b, <2>1, <2>3
    <3>2. SubSeq(out, 1, e) \in Seq(Nat) BY <3>1
    <3> QED BY <2>2, <3>2
  <2>4. CASE e < 0
    <3>1. SubSeq(out, 1, e) = <<>> BY <2>4
    <3>2. <<>> \in Seq(Nat) OBVIOUS
    <3> QED BY <2>2, <3>1, <3>2
  <2> QED BY <2>3, <2>4
<1> QED BY <1>3, <1>4

\* The ciphertext is whole blocks.
LEMMA CipherBlocks == \E c \in Nat : CipherLength = c * BlockSize
<1>b. BlockSize \in Nat \ {0} BY CipherAssumption
<1>l. PICK l \in Nat : l = Len(Plaintext) BY CipherLengthIs
<1>1. CASE use.pad = "zero"
  <2>x. PICK x \in Nat : x = l + BlockSize - 1 BY <1>b
  <2>k. PICK k \in Nat : k = x \div BlockSize BY <1>b, DivType
  <2>1. CipherLength = k * BlockSize BY <1>1, <1>l, <2>k, <2>x DEF CipherLength
  <2> QED BY <2>1
<1>2. CASE use.pad # "zero"
  <2>k. PICK k \in Nat : k = l \div BlockSize BY <1>b, DivType
  <2>j. PICK j \in Nat : j = k + 1 OBVIOUS
  <2>1. CipherLength = j * BlockSize BY <1>2, <1>l, <2>k, <2>j DEF CipherLength
  <2> QED BY <2>1
<1> QED BY <1>1, <1>2

\* When the whole ciphertext was fed, EVP holds back its last block.
LEMMA LastBlock ==
    ASSUME NEW fed \in Seq(Nat), fed # <<>>, Len(fed) = CipherLength
    PROVE  CipherLength = DecipherMade(fed) + BlockSize
<1>b. BlockSize \in Nat \ {0} BY CipherAssumption
<1>1. PICK c \in Nat : CipherLength = c * BlockSize BY CipherBlocks
<1>2. PICK k \in Nat : DecipherMade(fed) = k * BlockSize BY DecipherMadeIs
<1>x. PICK x \in Nat : x = k * BlockSize BY <1>b, BlockMore
<1>y. PICK y \in Nat : y = c * BlockSize BY <1>b, BlockMore
<1>3. x < y /\ y <= x + BlockSize BY <1>1, <1>2, <1>x, <1>y, DecipherMadeIs
<1>4. x \div BlockSize < c BY <1>b, <1>3, <1>y, DivBlock
<1>5. x \div BlockSize = k BY <1>b, <1>x, DivWhole
<1>j. PICK j \in Nat : j = k + 1 OBVIOUS
<1>6. j <= c BY <1>4, <1>5, <1>j
<1>7. j * BlockSize <= c * BlockSize BY <1>b, <1>6, BlocksMonotone
<1>8. j * BlockSize = x + BlockSize BY <1>b, <1>j, <1>x, BlockMore
<1>9. y = x + BlockSize BY <1>b, <1>3, <1>7, <1>8, <1>y
<1> QED BY <1>1, <1>2, <1>9, <1>x, <1>y

\* They end with the text, or with the zeros after it; whole and rightly padded ciphertext gives all of it.
LEMMA LastBytesAre ==
    ASSUME use \in Use, use.object = "Decipher", DecipherOK(decipher, text), ~decipher.torn
    PROVE  \E y \in Nat : /\ decipher.made <= y /\ LastBytes = Stretch(decipher.made, y)
                          /\ y = decipher.made \/ y >= Len(Plaintext)
                          /\ decipher.read = TextLength /\ ~PaddingFails => y >= Len(Plaintext)
<1>0. /\ decipher \in DecipherRecord /\ decipher.made = DecipherMade(decipher.fed) /\ decipher.read <= TextLength
      /\ ReadOK(decipher)
  BY DEF DecipherOK
<1>b. BlockSize \in Nat \ {0} BY CipherAssumption
<1>m. PICK m \in Nat : m = decipher.made BY <1>0 DEF DecipherRecord
<1>l. PICK last \in Nat : last = m + BlockSize BY <1>b
<1>f. PICK fed \in Seq(Nat) : fed = decipher.fed BY <1>0 DEF DecipherRecord
<1>r. PICK r \in Nat : r = decipher.read BY <1>0 DEF DecipherRecord
<1>t. PICK f \in Nat : f = FedTo(r) BY <1>0, <1>r, FedToIs
<1>c. PICK c \in Nat : c = CipherLength BY CipherLengthIs
<1>p. PICK l \in Nat : l = Len(Plaintext) BY CipherLengthIs
<1>1. f <= c /\ (r = TextLength => f = c) BY <1>0, <1>c, <1>r, <1>t, FedToIs
<1>2. fed = Stretch(0, f) BY <1>0, <1>f, <1>r, <1>t DEF ReadOK
<1>3. Len(fed) = f
  <2>z. PICK z \in Nat : z = 0 OBVIOUS
  <2>1. z <= f BY <2>z
  <2>2. Len(Stretch(z, f)) = f - z BY <2>1, StretchType
  <2> QED BY <1>2, <2>2, <2>z
<1>4. l <= c /\ (use.pad # "zero" => l < c /\ c <= l + BlockSize) BY <1>c, <1>p, CipherLengthIs
<1>o. PICK out \in Seq(Nat) : out = Deciphered(fed, m, last)
  <2>1. m <= last BY <1>b, <1>l
  <2> QED BY <2>1, DecipheredType
<1>5. LastBytes = IF f # last \/ last < c \/ PaddingFails \/ out[1] = 0 THEN <<>>
                  ELSE SubSeq(out, 1, (IF use.pad = "zero" THEN last ELSE l) - m)
  BY <1>3, <1>c, <1>f, <1>l, <1>m, <1>o, <1>p DEF LastBytes
<1>6. ASSUME f = last PROVE out = Stretch(m, last) /\ out[1] # 0
  <2>1. PICK k \in Nat : m = k * BlockSize BY <1>0, <1>f, <1>m, DecipherMadeIs
  <2>j. PICK j \in Nat : j = k + 1 OBVIOUS
  <2>2. last = j * BlockSize BY <1>b, <1>l, <2>1, <2>j, BlockMore
  <2>3. m <= j * BlockSize /\ j * BlockSize <= f BY <1>6, <1>b, <1>l, <2>2
  <2>4. Deciphered(Stretch(0, f), m, j * BlockSize) = Stretch(m, j * BlockSize) BY <2>3, DecipheredAll
  <2>5. out = Stretch(m, last) BY <1>2, <1>o, <2>2, <2>4
  <2>6. m <= last /\ 1 \in 1..(last - m) BY <1>b, <1>l
  <2>7. Stretch(m, last)[1] = m + 1 BY <2>6, StretchType
  <2> QED BY <2>5, <2>7
<1>7. CASE f # last \/ last < c \/ PaddingFails \/ out[1] = 0
  <2>1. LastBytes = <<>> BY <1>5, <1>7
  <2>2. Stretch(m, m) = <<>> BY StretchEmpty
  <2>3. ASSUME decipher.read = TextLength, ~PaddingFails PROVE m >= l
    <3>1. f = c BY <1>1, <1>r, <2>3
    <3>2. CASE fed = <<>>
      <4>1. c = 0 BY <1>3, <3>1, <3>2
      <4> QED BY <1>4, <4>1
    <3>3. CASE fed # <<>>
      <4>1. c = last
        <5>1. Len(fed) = CipherLength BY <1>3, <1>c, <3>1
        <5>2. CipherLength = DecipherMade(fed) + BlockSize BY <3>3, <5>1, LastBlock
        <5> QED BY <1>0, <1>c, <1>f, <1>l, <1>m, <5>2
      <4>2. ~(last < c) BY <4>1
      <4> QED BY <1>6, <1>7, <2>3, <3>1, <4>1, <4>2
    <3> QED BY <3>2, <3>3
  <2>4. m <= m OBVIOUS
  <2> QED BY <1>m, <1>p, <2>1, <2>2, <2>3, <2>4
<1>8. CASE ~(f # last \/ last < c \/ PaddingFails \/ out[1] = 0)
  <2>1. f = last /\ last = c BY <1>1, <1>8
  <2>2. out = Stretch(m, last) BY <1>6, <2>1
  <2>y. PICK y \in Nat : y = IF use.pad = "zero" THEN last ELSE l OBVIOUS
  <2>3. m <= y /\ y <= last /\ y >= l
    <3>1. CASE use.pad = "zero" BY <1>4, <1>b, <1>l, <2>1, <2>y, <3>1
    <3>2. CASE use.pad # "zero" BY <1>4, <1>b, <1>l, <2>1, <2>y, <3>2
    <3> QED BY <3>1, <3>2
  <2>4. LastBytes = SubSeq(out, 1, y - m) BY <1>5, <1>8, <2>y
  <2>5. SubSeq(Stretch(m, last), 1, y - m) = Stretch(m, y) BY <2>3, StretchHead
  <2>6. LastBytes = Stretch(m, y) BY <2>2, <2>4, <2>5
  <2> QED BY <1>m, <1>p, <2>3, <2>6
<1> QED BY <1>7, <1>8

\* Past the plaintext every byte is one of its own.
LEMMA KindAfter == ASSUME NEW y \in Nat, y >= Len(Plaintext) PROVE Kind(y + 1) = "1"
<1>l. PICK l \in Nat : l = Len(Plaintext) BY CipherLengthIs
<1>1. y + 1 \notin 1..l BY <1>l
<1> QED BY <1>1, <1>l DEF Kind

\* final and finaltol.
LEMMA DecipherFinalOK ==
    ASSUME use \in Use, use.object = "Decipher", DecipherOK(decipher, text), text \in Seq(Nat), DecipherFinal
    PROVE  DecipherOK(decipher', text') /\ text' \in Seq(Nat)
<1>0. /\ decipher \in DecipherRecord /\ decipher.made = DecipherMade(decipher.fed) /\ decipher.initialised /\ ~decipher.over
      /\ decipher.read <= TextLength /\ (use.to = "utf8" => ~decipher.torn)
      /\ (use.to = "binary" => decipher.incomplete_utf8 = <<>>) /\ Len(decipher.incomplete_utf8) < 4
      /\ ~decipher.torn => ReadOK(decipher) /\ \E q \in Nat : ShownTo(q, decipher, text)
  BY DEF DecipherFinal, DecipherOK
<1>d. PICK d : d = [decipher EXCEPT !.initialised = FALSE, !.over = TRUE] OBVIOUS
<1>1. /\ d \in DecipherRecord /\ d.read = decipher.read /\ d.over /\ ~d.initialised
      /\ d.torn = decipher.torn /\ d.fed = decipher.fed /\ d.hex_flag = decipher.hex_flag /\ d.hex = decipher.hex
      /\ d.made = decipher.made /\ d.incomplete_utf8 = decipher.incomplete_utf8
  BY <1>0, <1>d DEF DecipherRecord
<1>o. PICK out \in Seq(Nat) : out = LastBytes BY <1>0, LastBytesType
<1>i. PICK inc \in Seq(Nat) : inc = decipher.incomplete_utf8 BY <1>0 DEF DecipherRecord
<1>m. PICK m \in Nat : m = decipher.made BY <1>0 DEF DecipherRecord
<1>p. PICK l \in Nat : l = Len(Plaintext) BY CipherLengthIs
<1>u. use.to \in {"binary", "utf8"} BY UseIs
<1>b. PICK bytes : bytes = FinalBytes(out) OBVIOUS
<1>2. decipher' = d /\ text' = text \o bytes BY <1>b, <1>d, <1>o DEF DecipherFinal
<1>3. bytes = IF out = <<>> \/ use.to = "binary" THEN out ELSE inc \o out BY <1>b, <1>i DEF FinalBytes
<1>4. bytes \in Seq(Nat) BY <1>3, ConcatLength
<1>5. text' \in Seq(Nat) BY <1>2, <1>4, ConcatLength
<1>6. ReadOK(decipher) => ReadOK(d) BY <1>1 DEF ReadOK
<1>7. ASSUME ~d.torn PROVE \E q \in Nat : ShownTo(q, d, text')
  <2>1. PICK q \in Nat : ShownTo(q, decipher, text) BY <1>0, <1>1, <1>7
  <2>2. /\ Kept(text, Nat \ {0}) = Stretch(0, q) /\ (use.to = "utf8" => Kind(q + 1) # "c")
        /\ q <= m /\ inc = Stretch(q, m) /\ (q < m => Kind(m + 1) = "c")
    BY <1>0, <1>i, <1>m, <2>1 DEF ShownTo
  <2>3. PICK y \in Nat : /\ m <= y /\ out = Stretch(m, y) /\ (y = m \/ y >= l)
                         /\ decipher.read = TextLength /\ ~PaddingFails => y >= l
    BY <1>1, <1>7, <1>m, <1>o, <1>p, LastBytesAre
  <2>4. ASSUME NEW x \in Nat, Kept(text', Nat \ {0}) = Stretch(0, x), use.to = "utf8" => Kind(x + 1) # "c",
               decipher.read = TextLength /\ ~PaddingFails => x >= l
        PROVE  ShownTo(x, d, text')
    BY <1>1, <1>p, <2>4 DEF ShownTo
  <2>5. CASE use.to = "binary"
    <3>1. q = m
      <4>1. Len(inc) = m - q BY <2>2, StretchType
      <4>2. Len(inc) = 0 BY <1>0, <1>i, <2>5
      <4> QED BY <4>1, <4>2
    <3>2. text' = text \o out BY <1>2, <1>3, <2>5
    <3>3. Kept(out, Nat \ {0}) = Stretch(m, y) BY <2>3, KeptStretch
    <3>4. Kept(text', Nat \ {0}) = Stretch(0, y) BY <2>2, <2>3, <3>1, <3>2, <3>3, ShowsMore
    <3>5. ShownTo(y, d, text') BY <2>3, <2>4, <2>5, <3>4
    <3> QED BY <3>5
  <2>6. CASE use.to = "utf8" /\ out = <<>>
    <3>1. y = m
      <4>1. Len(out) = y - m BY <2>3, StretchType
      <4>2. Len(out) = 0 BY <2>6
      <4> QED BY <2>3, <4>1, <4>2
    <3>2. text' = text BY <1>2, <1>3, <2>6
    <3>3. ASSUME decipher.read = TextLength, ~PaddingFails PROVE q >= l
      <4>1. m >= l BY <2>3, <3>1, <3>3
      <4>2. Kind(m + 1) = "1" BY <1>p, <4>1, KindAfter
      <4>3. ~(q < m) BY <2>2, <4>2
      <4> QED BY <2>2, <4>1, <4>3
    <3>4. ShownTo(q, d, text') BY <2>2, <2>4, <3>2, <3>3
    <3> QED BY <3>4
  <2>7. CASE use.to = "utf8" /\ out # <<>>
    <3>0. y >= l
      <4>1. y # m
        <5>1. ASSUME y = m PROVE FALSE
          <6>1. Stretch(m, m) = <<>> BY StretchEmpty
          <6> QED BY <2>3, <2>7, <5>1, <6>1
        <5> QED BY <5>1
      <4> QED BY <2>3, <4>1
    <3>1. bytes = Stretch(q, y)
      <4>1. Stretch(q, m) \o Stretch(m, y) = Stretch(q, y) BY <2>2, <2>3, StretchJoin
      <4>2. bytes = inc \o out BY <1>3, <2>7
      <4> QED BY <2>2, <2>3, <4>1, <4>2
    <3>2. q <= y BY <2>2, <2>3
    <3>3. Kept(bytes, Nat \ {0}) = Stretch(q, y) BY <3>1, <3>2, KeptStretch
    <3>4. Kept(text', Nat \ {0}) = Stretch(0, y) BY <1>2, <1>4, <2>2, <3>2, <3>3, ShowsMore
    <3>5. Kind(y + 1) # "c"
      <4>1. Kind(y + 1) = "1" BY <1>p, <3>0, KindAfter
      <4> QED BY <4>1
    <3>6. ShownTo(y, d, text') BY <2>4, <3>0, <3>4, <3>5
    <3> QED BY <3>6
  <2> QED BY <1>u, <2>5, <2>6, <2>7
<1>8. DecipherOK(d, text') BY <1>0, <1>1, <1>6, <1>7 DEF DecipherOK
<1> QED BY <1>2, <1>5, <1>8

-----------------------------------------------------------------------------
\* Ciphers: the theorems.

\* What is true of an object stays true while use does not change.
LEMMA CipherOKNext ==
    ASSUME use' = use, CipherOK(cipher', text')
    PROVE  CipherOK(cipher, text)'
BY DEF CipherOK, CipherRecord, CipherMade

\* The same of a Decipher.
LEMMA DecipherOKNext ==
    ASSUME use' = use, DecipherOK(decipher', text')
    PROVE  DecipherOK(decipher, text)'
<1>d. PICK d : d = decipher' OBVIOUS
<1>t. PICK t : t = text' OBVIOUS
<1>1. CipherLength' = CipherLength BY Zenon DEF CipherLength
<1>2. TextLength' = TextLength BY <1>1, Zenon DEF TextLength
<1>3. PaddingFails' <=> PaddingFails BY Zenon DEF PaddingFails
<1>4. ReadOK(decipher)' <=> ReadOK(d)
  <2>1. FedTo(decipher.read)' = FedTo(d.read) BY <1>1, <1>d DEF FedTo
  <2> QED BY <1>d, <2>1 DEF ReadOK, Stretch
<1>5. \A q \in Nat : ShownTo(q, decipher, text)' <=> ShownTo(q, d, t)
  BY <1>2, <1>3, <1>d, <1>t DEF ShownTo
<1>6. DecipherOK(d, t) BY <1>d, <1>t
<1> QED BY <1>2, <1>4, <1>5, <1>6, <1>d, <1>t DEF DecipherOK, DecipherRecord

\* New objects satisfy the invariant.
LEMMA CiphersStart == CiphersInit => CiphersInv
<1> SUFFICES ASSUME CiphersInit PROVE CiphersInv
  OBVIOUS
<1>0. use \in Use /\ cipher = NewCipher /\ decipher = NewDecipher /\ text = <<>> BY DEF CiphersInit
<1>z. PICK z \in Nat : z = 0 OBVIOUS
<1>e. <<>> \in Seq(Nat) /\ Len(<<>>) = 0 OBVIOUS
<1>s. Stretch(0, 0) = <<>>
  <2>1. Stretch(z, z) = <<>> BY StretchEmpty
  <2> QED BY <2>1, <1>z
<1>b. BlockSize \in Nat \ {0} BY CipherAssumption
<1>1. CipherOK(NewCipher, <<>>)
  <2>c. PICK c : c = NewCipher OBVIOUS
  <2>1. 0 \in 0..MaxBytes BY CipherAssumption
  <2>2. /\ c \in CipherRecord /\ ~c.initialised /\ ~c.over /\ c.given = 0 /\ c.made = 0 /\ c.incomplete_base64 = <<>>
    BY <1>e, <2>c, <2>1 DEF NewCipher, CipherRecord
  <2>3. CipherMade(0) = 0
    <3>1. 0 \div BlockSize = 0
      <4>1. (z * BlockSize) \div BlockSize = z BY <1>b, DivWhole
      <4>2. z * BlockSize = 0 BY <1>b, <1>z
      <4> QED BY <1>z, <4>1, <4>2
    <3>2. 0 * BlockSize = 0 BY <1>b
    <3> QED BY <3>1, <3>2 DEF CipherMade
  <2>4. \E a \in Nat, b \in Nat :
            /\ a <= b /\ b <= c.made /\ c.incomplete_base64 = Stretch(a, b)
            /\ <<>> = Stretch(0, a) \o Stretch(b, c.made)
            /\ ~c.over => b = c.made
    <3>1. <<>> \o <<>> = <<>> OBVIOUS
    <3>2. 0 <= c.made /\ 0 \in Nat BY <2>2
    <3> WITNESS 0 \in Nat, 0 \in Nat
    <3> QED BY <1>s, <2>2, <3>1, <3>2
  <2> QED BY <1>e, <2>2, <2>3, <2>4, <2>c DEF CipherOK
<1>2. ASSUME use.object = "Decipher" PROVE DecipherOK(NewDecipher, <<>>)
  <2>d. PICK d : d = NewDecipher OBVIOUS
  <2>1. d \in DecipherRecord BY <2>d, NewDecipherType
  <2>2. /\ ~d.initialised /\ ~d.over /\ d.read = 0 /\ d.fed = <<>> /\ d.made = 0 /\ ~d.torn
        /\ d.incomplete_utf8 = <<>> /\ ~d.hex_flag
    BY <2>d DEF NewDecipher
  <2>3. d.read <= TextLength
    <3>1. TextLength \in Nat BY <1>0, <1>2, TextLengthType
    <3> QED BY <2>2, <3>1
  <2>4. DecipherMade(<<>>) = 0 BY <1>e, DecipherMadeIs
  <2>5. ReadOK(d)
    <3>u. use.from \in {"binary", "hex", "base64"} BY <1>0, <1>2, UseIs
    <3>c. PICK c \in Nat : c = CipherLength BY CipherLengthIs
    <3>1. 0 \div 2 = 0 /\ 3 * (0 \div 4) = 0 /\ 0 % 2 = 0 /\ 0 % 4 = 0 OBVIOUS
    <3>2. FedTo(0) = 0 BY <3>u, <3>c, <3>1 DEF FedTo
    <3> QED BY <1>s, <2>2, <3>1, <3>2 DEF ReadOK
  <2>6. ShownTo(0, d, <<>>)
    <3>1. Kept(<<>>, Nat \ {0}) = <<>> BY KeptEmpty
    <3>2. Kind(0 + 1) # "c" BY CipherAssumption
    <3>3. 0 <= 0 /\ 0 - 0 <= 3 /\ ~(0 < 0) OBVIOUS
    <3> QED BY <1>s, <2>2, <3>1, <3>2, <3>3 DEF ShownTo
  <2>7. \E q \in Nat : ShownTo(q, d, <<>>) BY <2>6
  <2>8. Len(d.incomplete_utf8) < 4 BY <2>2
  <2> QED BY <2>1, <2>2, <2>3, <2>4, <2>5, <2>7, <2>8, <2>d DEF DecipherOK
<1> QED BY <1>0, <1>1, <1>2, <1>e DEF CiphersInv

\* The texts of a Cipher are positions.
LEMMA CipherText ==
    ASSUME CiphersInv, CipherNext
    PROVE  text' \in Seq(Nat)
<1>0. text \in Seq(Nat) /\ use.object = "Cipher" /\ CipherOK(cipher, text)
  BY DEF CiphersInv, CipherNext, CipherInit, CipherUpdate, CipherFinal
<1>1. cipher.made \in Nat /\ cipher.given \in Nat /\ cipher.incomplete_base64 \in Seq(Nat)
  BY <1>0, CipherAssumption DEF CipherOK, CipherRecord
<1>2. CASE CipherInit BY <1>0, <1>2 DEF CipherInit
<1>3. CASE CipherFinal
  <2>1. PICK made : made = CipherMadeAtEnd(cipher.given) OBVIOUS
  <2>2. cipher.initialised BY <1>3 DEF CipherFinal
  <2>3. ~cipher.over /\ cipher.made = CipherMade(cipher.given) BY <1>0, <2>2 DEF CipherOK
  <2>4. made \in Nat /\ cipher.made <= made BY <1>1, <2>1, <2>3, CipherAssumption DEF CipherMadeAtEnd
  <2>5. Stretch(cipher.made, made) \in Seq(Nat) BY <1>1, <2>4, StretchType
  <2>6. text \o Stretch(cipher.made, made) \in Seq(Nat) BY <1>0, <2>5, ConcatLength
  <2> QED BY <1>0, <1>3, <2>1, <2>6 DEF CipherFinal
<1>4. CASE \E n \in 0..MaxPiece : CipherUpdate(n)
  <2>1. PICK n \in 0..MaxPiece : CipherUpdate(n) BY <1>4
  <2>2. CipherOK(cipher', text') BY <1>0, <2>1, CipherUpdateOK
  <2>3. CASE text' = text BY <1>0, <2>3
  <2>4. CASE text' # text
    <3>1. use.out # "unknown" BY <2>1, <2>4 DEF CipherUpdate
    <3>2. PICK a \in Nat, b \in Nat : a <= b /\ b <= cipher'.made /\ text' = Stretch(0, a) \o Stretch(b, cipher'.made)
      BY <2>2, <3>1 DEF CipherOK
    <3>m. PICK m \in Nat : m = cipher'.made BY <2>2 DEF CipherOK, CipherRecord
    <3>x. PICK x \in Seq(Nat) : x = Stretch(0, a) BY StretchType
    <3>y. PICK y \in Seq(Nat) : y = Stretch(b, m) BY <3>2, <3>m, StretchType
    <3>3. x \o y \in Seq(Nat) BY ConcatLength
    <3> QED BY <3>2, <3>3, <3>m, <3>x, <3>y
  <2> QED BY <2>3, <2>4
<1> QED BY <1>2, <1>3, <1>4 DEF CipherNext

\* Every step keeps it.
LEMMA CiphersStep == ASSUME CiphersInv, [CiphersNext]_cipherVars PROVE CiphersInv'
<1>1. CASE CipherNext
  <2>1. use' = use /\ decipher' = decipher /\ use.object = "Cipher"
    BY <1>1 DEF CipherNext, CipherInit, CipherUpdate, CipherFinal
  <2>2. use \in Use /\ decipher = NewDecipher /\ CipherOK(cipher, text) BY <2>1 DEF CiphersInv
  <2>3. CipherOK(cipher', text')
    <3>1. CASE CipherInit BY <2>2, <3>1, CipherInitOK
    <3>2. CASE \E n \in 0..MaxPiece : CipherUpdate(n) BY <2>2, <3>2, CipherUpdateOK
    <3>3. CASE CipherFinal BY <2>2, <3>3, CipherFinalOK
    <3> QED BY <1>1, <3>1, <3>2, <3>3 DEF CipherNext
  <2>4. CipherOK(cipher, text)' BY <2>1, <2>3, CipherOKNext
  <2>5. text' \in Seq(Nat) BY <1>1, CipherText
  <2>6. decipher' = NewDecipher BY <2>1, <2>2
  <2>7. NewDecipher' = NewDecipher BY DEF NewDecipher
  <2>8. use' \in Use /\ use'.object = "Cipher" BY <2>1, <2>2
  <2>9. Use' = Use BY DEF Use
  <2> QED BY <2>4, <2>5, <2>6, <2>7, <2>8, <2>9 DEF CiphersInv
<1>2. CASE DecipherNext
  <2>1. use' = use /\ cipher' = cipher /\ use.object = "Decipher"
    BY <1>2 DEF DecipherNext, DecipherInit, DecipherUpdate, DecipherFinal
  <2>2. use \in Use /\ cipher = NewCipher /\ DecipherOK(decipher, text) /\ text \in Seq(Nat) BY <2>1 DEF CiphersInv
  <2>3. DecipherOK(decipher', text') /\ text' \in Seq(Nat)
    <3>1. CASE DecipherInit BY <2>2, <3>1, DecipherInitOK
    <3>2. CASE \E n \in 0..MaxPiece : DecipherUpdate(n) BY <2>1, <2>2, <3>2, DecipherUpdateOK
    <3>3. CASE DecipherFinal BY <2>1, <2>2, <3>3, DecipherFinalOK
    <3> QED BY <1>2, <3>1, <3>2, <3>3 DEF DecipherNext
  <2>4. DecipherOK(decipher, text)' BY <2>1, <2>3, DecipherOKNext
  <2>6. cipher' = NewCipher BY <2>1, <2>2
  <2>8. use' \in Use /\ use'.object = "Decipher" BY <2>1, <2>2
  <2> QED BY <2>3, <2>4, <2>6, <2>8 DEF CiphersInv
<1>3. CASE UNCHANGED cipherVars
  <2>1. use' = use /\ cipher' = cipher /\ decipher' = decipher /\ text' = text BY <1>3 DEF cipherVars
  <2>2. use \in Use /\ text \in Seq(Nat) /\ use.object \in {"Cipher", "Decipher"} BY UseOf DEF CiphersInv
  <2>3. ASSUME use.object = "Cipher" PROVE CipherOK(cipher, text)' /\ decipher' = NewDecipher
    <3>1. CipherOK(cipher', text') BY <2>1, <2>3 DEF CiphersInv
    <3> QED BY <2>1, <2>3, <3>1, CipherOKNext DEF CiphersInv
  <2>4. ASSUME use.object = "Decipher" PROVE DecipherOK(decipher, text)' /\ cipher' = NewCipher
    <3>1. DecipherOK(decipher', text') BY <2>1, <2>4 DEF CiphersInv
    <3> QED BY <2>1, <2>4, <3>1, DecipherOKNext DEF CiphersInv
  <2> QED BY <2>1, <2>2, <2>3, <2>4 DEF CiphersInv
<1> QED BY <1>1, <1>2, <1>3 DEF CiphersNext

\* What the application can rely on.
LEMMA DecipherShows ==
    ASSUME CiphersInv, use.object = "Decipher", ~decipher.torn
    PROVE  DecipherReturnsPlaintext
<1>0. /\ decipher \in DecipherRecord /\ \E q \in Nat : ShownTo(q, decipher, text)
  BY DEF CiphersInv, DecipherOK
<1>1. PICK q \in Nat : ShownTo(q, decipher, text) BY <1>0
<1>m. PICK m \in Nat : m = decipher.made BY <1>0 DEF DecipherRecord
<1>l. PICK l \in Nat : l = Len(Plaintext) BY CipherLengthIs
<1>z. PICK z \in Nat : z = 0 OBVIOUS
<1>r. PICK right \in Seq(Nat) : right = Kept(text, Nat \ {0})
  <2>1. z <= q BY <1>z
  <2>2. Stretch(z, q) \in Seq(Nat) BY <2>1, StretchType
  <2> QED BY <1>1, <1>z, <2>2 DEF ShownTo
<1>2. right = Stretch(0, q) BY <1>1, <1>r DEF ShownTo
<1>3. Len(right) = q
  <2>1. z <= q BY <1>z
  <2>2. Len(Stretch(z, q)) = q - z BY <2>1, StretchType
  <2> QED BY <1>2, <1>z, <2>2
<1>4. right \o (IF decipher.over THEN <<>> ELSE decipher.incomplete_utf8)
        = Stretch(0, Len(right) + (IF decipher.over THEN 0 ELSE Len(decipher.incomplete_utf8)))
  <2>1. CASE decipher.over
    <3>1. right \o <<>> = right OBVIOUS
    <3>2. q + 0 = q OBVIOUS
    <3> QED BY <1>2, <1>3, <2>1, <3>1, <3>2
  <2>2. CASE ~decipher.over
    <3>1. q <= m /\ decipher.incomplete_utf8 = Stretch(q, m) BY <1>1, <1>m, <2>2 DEF ShownTo
    <3>2. Len(Stretch(q, m)) = m - q BY <3>1, StretchType
    <3>3. Stretch(0, q) \o Stretch(q, m) = Stretch(0, m) BY <3>1, StretchOn
    <3>4. q + (m - q) = m OBVIOUS
    <3> QED BY <1>2, <1>3, <2>2, <3>1, <3>2, <3>3, <3>4
  <2> QED BY <2>1, <2>2
<1>5. ASSUME decipher.over, decipher.read = TextLength, ~PaddingFails
      PROVE  SubSeq(right, 1, l) = Stretch(0, l)
  <2>1. z <= l /\ l <= q BY <1>1, <1>5, <1>l, <1>z DEF ShownTo
  <2>2. SubSeq(Stretch(z, q), 1, l - z) = Stretch(z, l) BY <2>1, StretchHead
  <2>3. l - z = l BY <1>z
  <2> QED BY <1>2, <1>z, <2>2, <2>3
<1> QED BY <1>4, <1>5, <1>l, <1>r DEF DecipherReturnsPlaintext

\* No text ends inside a character.
LEMMA DecipherWhole == CiphersInv => Utf8TextsAreWhole
<1> SUFFICES ASSUME CiphersInv, use.object = "Decipher", use.to = "utf8" PROVE Kind(Len(Kept(text, Nat \ {0})) + 1) # "c"
  BY DEF Utf8TextsAreWhole
<1>1. PICK q \in Nat : ShownTo(q, decipher, text) BY DEF CiphersInv, DecipherOK
<1>z. PICK z \in Nat : z = 0 OBVIOUS
<1>2. Kept(text, Nat \ {0}) = Stretch(0, q) /\ Kind(q + 1) # "c" BY <1>1 DEF ShownTo
<1>3. Len(Stretch(0, q)) = q
  <2>1. z <= q BY <1>z
  <2>2. Len(Stretch(z, q)) = q - z BY <2>1, StretchType
  <2> QED BY <1>z, <2>2
<1> QED BY <1>2, <1>3

\* The types.
LEMMA CiphersTyped == CiphersInv => CiphersTypeOK
<1> SUFFICES ASSUME CiphersInv PROVE CiphersTypeOK
  OBVIOUS
<1>u. use.object \in {"Cipher", "Decipher"} BY UseOf DEF CiphersInv
<1>1. NewCipher \in CipherRecord /\ Len(NewCipher.incomplete_base64) < 3
  <2>1. 0 \in 0..MaxBytes /\ <<>> \in Seq(Nat) BY CipherAssumption
  <2>2. NewCipher.incomplete_base64 = <<>> BY DEF NewCipher
  <2>3. Len(<<>>) < 3 OBVIOUS
  <2>4. NewCipher \in CipherRecord BY <2>1 DEF NewCipher, CipherRecord
  <2> QED BY <2>2, <2>3, <2>4
<1>2. NewDecipher \in DecipherRecord /\ Len(NewDecipher.incomplete_utf8) < 4
  <2>1. NewDecipher.incomplete_utf8 = <<>> BY NewDecipherType
  <2>2. Len(<<>>) < 4 OBVIOUS
  <2> QED BY <2>1, <2>2, NewDecipherType
<1>3. cipher \in CipherRecord /\ Len(cipher.incomplete_base64) < 3 BY <1>1, <1>u DEF CiphersInv, CipherOK
<1>4. decipher \in DecipherRecord /\ Len(decipher.incomplete_utf8) < 4 BY <1>2, <1>u DEF CiphersInv, DecipherOK
<1> QED BY <1>3, <1>4 DEF CiphersInv, CiphersTypeOK, CipherRecord, DecipherRecord

\* No byte is lost between two updates, the texts joined are the whole, and none ends inside a character.
THEOREM CiphersAreSafe == CiphersSpec => []CiphersSafe
<1>1. CiphersInit => CiphersInv BY CiphersStart
<1>2. CiphersInv /\ [CiphersNext]_cipherVars => CiphersInv' BY CiphersStep
<1>3. CiphersInv => CiphersSafe
  <2> SUFFICES ASSUME CiphersInv PROVE CiphersSafe
    OBVIOUS
  <2>1. CiphersTypeOK BY CiphersTyped
  <2>2. CipherKeepsBytes
    <3>1. ASSUME use.object = "Cipher", use.out # "unknown"
          PROVE \/ ~cipher.over /\ text \o cipher.incomplete_base64 = Stretch(0, cipher.made)
                \/ cipher.over /\ Kept(Stretch(0, cipher.made), (1..cipher.made) \ Range(cipher.incomplete_base64)) = text
      <4>1. CipherOK(cipher, text) BY <3>1 DEF CiphersInv
      <4> QED BY <3>1, <4>1, CipherKeeps
    <3> QED BY <3>1, Zenon DEF CipherKeepsBytes
  <2>3. DecipherReturnsPlaintext
    <3>1. CASE use.object = "Decipher" /\ ~decipher.torn BY <3>1, DecipherShows
    <3>2. CASE ~(use.object = "Decipher" /\ ~decipher.torn) BY <3>2, Zenon DEF DecipherReturnsPlaintext
    <3> QED BY <3>1, <3>2
  <2>4. Utf8TextsAreWhole BY DecipherWhole
  <2> QED BY <2>1, <2>2, <2>3, <2>4 DEF CiphersSafe
<1> QED BY <1>1, <1>2, <1>3, PTL DEF CiphersSpec

\* What node turns into another form: every command line runs the first program
\* on the path with its arguments as given (src/node_child_process_win32.cc), and
\* every text ciphered or deciphered in pieces is the whole one (src/node_crypto.cc).
THEOREM ConversionsAreSafe == Win32Spec /\ CiphersSpec => []ConversionsSafe
<1>1. Win32Spec => []CommandLineSafe BY CommandLinesAreSafe
<1>2. CiphersSpec => []CiphersSafe BY CiphersAreSafe
<1>3. CommandLineSafe /\ CiphersSafe => ConversionsSafe BY DEF ConversionsSafe
<1> QED BY <1>1, <1>2, <1>3, PTL
=============================================================================
