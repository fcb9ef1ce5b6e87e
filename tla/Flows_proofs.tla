----------------------------- MODULE Flows_proofs -----------------------------
(***************************************************************************)
(* Theorems about what happens to a flow before it runs: FlowGraph         *)
(* computes for every flow what GraphSpec says.                            *)
(***************************************************************************)
EXTENDS Flows, WellFoundedInduction, FiniteSetTheorems, SequenceTheorems, TLAPS

(* A non-empty set of naturals has a least element.                        *)
LEMMA LeastNat ==
  ASSUME NEW T, T \subseteq Nat, T # {}
  PROVE  \E x \in T : \A y \in T : x <= y
<1>1. PICK x \in T : \A y \in T : <<y, x>> \notin OpToRel(<, Nat)
  BY NatLessThanWellFounded, WFMin, Zenon
<1>2. \A y \in T : ~(y < x)
  <2>1. SUFFICES ASSUME NEW y \in T, y < x PROVE FALSE
    OBVIOUS
  <2>2. <<y, x>> \in Nat \X Nat /\ <<y, x>>[1] < <<y, x>>[2]
    BY <2>1
  <2> QED BY <1>1, <2>2 DEF OpToRel
<1> QED BY <1>2

-----------------------------------------------------------------------------
(***************************************************************************)
(* The graph that GraphAssumption is about: FlowGraph computes for every   *)
(* flow what GraphSpec says.  The loops are those of FlowGraph, recursive  *)
(* functions of the number of their passes; what one of them keeps is a    *)
(* set of passes that holds 0 and with n - 1 also n.                       *)
(***************************************************************************)
\* What holds of 0, and of n if it holds of n - 1, holds up to N.
LEMMA Counting ==
  ASSUME NEW N \in Nat, NEW P, 0 \in P, \A n \in 1 .. N : n - 1 \in P => n \in P
  PROVE  0 .. N \subseteq P
<1> DEFINE T == {n \in 0 .. N : n \notin P}
<1>1. SUFFICES ASSUME T # {} PROVE FALSE
  OBVIOUS
<1>2. PICK n \in T : \A m \in T : n <= m
  <2>1. T \subseteq Nat
    OBVIOUS
  <2> HIDE DEF T
  <2> QED BY <1>1, <2>1, LeastNat
<1>3. n \in 1 .. N /\ n - 1 \in 0 .. N /\ n - 1 \notin T
  BY <1>2
<1> QED BY <1>3

\* f is a loop of N passes from a, whose n-th pass is the function body[n] on S.
Runs(f, N, S, a, body) ==
    f \in [0 .. N -> S] /\ f[0] = a /\ \A n \in 1 .. N : f[n] = body[n][f[n - 1]]

\* The bodies of such loops.
Bodies(N, S) == [1 .. N -> [S -> S]]

\* Every loop runs.
LEMMA LoopRuns ==
  ASSUME NEW N \in Nat, NEW S, NEW a \in S, NEW body \in Bodies(N, S)
  PROVE  \E f : Runs(f, N, S, a, body)
<1> DEFINE P == {m \in 0 .. N : \E f : Runs(f, m, S, a, body)}
<1>1. 0 \in P
  <2>1. Runs([n \in 0 .. 0 |-> a], 0, S, a, body)
    BY DEF Runs
  <2> QED BY <2>1
<1>2. ASSUME NEW m \in 1 .. N, m - 1 \in P PROVE m \in P
  <2>1. PICK f : Runs(f, m - 1, S, a, body)
    BY <1>2
  <2> DEFINE g == [n \in 0 .. m |-> IF n = m THEN body[m][f[m - 1]] ELSE f[n]]
  <2>2. \A n \in 0 .. m : n # m => n \in 0 .. (m - 1)
    OBVIOUS
  <2>3. g \in [0 .. m -> S]
    BY <2>1, <2>2 DEF Runs, Bodies
  <2>4. ASSUME NEW n \in 1 .. m PROVE g[n] = body[n][g[n - 1]]
    <3>1. n - 1 \in 0 .. m /\ n - 1 # m /\ n \in 0 .. m
      OBVIOUS
    <3>2. n # m => n \in 1 .. (m - 1)
      OBVIOUS
    <3> QED BY <2>1, <3>1, <3>2 DEF Runs
  <2>5. g[0] = a
    BY <2>1 DEF Runs
  <2>6. Runs(g, m, S, a, body)
    BY <2>3, <2>4, <2>5 DEF Runs
  <2> QED BY <2>6
<1> HIDE DEF P
<1>3. N \in P
  BY <1>1, <1>2, Counting
<1> QED BY <1>3 DEF P

\* What holds of a before the loop and is kept by every pass holds after it.
LEMMA LoopKeeps ==
  ASSUME NEW N \in Nat, NEW P, 0 \in P, \A n \in 1 .. N : n - 1 \in P => n \in P
  PROVE  N \in P
BY Counting

\* The sequence q holds the members of X, each once.
Lists(q, X) == q \in Seq(X) /\ ToSet(q) = X /\ \A i, j \in DOMAIN q : q[i] = q[j] => i = j

\* The empty sequence lists the empty set.
LEMMA ListsNothing == Lists(<<>>, {})
BY DEF Lists, ToSet

\* A new member is listed by appending it.
LEMMA ListsAppend ==
  ASSUME NEW q, NEW X, Lists(q, X), NEW x, x \notin X
  PROVE  Lists(Append(q, x), X \cup {x})
<1>1. q \in Seq(X \cup {x}) /\ x \in X \cup {x}
  BY SeqMonotonic DEF Lists
<1>2. /\ Append(q, x) \in Seq(X \cup {x})
      /\ DOMAIN Append(q, x) = 1 .. Len(q) + 1 /\ DOMAIN q = 1 .. Len(q) /\ Len(q) \in Nat
      /\ \A i \in 1 .. Len(q) : Append(q, x)[i] = q[i]
      /\ Append(q, x)[Len(q) + 1] = x
  BY <1>1
<1>3. \A i \in 1 .. Len(q) : q[i] \in X
  BY <1>2 DEF Lists
<1>4. ToSet(Append(q, x)) = X \cup {x}
  <2>1. ToSet(q) = X
    BY DEF Lists
  <2> QED BY <1>2, <2>1 DEF ToSet
<1>5. ASSUME NEW i \in 1 .. Len(q) + 1, NEW j \in 1 .. Len(q) + 1, Append(q, x)[i] = Append(q, x)[j]
      PROVE  i = j
  <2>1. i \in 1 .. Len(q) \/ i = Len(q) + 1
    BY <1>2
  <2>2. j \in 1 .. Len(q) \/ j = Len(q) + 1
    BY <1>2
  <2> QED BY <1>2, <1>3, <1>5, <2>1, <2>2 DEF Lists
<1> QED BY <1>2, <1>4, <1>5 DEF Lists

\* The members of q up to the n-th.
Upto(q, n) == {q[i] : i \in 1 .. n}

\* The n-th member is not among those before it.
LEMMA UptoGrows ==
  ASSUME NEW X, NEW q, Lists(q, X), NEW n \in 1 .. Len(q)
  PROVE  /\ Upto(q, n) = Upto(q, n - 1) \cup {q[n]}
         /\ q[n] \notin Upto(q, n - 1)
         /\ q[n] \in X
<1>1. q \in Seq(X) /\ DOMAIN q = 1 .. Len(q) /\ Len(q) \in Nat
  BY DEF Lists
<1>2. 1 .. n = (1 .. (n - 1)) \cup {n}
  BY <1>1
<1>3. \A i \in 1 .. (n - 1) : i \in DOMAIN q /\ n \in DOMAIN q /\ i # n
  BY <1>1
<1> QED BY <1>1, <1>2, <1>3 DEF Upto, Lists

\* Up to 0 there is no member, up to the end all are there.
LEMMA UptoEnds ==
  ASSUME NEW X, NEW q, Lists(q, X)
  PROVE  Upto(q, 0) = {} /\ Upto(q, Len(q)) = X /\ Len(q) \in Nat
<1>1. q \in Seq(X) /\ DOMAIN q = 1 .. Len(q) /\ Len(q) \in Nat
  BY DEF Lists
<1>2. Upto(q, 0) = {}
  BY DEF Upto
<1>3. Upto(q, Len(q)) = ToSet(q)
  BY <1>1 DEF Upto, ToSet
<1> QED BY <1>1, <1>2, <1>3 DEF Lists

\* The ids of the steps of a flow differ, which validate() sees to.
IsFlow(flow) == Lists(flow.ids, Ids(flow))

\* A loop over flow.steps collects each step that it is to collect, once.
LEMMA InOrderLists ==
  ASSUME NEW flow, IsFlow(flow), NEW S
  PROVE  Lists(InOrder(flow, S), Ids(flow) \cap S)
<1> DEFINE ids == flow.ids
           I == Ids(flow)
           N == Len(ids)
           Adds(n, q) == IF ids[n] \in S THEN Append(q, ids[n]) ELSE q
           body == [n \in 1 .. N |-> [q \in Seq(I) |-> Adds(n, q)]]
           Loop(f) == f = [n \in 0 .. N |-> IF n = 0 THEN <<>> ELSE Adds(n, f[n - 1])]
<1>1. Lists(ids, I) /\ N \in Nat /\ \A n \in 1 .. N : ids[n] \in I
  BY DEF IsFlow, Lists
<1>2. PICK f : Runs(f, N, Seq(I), <<>>, body)
  <2>1. <<>> \in Seq(I) /\ body \in Bodies(N, Seq(I))
    BY <1>1 DEF Bodies
  <2> HIDE DEF body, N, I
  <2> QED BY <1>1, <2>1, LoopRuns
<1>3. Loop(f)
  <2>1. ASSUME NEW n \in 0 .. N, n # 0 PROVE f[n] = Adds(n, f[n - 1])
    <3>1. n \in 1 .. N /\ n - 1 \in 0 .. N
      BY <1>1, <2>1
    <3>2. f[n - 1] \in Seq(I) /\ f[n] = body[n][f[n - 1]]
      BY <1>2, <3>1 DEF Runs
    <3> HIDE DEF N, I, Adds
    <3> QED BY <3>1, <3>2
  <2> HIDE DEF Adds, body
  <2> QED BY <1>2, <2>1 DEF Runs
<1> DEFINE kept == CHOOSE g : Loop(g)
<1>4. Loop(kept)
  <2> HIDE DEF Loop
  <2> QED BY <1>3
<1>5. InOrder(flow, S) = kept[N]
  BY DEF InOrder
<1> HIDE DEF kept
<1> DEFINE P == {n \in 0 .. N : Lists(kept[n], Upto(ids, n) \cap S)}
<1>6. 0 \in P
  <2>1. kept[0] = <<>> /\ Upto(ids, 0) \cap S = {} /\ 0 \in 0 .. N
    BY <1>1, <1>4, UptoEnds
  <2> QED BY <2>1, ListsNothing
<1>7. ASSUME NEW n \in 1 .. N, n - 1 \in P PROVE n \in P
  <2>1. kept[n] = Adds(n, kept[n - 1])
    <3>1. n \in 0 .. N /\ n # 0
      BY <1>1
    <3> HIDE DEF N, Adds
    <3> QED BY <1>4, <3>1
  <2>2. Lists(kept[n - 1], Upto(ids, n - 1) \cap S)
    BY <1>7
  <2>3. Upto(ids, n) = Upto(ids, n - 1) \cup {ids[n]} /\ ids[n] \notin Upto(ids, n - 1)
    BY <1>1, UptoGrows
  <2>4. Upto(ids, n) \cap S = IF ids[n] \in S THEN (Upto(ids, n - 1) \cap S) \cup {ids[n]}
                                             ELSE Upto(ids, n - 1) \cap S
    BY <2>3
  <2>5. Lists(kept[n], Upto(ids, n) \cap S)
    <3> DEFINE X == Upto(ids, n - 1) \cap S
    <3>1. Lists(kept[n - 1], X) /\ ids[n] \notin X
      BY <2>2, <2>3
    <3> HIDE DEF X
    <3>2. Lists(Append(kept[n - 1], ids[n]), X \cup {ids[n]})
      BY <3>1, ListsAppend
    <3>3. Upto(ids, n) \cap S = IF ids[n] \in S THEN X \cup {ids[n]} ELSE X
      BY <2>4 DEF X
    <3> QED BY <2>1, <3>1, <3>2, <3>3
  <2>6. n \in 0 .. N
    BY <1>1
  <2> HIDE DEF N
  <2> QED BY <2>5, <2>6
<1>8. N \in P
  <2> HIDE DEF P
  <2> QED BY <1>1, <1>6, <1>7, LoopKeeps
<1>9. Upto(ids, N) = I
  BY <1>1, UptoEnds
<1> QED BY <1>5, <1>8, <1>9

\* A closed set holds the successors of its members.
Closed(C, start, succ) ==
    ToSet(start) \subseteq C /\ \A v \in DOMAIN succ : v \in C => ToSet(succ[v]) \subseteq C

\* What is on the stack after a push.
LEMMA Pushed ==
  ASSUME NEW V, NEW q \in Seq(V), NEW r \in Seq(V)
  PROVE  q \o r \in Seq(V) /\ Len(q \o r) = Len(q) + Len(r) /\ ToSet(q \o r) = ToSet(q) \cup ToSet(r)
<1>1. q \o r \in Seq(V) /\ Len(q \o r) = Len(q) + Len(r)
  OBVIOUS
<1>2. \A i \in DOMAIN q : (q \o r)[i] = q[i] /\ i \in DOMAIN (q \o r)
  OBVIOUS
<1>3. \A i \in DOMAIN r : (q \o r)[Len(q) + i] = r[i] /\ Len(q) + i \in DOMAIN (q \o r)
  OBVIOUS
<1>4. ASSUME NEW i \in DOMAIN (q \o r) PROVE (q \o r)[i] \in ToSet(q) \cup ToSet(r)
  <2>1. CASE i \in DOMAIN q
    BY <1>2, <2>1 DEF ToSet
  <2>2. CASE i \notin DOMAIN q
    <3>1. i - Len(q) \in DOMAIN r /\ (q \o r)[i] = r[i - Len(q)]
      BY <2>2
    <3> QED BY <3>1 DEF ToSet
  <2> QED BY <2>1, <2>2
<1>5. ToSet(q) \subseteq ToSet(q \o r)
  BY <1>2 DEF ToSet
<1>6. ToSet(r) \subseteq ToSet(q \o r)
  BY <1>3 DEF ToSet
<1>7. ToSet(q \o r) \subseteq ToSet(q) \cup ToSet(r)
  BY <1>4 DEF ToSet
<1> QED BY <1>1, <1>5, <1>6, <1>7

\* What is on the stack before and after a pop.
LEMMA Popped ==
  ASSUME NEW V, NEW q \in Seq(V), q # <<>>
  PROVE  /\ Front(q) \in Seq(V) /\ Len(Front(q)) = Len(q) - 1
         /\ Last(q) \in V /\ ToSet(q) = ToSet(Front(q)) \cup {Last(q)}
<1>1. Len(q) \in Nat \ {0} /\ DOMAIN q = 1 .. Len(q)
  OBVIOUS
<1>2. Front(q) \in Seq(V) /\ Len(Front(q)) = Len(q) - 1
  BY <1>1 DEF Front
<1>3. \A i \in 1 .. (Len(q) - 1) : Front(q)[i] = q[i] /\ i \in DOMAIN Front(q)
  BY <1>1 DEF Front
<1>4. DOMAIN Front(q) = 1 .. (Len(q) - 1)
  BY <1>1, <1>2
<1>5. Last(q) = q[Len(q)] /\ Last(q) \in V
  BY <1>1 DEF Last
<1>6. 1 .. Len(q) = (1 .. (Len(q) - 1)) \cup {Len(q)}
  BY <1>1
<1>7. ToSet(q) = ToSet(Front(q)) \cup {Last(q)}
  BY <1>1, <1>3, <1>4, <1>5, <1>6 DEF ToSet
<1> QED BY <1>2, <1>5, <1>7

\* The invariant of the search: what was seen or is on the stack holds the
\* successors of what was seen, and is in every closed set.
SearchInv(st, start, succ) ==
    /\ \A v \in st.seen : ToSet(succ[v]) \subseteq st.seen \cup ToSet(st.stack)
    /\ ToSet(start) \subseteq st.seen \cup ToSet(st.stack)
    /\ \A C : Closed(C, start, succ) => st.seen \cup ToSet(st.stack) \subseteq C

\* The passes that are left at most: one for all that is on the stack, or will be.
Left(st, V) == Len(st.stack) + Cardinality(V) * (Cardinality(V) - Cardinality(st.seen))

\* A pass of the search keeps the invariant and leaves fewer passes.
LEMMA PopKeeps ==
  ASSUME NEW V, IsFiniteSet(V), NEW succ \in [V -> Seq(V)], NEW start \in Seq(V),
         \A v \in V : Len(succ[v]) <= Cardinality(V),
         NEW st \in [seen : SUBSET V, stack : Seq(V)]
  PROVE  /\ Pop(st, succ) \in [seen : SUBSET V, stack : Seq(V)]
         /\ SearchInv(st, start, succ) => SearchInv(Pop(st, succ), start, succ)
         /\ Left(st, V) \in Nat
         /\ st.stack # <<>> => Left(Pop(st, succ), V) < Left(st, V)
<1> DEFINE node == Last(st.stack)
           rest == Front(st.stack)
           M == Cardinality(V)
           k == Cardinality(st.seen)
<1>1. M \in Nat /\ k \in Nat /\ k <= M /\ IsFiniteSet(st.seen) /\ Len(st.stack) \in Nat
  BY FS_CardinalityType, FS_Subset
<1>2. M * (M - k) \in Nat
  BY <1>1
<1>3. Left(st, V) \in Nat
  BY <1>1, <1>2 DEF Left
<1>4. CASE st.stack = <<>>
  BY <1>3, <1>4 DEF Pop, Last, Front, Last, Front
<1>5. ASSUME st.stack # <<>>
      PROVE  rest \in Seq(V) /\ Len(rest) = Len(st.stack) - 1 /\ node \in V
             /\ ToSet(st.stack) = ToSet(rest) \cup {node}
  BY <1>5, Popped
<1>6. CASE st.stack # <<>> /\ node \in st.seen
  <2>1. Pop(st, succ) = [seen |-> st.seen, stack |-> rest]
    BY <1>6 DEF Pop, Last, Front, Last, Front
  <2> HIDE DEF rest, node
  <2>2. SearchInv(st, start, succ) => SearchInv(Pop(st, succ), start, succ)
    BY <1>5, <1>6, <2>1 DEF SearchInv
  <2>3. Left(Pop(st, succ), V) = Left(st, V) - 1
    <3> DEFINE R == M * (M - k)
    <3>1. Left(Pop(st, succ), V) = Len(rest) + R /\ Left(st, V) = Len(st.stack) + R /\ R \in Nat
      BY <1>2, <2>1 DEF Left
    <3>2. Len(rest) = Len(st.stack) - 1 /\ Len(st.stack) \in Nat
      BY <1>1, <1>5, <1>6
    <3> HIDE DEF R
    <3> QED BY <3>1, <3>2
  <2> QED BY <1>3, <1>5, <1>6, <2>1, <2>2, <2>3
<1>7. CASE st.stack # <<>> /\ node \notin st.seen
  <2>1. Pop(st, succ) = [seen |-> st.seen \cup {node}, stack |-> rest \o succ[node]]
    BY <1>7 DEF Pop, Last, Front, Last, Front
  <2> HIDE DEF rest, node
  <2>2. /\ rest \o succ[node] \in Seq(V) /\ Len(rest \o succ[node]) = Len(rest) + Len(succ[node])
        /\ ToSet(rest \o succ[node]) = ToSet(rest) \cup ToSet(succ[node])
        /\ Len(succ[node]) \in Nat /\ Len(succ[node]) <= M /\ Len(rest) \in Nat
    BY <1>5, <1>7, Pushed
  <2>3. ASSUME SearchInv(st, start, succ) PROVE SearchInv(Pop(st, succ), start, succ)
    <3>1. node \in V /\ node \in DOMAIN succ
      BY <1>5, <1>7
    <3>2. \A C : Closed(C, start, succ) => node \in C /\ ToSet(succ[node]) \subseteq C
      BY <1>5, <1>7, <2>3, <3>1 DEF SearchInv, Closed
    <3>3. st.seen \cup ToSet(st.stack) \subseteq (st.seen \cup {node}) \cup ToSet(rest \o succ[node])
      BY <1>5, <1>7, <2>2
    <3>4. ToSet(succ[node]) \subseteq ToSet(rest \o succ[node])
      BY <2>2
    <3>5. \A C : Closed(C, start, succ)
             => (st.seen \cup {node}) \cup ToSet(rest \o succ[node]) \subseteq C
      BY <1>5, <1>7, <2>2, <2>3, <3>2 DEF SearchInv
    <3> QED BY <2>1, <2>3, <3>3, <3>4, <3>5 DEF SearchInv
  <2>4. Cardinality(st.seen \cup {node}) = k + 1
    BY <1>1, <1>7, FS_AddElement
  <2>5. Left(Pop(st, succ), V) < Left(st, V)
    <3>1. M * (M - (k + 1)) = M * (M - k) - M
      BY <1>1
    <3>2. Left(Pop(st, succ), V) = Len(rest) + Len(succ[node]) + M * (M - (k + 1))
      BY <2>1, <2>2, <2>4 DEF Left
    <3> HIDE DEF k, M
    <3> DEFINE R == M * (M - k)
    <3>3. Left(st, V) = Len(st.stack) + R /\ R \in Nat
      BY <1>2 DEF Left, k, M
    <3>4. Left(Pop(st, succ), V) = Len(rest) + Len(succ[node]) + (R - M)
      BY <3>1, <3>2
    <3> HIDE DEF R
    <3> QED BY <1>1, <1>5, <1>7, <2>2, <3>3, <3>4
  <2>6. Pop(st, succ) \in [seen : SUBSET V, stack : Seq(V)]
    BY <1>5, <1>7, <2>1, <2>2
  <2> QED BY <1>3, <2>3, <2>5, <2>6
<1> QED BY <1>4, <1>6, <1>7

(* Search collects the least closed set: all that can be reached from      *)
(* start, and nothing else.                                                *)
THEOREM SearchIsLeast ==
  ASSUME NEW V, IsFiniteSet(V), NEW succ \in [V -> Seq(V)], NEW start \in Seq(V),
         \A v \in V : Len(succ[v]) <= Cardinality(V), Len(start) <= Cardinality(V)
  PROVE  /\ Search(start, succ) \subseteq V
         /\ Closed(Search(start, succ), start, succ)
         /\ \A C : Closed(C, start, succ) => Search(start, succ) \subseteq C
<1> DEFINE M == Cardinality(DOMAIN succ)
           N == M * (M + 1)
           S == [seen : SUBSET V, stack : Seq(V)]
           a == [seen |-> {}, stack |-> start]
           body == [n \in 1 .. N |-> [st \in S |-> Pop(st, succ)]]
           Loop(f) == f = [n \in 0 .. N |-> IF n = 0 THEN a ELSE Pop(f[n - 1], succ)]
<1>1. M = Cardinality(V) /\ M \in Nat /\ N \in Nat /\ N = M + M * M
  <2>1. M = Cardinality(V) /\ M \in Nat
    BY FS_CardinalityType DEF Cardinality, Cardinality
  <2> HIDE DEF M
  <2> QED BY <2>1
<1>2. a \in S /\ SearchInv(a, start, succ) /\ Left(a, V) <= N
  <2>1. ToSet(start) \subseteq {} \cup ToSet(start) /\ a \in S
    OBVIOUS
  <2>2. SearchInv(a, start, succ)
    BY DEF SearchInv, Closed
  <2>3. Left(a, V) = Len(start) + M * M
    BY <1>1, FS_EmptySet DEF Left
  <2> HIDE DEF N, M, a
  <2> QED BY <1>1, <2>1, <2>2, <2>3
<1>3. \A st \in S : Pop(st, succ) \in S
  BY PopKeeps
<1> DEFINE passes == CHOOSE g : Loop(g)
<1>4. Search(start, succ) = passes[N].seen
  BY DEF Search
<1> HIDE DEF N, M, a, S, passes
<1>5. PICK f : Runs(f, N, S, a, body)
  <2>1. body \in Bodies(N, S)
    BY <1>3 DEF Bodies
  <2> HIDE DEF body
  <2> QED BY <1>1, <1>2, <2>1, LoopRuns
<1>6. f \in [0 .. N -> S] /\ Loop(f)
  <2>1. ASSUME NEW n \in 0 .. N, n # 0 PROVE f[n] = Pop(f[n - 1], succ)
    <3>1. n \in 1 .. N /\ n - 1 \in 0 .. N
      BY <1>1, <2>1
    <3>2. f[n - 1] \in S /\ f[n] = body[n][f[n - 1]]
      BY <1>5, <3>1 DEF Runs
    <3> QED BY <3>1, <3>2
  <2> HIDE DEF body
  <2> QED BY <1>5, <2>1 DEF Runs
<1>7. Loop(passes)
  <2> HIDE DEF Loop
  <2> QED BY <1>6 DEF passes
<1> DEFINE Has(n) == /\ passes[n] \in S /\ SearchInv(passes[n], start, succ)
                     /\ passes[n].stack = <<>> \/ Left(passes[n], V) + n <= N
           P == {n \in 0 .. N : Has(n)}
<1>8. 0 \in P
  <2>1. passes[0] = a /\ 0 \in 0 .. N
    BY <1>1, <1>7
  <2>2. Left(a, V) \in Nat
    BY <1>2, PopKeeps DEF S
  <2> QED BY <1>2, <2>1, <2>2
<1>9. ASSUME NEW n \in 1 .. N, n - 1 \in P PROVE n \in P
  <2> DEFINE st == passes[n - 1]
  <2>1. n \in 0 .. N /\ n # 0 /\ n \in Nat /\ N \in Nat
    BY <1>1
  <2>2. passes[n] = Pop(st, succ)
    BY <1>7, <2>1
  <2>3. st \in S /\ SearchInv(st, start, succ) /\ (st.stack = <<>> \/ Left(st, V) + (n - 1) <= N)
    <3>1. Has(n - 1)
      <4> HIDE DEF Has
      <4> QED BY <1>9
    <3> QED BY <3>1
  <2> HIDE DEF st
  <2>4. /\ Pop(st, succ) \in S /\ SearchInv(Pop(st, succ), start, succ)
        /\ st.stack # <<>> => Left(Pop(st, succ), V) < Left(st, V)
        /\ Left(st, V) \in Nat /\ Left(Pop(st, succ), V) \in Nat
    BY <2>3, PopKeeps DEF S
  <2>5. st.stack = <<>> => Pop(st, succ).stack = <<>>
    BY DEF Pop, Last, Front, Last, Front
  <2>6. passes[n].stack = <<>> \/ Left(passes[n], V) + n <= N
    BY <2>1, <2>2, <2>3, <2>4, <2>5
  <2> QED BY <2>1, <2>2, <2>4, <2>6
<1>10. N \in P
  <2> HIDE DEF P
  <2> QED BY <1>1, <1>8, <1>9, LoopKeeps
<1>11. /\ passes[N] \in S /\ SearchInv(passes[N], start, succ)
       /\ passes[N].stack = <<>> \/ Left(passes[N], V) + N <= N
  <2>1. Has(N)
    <3> HIDE DEF Has
    <3> QED BY <1>10
  <2> QED BY <2>1
<1>12. passes[N].stack = <<>>
  <2> DEFINE st == passes[N]
  <2>1. CASE Left(st, V) + N <= N
    <3>1. Left(st, V) \in Nat /\ Len(st.stack) \in Nat /\ Cardinality(st.seen) <= M
          /\ Cardinality(st.seen) \in Nat
      <4>1. st \in [seen : SUBSET V, stack : Seq(V)]
        BY <1>11 DEF S
      <4>2. IsFiniteSet(st.seen) /\ Cardinality(st.seen) <= Cardinality(V)
        BY <4>1, FS_Subset
      <4>3. Cardinality(st.seen) \in Nat
        BY <4>2, FS_CardinalityType
      <4> HIDE DEF st
      <4>4. Left(st, V) \in Nat
        BY <4>1, PopKeeps
      <4>5. Len(st.stack) \in Nat
        BY <4>1
      <4> QED BY <1>1, <4>2, <4>3, <4>4, <4>5
    <3>2. Left(st, V) = 0
      BY <1>1, <2>1, <3>1
    <3>3. M * (M - Cardinality(st.seen)) \in Nat
      BY <1>1, <3>1
    <3>4. Len(st.stack) = 0
      <4> DEFINE R == M * (M - Cardinality(st.seen))
      <4>1. Left(st, V) = Len(st.stack) + R
        BY <1>1 DEF Left
      <4> HIDE DEF R, st
      <4> QED BY <3>1, <3>2, <3>3, <4>1 DEF R
    <3> QED BY <1>11, <3>4 DEF S
  <2> QED BY <1>11, <2>1
<1> QED
  <2>1. ToSet(passes[N].stack) = {}
    BY <1>12 DEF ToSet
  <2> DEFINE R == passes[N].seen
  <2>2. R \in SUBSET V /\ R \cup ToSet(passes[N].stack) = R
    BY <1>11, <2>1 DEF S
  <2>3. /\ \A v \in R : ToSet(succ[v]) \subseteq R
        /\ ToSet(start) \subseteq R
        /\ \A C : Closed(C, start, succ) => R \subseteq C
    BY <1>11, <2>2 DEF SearchInv
  <2>4. Closed(R, start, succ)
    BY <2>3 DEF Closed
  <2> HIDE DEF R
  <2> QED BY <1>4, <2>2, <2>3, <2>4 DEF R

\* A sequence is as long as the set it lists is large.
LEMMA ListsCount ==
  ASSUME NEW q, NEW X, Lists(q, X)
  PROVE  IsFiniteSet(X) /\ Len(q) \in Nat /\ Cardinality(X) = Len(q)
<1>1. q \in [1 .. Len(q) -> X] /\ Len(q) \in Nat /\ DOMAIN q = 1 .. Len(q)
  BY DEF Lists
<1>2. \A x \in X : \E i \in 1 .. Len(q) : q[i] = x
  BY <1>1 DEF Lists, ToSet
<1>3. q \in Bijection(1 .. Len(q), X)
  BY <1>1, <1>2 DEF Bijection, Injection, Surjection, Lists, IsInjective
<1>4. IsFiniteSet(1 .. Len(q)) /\ Cardinality(1 .. Len(q)) = Len(q)
  <2> DEFINE n == Len(q)
  <2>1. n \in Nat /\ 1 \in Int /\ n \in Int
    BY <1>1
  <2> HIDE DEF n
  <2>2. IsFiniteSet(1 .. n) /\ Cardinality(1 .. n) = IF 1 > n THEN 0 ELSE n - 1 + 1
    BY <2>1, FS_Interval, Zenon
  <2> QED BY <2>1, <2>2 DEF n
<1> QED BY <1>1, <1>3, <1>4, FS_Bijection DEF ExistsBijection

\* A set as a sequence: each member once, whatever the order.
LEMMA SequenceOfSet ==
  ASSUME NEW X, IsFiniteSet(X)
  PROVE  SetToSeq(X) \in Seq(X) /\ Len(SetToSeq(X)) = Cardinality(X)
         /\ ToSet(SetToSeq(X)) = X
<1> DEFINE n == Cardinality(X)
           q == SetToSeq(X)
<1>1. n \in Nat /\ ExistsBijection(1 .. n, X)
  BY FS_CardinalityType
<1>2. \E f \in [1 .. n -> X] : \A i, j \in 1 .. n : f[i] = f[j] => i = j
  BY <1>1 DEF ExistsBijection, Bijection, Injection, IsInjective
<1>3. q \in [1 .. n -> X] /\ \A i, j \in 1 .. n : q[i] = q[j] => i = j
  <2>1. q = CHOOSE f \in [1 .. n -> X] : IsInjective(f)
    BY DEF SetToSeq, Cardinality, Cardinality
  <2>2. \E f \in [1 .. n -> X] : IsInjective(f)
    BY <1>2 DEF IsInjective
  <2> HIDE DEF n, q
  <2>3. q \in [1 .. n -> X] /\ IsInjective(q)
    BY <2>1, <2>2
  <2> QED BY <2>3 DEF IsInjective
<1> HIDE DEF q, n
<1>4. q \in Seq(X) /\ Len(q) = n /\ DOMAIN q = 1 .. n
  BY <1>1, <1>3
<1>5. Lists(q, ToSet(q))
  BY <1>3, <1>4 DEF Lists, ToSet
<1>6. ToSet(q) \subseteq X /\ Cardinality(ToSet(q)) = n
  BY <1>3, <1>4, <1>5, ListsCount DEF ToSet
<1>7. ToSet(q) = X
  BY <1>6, FS_Subset DEF n
<1> QED BY <1>4, <1>7 DEF q, n

\* adjacent[s] are the steps that depend on s.
LEMMA ChildrenAre ==
  ASSUME NEW flow, IsFlow(flow), NEW s
  PROVE  Lists(Children(flow, s), {t \in Ids(flow) : s \in flow.deps[t]})
<1> DEFINE T == {t \in Ids(flow) : s \in flow.deps[t]}
<1>1. Children(flow, s) = InOrder(flow, T) /\ Ids(flow) \cap T = T
  BY DEF Children
<1> HIDE DEF T
<1>2. Lists(Children(flow, s), T)
  BY <1>1, InOrderLists
<1> QED BY <1>2 DEF T

\* A list of members of V is no longer than V is large.
LEMMA ListsWithin ==
  ASSUME NEW V, IsFiniteSet(V), NEW X \in SUBSET V, NEW q, Lists(q, X)
  PROVE  q \in Seq(V) /\ Len(q) <= Cardinality(V) /\ ToSet(q) = X
<1>1. q \in Seq(V)
  BY SeqMonotonic DEF Lists
<1>2. Cardinality(X) <= Cardinality(V)
  BY FS_Subset
<1> QED BY <1>1, <1>2, ListsCount DEF Lists

(* descendants() are the steps that depend on a step, directly or through  *)
(* other descendants of it, on every flow, cyclic or not.                  *)
LEMMA DescendantsAreLeast ==
  ASSUME NEW flow, IsFlow(flow), NEW s \in Ids(flow)
  PROVE  /\ Descendants(flow, s) \subseteq Ids(flow)
         /\ \A t \in Ids(flow) : \A d \in flow.deps[t] :
              d = s \/ d \in Descendants(flow, s) => t \in Descendants(flow, s)
         /\ \A C : (\A t \in Ids(flow) : \A d \in flow.deps[t] : d = s \/ d \in C => t \in C)
                     => Descendants(flow, s) \subseteq C
<1> DEFINE I == Ids(flow)
           succ == [t \in I |-> Children(flow, t)]
           T(x) == {t \in I : x \in flow.deps[t]}
           R == Search(succ[s], succ)
<1>1. Descendants(flow, s) = R
  BY DEF Descendants
<1>2. IsFiniteSet(I)
  BY ListsCount DEF IsFlow
<1>3. \A x \in I : succ[x] \in Seq(I) /\ Len(succ[x]) <= Cardinality(I) /\ ToSet(succ[x]) = T(x)
  <2>1. SUFFICES ASSUME NEW x \in I
                 PROVE  succ[x] \in Seq(I) /\ Len(succ[x]) <= Cardinality(I) /\ ToSet(succ[x]) = T(x)
    OBVIOUS
  <2>2. succ[x] = Children(flow, x) /\ T(x) \subseteq I /\ Lists(succ[x], T(x))
    BY ChildrenAre
  <2> HIDE DEF succ, T, I
  <2> QED BY <1>2, <2>2, ListsWithin
<1>4. succ \in [I -> Seq(I)]
  BY <1>3
<1>5. /\ R \subseteq I
      /\ Closed(R, succ[s], succ)
      /\ \A C : Closed(C, succ[s], succ) => R \subseteq C
  <2>1. succ[s] \in Seq(I) /\ Len(succ[s]) <= Cardinality(I) /\ \A v \in I : Len(succ[v]) <= Cardinality(I)
    BY <1>3
  <2> HIDE DEF succ, I
  <2> QED BY <1>2, <1>4, <2>1, SearchIsLeast
<1>6. ASSUME NEW C
      PROVE  Closed(C, succ[s], succ) <=> \A t \in I : \A d \in flow.deps[t] \cap I : d = s \/ d \in C => t \in C
  <2>1. Closed(C, succ[s], succ) <=> T(s) \subseteq C /\ \A v \in I : v \in C => T(v) \subseteq C
    <3> HIDE DEF T
    <3> QED BY <1>3, <1>4 DEF Closed
  <2> QED BY <2>1
<1>7. ASSUME NEW C, \A t \in I : \A d \in flow.deps[t] : d = s \/ d \in C => t \in C
      PROVE  R \subseteq C
  <2> HIDE DEF R, succ
  <2> QED BY <1>5, <1>6, <1>7
<1>8. \A t \in I : \A d \in flow.deps[t] : d = s \/ d \in R => t \in R
  <2> HIDE DEF R, succ
  <2> QED BY <1>5, <1>6
<1> HIDE DEF R
<1> QED BY <1>1, <1>5, <1>7, <1>8

\* What a step depends on or reaches through dependencies, known or not.
LEMMA AncestorsAreLeast ==
  ASSUME NEW flow, IsFlow(flow), NEW D, IsFiniteSet(D), flow.deps \in [Ids(flow) -> SUBSET D],
         NEW s \in Ids(flow)
  PROVE  /\ flow.deps[s] \subseteq Ancestors(flow, s)
         /\ \A t \in Ids(flow) : t \in Ancestors(flow, s)
              => flow.deps[t] \subseteq Ancestors(flow, s)
         /\ \A C : flow.deps[s] \subseteq C
                    /\ (\A t \in Ids(flow) : t \in C => flow.deps[t] \subseteq C)
                  => Ancestors(flow, s) \subseteq C
<1> DEFINE I == Ids(flow)
           unknown == (UNION {flow.deps[t] : t \in I}) \ I
           V == I \cup unknown
           succ == [t \in V |-> IF t \in I THEN SetToSeq(flow.deps[t]) ELSE <<>>]
           R == Search(succ[s], succ)
           T(t) == IF t \in I THEN flow.deps[t] ELSE {}
<1>1. Ancestors(flow, s) = R
  BY DEF Ancestors
<1>2. \A x : x \in unknown <=> x \notin I /\ \E t \in I : x \in flow.deps[t]
  OBVIOUS
<1> HIDE DEF unknown
<1>3. IsFiniteSet(V)
  <2>1. IsFiniteSet(I) /\ unknown \in SUBSET D
    BY <1>2, ListsCount DEF IsFlow
  <2>2. IsFiniteSet(unknown)
    BY <2>1, FS_Subset
  <2> QED BY <2>1, <2>2, FS_Union
<1>4. ASSUME NEW t \in V
      PROVE  succ[t] \in Seq(V) /\ Len(succ[t]) <= Cardinality(V) /\ ToSet(succ[t]) = T(t)
  <2>1. CASE t \in I
    <3>1. flow.deps[t] \in SUBSET V
      BY <1>2, <2>1
    <3>2. succ[t] = SetToSeq(flow.deps[t]) /\ T(t) = flow.deps[t]
      BY <2>1
    <3> HIDE DEF V, succ, I, T
    <3>3. IsFiniteSet(flow.deps[t]) /\ Cardinality(flow.deps[t]) <= Cardinality(V)
      BY <1>3, <3>1, FS_Subset
    <3>4. succ[t] \in Seq(V)
      BY <3>1, <3>2, <3>3, SequenceOfSet, SeqMonotonic
    <3> QED BY <3>2, <3>3, <3>4, SequenceOfSet
  <2>2. CASE t \notin I
    <3>1. succ[t] = <<>> /\ T(t) = {}
      BY <2>2
    <3>2. Cardinality(V) \in Nat
      BY <1>3, FS_CardinalityType
    <3> HIDE DEF V, succ, T
    <3> QED BY <3>1, <3>2 DEF ToSet
  <2> QED BY <2>1, <2>2
<1>5. succ \in [V -> Seq(V)] /\ s \in V /\ T(s) = flow.deps[s]
  BY <1>4
<1>6. /\ Closed(R, succ[s], succ)
      /\ \A C : Closed(C, succ[s], succ) => R \subseteq C
  <2>1. succ[s] \in Seq(V) /\ Len(succ[s]) <= Cardinality(V) /\ \A v \in V : Len(succ[v]) <= Cardinality(V)
    BY <1>4, <1>5
  <2> HIDE DEF succ, V
  <2> QED BY <1>3, <1>5, <2>1, SearchIsLeast
<1>7. ASSUME NEW C
      PROVE  Closed(C, succ[s], succ) <=>
               flow.deps[s] \subseteq C /\ \A t \in I : t \in C => flow.deps[t] \subseteq C
  <2>1. Closed(C, succ[s], succ) <=> T(s) \subseteq C /\ \A v \in V : v \in C => T(v) \subseteq C
    <3> HIDE DEF T, V
    <3> QED BY <1>4, <1>5 DEF Closed
  <2> QED BY <1>5, <2>1
<1> HIDE DEF R, succ
<1>8. flow.deps[s] \subseteq R /\ \A t \in I : t \in R => flow.deps[t] \subseteq R
  BY <1>6, <1>7
<1>9. ASSUME NEW C, flow.deps[s] \subseteq C, \A t \in I : t \in C => flow.deps[t] \subseteq C
      PROVE  R \subseteq C
  BY <1>6, <1>7, <1>9
<1> QED BY <1>1, <1>8, <1>9

(* descendants() of a step are those that depend on it, directly or        *)
(* through other descendants, and ancestors() is the same relation seen    *)
(* from the other end: on every flow, cyclic or with unknown dependencies. *)
THEOREM SearchesAgree ==
  ASSUME NEW flow, IsFlow(flow), NEW D, IsFiniteSet(D), flow.deps \in [Ids(flow) -> SUBSET D],
         NEW s \in Ids(flow), NEW t \in Ids(flow)
  PROVE  /\ t \in Descendants(flow, s)
               <=> \E d \in flow.deps[t] : d = s \/ d \in Descendants(flow, s)
         /\ t \in Descendants(flow, s) <=> s \in Ancestors(flow, t)
<1> DEFINE I == Ids(flow)
           Below(x) == Descendants(flow, x)
           Above(x) == Ancestors(flow, x)
<1>1. ASSUME NEW x \in I
      PROVE  /\ Below(x) \subseteq I
             /\ \A u \in I : \A d \in flow.deps[u] : d = x \/ d \in Below(x) => u \in Below(x)
             /\ \A C : (\A u \in I : \A d \in flow.deps[u] : d = x \/ d \in C => u \in C) => Below(x) \subseteq C
  BY <1>1, DescendantsAreLeast
<1>2. ASSUME NEW x \in I
      PROVE  /\ flow.deps[x] \subseteq Above(x)
             /\ \A u \in I : u \in Above(x) => flow.deps[u] \subseteq Above(x)
             /\ \A C : flow.deps[x] \subseteq C /\ (\A u \in I : u \in C => flow.deps[u] \subseteq C)
                      => Above(x) \subseteq C
  BY <1>2, AncestorsAreLeast
<1>3. s \in I /\ t \in I /\ \A u \in I : flow.deps[u] \subseteq D
  OBVIOUS
<1> HIDE DEF I, Below, Above
<1>4. t \in Below(s) => \E d \in flow.deps[t] : d = s \/ d \in Below(s)
  <2> DEFINE C == {u \in Below(s) : \E d \in flow.deps[u] : d = s \/ d \in Below(s)}
  <2>1. \A u \in I : \A d \in flow.deps[u] : d = s \/ d \in C => u \in C
    BY <1>3, <1>1
  <2>2. Below(s) \subseteq C
    <3> HIDE DEF C
    <3> QED BY <1>3, <1>1, <2>1
  <2> QED BY <2>2
<1>5. (\E d \in flow.deps[t] : d = s \/ d \in Below(s)) => t \in Below(s)
  BY <1>3, <1>1
<1>6. t \in Below(s) => s \in Above(t)
  <2> DEFINE C == {u \in I : s \in Above(u)}
  <2>1. ASSUME NEW u \in I, NEW d \in flow.deps[u], d = s \/ d \in C PROVE u \in C
    <3>1. d \in Above(u)
      BY <1>2, <2>1
    <3>2. d \in I => Above(d) \subseteq Above(u)
      BY <1>2, <2>1, <3>1
    <3> QED BY <2>1, <3>1, <3>2
  <2>2. Below(s) \subseteq C
    <3> HIDE DEF C
    <3> QED BY <1>3, <1>1, <2>1
  <2> QED BY <2>2
<1>7. s \in Above(t) => t \in Below(s)
  <2> DEFINE C == {u \in I : t \in Below(u)} \cup {u \in D : u \notin I}
  <2>1. flow.deps[t] \subseteq C
    BY <1>3, <1>1
  <2>2. \A u \in I : u \in C => flow.deps[u] \subseteq C
    <3>1. SUFFICES ASSUME NEW u \in I, t \in Below(u), NEW d \in flow.deps[u], d \in I
                   PROVE  t \in Below(d)
      BY <1>3
    <3>2. u \in Below(d)
      BY <1>1, <3>1
    <3>3. Below(u) \subseteq Below(d)
      BY <1>1, <3>1, <3>2
    <3> QED BY <3>1, <3>3
  <2>3. Above(t) \subseteq C
    <3> HIDE DEF C
    <3> QED BY <1>3, <1>2, <2>1, <2>2
  <2> QED BY <1>3, <2>3
<1> QED BY <1>4, <1>5, <1>6, <1>7 DEF Below, Above

\* A loop whose body keeps S is a function into S.
LEMMA LoopTyped ==
  ASSUME NEW N \in Nat, NEW S, NEW g, g = [n \in 0 .. N |-> g[n]], g[0] \in S,
         \A n \in 1 .. N : g[n - 1] \in S => g[n] \in S
  PROVE  g \in [0 .. N -> S]
<1> DEFINE P == {n \in 0 .. N : g[n] \in S}
<1>1. 0 \in P /\ \A n \in 1 .. N : n - 1 \in P => n \in P
  OBVIOUS
<1>2. 0 .. N \subseteq P
  <2> HIDE DEF P
  <2> QED BY <1>1, Counting
<1> QED BY <1>2

\* What the loops over children and over a layer carry along.
Accs(I) == [indegree : [I -> Int], next : Seq(I)]

\* One decrement.
LEMMA VisitTyped ==
  ASSUME NEW I, NEW acc \in Accs(I), NEW t \in I
  PROVE  /\ Visit(acc, t) \in Accs(I)
         /\ Visit(acc, t).indegree = [acc.indegree EXCEPT ![t] = acc.indegree[t] - 1]
         /\ Visit(acc, t).next = IF acc.indegree[t] = 1 THEN Append(acc.next, t) ELSE acc.next
<1>1. acc.indegree \in [I -> Int] /\ acc.next \in Seq(I) /\ acc.indegree[t] \in Int
  BY DEF Accs
<1>2. acc.indegree[t] - 1 = 0 <=> acc.indegree[t] = 1
  BY <1>1
<1>3. Visit(acc, t) =
        [indegree |-> [acc.indegree EXCEPT ![t] = acc.indegree[t] - 1],
         next |-> IF acc.indegree[t] = 1 THEN Append(acc.next, t) ELSE acc.next]
  BY <1>2 DEF Visit
<1>4. Append(acc.next, t) \in Seq(I)
  BY <1>1
<1>5. [acc.indegree EXCEPT ![t] = acc.indegree[t] - 1] \in [I -> Int]
  BY <1>1
<1> QED BY <1>1, <1>3, <1>4, <1>5 DEF Accs

\* The loop over the children of a step runs.
LEMMA VisitAllRuns ==
  ASSUME NEW I, NEW acc \in Accs(I), NEW children \in Seq(I)
  PROVE  \E f : /\ f \in [0 .. Len(children) -> Accs(I)] /\ f[0] = acc
                /\ \A k \in 1 .. Len(children) : f[k] = Visit(f[k - 1], children[k])
                /\ VisitAll(children, acc) = f[Len(children)]
<1> DEFINE N == Len(children)
           body == [k \in 1 .. N |-> [x \in Accs(I) |-> Visit(x, children[k])]]
           Loop(f) == f = [k \in 0 .. N |-> IF k = 0 THEN acc ELSE Visit(f[k - 1], children[k])]
           after == CHOOSE g : Loop(g)
<1>1. VisitAll(children, acc) = after[N]
  BY DEF VisitAll
<1>2. N \in Nat /\ \A k \in 1 .. N : children[k] \in I
  OBVIOUS
<1> HIDE DEF N, after
<1>3. PICK f : Runs(f, N, Accs(I), acc, body)
  <2>1. body \in Bodies(N, Accs(I))
    BY <1>2, VisitTyped DEF Bodies
  <2> HIDE DEF body
  <2> QED BY <1>2, <2>1, LoopRuns
<1>4. f \in [0 .. N -> Accs(I)] /\ f[0] = acc
      /\ \A k \in 1 .. N : f[k] = Visit(f[k - 1], children[k])
  <2>1. ASSUME NEW k \in 1 .. N PROVE f[k] = Visit(f[k - 1], children[k])
    <3>1. k - 1 \in 0 .. N
      BY <1>2
    <3>2. f[k - 1] \in Accs(I) /\ f[k] = body[k][f[k - 1]]
      BY <1>3, <3>1 DEF Runs
    <3> QED BY <3>2
  <2> HIDE DEF body
  <2> QED BY <1>3, <2>1 DEF Runs
<1>5. Loop(f)
  <2>1. \A k \in 0 .. N : k # 0 => k \in 1 .. N
    BY <1>2
  <2> QED BY <1>4, <2>1
<1>6. Loop(after)
  <2> HIDE DEF Loop
  <2> QED BY <1>5 DEF after
<1>7. after \in [0 .. N -> Accs(I)] /\ after[0] = acc
      /\ \A k \in 1 .. N : after[k] = Visit(after[k - 1], children[k])
  <2>1. DOMAIN after = 0 .. N /\ after[0] = acc
        /\ \A k \in 1 .. N : after[k] = Visit(after[k - 1], children[k])
    <3>1. \A k \in 1 .. N : k \in 0 .. N /\ k # 0
      BY <1>2
    <3> QED BY <1>2, <1>6, <3>1
  <2>2. after = [k \in 0 .. N |-> after[k]]
    BY <1>6
  <2>3. ASSUME NEW k \in 1 .. N, after[k - 1] \in Accs(I) PROVE after[k] \in Accs(I)
    <3>1. after[k] = Visit(after[k - 1], children[k]) /\ children[k] \in I
      BY <1>2, <2>1
    <3>2. Visit(after[k - 1], children[k]) \in Accs(I)
      BY <2>3, <3>1, VisitTyped
    <3> QED BY <3>1, <3>2
  <2> QED BY <1>2, <2>1, <2>2, <2>3, LoopTyped
<1> QED BY <1>1, <1>7 DEF N

\* The members of Y that are waiting for one step only.
Joins(acc, Y) == {t \in Y : acc.indegree[t] = 1}

\* new is what acc, in which X has joined, becomes once Y is visited.
Visited(new, acc, I, X, Y) ==
    /\ \A t \in I : new.indegree[t] = IF t \in Y THEN acc.indegree[t] - 1 ELSE acc.indegree[t]
    /\ Lists(new.next, X \cup Joins(acc, Y))

\* The loop over the children: each loses one, and those that had one join.
LEMMA VisitAllIs ==
  ASSUME NEW I, NEW acc \in Accs(I), NEW X \in SUBSET I, Lists(acc.next, X),
         NEW Y \in SUBSET I, X \cap Y = {}, NEW children, Lists(children, Y)
  PROVE  Visited(VisitAll(children, acc), acc, I, X, Y)
<1> DEFINE N == Len(children)
<1>1. children \in Seq(I) /\ N \in Nat
  BY SeqMonotonic DEF Lists
<1>2. PICK f : /\ f \in [0 .. N -> Accs(I)] /\ f[0] = acc
               /\ \A k \in 1 .. N : f[k] = Visit(f[k - 1], children[k])
               /\ VisitAll(children, acc) = f[N]
  BY <1>1, VisitAllRuns
<1> DEFINE deg == acc.indegree
           Joined(n) == {t \in Upto(children, n) : deg[t] = 1}
           Has(n) == /\ \A t \in I : f[n].indegree[t] =
                                     IF t \in Upto(children, n) THEN deg[t] - 1 ELSE deg[t]
                     /\ Lists(f[n].next, X \cup Joined(n))
           P == {n \in 0 .. N : Has(n)}
<1>3. Upto(children, 0) = {} /\ Upto(children, N) = Y
  BY UptoEnds
<1>4. Has(0)
  <2>1. X \cup Joined(0) = X
    BY <1>3
  <2> QED BY <1>2, <1>3, <2>1
<1>5. ASSUME NEW n \in 1 .. N, Has(n - 1) PROVE Has(n)
  <2> DEFINE t == children[n]
  <2>1. n - 1 \in 0 .. N /\ n \in 0 .. N
    BY <1>1
  <2>2. f[n - 1] \in Accs(I) /\ f[n] = Visit(f[n - 1], t)
    BY <1>2, <2>1
  <2>3. Upto(children, n) = Upto(children, n - 1) \cup {t} /\ t \notin Upto(children, n - 1)
        /\ t \in Y /\ t \in I
    BY UptoGrows
  <2>4. f[n - 1].indegree[t] = deg[t] /\ f[n - 1].indegree \in [I -> Int]
    BY <1>5, <2>2, <2>3 DEF Accs
  <2>5. /\ f[n].indegree = [f[n - 1].indegree EXCEPT ![t] = f[n - 1].indegree[t] - 1]
        /\ f[n].next = IF f[n - 1].indegree[t] = 1 THEN Append(f[n - 1].next, t) ELSE f[n - 1].next
    <3> DEFINE g == f[n - 1]
    <3>1. g \in Accs(I) /\ t \in I /\ f[n] = Visit(g, t)
      BY <2>2, <2>3
    <3> HIDE DEF g, t
    <3>2. /\ Visit(g, t).indegree = [g.indegree EXCEPT ![t] = g.indegree[t] - 1]
          /\ Visit(g, t).next = IF g.indegree[t] = 1 THEN Append(g.next, t) ELSE g.next
      BY <3>1, VisitTyped
    <3> QED BY <3>1, <3>2 DEF g
  <2>6. \A u \in I : f[n].indegree[u] = IF u \in Upto(children, n) THEN deg[u] - 1 ELSE deg[u]
    BY <1>5, <2>3, <2>4, <2>5
  <2>7. Lists(f[n].next, X \cup Joined(n))
    <3> DEFINE Z == X \cup Joined(n - 1)
    <3>1. Lists(f[n - 1].next, Z) /\ t \notin Z
      BY <1>5, <2>3
    <3>2. X \cup Joined(n) = IF deg[t] = 1 THEN Z \cup {t} ELSE Z
      BY <2>3
    <3> HIDE DEF Z, Joined, t, deg
    <3>3. Lists(Append(f[n - 1].next, t), Z \cup {t})
      BY <3>1, ListsAppend
    <3> QED BY <2>4, <2>5, <3>1, <3>2, <3>3
  <2> QED BY <2>6, <2>7
<1>6. Has(N)
  <2> HIDE DEF Has
  <2>1. 0 \in P /\ \A n \in 1 .. N : n - 1 \in P => n \in P
    BY <1>1, <1>4, <1>5
  <2> HIDE DEF P
  <2>2. N \in P
    BY <1>1, <2>1, LoopKeeps
  <2> QED BY <2>2 DEF P
<1>7. Joined(N) = Joins(acc, Y)
  BY <1>3 DEF Joins
<1> HIDE DEF Joined
<1> QED BY <1>2, <1>3, <1>6, <1>7 DEF Visited

\* There are finitely many steps, and finitely many to wait for.
LEMMA StepsAreFinite ==
  ASSUME NEW flow, IsFlow(flow)
  PROVE  /\ IsFiniteSet(Ids(flow)) /\ Cardinality(Ids(flow)) = Len(flow.ids)
         /\ Len(flow.ids) \in Nat
         /\ \A t, P : IsFiniteSet(Known(flow, t) \ P) /\ Cardinality(Known(flow, t) \ P) \in Nat
BY ListsCount, FS_Subset, FS_CardinalityType DEF IsFlow, Known

\* f is the loop over the steps of a layer.
VisitsLayer(f, flow, current, deg) ==
    /\ f \in [0 .. Len(current) -> Accs(Ids(flow))]
    /\ f[0] = [indegree |-> deg, next |-> <<>>]
    /\ \A i \in 1 .. Len(current) :
         f[i] = VisitAll(Children(flow, current[i]), f[i - 1])
    /\ VisitLayer(flow, current, deg) = f[Len(current)]

\* The loop over the steps of a layer runs.
LEMMA VisitLayerRuns ==
  ASSUME NEW flow, IsFlow(flow), NEW current \in Seq(Ids(flow)),
         NEW deg \in [Ids(flow) -> Int]
  PROVE  \E f : VisitsLayer(f, flow, current, deg)
<1> DEFINE I == Ids(flow)
           N == Len(current)
           acc == [indegree |-> deg, next |-> <<>>]
           Then(i, x) == VisitAll(Children(flow, current[i]), x)
           body == [i \in 1 .. N |-> [x \in Accs(I) |-> Then(i, x)]]
           Loop(f) == f = [i \in 0 .. N |-> IF i = 0 THEN acc ELSE Then(i, f[i - 1])]
           after == CHOOSE g : Loop(g)
<1>1. VisitLayer(flow, current, deg) = after[N]
  BY DEF VisitLayer
<1>2. N \in Nat /\ acc \in Accs(I)
  BY DEF Accs
<1>3. ASSUME NEW i \in 1 .. N, NEW x \in Accs(I) PROVE Then(i, x) \in Accs(I)
  <2> DEFINE children == Children(flow, current[i])
  <2>1. children \in Seq(I)
    <3>1. Lists(children, {t \in I : current[i] \in flow.deps[t]})
      BY ChildrenAre
    <3> HIDE DEF children
    <3> QED BY <3>1, SeqMonotonic DEF Lists
  <2> HIDE DEF children, I
  <2>2. PICK f : f \in [0 .. Len(children) -> Accs(I)]
                 /\ VisitAll(children, x) = f[Len(children)]
    BY <1>3, <2>1, VisitAllRuns
  <2>3. Len(children) \in 0 .. Len(children)
    BY <2>1
  <2> QED BY <2>2, <2>3 DEF children
<1> HIDE DEF N, after, acc, Then, I
<1>4. PICK f : Runs(f, N, Accs(I), acc, body)
  <2>1. body \in Bodies(N, Accs(I))
    BY <1>3 DEF Bodies
  <2> HIDE DEF body
  <2> QED BY <1>2, <2>1, LoopRuns
<1>5. Loop(f)
  <2>1. ASSUME NEW i \in 0 .. N, i # 0 PROVE f[i] = Then(i, f[i - 1])
    <3>1. i - 1 \in 0 .. N /\ i \in 1 .. N
      BY <1>2, <2>1
    <3>2. f[i - 1] \in Accs(I) /\ f[i] = body[i][f[i - 1]]
      BY <1>4, <3>1 DEF Runs
    <3> QED BY <3>1, <3>2
  <2> HIDE DEF body
  <2> QED BY <1>4, <2>1 DEF Runs
<1>6. Loop(after)
  <2> HIDE DEF Loop
  <2> QED BY <1>5 DEF after
<1>7. after[0] = acc /\ \A i \in 1 .. N : after[i] = Then(i, after[i - 1])
  <2>1. \A i \in 1 .. N : i \in 0 .. N /\ i # 0
    BY <1>2
  <2> QED BY <1>2, <1>6, <2>1
<1>8. after \in [0 .. N -> Accs(I)]
  <2>1. after = [i \in 0 .. N |-> after[i]]
    BY <1>6
  <2>2. ASSUME NEW i \in 1 .. N, after[i - 1] \in Accs(I) PROVE after[i] \in Accs(I)
    BY <1>3, <1>7, <2>2
  <2> QED BY <1>2, <1>7, <2>1, <2>2, LoopTyped
<1> QED
  <2>1. VisitsLayer(after, flow, current, deg)
    BY <1>1, <1>7, <1>8 DEF N, acc, Then, I, VisitsLayer
  <2> QED BY <2>1

\* One step less to wait for.
LEMMA OneLess ==
  ASSUME NEW flow, IsFlow(flow), NEW t, NEW s, NEW Q, s \notin Q, s \in Ids(flow)
  PROVE  /\ Cardinality(Known(flow, t) \ (Q \cup {s})) =
              IF s \in flow.deps[t] THEN Cardinality(Known(flow, t) \ Q) - 1
              ELSE Cardinality(Known(flow, t) \ Q)
         /\ s \in flow.deps[t] =>
              (Cardinality(Known(flow, t) \ Q) = 1 <=> Known(flow, t) \subseteq Q \cup {s})
<1> DEFINE K == Known(flow, t) \ Q
<1>1. IsFiniteSet(K) /\ Cardinality(K) \in Nat
  BY StepsAreFinite
<1>2. Known(flow, t) \ (Q \cup {s}) = K \ {s} /\ (s \in K <=> s \in flow.deps[t])
  BY DEF Known
<1>3. (K \ {s} = {} <=> Known(flow, t) \subseteq Q \cup {s})
  OBVIOUS
<1> HIDE DEF K
<1>4. Cardinality(K \ {s}) = (IF s \in K THEN Cardinality(K) - 1 ELSE Cardinality(K)) /\ IsFiniteSet(K \ {s})
  BY <1>1, FS_RemoveElement
<1>5. Cardinality(K \ {s}) = 0 <=> K \ {s} = {}
  BY <1>4, FS_EmptySet
<1>6. Cardinality(Known(flow, t) \ (Q \cup {s})) =
        IF s \in flow.deps[t] THEN Cardinality(K) - 1 ELSE Cardinality(K)
  BY <1>2, <1>4
<1>7. s \in flow.deps[t] => (Cardinality(K) = 1 <=> Known(flow, t) \subseteq Q \cup {s})
  BY <1>1, <1>2, <1>3, <1>4, <1>5
<1> QED BY <1>6, <1>7 DEF K

\* acc has visited the steps of C, when those of P had been.
LayerVisited(acc, flow, P, C) ==
    /\ acc.indegree = [t \in Ids(flow) |-> Cardinality(Known(flow, t) \ (P \cup C))]
    /\ Lists(acc.next, {t \in Ids(flow) : ~(Known(flow, t) \subseteq P) /\ Known(flow, t) \subseteq P \cup C})

(* The loop over a layer: what the steps of C leave to wait for, and what  *)
(* joins: the steps whose last dependency is in C.                         *)
LEMMA VisitLayerIs ==
  ASSUME NEW flow, IsFlow(flow), NEW P, NEW C \in SUBSET Ids(flow), C \cap P = {},
         NEW current, Lists(current, C),
         NEW deg, deg = [t \in Ids(flow) |-> Cardinality(Known(flow, t) \ P)]
  PROVE  LayerVisited(VisitLayer(flow, current, deg), flow, P, C)
<1> DEFINE I == Ids(flow)
           N == Len(current)
           Q(i) == P \cup Upto(current, i)
           Ready(S) == {t \in I : ~(Known(flow, t) \subseteq P) /\ Known(flow, t) \subseteq S}
<1>1. current \in Seq(I) /\ N \in Nat /\ \A i \in 1 .. N : current[i] \in C
  BY SeqMonotonic DEF Lists
<1>2. deg \in [I -> Int] /\ \A t \in I : deg[t] = Cardinality(Known(flow, t) \ P)
  <2>1. ASSUME NEW t \in I PROVE Cardinality(Known(flow, t) \ P) \in Int
    <3>1. Cardinality(Known(flow, t) \ P) \in Nat
      BY StepsAreFinite
    <3> QED BY <3>1
  <2> QED BY <2>1
<1>3. C \subseteq I
  OBVIOUS
<1>4. PICK f : VisitsLayer(f, flow, current, deg)
  BY <1>1, <1>2, VisitLayerRuns
<1>5. /\ f \in [0 .. N -> Accs(I)]
      /\ f[0] = [indegree |-> deg, next |-> <<>>]
      /\ \A i \in 1 .. N : f[i] = VisitAll(Children(flow, current[i]), f[i - 1])
      /\ VisitLayer(flow, current, deg) = f[N]
  BY <1>4 DEF VisitsLayer
<1> DEFINE Has(i) == /\ \A t \in I : f[i].indegree[t] = Cardinality(Known(flow, t) \ Q(i))
                     /\ Lists(f[i].next, Ready(Q(i)))
           R == {i \in 0 .. N : Has(i)}
<1>6. Q(0) = P /\ Q(N) = P \cup C
  BY UptoEnds
<1>7. Has(0)
  <2>1. Ready(Q(0)) = {}
    BY <1>6
  <2>2. f[0].indegree = deg /\ f[0].next = <<>>
    BY <1>5
  <2> HIDE DEF Q, Ready, I
  <2>3. Lists(f[0].next, Ready(Q(0)))
    BY <2>1, <2>2, ListsNothing, Zenon
  <2> QED BY <1>2, <1>6, <2>2, <2>3
<1>8. ASSUME NEW i \in 1 .. N, Has(i - 1) PROVE Has(i)
  <2> DEFINE s == current[i]
             acc == f[i - 1]
             X == Ready(Q(i - 1))
             Y == {t \in I : s \in flow.deps[t]}
  <2>1. i - 1 \in 0 .. N /\ i \in 0 .. N
    BY <1>1
  <2>2. acc \in Accs(I) /\ f[i] = VisitAll(Children(flow, s), acc)
    BY <1>5, <2>1
  <2>3. Q(i) = Q(i - 1) \cup {s} /\ s \notin Q(i - 1) /\ s \in I /\ s \notin P
    BY UptoGrows
  <2>4. Lists(acc.next, X) /\ Lists(Children(flow, s), Y) /\ Y \subseteq I /\ X \subseteq I
    BY <1>8, ChildrenAre
  <2>5. X \cap Y = {}
    BY <2>3 DEF Known
  <2> HIDE DEF X, Y, acc
  <2>6. /\ \A t \in I : f[i].indegree[t] = IF t \in Y THEN acc.indegree[t] - 1 ELSE acc.indegree[t]
        /\ Lists(f[i].next, X \cup Joins(acc, Y))
    <3> DEFINE children == Children(flow, s)
    <3>1. Lists(children, Y) /\ f[i] = VisitAll(children, acc) /\ X \in SUBSET I /\ Y \in SUBSET I
      BY <2>2, <2>4
    <3> HIDE DEF children, I
    <3>2. Visited(VisitAll(children, acc), acc, I, X, Y)
      BY <2>2, <2>4, <2>5, <3>1, VisitAllIs
    <3> QED BY <3>1, <3>2 DEF Visited
  <2>7. \A t \in I : acc.indegree[t] = Cardinality(Known(flow, t) \ Q(i - 1))
    BY <1>8 DEF acc
  <2> HIDE DEF s, Q, Ready
  <2>8. \A t \in I :
          /\ Cardinality(Known(flow, t) \ Q(i)) =
               IF t \in Y THEN acc.indegree[t] - 1 ELSE acc.indegree[t]
          /\ t \in Y => (acc.indegree[t] = 1 <=> Known(flow, t) \subseteq Q(i))
    <3>1. SUFFICES ASSUME NEW t \in I
                   PROVE  /\ Cardinality(Known(flow, t) \ Q(i)) =
                               IF t \in Y THEN acc.indegree[t] - 1 ELSE acc.indegree[t]
                          /\ t \in Y => (acc.indegree[t] = 1 <=> Known(flow, t) \subseteq Q(i))
      OBVIOUS
    <3> DEFINE q == Q(i - 1)
    <3>2. t \in Y <=> s \in flow.deps[t]
      BY DEF Y
    <3>3. acc.indegree[t] = Cardinality(Known(flow, t) \ q) /\ Q(i) = q \cup {s} /\ s \notin q
      BY <2>3, <2>7
    <3> HIDE DEF q
    <3>4. /\ Cardinality(Known(flow, t) \ (q \cup {s})) =
              IF s \in flow.deps[t] THEN Cardinality(Known(flow, t) \ q) - 1
              ELSE Cardinality(Known(flow, t) \ q)
          /\ s \in flow.deps[t] =>
              (Cardinality(Known(flow, t) \ q) = 1 <=> Known(flow, t) \subseteq q \cup {s})
      BY <2>3, <3>3, OneLess
    <3> QED BY <3>2, <3>3, <3>4
  <2>9. X \cup Joins(acc, Y) = Ready(Q(i))
    <3>1. \A t \in I : t \in X <=> ~(Known(flow, t) \subseteq P) /\ Known(flow, t) \subseteq Q(i - 1)
      BY DEF X, Ready
    <3>2. \A t \in I : t \notin Y /\ Known(flow, t) \subseteq Q(i) => Known(flow, t) \subseteq Q(i - 1)
      BY <2>3 DEF Y, Known
    <3>3. \A t \in Y : ~(Known(flow, t) \subseteq P)
      BY <2>3 DEF Y, Known
    <3>4. \A t \in I : Known(flow, t) \subseteq Q(i - 1) => Known(flow, t) \subseteq Q(i)
      BY <2>3
    <3>5. ASSUME NEW t \in I
          PROVE  t \in X \/ (t \in Y /\ acc.indegree[t] = 1)
                   <=> ~(Known(flow, t) \subseteq P) /\ Known(flow, t) \subseteq Q(i)
      <4>1. CASE t \in Y
        <5>1. t \notin X /\ (acc.indegree[t] = 1 <=> Known(flow, t) \subseteq Q(i))
          BY <2>5, <2>8, <4>1
        <5> QED BY <3>3, <4>1, <5>1
      <4>2. CASE t \notin Y
        <5>1. Known(flow, t) \subseteq Q(i) <=> Known(flow, t) \subseteq Q(i - 1)
          BY <3>2, <3>4, <4>2
        <5> QED BY <3>1, <4>2, <5>1
      <4> QED BY <4>1, <4>2
    <3>6. Y \subseteq I /\ X \subseteq I
      BY <2>4
    <3> QED BY <3>5, <3>6 DEF Ready, Joins
  <2> QED
    <3>1. \A t \in I : f[i].indegree[t] = Cardinality(Known(flow, t) \ Q(i))
      BY <2>6, <2>8
    <3>2. Lists(f[i].next, Ready(Q(i)))
      BY <2>6, <2>9
    <3> QED BY <3>1, <3>2
<1>9. Has(N)
  <2> HIDE DEF Has
  <2>1. 0 \in R /\ \A i \in 1 .. N : i - 1 \in R => i \in R
    BY <1>1, <1>7, <1>8
  <2> HIDE DEF R
  <2>2. N \in R
    BY <1>1, <2>1, LoopKeeps
  <2> QED BY <2>2 DEF R
<1>10. f[N].indegree = [t \in I |-> Cardinality(Known(flow, t) \ (P \cup C))]
  <2>1. N \in 0 .. N
    BY <1>1
  <2> HIDE DEF N, I
  <2>2. f[N] \in Accs(I)
    BY <1>5, <2>1
  <2>3. f[N].indegree \in [I -> Int]
    BY <2>2 DEF Accs
  <2>4. \A t \in I : f[N].indegree[t] = Cardinality(Known(flow, t) \ (P \cup C))
    <3> HIDE DEF Q
    <3> QED BY <1>6, <1>9
  <2> QED BY <2>3, <2>4
<1> HIDE DEF Q, Ready
<1>11. Lists(f[N].next, Ready(P \cup C))
  BY <1>6, <1>9
<1> QED BY <1>5, <1>10, <1>11 DEF Ready, LayerVisited

\* The steps that could be in the next layer, when those of P are placed.
Ready(flow, P) == {t \in Ids(flow) : t \notin P /\ Known(flow, t) \subseteq P}

\* The next layer is made of the steps that could be in it.
LEMMA LayeredAppend ==
  ASSUME NEW flow, NEW layers, Layered(flow, layers), NEW C, C = Ready(flow, Placed(flow, layers)),
         NEW current, Lists(current, C), current # <<>>,
         Len(layers) > 0 => \A t \in C : \E d \in Known(flow, t) : d \in ToSet(layers[Len(layers)])
  PROVE  /\ Layered(flow, Append(layers, current))
         /\ Placed(flow, Append(layers, current)) = Placed(flow, layers) \cup C
<1> DEFINE I == Ids(flow)
           P == Placed(flow, layers)
           n == Len(layers)
           new == Append(layers, current)
<1>1. /\ layers \in Seq(Seq(I)) /\ n \in Nat /\ DOMAIN layers = 1 .. n
      /\ current \in Seq(I) /\ ToSet(current) = C /\ C \subseteq I
  BY SeqMonotonic DEF Layered, Lists, Ready
<1>2. /\ new \in Seq(Seq(I)) /\ DOMAIN new = 1 .. (n + 1) /\ new[n + 1] = current
      /\ \A i \in 1 .. n : new[i] = layers[i]
  BY <1>1
<1>3. \A i \in 1 .. (n + 1) : i \in 1 .. n \/ i = n + 1
  BY <1>1
<1>4. \A i \in 1 .. n : ToSet(layers[i]) \subseteq P
  <2>1. SUFFICES ASSUME NEW i \in 1 .. n, NEW t \in ToSet(layers[i]) PROVE t \in P
    OBVIOUS
  <2>2. layers[i] \in Seq(I)
    BY <1>1
  <2>3. t \in I
    BY <2>1, <2>2 DEF ToSet
  <2> QED BY <1>1, <2>1, <2>3 DEF Placed
<1>5. C \cap P = {} /\ \A t \in C : Known(flow, t) \subseteq P
  BY DEF Ready
<1> HIDE DEF n, new
<1>6. Placed(flow, new) = P \cup C
  <2>1. ASSUME NEW t \in I
        PROVE  (\E i \in DOMAIN new : t \in ToSet(new[i])) <=>
                 (\E i \in DOMAIN layers : t \in ToSet(layers[i])) \/ t \in C
    <3>1. ASSUME NEW i \in DOMAIN new, t \in ToSet(new[i])
          PROVE  (\E j \in DOMAIN layers : t \in ToSet(layers[j])) \/ t \in C
      BY <1>1, <1>2, <1>3, <3>1
    <3>2. ASSUME NEW i \in DOMAIN layers, t \in ToSet(layers[i])
          PROVE  \E j \in DOMAIN new : t \in ToSet(new[j])
      <4>1. i \in DOMAIN new /\ new[i] = layers[i]
        BY <1>1, <1>2
      <4> QED BY <3>2, <4>1
    <3>3. t \in C => n + 1 \in DOMAIN new /\ t \in ToSet(new[n + 1])
      BY <1>1, <1>2
    <3> QED BY <3>1, <3>2, <3>3
  <2> QED BY <1>1, <2>1 DEF Placed
<1>7. \A i \in DOMAIN new : new[i] # <<>> /\ IsInjective(new[i])
  <2>1. IsInjective(current)
    BY DEF Lists, IsInjective
  <2> QED BY <1>1, <1>2, <1>3, <2>1 DEF Layered
<1>8. ASSUME NEW i \in DOMAIN new, NEW j \in DOMAIN new, ToSet(new[i]) \cap ToSet(new[j]) # {}
      PROVE  i = j
  <2>1. CASE i \in 1 .. n /\ j \in 1 .. n
    BY <1>1, <1>2, <1>8, <2>1 DEF Layered
  <2>2. CASE i = n + 1 /\ j = n + 1
    BY <2>2
  <2>3. CASE i \in 1 .. n /\ j = n + 1
    BY <1>1, <1>2, <1>4, <1>5, <1>8, <2>3
  <2>4. CASE i = n + 1 /\ j \in 1 .. n
    BY <1>1, <1>2, <1>4, <1>5, <1>8, <2>4
  <2> QED BY <1>2, <1>3, <2>1, <2>2, <2>3, <2>4
<1>9. ASSUME NEW i \in DOMAIN new, NEW t \in ToSet(new[i])
      PROVE  /\ \A d \in Known(flow, t) : \E k \in 1 .. (i - 1) : d \in ToSet(new[k])
             /\ i > 1 => \E d \in Known(flow, t) : d \in ToSet(new[i - 1])
  <2>1. CASE i \in 1 .. n
    <3>1. new[i] = layers[i] /\ \A k \in 1 .. (i - 1) : new[k] = layers[k]
      <4>1. \A k \in 1 .. (i - 1) : k \in 1 .. n
        BY <1>1, <2>1
      <4> QED BY <1>2, <2>1, <4>1
    <3>2. i > 1 => i - 1 \in 1 .. (i - 1)
      BY <2>1
    <3> QED BY <1>1, <1>9, <2>1, <3>1, <3>2 DEF Layered
  <2>2. CASE i = n + 1
    <3>1. t \in C /\ i - 1 = n
      BY <1>1, <1>2, <2>2
    <3>2. ASSUME NEW d \in Known(flow, t) PROVE \E k \in 1 .. (i - 1) : d \in ToSet(new[k])
      <4>1. PICK k \in DOMAIN layers : d \in ToSet(layers[k])
        BY <1>5, <3>1 DEF Placed
      <4> QED BY <1>1, <1>2, <3>1, <4>1
    <3>3. ASSUME i > 1 PROVE \E d \in Known(flow, t) : d \in ToSet(new[i - 1])
      <4>1. n > 0 /\ n \in 1 .. n
        BY <1>1, <2>2, <3>3
      <4>2. new[i - 1] = layers[n]
        BY <1>2, <3>1, <4>1
      <4> QED BY <3>1, <4>1, <4>2 DEF n
    <3> QED BY <3>2, <3>3
  <2> QED BY <1>2, <1>3, <2>1, <2>2
<1> QED BY <1>2, <1>6, <1>7, <1>8, <1>9 DEF Layered, new

\* The state of the while loop.
States(flow) == [layers : Seq(Seq(Ids(flow))), seen : Nat,
                 current : Seq(Ids(flow)), indegree : [Ids(flow) -> Int]]

\* Every member of U waits for a member of U.
Stuck(flow, U) == \A t \in U : Known(flow, t) \cap U # {}

\* The invariant of the while loop: the layers are right so far, the next
\* holds the steps that wait for none but those placed, each of them for one
\* of the last layer, and steps that wait for each other are not placed.
KahnInv(flow, st) ==
    /\ Layered(flow, st.layers)
    /\ st.seen = Cardinality(Placed(flow, st.layers))
    /\ Lists(st.current, Ready(flow, Placed(flow, st.layers)))
    /\ Len(st.layers) > 0 =>
         \A t \in Ready(flow, Placed(flow, st.layers)) :
           \E d \in Known(flow, t) : d \in ToSet(st.layers[Len(st.layers)])
    /\ st.indegree = [t \in Ids(flow) |-> Cardinality(Known(flow, t) \ Placed(flow, st.layers))]
    /\ \A U \in SUBSET Ids(flow) : Stuck(flow, U) => U \cap Placed(flow, st.layers) = {}

(* A pass puts the steps that are ready into a layer, and finds those that *)
(* are ready then.                                                         *)
LEMMA PassKeeps ==
  ASSUME NEW flow, IsFlow(flow), NEW st \in States(flow), KahnInv(flow, st), st.current # <<>>
  PROVE  /\ Pass(flow, st) \in States(flow)
         /\ KahnInv(flow, Pass(flow, st))
         /\ Pass(flow, st).seen > st.seen
<1> DEFINE I == Ids(flow)
           P == Placed(flow, st.layers)
           C == Ready(flow, P)
           acc == VisitLayer(flow, st.current, st.indegree)
           layers == Append(st.layers, st.current)
           n == Len(st.layers)
           new == Pass(flow, st)
<1>1. /\ st.layers \in Seq(Seq(I)) /\ st.seen \in Nat /\ st.current \in Seq(I)
      /\ st.indegree \in [I -> Int] /\ n \in Nat
  BY DEF States
<1>2. new = [layers |-> layers, seen |-> st.seen + Len(st.current), current |-> acc.next,
             indegree |-> acc.indegree]
  BY DEF Pass
<1>3. /\ C \subseteq I /\ P \subseteq I /\ C \cap P = {} /\ Lists(st.current, C)
      /\ \A t \in C : Known(flow, t) \subseteq P
  BY DEF Ready, Placed, KahnInv
<1>4. Layered(flow, layers) /\ Placed(flow, layers) = P \cup C
  <2> DEFINE old == st.layers
             current == st.current
  <2>1. /\ Layered(flow, old) /\ C = Ready(flow, Placed(flow, old)) /\ Lists(current, C) /\ current # <<>>
        /\ Len(old) > 0 => \A t \in C : \E d \in Known(flow, t) : d \in ToSet(old[Len(old)])
    BY DEF KahnInv
  <2> HIDE DEF C, P, old, current, layers
  <2>2. /\ Layered(flow, Append(old, current))
        /\ Placed(flow, Append(old, current)) = Placed(flow, old) \cup C
    BY <2>1, LayeredAppend
  <2> QED BY <2>2 DEF old, current, layers, P
<1>5. /\ acc.indegree = [t \in I |-> Cardinality(Known(flow, t) \ (P \cup C))]
      /\ Lists(acc.next, {t \in I : ~(Known(flow, t) \subseteq P) /\ Known(flow, t) \subseteq P \cup C})
  <2>1. st.indegree = [t \in I |-> Cardinality(Known(flow, t) \ P)]
    BY DEF KahnInv
  <2> DEFINE current == st.current
             deg == st.indegree
  <2>2. /\ C \in SUBSET I /\ C \cap P = {} /\ Lists(current, C)
        /\ deg = [t \in I |-> Cardinality(Known(flow, t) \ P)]
    BY <1>3, <2>1
  <2> HIDE DEF C, P, current, deg, acc
  <2>3. LayerVisited(VisitLayer(flow, current, deg), flow, P, C)
    BY <2>2, VisitLayerIs
  <2> QED BY <2>3 DEF current, deg, acc, LayerVisited
<1>6. \A t \in P : Known(flow, t) \subseteq P
  <2>1. SUFFICES ASSUME NEW t \in P, NEW d \in Known(flow, t) PROVE d \in P
    OBVIOUS
  <2>2. PICK i \in DOMAIN st.layers : t \in ToSet(st.layers[i])
    BY DEF Placed
  <2>3. PICK k \in 1 .. (i - 1) : d \in ToSet(st.layers[k])
    BY <2>1, <2>2 DEF KahnInv, Layered
  <2>4. k \in DOMAIN st.layers /\ d \in I
    BY <1>1 DEF Known
  <2> QED BY <2>3, <2>4 DEF Placed
<1>7. {t \in I : ~(Known(flow, t) \subseteq P) /\ Known(flow, t) \subseteq P \cup C} = Ready(flow, P \cup C)
  <2>1. ASSUME NEW t \in I, ~(Known(flow, t) \subseteq P) PROVE t \notin P \cup C
    BY <1>3, <1>6, <2>1
  <2>2. ASSUME NEW t \in I, t \notin P \cup C PROVE ~(Known(flow, t) \subseteq P)
    BY <2>2 DEF Ready
  <2> HIDE DEF C, P
  <2> QED BY <2>1, <2>2 DEF Ready
<1> HIDE DEF P, C, layers, acc, new
<1>8. /\ IsFiniteSet(P) /\ IsFiniteSet(C) /\ Cardinality(P) \in Nat
      /\ Cardinality(C) = Len(st.current) /\ Len(st.current) > 0
      /\ Cardinality(P \cup C) = Cardinality(P) + Cardinality(C)
  <2>1. IsFiniteSet(P) /\ IsFiniteSet(C) /\ Cardinality(C) = Len(st.current)
    BY <1>3, StepsAreFinite, FS_Subset, ListsCount
  <2>2. Cardinality(P) \in Nat /\ Cardinality(C) \in Nat /\ Len(st.current) > 0
    BY <1>1, <2>1, FS_CardinalityType
  <2>3. Cardinality(P \cup C) = Cardinality(P) + Cardinality(C) - Cardinality(P \cap C)
    BY <2>1, FS_Union
  <2>4. Cardinality(P \cap C) = 0
    <3>1. P \cap C = {}
      BY <1>3
    <3> QED BY <3>1, FS_EmptySet
  <2> QED BY <2>1, <2>2, <2>3, <2>4
<1>9. new.seen = Cardinality(P \cup C) /\ new.seen \in Nat /\ new.seen > st.seen
  BY <1>2, <1>8 DEF KahnInv, P
<1>10. new \in States(flow)
  <2>1. layers \in Seq(Seq(I))
    BY <1>4 DEF Layered
  <2>2. acc.next \in Seq(I)
    <3>1. Ready(flow, P \cup C) \subseteq I
      BY DEF Ready
    <3> QED BY <1>5, <1>7, <3>1, SeqMonotonic DEF Lists
  <2>3. acc.indegree \in [I -> Int]
    <3>1. ASSUME NEW t \in I PROVE Cardinality(Known(flow, t) \ (P \cup C)) \in Int
      <4>1. Cardinality(Known(flow, t) \ (P \cup C)) \in Nat
        BY StepsAreFinite
      <4> QED BY <4>1
    <3> QED BY <1>5, <3>1
  <2>4. st.seen + Len(st.current) \in Nat
    BY <1>1
  <2> QED BY <1>2, <2>1, <2>2, <2>3, <2>4 DEF States
<1>11. ASSUME NEW t \in Ready(flow, P \cup C)
       PROVE  \E d \in Known(flow, t) : d \in ToSet(layers[Len(layers)])
  <2>1. t \in I /\ ~(Known(flow, t) \subseteq P) /\ Known(flow, t) \subseteq P \cup C
    BY <1>7
  <2>2. layers[Len(layers)] = st.current
    BY <1>1 DEF layers
  <2>3. ToSet(st.current) = C
    BY <1>3 DEF Lists
  <2> QED BY <2>1, <2>2, <2>3
<1>12. ASSUME NEW U \in SUBSET I, Stuck(flow, U) PROVE U \cap (P \cup C) = {}
  <2>1. U \cap P = {}
    BY <1>12 DEF KahnInv, P
  <2>2. U \cap C = {}
    BY <1>3, <1>12, <2>1 DEF Stuck
  <2> QED BY <2>1, <2>2
<1>13. KahnInv(flow, new)
  <2>1. new.layers = layers /\ new.current = acc.next /\ new.indegree = acc.indegree
    BY <1>2
  <2>2. Placed(flow, new.layers) = P \cup C
    BY <1>4, <2>1
  <2> QED BY <1>4, <1>5, <1>7, <1>9, <1>11, <1>12, <2>1, <2>2 DEF KahnInv
<1> QED BY <1>9, <1>10, <1>13 DEF new

\* The state in which the while loop starts.
KahnStart(flow) == [layers |-> <<>>, seen |-> 0, current |-> Sources(flow),
                    indegree |-> Indegree(flow)]

\* The states it can be in.
KahnStates(flow) == {st \in States(flow) : KahnInv(flow, st)}

\* It starts in one of them,
LEMMA KahnStarts ==
  ASSUME NEW flow, IsFlow(flow)
  PROVE  KahnStart(flow) \in KahnStates(flow)
<1> DEFINE I == Ids(flow)
           Z == {t \in I : Indegree(flow)[t] = 0}
           st == KahnStart(flow)
           W(t) == Known(flow, t) \ {}
<1>1. Placed(flow, <<>>) = {}
  BY DEF Placed
<1>2. Indegree(flow) = [t \in I |-> Cardinality(W(t))]
  <2>1. \A t \in I : W(t) = flow.deps[t] \cap I
    BY DEF Known
  <2>2. ASSUME NEW S PROVE Cardinality(S) = Cardinality(S)
    BY DEF Cardinality, Cardinality
  <2>3. \A t \in I : Cardinality(flow.deps[t] \cap I) = Cardinality(W(t))
    <3> HIDE DEF W, I
    <3> QED BY <2>1, <2>2
  <2> HIDE DEF W
  <2> QED BY <2>3 DEF Indegree
<1>3. \A t : IsFiniteSet(W(t)) /\ Cardinality(W(t)) \in Nat
  BY StepsAreFinite
<1>4. Indegree(flow) \in [I -> Int]
  <2>1. \A t \in I : Cardinality(W(t)) \in Int
    <3> HIDE DEF W
    <3> QED BY <1>3
  <2> HIDE DEF W
  <2> QED BY <1>2, <2>1
<1>5. Z = Ready(flow, {})
  <2>1. ASSUME NEW t \in I PROVE Cardinality(W(t)) = 0 <=> Known(flow, t) \subseteq {}
    <3>1. Cardinality(W(t)) = 0 <=> W(t) = {}
      <4> HIDE DEF W
      <4> QED BY <1>3, FS_EmptySet
    <3> QED BY <3>1
  <2> HIDE DEF W
  <2> QED BY <1>2, <2>1 DEF Ready
<1>6. Lists(Sources(flow), Ready(flow, {}))
  <2>1. I \cap Z = Z /\ Sources(flow) = InOrder(flow, Z)
    BY DEF Sources
  <2> HIDE DEF Z
  <2>2. Lists(InOrder(flow, Z), I \cap Z)
    BY InOrderLists
  <2> QED BY <1>5, <2>1, <2>2
<1>7. Sources(flow) \in Seq(I)
  <2>1. Ready(flow, {}) \subseteq I
    BY DEF Ready
  <2> QED BY <1>6, <2>1, SeqMonotonic DEF Lists
<1>8. <<>> \in Seq(Seq(I)) /\ DOMAIN <<>> = {} /\ Len(<<>>) = 0
  OBVIOUS
<1>9. st \in States(flow)
  BY <1>4, <1>7, <1>8 DEF KahnStart, States
<1>10. KahnInv(flow, st)
  <2>1. st.layers = <<>> /\ st.seen = 0 /\ st.current = Sources(flow)
        /\ st.indegree = Indegree(flow)
    BY DEF KahnStart
  <2>2. Layered(flow, <<>>)
    BY <1>8 DEF Layered
  <2>3. Cardinality({}) = 0
    BY FS_EmptySet
  <2> HIDE DEF st
  <2>4. Placed(flow, st.layers) = {} /\ Len(st.layers) = 0 /\ Layered(flow, st.layers)
    BY <1>1, <1>8, <2>1, <2>2
  <2>5. st.indegree = [t \in I |-> Cardinality(Known(flow, t) \ Placed(flow, st.layers))]
    BY <1>2, <2>1, <2>4
  <2>6. st.seen = Cardinality(Placed(flow, st.layers))
    BY <2>1, <2>3, <2>4
  <2>7. Lists(st.current, Ready(flow, Placed(flow, st.layers)))
    BY <1>6, <2>1, <2>4
  <2>8. \A U : U \cap Placed(flow, st.layers) = {}
    BY <2>4
  <2> QED BY <2>4, <2>5, <2>6, <2>7, <2>8 DEF KahnInv
<1> QED BY <1>9, <1>10 DEF KahnStates

\* What a pass of the loop leaves.
Advance(flow, st) == IF st.current = <<>> THEN st ELSE Pass(flow, st)

\* stays in them, and sees a step with every pass.
LEMMA AdvanceKeeps ==
  ASSUME NEW flow, IsFlow(flow), NEW st \in KahnStates(flow)
  PROVE  /\ Advance(flow, st) \in KahnStates(flow)
         /\ st.seen \in Nat /\ Advance(flow, st).seen \in Nat
         /\ st.current # <<>> => Advance(flow, st).seen > st.seen
<1>1. st \in States(flow) /\ KahnInv(flow, st) /\ st.seen \in Nat
  BY DEF KahnStates, States
<1>2. CASE st.current = <<>>
  BY <1>1, <1>2 DEF Advance
<1>3. CASE st.current # <<>>
  <2>1. /\ Pass(flow, st) \in States(flow)
        /\ KahnInv(flow, Pass(flow, st))
        /\ Pass(flow, st).seen > st.seen
    BY <1>1, <1>3, PassKeeps
  <2>2. Pass(flow, st).seen \in Nat
    BY <2>1 DEF States
  <2> QED BY <1>1, <1>3, <2>1, <2>2 DEF Advance, KahnStates
<1> QED BY <1>2, <1>3

\* The loop has run when no step is ready.
LEMMA KahnEnds ==
  ASSUME NEW flow, IsFlow(flow)
  PROVE  Kahn(flow) \in KahnStates(flow) /\ Kahn(flow).current = <<>>
<1> DEFINE N == Len(flow.ids)
           S == KahnStates(flow)
           a == KahnStart(flow)
           body == [n \in 1 .. N |-> [st \in S |-> Advance(flow, st)]]
           Loop(f) == f = [n \in 0 .. N |-> IF n = 0 THEN a ELSE Advance(flow, f[n - 1])]
           passes == CHOOSE g : Loop(g)
<1>1. Kahn(flow) = passes[N]
  BY DEF Kahn, KahnStart, Advance
<1>2. N \in Nat /\ a \in S
  BY StepsAreFinite, KahnStarts
<1>3. \A st \in S : Advance(flow, st) \in S
  BY AdvanceKeeps
<1> HIDE DEF N, passes, a, S
<1>4. PICK f : Runs(f, N, S, a, body)
  <2>1. body \in Bodies(N, S)
    BY <1>3 DEF Bodies
  <2> HIDE DEF body
  <2> QED BY <1>2, <2>1, LoopRuns
<1>5. Loop(f)
  <2>1. ASSUME NEW i \in 0 .. N, i # 0 PROVE f[i] = Advance(flow, f[i - 1])
    <3>1. i - 1 \in 0 .. N /\ i \in 1 .. N
      BY <1>2, <2>1
    <3>2. f[i - 1] \in S /\ f[i] = body[i][f[i - 1]]
      BY <1>4, <3>1 DEF Runs
    <3> QED BY <3>1, <3>2
  <2> HIDE DEF body
  <2> QED BY <1>4, <2>1 DEF Runs
<1>6. Loop(passes)
  <2> HIDE DEF Loop
  <2> QED BY <1>5 DEF passes
<1>7. passes[0] = a /\ \A i \in 1 .. N : passes[i] = Advance(flow, passes[i - 1])
  <2>1. \A i \in 1 .. N : i \in 0 .. N /\ i # 0
    BY <1>2
  <2> QED BY <1>2, <1>6, <2>1
<1>8. passes \in [0 .. N -> S]
  <2>1. passes = [i \in 0 .. N |-> passes[i]]
    BY <1>6
  <2>2. ASSUME NEW i \in 1 .. N, passes[i - 1] \in S PROVE passes[i] \in S
    BY <1>3, <1>7, <2>2
  <2> QED BY <1>2, <1>7, <2>1, <2>2, LoopTyped
<1> DEFINE R == {n \in 0 .. N : passes[n].current = <<>> \/ passes[n].seen >= n}
<1>9. N \in R
  <2>1. 0 \in R
    <3>1. passes[0].seen \in Nat
      BY <1>2, <1>7, AdvanceKeeps DEF S
    <3> QED BY <1>2, <3>1
  <2>2. ASSUME NEW n \in 1 .. N, n - 1 \in R PROVE n \in R
    <3> DEFINE st == passes[n - 1]
    <3>1. st \in S /\ passes[n] = Advance(flow, st) /\ n \in 0 .. N /\ n \in Nat
      BY <1>2, <1>7, <1>8
    <3>2. st.current = <<>> \/ st.seen >= n - 1
      BY <2>2
    <3> HIDE DEF st
    <3>3. st.seen \in Nat /\ Advance(flow, st).seen \in Nat
          /\ (st.current # <<>> => Advance(flow, st).seen > st.seen)
      BY <3>1, AdvanceKeeps DEF S
    <3>4. CASE st.current = <<>>
      BY <3>1, <3>4 DEF Advance
    <3>5. CASE st.current # <<>>
      <4>1. passes[n].seen >= n
        BY <3>1, <3>2, <3>3, <3>5
      <4> QED BY <3>1, <4>1
    <3> QED BY <3>4, <3>5
  <2> HIDE DEF R
  <2> QED BY <1>2, <2>1, <2>2, LoopKeeps
<1> DEFINE end == passes[N]
           P == Placed(flow, end.layers)
           I == Ids(flow)
<1>10. end \in S /\ (end.current = <<>> \/ end.seen >= N)
  BY <1>2, <1>8, <1>9
<1> HIDE DEF end
<1>11. KahnInv(flow, end)
  BY <1>10 DEF S, KahnStates
<1>12. ASSUME end.seen >= N PROVE end.current = <<>>
  <2>1. P \subseteq I /\ IsFiniteSet(I) /\ Cardinality(I) = N
    BY StepsAreFinite DEF Placed, N
  <2>2. Cardinality(P) >= Cardinality(I)
    BY <1>11, <1>12, <2>1 DEF KahnInv
  <2> HIDE DEF P, I
  <2>3. P = I
    <3>1. IsFiniteSet(P) /\ Cardinality(P) <= Cardinality(I)
          /\ (Cardinality(P) = Cardinality(I) => P = I)
      BY <2>1, FS_Subset
    <3>2. Cardinality(P) \in Nat /\ Cardinality(I) \in Nat
      BY <2>1, <3>1, FS_CardinalityType
    <3> QED BY <2>2, <3>1, <3>2
  <2>4. Ready(flow, I) = {}
    BY DEF Ready, I
  <2>5. Lists(end.current, {})
    BY <1>11, <2>3, <2>4 DEF KahnInv, P
  <2> QED BY <2>5, ListsCount, FS_EmptySet DEF Lists
<1> QED BY <1>1, <1>10, <1>12 DEF S, end

(* validate() finds exactly the flows that no order could run: those with  *)
(* steps that all wait for each other.                                     *)
THEOREM CyclesAreFound ==
  ASSUME NEW flow, IsFlow(flow)
  PROVE  HasCycle(flow) <=> \E U \in SUBSET Ids(flow) : U # {} /\ Stuck(flow, U)
<1> DEFINE st == Kahn(flow)
           I == Ids(flow)
           P == Placed(flow, st.layers)
           rest == I \ P
<1>1. KahnInv(flow, st) /\ st.current = <<>>
  BY KahnEnds DEF KahnStates
<1>2. P \subseteq I /\ IsFiniteSet(I) /\ Cardinality(I) = Len(flow.ids)
  BY StepsAreFinite DEF Placed
<1> HIDE DEF st
<1>3. HasCycle(flow) <=> P # I
  <2>1. HasCycle(flow) <=> Cardinality(P) # Cardinality(I)
    BY <1>1, <1>2 DEF HasCycle, KahnInv, st
  <2> HIDE DEF P, I
  <2> QED BY <1>2, <2>1, FS_Subset
<1>4. Stuck(flow, rest)
  <2>1. Ready(flow, P) = {}
    <3>1. Lists(<<>>, Ready(flow, P))
      BY <1>1 DEF KahnInv
    <3> QED BY <3>1 DEF Lists, ToSet
  <2>2. ASSUME NEW t \in rest PROVE Known(flow, t) \cap rest # {}
    <3>1. ~(Known(flow, t) \subseteq P) /\ Known(flow, t) \subseteq I
      BY <2>1 DEF Ready, Known
    <3> QED BY <3>1
  <2> QED BY <2>2 DEF Stuck
<1>5. ASSUME NEW U \in SUBSET I, U # {}, Stuck(flow, U) PROVE P # I
  BY <1>1, <1>5 DEF KahnInv
<1> QED BY <1>2, <1>3, <1>4, <1>5

(* The layers of a flow without a cycle hold every step, once, after all   *)
(* it depends on and no later than it must be.                             *)
THEOREM LayersAreRight ==
  ASSUME NEW flow, IsFlow(flow), ~HasCycle(flow)
  PROVE  /\ Layered(flow, LayeredOrder(flow))
         /\ Placed(flow, LayeredOrder(flow)) = Ids(flow)
<1> DEFINE st == Kahn(flow)
           I == Ids(flow)
           P == Placed(flow, st.layers)
<1>1. KahnInv(flow, st)
  BY KahnEnds DEF KahnStates
<1>2. P \subseteq I /\ IsFiniteSet(I) /\ Cardinality(I) = Len(flow.ids)
  BY StepsAreFinite DEF Placed
<1>3. LayeredOrder(flow) = st.layers
  BY DEF LayeredOrder
<1> HIDE DEF st
<1>4. Cardinality(P) = Cardinality(I)
  BY <1>1, <1>2 DEF HasCycle, KahnInv, st
<1>5. P = I
  <2> HIDE DEF P, I
  <2> QED BY <1>2, <1>4, FS_Subset
<1> QED BY <1>1, <1>3, <1>5 DEF KahnInv

\* The dependencies of the steps are members of a finite set D.
Depends(flow, D) == IsFiniteSet(D) /\ flow.deps \in [Ids(flow) -> SUBSET D]

\* What a step leads to is what descendants() finds.
LEMMA ReachOfSteps ==
  ASSUME NEW flow, IsFlow(flow), NEW s \in Ids(flow)
  PROVE  Reach(flow)[s] = Descendants(flow, s)
<1> DEFINE I == Ids(flow)
           B == Descendants(flow, s)
           succ == [x \in Named(flow) |-> {t \in I : x \in flow.deps[t]}]
           closed == {C \in SUBSET I : \A x \in C : succ[x] \subseteq C}
           R == {t \in I : \A C \in closed : succ[s] \subseteq C => t \in C}
<1>1. I \subseteq Named(flow)
  BY DEF Named
<1>2. Reach(flow)[s] = R
  BY <1>1 DEF Reach
<1>3. /\ B \subseteq I
      /\ \A t \in I : \A d \in flow.deps[t] : d = s \/ d \in B => t \in B
      /\ \A C : (\A t \in I : \A d \in flow.deps[t] : d = s \/ d \in C => t \in C) => B \subseteq C
  BY DescendantsAreLeast
<1> HIDE DEF B
<1>4. B \in closed /\ succ[s] \subseteq B
  BY <1>1, <1>3
<1>5. ASSUME NEW C \in closed, succ[s] \subseteq C PROVE B \subseteq C
  <2>1. ASSUME NEW t \in I, NEW d \in flow.deps[t], d = s \/ d \in C PROVE t \in C
    <3>1. \A x \in C : succ[x] \subseteq C
      BY <1>5
    <3> HIDE DEF succ, closed
    <3>2. succ[d] \subseteq C
      BY <1>5, <2>1, <3>1
    <3>3. d \in Named(flow) /\ t \in succ[d]
      BY <2>1 DEF Named, succ
    <3> QED BY <3>2, <3>3
  <2>2. \A t \in I : \A d \in flow.deps[t] : d = s \/ d \in C => t \in C
    BY <2>1
  <2> HIDE DEF closed, succ
  <2> QED BY <1>3, <2>2
<1>6. R \subseteq B
  BY <1>4
<1>7. B \subseteq R
  <2> HIDE DEF closed, succ
  <2> QED BY <1>3, <1>5
<1> QED BY <1>2, <1>6, <1>7 DEF B

(* ancestors() and descendants() find the two directions of reachability,  *)
(* also in a flow with cycles and across a dependency that no step has.    *)
THEOREM SearchesAreReachability ==
  ASSUME NEW flow, IsFlow(flow), NEW D, Depends(flow, D)
  PROVE  SearchesReach(flow)
<1> DEFINE I == Ids(flow)
           named == Named(flow)
           succ == [x \in named |-> {t \in I : x \in flow.deps[t]}]
           closed == {C \in SUBSET I : \A x \in C : succ[x] \subseteq C}
           reach == Reach(flow)
<1>1. reach = [x \in named |-> {t \in I : \A C \in closed : succ[x] \subseteq C => t \in C}]
  BY DEF Reach
<1>2. I \subseteq named /\ \A t \in I : flow.deps[t] \subseteq named
  BY DEF Named
<1> HIDE DEF reach, named
<1>3. ASSUME NEW s \in I PROVE Ancestors(flow, s) = {d \in named : s \in reach[d]}
  <2> DEFINE A == Ancestors(flow, s)
             B == {d \in named : s \in reach[d]}
  <2>1. /\ flow.deps[s] \subseteq A
        /\ \A t \in I : t \in A => flow.deps[t] \subseteq A
        /\ \A C : flow.deps[s] \subseteq C /\ (\A t \in I : t \in C => flow.deps[t] \subseteq C)
                    => A \subseteq C
    BY AncestorsAreLeast DEF Depends
  <2> HIDE DEF A
  <2>2. A \subseteq B
    <3>1. ASSUME NEW d \in flow.deps[s] PROVE d \in B
      <4>1. d \in named /\ s \in succ[d]
        BY <1>2
      <4> QED BY <1>1, <4>1
    <3>2. ASSUME NEW t \in I, t \in B, NEW d \in flow.deps[t] PROVE d \in B
      <4>1. d \in named /\ t \in named /\ t \in succ[d]
        BY <1>2
      <4>2. ASSUME NEW C \in closed, succ[d] \subseteq C PROVE s \in C
        <5>1. t \in C /\ succ[t] \subseteq C
          BY <4>1, <4>2
        <5> QED BY <1>1, <3>2, <4>1, <5>1
      <4> QED BY <1>1, <4>1, <4>2
    <3> HIDE DEF B
    <3> QED BY <2>1, <3>1, <3>2
  <2>3. B \subseteq A
    <3>1. SUFFICES ASSUME NEW d \in named, s \in reach[d], d \notin A PROVE FALSE
      OBVIOUS
    <3> DEFINE C == {t \in I : t # s /\ t \notin A}
    <3>2. ASSUME NEW x \in named, x \notin A PROVE succ[x] \subseteq C
      BY <2>1, <3>2
    <3>3. C \in closed /\ succ[d] \subseteq C
      BY <1>2, <3>1, <3>2
    <3> QED BY <1>1, <3>1, <3>3
  <2> QED BY <2>2, <2>3 DEF A
<1>4. \A s \in I : Descendants(flow, s) = reach[s]
  BY ReachOfSteps DEF reach
<1> QED BY <1>3, <1>4 DEF SearchesReach, reach, named

(* Steps that all wait for each other are those of a cycle: of the members *)
(* of such a set, one with the most steps below it is below itself.        *)
LEMMA StuckIsCyclic ==
  ASSUME NEW flow, IsFlow(flow), NEW D, Depends(flow, D)
  PROVE  Cyclic(flow) <=> \E U \in SUBSET Ids(flow) : U # {} /\ Stuck(flow, U)
<1> DEFINE I == Ids(flow)
           Below(s) == Descendants(flow, s)
           reach == Reach(flow)
<1>1. Cyclic(flow) <=> \E s \in I : s \in Below(s)
  <2>1. \A s \in I : reach[s] = Below(s)
    BY ReachOfSteps
  <2> HIDE DEF Below
  <2> QED BY <2>1 DEF Cyclic
<1>2. ASSUME NEW s \in I
      PROVE  /\ Below(s) \subseteq I
             /\ \A t \in I : \A d \in flow.deps[t] : d = s \/ d \in Below(s) => t \in Below(s)
             /\ \A C : (\A t \in I : \A d \in flow.deps[t] : d = s \/ d \in C => t \in C)
                         => Below(s) \subseteq C
  BY DescendantsAreLeast
<1>3. ASSUME NEW s \in I, NEW t \in I
      PROVE  t \in Below(s) <=> \E d \in flow.deps[t] : d = s \/ d \in Below(s)
  BY SearchesAgree DEF Depends
<1> HIDE DEF Below
<1>4. ASSUME NEW s \in I, NEW t \in Below(s) PROVE t \in I /\ Below(t) \subseteq Below(s)
  <2>1. t \in I
    BY <1>2
  <2>2. \A u \in I : \A d \in flow.deps[u] : d = t \/ d \in Below(s) => u \in Below(s)
    BY <1>2
  <2> QED BY <1>2, <2>1, <2>2
<1>5. ASSUME NEW s \in I, s \in Below(s)
      PROVE  \E U \in SUBSET I : U # {} /\ Stuck(flow, U)
  <2> DEFINE U == {t \in I : t \in Below(s) /\ s \in Below(t)}
  <2>1. s \in U
    BY <1>5
  <2>2. ASSUME NEW t \in U PROVE Known(flow, t) \cap U # {}
    <3>1. PICK d \in flow.deps[t] : d = s \/ d \in Below(s)
      BY <1>3, <2>2
    <3>2. d \in I /\ d \in Below(s)
      BY <1>2, <1>5, <3>1
    <3>3. t \in Below(d) /\ s \in Below(t)
      BY <1>2, <3>1, <3>2
    <3>4. s \in Below(d)
      BY <1>4, <3>2, <3>3
    <3> QED BY <3>1, <3>2, <3>4 DEF Known
  <2> QED BY <2>1, <2>2 DEF Stuck
<1>6. ASSUME NEW U \in SUBSET I, U # {}, Stuck(flow, U)
      PROVE  \E s \in I : s \in Below(s)
  <2> DEFINE Count(t) == Cardinality(I) - Cardinality(Below(t))
             T == {Count(t) : t \in U}
  <2>1. ASSUME NEW t \in I
        PROVE  IsFiniteSet(Below(t)) /\ Cardinality(Below(t)) \in Nat /\ Cardinality(I) \in Nat
               /\ Cardinality(Below(t)) <= Cardinality(I)
    BY <1>2, StepsAreFinite, FS_Subset, FS_CardinalityType
  <2>2. \A t \in I : Count(t) \in Nat
    BY <2>1
  <2>3. PICK t \in U : \A u \in U : Count(t) <= Count(u)
    <3>1. T \subseteq Nat /\ T # {}
      BY <1>6, <2>2
    <3> HIDE DEF T
    <3>2. PICK x \in T : \A y \in T : x <= y
      BY <3>1, LeastNat
    <3> QED BY <3>2 DEF T
  <2>4. PICK d \in U : d \in flow.deps[t]
    BY <1>6 DEF Stuck, Known
  <2>5. t \in I /\ d \in I /\ t \in Below(d)
    BY <1>2, <2>4
  <2>6. Below(t) \subseteq Below(d) /\ Cardinality(Below(d)) <= Cardinality(Below(t))
    <3>1. Count(t) <= Count(d)
      BY <2>3
    <3> QED BY <1>4, <2>1, <2>5, <3>1
  <2>7. Below(t) = Below(d)
    <3> DEFINE X == Below(t)
               Y == Below(d)
    <3>1. IsFiniteSet(Y) /\ X \subseteq Y /\ Cardinality(Y) <= Cardinality(X)
          /\ Cardinality(X) \in Nat /\ Cardinality(Y) \in Nat
      BY <2>1, <2>5, <2>6
    <3> HIDE DEF X, Y
    <3>2. Cardinality(X) <= Cardinality(Y) /\ (Cardinality(X) = Cardinality(Y) => X = Y)
      BY <3>1, FS_Subset
    <3>3. X = Y
      BY <3>1, <3>2
    <3> QED BY <3>3 DEF X, Y
  <2> QED BY <2>5, <2>7
<1> QED BY <1>1, <1>5, <1>6

(* layered_order() raises on exactly the flows that have a cycle, whatever *)
(* unknown dependencies they also have; the layers of the others hold      *)
(* every step, once, after all it depends on and no later than that asks.  *)
THEOREM OrdersAreRight ==
  ASSUME NEW flow, IsFlow(flow), NEW D, Depends(flow, D)
  PROVE  OrderIsRight(flow)
<1>1. HasCycle(flow) <=> Cyclic(flow)
  BY CyclesAreFound, StuckIsCyclic
<1>2. ASSUME ~HasCycle(flow)
      PROVE  /\ Layered(flow, LayeredOrder(flow))
             /\ Placed(flow, LayeredOrder(flow)) = Ids(flow)
  BY <1>2, LayersAreRight
<1> QED BY <1>1, <1>2 DEF OrderIsRight

(* A flow that validate() passes is one the runner can run: what           *)
(* GraphAssumption asks of Deps, Layers and DescendantsOf holds of its     *)
(* deps, layered_order() and descendants().                                *)
THEOREM ValidFlowsAreRunnable ==
  ASSUME NEW flow, IsFlow(flow), NEW D, Depends(flow, D), ValidGraph(flow)
  PROVE  GraphIsRunnable(flow)
<1> DEFINE I == Ids(flow)
           layers == LayeredOrder(flow)
           below == [s \in I |-> Descendants(flow, s)]
<1>1. (\A s \in I : flow.deps[s] \subseteq I) /\ ~HasCycle(flow)
  BY DEF ValidGraph, UnknownDeps
<1>2. Layered(flow, layers) /\ Placed(flow, layers) = I
  BY <1>1, LayersAreRight
<1>3. \A s \in I : below[s] \subseteq I
  BY DescendantsAreLeast
<1> HIDE DEF layers
<1>4. \A s \in I : \E i \in DOMAIN layers : s \in ToSet(layers[i])
  BY <1>2 DEF Placed
<1>5. /\ layers \in Seq(Seq(I))
      /\ \A i, j \in DOMAIN layers : ToSet(layers[i]) \cap ToSet(layers[j]) # {} => i = j
  BY <1>2 DEF Layered
<1>6. ASSUME NEW i \in DOMAIN layers, NEW s \in ToSet(layers[i]), NEW d \in flow.deps[s]
      PROVE  \E k \in 1 .. (i - 1) : d \in ToSet(layers[k])
  <2>1. s \in I
    <3>1. layers[i] \in Seq(I)
      BY <1>5
    <3> QED BY <3>1 DEF ToSet
  <2>2. d \in Known(flow, s)
    BY <1>1, <2>1 DEF Known
  <2> QED BY <1>2, <2>2 DEF Layered
<1>7. ASSUME NEW s \in I, NEW t \in I
      PROVE  t \in below[s] <=> \E d \in flow.deps[t] : d = s \/ d \in below[s]
  <2>1. t \in Descendants(flow, s)
          <=> \E d \in flow.deps[t] : d = s \/ d \in Descendants(flow, s)
    BY SearchesAgree DEF Depends
  <2> QED BY <2>1
<1>8. ASSUME NEW q PROVE ToSet(q) = ToSet(q)
  BY DEF ToSet, ToSet
<1> HIDE DEF below
<1> QED BY <1>1, <1>3, <1>4, <1>5, <1>6, <1>7, <1>8 DEF layers, below, GraphIsRunnable

-----------------------------------------------------------------------------
(* The flows that are built.                                               *)

\* The ids are taken in the order of Names, and every step depends on some.
FlowInv ==
    /\ built.ids \in Seq(AllNames) /\ Len(built.ids) <= Len(Names)
    /\ \A i \in DOMAIN built.ids : built.ids[i] = Names[i]
    /\ built.deps \in [Ids(built) -> SUBSET AllNames]

\* With nothing built the invariant holds.
LEMMA InitFlow == Init => FlowInv
<1> SUFFICES ASSUME Init PROVE FlowInv
  OBVIOUS
<1>1. built.ids = <<>> /\ built.deps = <<>>
  BY DEF Init, EmptyFlow
<1>2. Ids(built) = {} /\ Len(Names) \in Nat
  BY <1>1, BuilderAssumption DEF Ids, ToSet
<1> QED BY <1>1, <1>2 DEF FlowInv

\* A step that is added has the next name.
LEMMA AddStepKeeps ==
  ASSUME FlowInv, NEW depends \in SUBSET AllNames, AddStep(depends)
  PROVE  FlowInv'
<1> DEFINE n == Len(built.ids)
           id == Names[n + 1]
           ids == Append(built.ids, id)
           deps == With(built.deps, At(id, depends))
<1>1. built' = [ids |-> ids, deps |-> deps] /\ n < Len(Names)
  BY DEF AddStep
<1>2. /\ Names \in Seq(AllNames) /\ Len(Names) \in Nat /\ n \in Nat /\ n + 1 \in DOMAIN Names
      /\ built.ids \in Seq(AllNames) /\ DOMAIN built.ids = 1 .. n
  BY <1>1, BuilderAssumption DEF FlowInv
<1>3. id \in AllNames /\ ids \in Seq(AllNames) /\ Len(ids) = n + 1 /\ DOMAIN ids = 1 .. (n + 1)
      /\ ids[n + 1] = id /\ \A i \in 1 .. n : ids[i] = built.ids[i]
  BY <1>2
<1>4. \A i \in 1 .. (n + 1) : i \in 1 .. n \/ i = n + 1
  BY <1>2
<1>5. ToSet(ids) = Ids(built) \cup {id}
  <2> HIDE DEF n, id, ids
  <2> QED BY <1>2, <1>3, <1>4 DEF Ids, ToSet
<1>6. deps \in [Ids(built) \cup {id} -> SUBSET AllNames]
  <2> HIDE DEF id
  <2> QED BY DEF FlowInv, With, At
<1>7. \A i \in DOMAIN ids : ids[i] = Names[i]
  <2> HIDE DEF ids
  <2> QED BY <1>2, <1>3, <1>4 DEF FlowInv
<1> HIDE DEF n, ids, deps, id
<1>8. built'.ids = ids /\ built'.deps = deps
  BY <1>1
<1>9. Ids(built)' = Ids(built) \cup {id}
  BY <1>5, <1>8 DEF Ids
<1> QED BY <1>1, <1>2, <1>3, <1>6, <1>7, <1>8, <1>9 DEF FlowInv

\* Nothing else changes the flow.
LEMMA NextFlow == FlowInv /\ [Next]_vars => FlowInv'
<1> SUFFICES ASSUME FlowInv, [Next]_vars PROVE FlowInv'
  OBVIOUS
<1>1. ASSUME NEW depends \in UNION {kSubset(k, AllNames) : k \in 0 .. MaxDeps}, AddStep(depends)
      PROVE  FlowInv'
  <2>1. depends \in SUBSET AllNames
    BY DEF kSubset
  <2> QED BY <1>1, <2>1, AddStepKeeps
<1>2. CASE built' = built
  BY <1>2 DEF FlowInv, Ids
<1>3. (\E depends \in UNION {kSubset(k, AllNames) : k \in 0 .. MaxDeps} : AddStep(depends))
      \/ built' = built
  BY DEF Next, AddMemory, GiveKey, vars
<1> QED BY <1>1, <1>2, <1>3

\* The ids of the flow differ, and depend on finitely many.
LEMMA BuiltIsFlow ==
  ASSUME FlowInv
  PROVE  IsFlow(built) /\ Depends(built, AllNames)
<1>1. Lists(Names, AllNames)
  BY BuilderAssumption DEF Lists, AllNames, IsInjective
<1>2. IsFiniteSet(AllNames)
  BY <1>1, ListsCount
<1>3. /\ built.ids \in Seq(AllNames) /\ DOMAIN built.ids = 1 .. Len(built.ids)
      /\ Len(built.ids) \in Nat /\ Len(built.ids) <= Len(Names)
      /\ DOMAIN Names = 1 .. Len(Names) /\ Len(Names) \in Nat
  BY BuilderAssumption DEF FlowInv
<1>4. \A i, j \in DOMAIN built.ids : built.ids[i] = built.ids[j] => i = j
  <2>1. \A i \in DOMAIN built.ids : i \in DOMAIN Names
    BY <1>3
  <2> QED BY <2>1, <1>1 DEF FlowInv, Lists
<1>5. built.ids \in Seq(Ids(built))
  BY <1>3 DEF Ids, ToSet
<1>6. IsFlow(built)
  BY <1>4, <1>5 DEF IsFlow, Lists, Ids
<1> QED BY <1>2, <1>6 DEF Depends, FlowInv

\* The invariant holds of every flow that is built.
LEMMA FlowAlways == Spec => []FlowInv
BY InitFlow, NextFlow, PTL DEF Spec

(* The searches of ancestors() and descendants() find reachability in any  *)
(* number of steps with any dependencies.                                  *)
THEOREM SearchesAlwaysReach == Spec => []SearchIsReachability
<1>1. FlowInv => SearchIsReachability
  BY BuiltIsFlow, SearchesAreReachability DEF SearchIsReachability
<1> QED BY <1>1, FlowAlways, PTL

(* layered_order() raises on the cyclic flows alone and layers the others, *)
(* of any number of steps with any dependencies.                           *)
THEOREM LayersAlwaysTopological == Spec => []LayersAreTopological
<1>1. FlowInv => LayersAreTopological
  BY BuiltIsFlow, OrdersAreRight DEF LayersAreTopological
<1> QED BY <1>1, FlowAlways, PTL

-----------------------------------------------------------------------------
(* The references of a prompt.                                             *)

(* Of every flow and every assignment of its steps to groups: validate()   *)
(* accepts a reference exactly if StepsResolver finds an output for it     *)
(* once all that its step depends on has completed.                        *)
THEOREM ReferenceRulesAgree ==
  ASSUME NEW flow, NEW group, DOMAIN group = Ids(flow), NEW s, NEW ref
  PROVE  ReferenceErrors(flow, group, s, ref) = {}
           <=> Resolve(group, Ancestors(flow, s) \cap Ids(flow), ref) = "output"
<1> DEFINE t == ref.target
           above == Ancestors(flow, s)
<1>1. CASE t \notin Ids(flow)
  BY <1>1 DEF ReferenceErrors, Resolve
<1>2. CASE t \in Ids(flow)
  <2>1. ReferenceErrors(flow, group, s, ref) = {} <=> group[t] = ref.group /\ t \in above
    <3> HIDE DEF above
    <3>1. ReferenceErrors(flow, group, s, ref)
            = {e \in {"not upstream", "requires prefix", "not in group"} :
                 \/ e = "not upstream" /\ t \notin above
                 \/ e = "requires prefix" /\ ref.group = NoGroup /\ group[t] # NoGroup
                 \/ e = "not in group" /\ ref.group # NoGroup /\ group[t] # ref.group}
      BY <1>2 DEF ReferenceErrors, above
    <3>2. t \notin above => "not upstream" \in ReferenceErrors(flow, group, s, ref)
      BY <3>1
    <3>3. ref.group = NoGroup /\ group[t] # NoGroup
            => "requires prefix" \in ReferenceErrors(flow, group, s, ref)
      BY <3>1
    <3>4. ref.group # NoGroup /\ group[t] # ref.group
            => "not in group" \in ReferenceErrors(flow, group, s, ref)
      BY <3>1
    <3>5. t \in above /\ group[t] = ref.group => ReferenceErrors(flow, group, s, ref) = {}
      BY <3>1
    <3> QED BY <3>2, <3>3, <3>4, <3>5
  <2>2. Resolve(group, above \cap Ids(flow), ref) = "output" <=> group[t] = ref.group /\ t \in above
    <3> HIDE DEF above
    <3> QED BY <1>2 DEF Resolve, GroupOf
  <2> QED BY <2>1, <2>2
<1> QED BY <1>1, <1>2

(* The rules agree on every flow that is built.                            *)
THEOREM ReferencesAlwaysResolve == Spec => []ReferencesResolve
<1>1. ReferencesResolve
  BY ReferenceRulesAgree DEF ReferencesResolve
<1> QED BY <1>1, PTL

-----------------------------------------------------------------------------
(* The chains of memories.                                                 *)

\* A superseded record of the memory names a member of V, or no record.
IsMemory(memory, V) ==
    /\ NoMemory \notin V
    /\ \A id \in DOMAIN memory : memory[id].superseded \in BOOLEAN
    /\ \A id \in DOMAIN memory : memory[id].superseded => memory[id].by \in V \cup {NoMemory}

\* The record x is superseded by y.
Leads(memory, x, y) == x \in DOMAIN memory /\ memory[x].superseded /\ memory[x].by = y

\* p holds k ids, from start to the last each superseded by the next.
Chain(memory, V, start, p, k) ==
    /\ k \in Nat \ {0}
    /\ p \in [1 .. k -> V] /\ p[1] = start
    /\ \A i \in 1 .. (k - 1) : Leads(memory, p[i], p[i + 1])

Current(memory, id) == id \in DOMAIN memory /\ ~memory[id].superseded

\* Two chains from one id are the same as far as both go.
LEMMA ChainsAgree ==
  ASSUME NEW memory, NEW V, NEW start, NEW p, NEW k, NEW q, NEW m,
         Chain(memory, V, start, p, k), Chain(memory, V, start, q, m), k <= m
  PROVE  \A i \in 1 .. k : p[i] = q[i]
<1> DEFINE P == {n \in Nat : n + 1 <= k => p[n + 1] = q[n + 1]}
<1>1. k \in Nat /\ m \in Nat /\ k # 0
  BY DEF Chain
<1>2. 0 \in P
  BY DEF Chain
<1>3. ASSUME NEW n \in 1 .. (k - 1), n - 1 \in P PROVE n \in P
  <2>1. p[n] = q[n] /\ n \in 1 .. (m - 1)
    BY <1>1, <1>3
  <2>2. Leads(memory, p[n], p[n + 1]) /\ Leads(memory, q[n], q[n + 1])
    BY <1>3, <2>1 DEF Chain
  <2>3. p[n + 1] = q[n + 1]
    BY <2>1, <2>2 DEF Leads
  <2> QED BY <1>1, <1>3, <2>3
<1>4. 0 .. (k - 1) \subseteq P
  <2>1. k - 1 \in Nat
    BY <1>1
  <2> HIDE DEF P
  <2> QED BY <1>2, <1>3, <2>1, Counting
<1>5. ASSUME NEW i \in 1 .. k PROVE p[i] = q[i]
  <2>1. i - 1 \in 0 .. (k - 1)
    BY <1>1
  <2> QED BY <1>1, <1>4, <2>1
<1> QED BY <1>5

\* A chain that comes back to an id never reaches a record that is current.
LEMMA RoundsNeverEnd ==
  ASSUME NEW memory, NEW V, NEW start, NEW p, NEW k, Chain(memory, V, start, p, k),
         NEW i \in 1 .. k, NEW j \in 1 .. k, i < j, p[i] = p[j]
  PROVE  ~Current(memory, p[k])
<1> DEFINE P == {n \in Nat : j + n <= k => p[i + n] = p[j + n]}
<1>1. k \in Nat /\ i \in Nat /\ j \in Nat /\ j <= k
  BY DEF Chain
<1>2. 0 \in P
  BY <1>1
<1>3. ASSUME NEW n \in 1 .. (k - j), n - 1 \in P PROVE n \in P
  <2> DEFINE a == i + (n - 1)
             b == j + (n - 1)
  <2>1. a \in 1 .. (k - 1) /\ b \in 1 .. (k - 1) /\ a + 1 = i + n /\ b + 1 = j + n
    BY <1>1
  <2>2. p[a] = p[b]
    BY <1>1, <1>3
  <2>3. Leads(memory, p[a], p[a + 1]) /\ Leads(memory, p[b], p[b + 1])
    BY <2>1 DEF Chain
  <2>4. p[i + n] = p[j + n]
    BY <2>1, <2>2, <2>3 DEF Leads
  <2> QED BY <2>4, <1>3
<1>4. 0 .. (k - j) \subseteq P
  <2>1. k - j \in Nat
    BY <1>1
  <2> HIDE DEF P
  <2> QED BY <1>2, <1>3, <2>1, Counting
<1> DEFINE c == i + (k - j)
<1>5. c \in 1 .. (k - 1) /\ p[c] = p[k]
  <2>1. k - j \in P /\ j + (k - j) = k
    BY <1>1, <1>4
  <2> QED BY <1>1, <2>1
<1>6. Leads(memory, p[c], p[c + 1])
  BY <1>5 DEF Chain
<1> QED BY <1>5, <1>6 DEF Leads, Current

-----------------------------------------------------------------------------
(* The loop of MemoryResolver._get.                                        *)

HopKinds == {"searching", "cycle", "not_found", "content", "no_successor"}
HopStates(V) == [at : [kind : HopKinds, id : V], seen : SUBSET V]

\* One pass of the loop, or none when it is over.
HopOn(memory, st) ==
    IF st.at.kind # "searching" THEN st
    ELSE [at |-> Hop(memory, st.at, st.seen), seen |-> st.seen \cup {st.at.id}]

\* A pass goes from ids to ids.
LEMMA HopOnTyped ==
  ASSUME NEW V, NEW memory, IsMemory(memory, V), NEW st \in HopStates(V)
  PROVE  HopOn(memory, st) \in HopStates(V)
<1>1. CASE st.at.kind # "searching"
  BY <1>1 DEF HopOn
<1>2. CASE st.at.kind = "searching"
  <2>1. st.at \in [kind : HopKinds, id : V] /\ st.seen \cup {st.at.id} \in SUBSET V
    BY DEF HopStates
  <2>2. Hop(memory, st.at, st.seen) \in [kind : HopKinds, id : V]
    BY <2>1 DEF Hop, Searching, IsMemory, HopKinds
  <2> QED BY <1>2, <2>1, <2>2 DEF HopOn, HopStates
<1> QED BY <1>1, <1>2

\* The loop runs, and Follow is what its last pass found.
LEMMA FollowRuns ==
  ASSUME NEW V, NEW memory, IsMemory(memory, V), NEW start \in V, NEW hops \in Nat
  PROVE  \E f : /\ f \in [0 .. (hops + 1) -> HopStates(V)]
                /\ f[0] = [at |-> Searching(start), seen |-> {}]
                /\ \A n \in 1 .. (hops + 1) : f[n] = HopOn(memory, f[n - 1])
                /\ Follow(memory, start, hops)
                     = IF f[hops + 1].at.kind = "searching"
                       THEN [f[hops + 1].at EXCEPT !.kind = "hop_limit"] ELSE f[hops + 1].at
<1> DEFINE N == hops + 1
           S == HopStates(V)
           a == [at |-> Searching(start), seen |-> {}]
           body == [n \in 1 .. N |-> [x \in S |-> HopOn(memory, x)]]
           Loop(f) == f = [n \in 0 .. N |->
                             IF n = 0 THEN a
                             ELSE LET prev == f[n - 1]
                                  IN  IF prev.at.kind # "searching" THEN prev
                                      ELSE [at   |-> Hop(memory, prev.at, prev.seen),
                                            seen |-> prev.seen \cup {prev.at.id}]]
           loop == CHOOSE g : Loop(g)
<1>1. Follow(memory, start, hops)
        = IF loop[N].at.kind = "searching" THEN [loop[N].at EXCEPT !.kind = "hop_limit"]
          ELSE loop[N].at
  BY DEF Follow
<1>2. N \in Nat /\ a \in S
  BY DEF HopStates, HopKinds, Searching
<1> HIDE DEF N, loop, a
<1>3. PICK f : Runs(f, N, S, a, body)
  <2>1. body \in Bodies(N, S)
    BY HopOnTyped DEF Bodies
  <2> HIDE DEF body, S
  <2> QED BY <1>2, <2>1, LoopRuns
<1>4. f \in [0 .. N -> S] /\ f[0] = a /\ \A n \in 1 .. N : f[n] = HopOn(memory, f[n - 1])
  <2>1. ASSUME NEW n \in 1 .. N PROVE f[n] = HopOn(memory, f[n - 1])
    <3>1. n - 1 \in 0 .. N
      BY <1>2
    <3>2. f[n - 1] \in S /\ f[n] = body[n][f[n - 1]]
      BY <1>3, <3>1 DEF Runs
    <3> QED BY <3>2
  <2> HIDE DEF body, S
  <2> QED BY <1>3, <2>1 DEF Runs
<1> HIDE DEF body, S
<1>5. Loop(f)
  <2>1. \A n \in 0 .. N : n # 0 => n \in 1 .. N
    BY <1>2
  <2> QED BY <1>4, <2>1 DEF HopOn
<1>6. Loop(loop)
  <2> HIDE DEF Loop
  <2> QED BY <1>5 DEF loop
<1>7. loop \in [0 .. N -> S] /\ loop[0] = a /\ \A n \in 1 .. N : loop[n] = HopOn(memory, loop[n - 1])
  <2>1. loop[0] = a /\ \A n \in 1 .. N : loop[n] = HopOn(memory, loop[n - 1])
    <3>1. 0 \in 0 .. N /\ \A n \in 1 .. N : n \in 0 .. N /\ n # 0
      BY <1>2
    <3> QED BY <1>6, <3>1 DEF HopOn
  <2>2. loop = [n \in 0 .. N |-> loop[n]]
    BY <1>6
  <2>3. ASSUME NEW n \in 1 .. N, loop[n - 1] \in S PROVE loop[n] \in S
    BY <2>1, <2>3, HopOnTyped DEF S
  <2> HIDE DEF Loop
  <2> QED BY <1>2, <2>1, <2>2, <2>3, LoopTyped
<1> QED BY <1>1, <1>7 DEF N, S, a

\* Why the loop stops at the k-th id of a chain.
Stops(memory, p, k, kind) ==
    \/ kind = "cycle" /\ \E i \in 1 .. (k - 1) : p[i] = p[k]
    \/ kind = "not_found" /\ p[k] \notin DOMAIN memory
    \/ kind = "content" /\ Current(memory, p[k])
    \/ /\ kind = "no_successor"
       /\ p[k] \in DOMAIN memory /\ memory[p[k]].superseded /\ memory[p[k]].by = NoMemory

\* p and k are the chain the loop has gone along after n passes.
Along(memory, V, start, n, st, p, k) ==
    /\ Chain(memory, V, start, p, k) /\ st.at.id = p[k]
    /\ st.at.kind = "searching" => k = n + 1 /\ st.seen = {p[i] : i \in 1 .. n}
    /\ st.at.kind # "searching" => k <= n /\ Stops(memory, p, k, st.at.kind)

HopInv(memory, V, start, n, st) == \E p, k : Along(memory, V, start, n, st, p, k)

\* What one pass finds.
LEMMA HopCases ==
  ASSUME NEW memory, NEW id, NEW seen, NEW hop,
         hop = Hop(memory, [kind |-> "searching", id |-> id], seen)
  PROVE  /\ id \in seen => hop = [kind |-> "cycle", id |-> id]
         /\ id \notin seen /\ id \notin DOMAIN memory => hop = [kind |-> "not_found", id |-> id]
         /\ id \notin seen /\ id \in DOMAIN memory =>
              /\ ~memory[id].superseded => hop = [kind |-> "content", id |-> id]
              /\ memory[id].superseded /\ memory[id].by = NoMemory
                   => hop = [kind |-> "no_successor", id |-> id]
              /\ memory[id].superseded /\ memory[id].by # NoMemory
                   => hop = Searching(memory[id].by)
<1> DEFINE at == [kind |-> "searching", id |-> id]
<1>1. at.id = id /\ \A kind : [at EXCEPT !.kind = kind] = [kind |-> kind, id |-> id]
  OBVIOUS
<1> HIDE DEF at
<1>2. hop = IF id \in seen THEN [kind |-> "cycle", id |-> id]
            ELSE IF id \notin DOMAIN memory THEN [kind |-> "not_found", id |-> id]
            ELSE IF ~memory[id].superseded THEN [kind |-> "content", id |-> id]
            ELSE IF memory[id].by = NoMemory THEN [kind |-> "no_successor", id |-> id]
            ELSE Searching(memory[id].by)
  <2>1. hop = Hop(memory, at, seen)
    BY DEF at
  <2> QED BY <1>1, <2>1, Zenon DEF Hop
<1> QED BY <1>2, Zenon

\* Every pass goes one further along the chain, or stops.
LEMMA HopKeeps ==
  ASSUME NEW V, NEW memory, IsMemory(memory, V), NEW start \in V, NEW n \in Nat,
         NEW st \in HopStates(V), HopInv(memory, V, start, n, st)
  PROVE  HopInv(memory, V, start, n + 1, HopOn(memory, st))
<1> DEFINE new == HopOn(memory, st)
<1>1. PICK p, k : Along(memory, V, start, n, st, p, k)
  BY DEF HopInv
<1>2. k \in Nat /\ k # 0 /\ k \in 1 .. k /\ p[k] \in V
  BY <1>1 DEF Along, Chain
<1>3. CASE st.at.kind # "searching"
  <2>1. Along(memory, V, start, n + 1, st, p, k)
    BY <1>1, <1>2, <1>3 DEF Along
  <2>2. new = st
    BY <1>3 DEF HopOn
  <2> QED BY <2>1, <2>2 DEF HopInv
<1>4. ASSUME st.at.kind = "searching" PROVE HopInv(memory, V, start, n + 1, new)
  <2> DEFINE id == p[k]
             next == memory[id].by
  <2>1. /\ k = n + 1 /\ st.seen = {p[i] : i \in 1 .. n} /\ st.at.id = id
        /\ Chain(memory, V, start, p, k)
    BY <1>1, <1>4 DEF Along
  <2>2. st.at = [kind |-> "searching", id |-> id]
    BY <1>4, <2>1 DEF HopStates
  <2>3. new.at = Hop(memory, [kind |-> "searching", id |-> id], st.seen)
        /\ new.seen = st.seen \cup {id}
    BY <1>4, <2>1, <2>2 DEF HopOn
  <2>4. /\ id \in st.seen => new.at = [kind |-> "cycle", id |-> id]
        /\ id \notin st.seen /\ id \notin DOMAIN memory => new.at = [kind |-> "not_found", id |-> id]
        /\ id \notin st.seen /\ id \in DOMAIN memory =>
             /\ ~memory[id].superseded => new.at = [kind |-> "content", id |-> id]
             /\ memory[id].superseded /\ next = NoMemory
                  => new.at = [kind |-> "no_successor", id |-> id]
             /\ memory[id].superseded /\ next # NoMemory => new.at = Searching(next)
    <3> HIDE DEF new, id
    <3> QED BY <2>3, HopCases
  <2> HIDE DEF new
  <2>5. ASSUME NEW kind, new.at = [kind |-> kind, id |-> id], kind # "searching",
               Stops(memory, p, k, kind)
        PROVE  HopInv(memory, V, start, n + 1, new)
    <3>1. Along(memory, V, start, n + 1, new, p, k)
      BY <1>2, <2>1, <2>5 DEF Along
    <3> QED BY <3>1 DEF HopInv
  <2>6. CASE id \in st.seen
    <3>1. \E i \in 1 .. (k - 1) : p[i] = p[k]
      BY <2>1, <2>6
    <3>2. Stops(memory, p, k, "cycle")
      BY <3>1 DEF Stops
    <3>3. new.at = [kind |-> "cycle", id |-> id]
      BY <2>4, <2>6, Zenon
    <3> QED BY <2>5, <3>2, <3>3
  <2>7. CASE id \notin st.seen /\ id \notin DOMAIN memory
    <3>1. Stops(memory, p, k, "not_found")
      BY <2>7 DEF Stops
    <3>2. new.at = [kind |-> "not_found", id |-> id]
      BY <2>4, <2>7, Zenon
    <3> QED BY <2>5, <3>1, <3>2
  <2>8. CASE id \notin st.seen /\ id \in DOMAIN memory /\ ~memory[id].superseded
    <3>1. Stops(memory, p, k, "content")
      BY <2>8 DEF Stops, Current
    <3>2. new.at = [kind |-> "content", id |-> id]
      BY <2>4, <2>8, Zenon
    <3> QED BY <2>5, <3>1, <3>2
  <2>9. CASE id \notin st.seen /\ id \in DOMAIN memory /\ memory[id].superseded /\ next = NoMemory
    <3>1. Stops(memory, p, k, "no_successor")
      BY <2>9 DEF Stops
    <3>2. new.at = [kind |-> "no_successor", id |-> id]
      BY <2>4, <2>9, Zenon
    <3> QED BY <2>5, <3>1, <3>2
  <2>10. CASE id \notin st.seen /\ id \in DOMAIN memory /\ memory[id].superseded /\ next # NoMemory
    <3> DEFINE q == [i \in 1 .. (k + 1) |-> IF i = k + 1 THEN next ELSE p[i]]
    <3>1. new.at = Searching(next)
      BY <2>4, <2>10, Zenon
    <3>2. next \in V
      BY <2>10 DEF IsMemory
    <3>3. \A i \in 1 .. (k + 1) : i # k + 1 => i \in 1 .. k
      BY <1>2
    <3>4. q \in [1 .. (k + 1) -> V] /\ q[1] = start
      BY <1>2, <2>1, <3>2, <3>3 DEF Chain
    <3>5. q[k + 1] = next /\ \A i \in 1 .. k : q[i] = p[i]
      BY <1>2
    <3>6. ASSUME NEW i \in 1 .. k PROVE Leads(memory, q[i], q[i + 1])
      <4>1. CASE i = k
        BY <1>2, <2>10, <3>5, <4>1 DEF Leads
      <4>2. CASE i # k
        <5>1. i \in 1 .. (k - 1) /\ i + 1 \in 1 .. k
          BY <1>2, <4>2
        <5> QED BY <2>1, <3>5, <5>1 DEF Chain
      <4> QED BY <4>1, <4>2
    <3> HIDE DEF q
    <3>7. Chain(memory, V, start, q, k + 1)
      BY <1>2, <3>4, <3>6 DEF Chain
    <3>8. new.seen = {q[i] : i \in 1 .. (n + 1)}
      <4>1. new.seen = {p[i] : i \in 1 .. n} \cup {p[n + 1]}
        BY <2>1, <2>3
      <4>2. \A i \in 1 .. (n + 1) : i \in 1 .. n \/ i = n + 1
        OBVIOUS
      <4>3. \A i \in 1 .. (n + 1) : q[i] = p[i]
        BY <2>1, <3>5
      <4> QED BY <4>1, <4>2, <4>3
    <3>9. new.at.kind = "searching" /\ new.at.id = q[k + 1]
      BY <3>1, <3>5 DEF Searching
    <3> HIDE DEF next
    <3>10. Along(memory, V, start, n + 1, new, q, k + 1)
      BY <2>1, <3>7, <3>8, <3>9 DEF Along
    <3> QED BY <3>10 DEF HopInv
  <2> QED BY <2>6, <2>7, <2>8, <2>9, <2>10
<1> QED BY <1>3, <1>4

\* What Follow finds is at the end of a chain.
LEMMA FollowEnds ==
  ASSUME NEW V, NEW memory, IsMemory(memory, V), NEW start \in V, NEW hops \in Nat
  PROVE  LET found == Follow(memory, start, hops)
         IN  /\ found = [kind |-> found.kind, id |-> found.id] /\ found.kind # "searching"
             /\ \E p, k : /\ Chain(memory, V, start, p, k) /\ found.id = p[k]
                          /\ \/ found.kind = "hop_limit" /\ k > hops + 1
                             \/ k <= hops + 1 /\ Stops(memory, p, k, found.kind)
<1> DEFINE N == hops + 1
           found == Follow(memory, start, hops)
<1>1. PICK f : /\ f \in [0 .. N -> HopStates(V)]
               /\ f[0] = [at |-> Searching(start), seen |-> {}]
               /\ \A n \in 1 .. N : f[n] = HopOn(memory, f[n - 1])
               /\ found = IF f[N].at.kind = "searching"
                          THEN [f[N].at EXCEPT !.kind = "hop_limit"] ELSE f[N].at
  BY FollowRuns
<1> DEFINE P == {n \in 0 .. N : HopInv(memory, V, start, n, f[n])}
<1>2. N \in Nat
  OBVIOUS
<1> HIDE DEF found
<1>3. 0 \in P
  <2> DEFINE p == [i \in 1 .. 1 |-> start]
  <2>1. Chain(memory, V, start, p, 1)
    BY DEF Chain
  <2>2. p[1] = start /\ f[0].seen = {p[i] : i \in 1 .. 0}
    BY <1>1
  <2> HIDE DEF p
  <2>3. Along(memory, V, start, 0, f[0], p, 1)
    BY <1>1, <2>1, <2>2 DEF Along, Searching
  <2> QED BY <2>3 DEF HopInv
<1> HIDE DEF N
<1>4. ASSUME NEW n \in 1 .. N, n - 1 \in P PROVE n \in P
  <2>1. n - 1 \in Nat /\ n - 1 \in 0 .. N /\ (n - 1) + 1 = n
    BY <1>2
  <2>2. f[n - 1] \in HopStates(V) /\ HopInv(memory, V, start, n - 1, f[n - 1])
    BY <1>1, <1>4, <2>1
  <2>3. HopInv(memory, V, start, (n - 1) + 1, HopOn(memory, f[n - 1]))
    BY <2>1, <2>2, HopKeeps
  <2> QED BY <1>1, <2>1, <2>3
<1>5. N \in P
  <2> HIDE DEF P
  <2> QED BY <1>2, <1>3, <1>4, LoopKeeps
<1>6. PICK p, k : Along(memory, V, start, N, f[N], p, k)
  BY <1>5 DEF HopInv
<1>7. f[N] \in HopStates(V) /\ k \in Nat
  BY <1>1, <1>2, <1>6 DEF Along, Chain
<1>8. CASE f[N].at.kind = "searching"
  <2>1. found = [kind |-> "hop_limit", id |-> p[k]]
    BY <1>1, <1>6, <1>7, <1>8 DEF Along, HopStates
  <2>2. Chain(memory, V, start, p, k) /\ k > N
    BY <1>2, <1>6, <1>8 DEF Along
  <2> QED BY <2>1, <2>2 DEF found, N
<1>9. CASE f[N].at.kind # "searching"
  <2>1. found = [kind |-> f[N].at.kind, id |-> p[k]]
    BY <1>1, <1>6, <1>7, <1>9 DEF Along, HopStates
  <2>2. Chain(memory, V, start, p, k) /\ k <= N /\ Stops(memory, p, k, f[N].at.kind)
    BY <1>6, <1>9 DEF Along
  <2> QED BY <1>9, <2>1, <2>2 DEF found, N
<1> QED BY <1>8, <1>9

(* Of every memory, and for every limit of hops: a reference yields the    *)
(* record that is current at the end of the chain if the chain is no       *)
(* longer than the limit, and no other; and what is reported as a cycle    *)
(* leads to no such record at all.                                         *)
THEOREM FollowIsCurrent ==
  ASSUME NEW V, NEW memory, IsMemory(memory, V), NEW start \in V, NEW hops \in Nat
  PROVE  LET found == Follow(memory, start, hops)
         IN  /\ found.kind # "searching"
             /\ \A id : found = [kind |-> "content", id |-> id]
                          <=> \E p, k : /\ Chain(memory, V, start, p, k) /\ k <= hops + 1
                                        /\ p[k] = id /\ Current(memory, id)
             /\ found.kind = "cycle" =>
                  \A p, k : Chain(memory, V, start, p, k) => ~Current(memory, p[k])
<1> DEFINE found == Follow(memory, start, hops)
<1>1. PICK p, k : /\ Chain(memory, V, start, p, k) /\ found.id = p[k]
                  /\ \/ found.kind = "hop_limit" /\ k > hops + 1
                     \/ k <= hops + 1 /\ Stops(memory, p, k, found.kind)
  BY FollowEnds
<1>2. found = [kind |-> found.kind, id |-> found.id] /\ found.kind # "searching"
  BY FollowEnds
<1> HIDE DEF found
<1>3. ASSUME NEW q, NEW m, Chain(memory, V, start, q, m), Current(memory, q[m]),
             m <= hops + 1 \/ found.kind = "cycle"
      PROVE  found = [kind |-> "content", id |-> q[m]]
  <2>1. k \in Nat \ {0} /\ m \in Nat \ {0}
    BY <1>1, <1>3 DEF Chain
  <2>2. k <= m
    <3>1. SUFFICES ASSUME m < k PROVE FALSE
      BY <2>1
    <3>2. q[m] = p[m]
      <4>1. \A i \in 1 .. m : q[i] = p[i]
        BY <1>1, <1>3, <2>1, <3>1, ChainsAgree
      <4> QED BY <2>1, <4>1
    <3>3. m \in 1 .. (k - 1)
      BY <2>1, <3>1
    <3>4. Leads(memory, p[m], p[m + 1])
      BY <1>1, <3>3 DEF Chain
    <3> QED BY <1>3, <3>2, <3>4 DEF Leads, Current
  <2>3. \A i \in 1 .. k : p[i] = q[i]
    BY <1>1, <1>3, <2>1, <2>2, ChainsAgree
  <2>4. p[k] = q[k] /\ (k < m => Leads(memory, q[k], q[k + 1]) /\ q[k + 1] \in V)
    BY <1>3, <2>1, <2>2, <2>3 DEF Chain
  <2>5. ~\E i \in 1 .. (k - 1) : p[i] = p[k]
    <3>1. SUFFICES ASSUME NEW i \in 1 .. (k - 1), p[i] = p[k] PROVE FALSE
      OBVIOUS
    <3>2. i \in 1 .. m /\ k \in 1 .. m /\ i < k /\ q[i] = q[k]
      BY <2>1, <2>2, <2>3, <3>1
    <3> QED BY <1>3, <3>2, RoundsNeverEnd
  <2>6. found.kind # "cycle"
    BY <1>1, <2>5 DEF Stops
  <2>7. k <= hops + 1 /\ Stops(memory, p, k, found.kind)
    BY <1>1, <1>3, <2>1, <2>2, <2>6
  <2>8. CASE k < m
    BY <2>4, <2>6, <2>7, <2>8 DEF Stops, Leads, Current, IsMemory
  <2>9. CASE k = m
    BY <1>1, <1>2, <1>3, <2>3, <2>4, <2>6, <2>7, <2>9 DEF Stops, Current
  <2> QED BY <2>1, <2>2, <2>8, <2>9
<1>4. ASSUME NEW id
      PROVE  found = [kind |-> "content", id |-> id]
               <=> \E q, m : /\ Chain(memory, V, start, q, m) /\ m <= hops + 1
                             /\ q[m] = id /\ Current(memory, id)
  <2>1. ASSUME found = [kind |-> "content", id |-> id]
        PROVE  Chain(memory, V, start, p, k) /\ k <= hops + 1 /\ p[k] = id /\ Current(memory, id)
    <3>1. found.kind = "content" /\ found.id = id
      BY <2>1
    <3> QED BY <1>1, <3>1 DEF Stops
  <2> QED BY <1>3, <2>1
<1>5. ASSUME found.kind = "cycle", NEW q, NEW m, Chain(memory, V, start, q, m)
      PROVE  ~Current(memory, q[m])
  <2>1. SUFFICES ASSUME Current(memory, q[m]) PROVE FALSE
    OBVIOUS
  <2>2. found = [kind |-> "content", id |-> q[m]]
    BY <1>3, <1>5, <2>1
  <2> QED BY <1>5, <2>2
<1> QED BY <1>2, <1>4, <1>5 DEF found

\* The records that are built are such a memory.
MemoryInv ==
    /\ given \in 0 .. MaxMemories
    /\ memories \in UNION {[ids -> Records] : ids \in SUBSET (1 .. given)}

\* Every record is added under a new id.
LEMMA MemoryAlways == Spec => []MemoryInv
<1>1. Init => MemoryInv
  <2>1. <<>> \in [{} -> Records] /\ {} \in SUBSET (1 .. 0) /\ 0 \in 0 .. MaxMemories
    <3> HIDE DEF Records
    <3> QED BY BuilderAssumption
  <2> QED BY <2>1 DEF Init, MemoryInv
<1>2. ASSUME MemoryInv, [Next]_vars PROVE MemoryInv'
  <2>1. ASSUME NEW exists \in BOOLEAN, NEW record \in Records, AddMemory(exists, record)
        PROVE  MemoryInv'
    <3>1. PICK ids \in SUBSET (1 .. given) : memories \in [ids -> Records]
      BY <1>2 DEF MemoryInv
    <3>2. given' = given + 1 /\ given \in Nat /\ given' \in 0 .. MaxMemories
      BY <1>2, <2>1, BuilderAssumption DEF AddMemory, MemoryInv
    <3>3. ids \cup {given'} \in SUBSET (1 .. given') /\ ids \in SUBSET (1 .. given')
      BY <3>2
    <3>4. CASE exists
      <4>1. memories' = With(memories, At(given', record))
        BY <2>1, <3>4 DEF AddMemory
      <4>2. memories' \in [ids \cup {given'} -> Records]
        <5> HIDE DEF Records
        <5> QED BY <3>1, <4>1 DEF With, At
      <4> HIDE DEF Records
      <4> QED BY <3>2, <3>3, <4>2 DEF MemoryInv
    <3>5. CASE ~exists
      BY <2>1, <3>1, <3>2, <3>3, <3>5 DEF AddMemory, MemoryInv
    <3> QED BY <3>4, <3>5
  <2>2. CASE UNCHANGED <<memories, given>>
    BY <1>2, <2>2 DEF MemoryInv
  <2> QED BY <1>2, <2>1, <2>2 DEF Next, AddStep, GiveKey, vars
<1> QED BY <1>1, <1>2, PTL DEF Spec

(* A reference to a memory always yields the record that is current.       *)
THEOREM MemoryAlwaysCurrent == Spec => []MemoryIsCurrent
<1>1. ASSUME MemoryInv PROVE MemoryIsCurrent
  <2> DEFINE V == 1 .. MaxMemories
  <2>1. IsMemory(memories, V)
    <3>1. ASSUME NEW record \in Records
          PROVE  record.superseded \in BOOLEAN /\ record.by \in V \cup {NoMemory}
      <4>1. CASE record = [superseded |-> FALSE, by |-> NoMemory]
        BY <4>1
      <4>2. CASE record \in [superseded : {TRUE}, by : 0 .. MaxMemories]
        <5>1. record.superseded \in {TRUE} /\ record.by \in 0 .. MaxMemories
          BY <4>2
        <5>2. \A n \in 0 .. MaxMemories : n \in V \cup {NoMemory}
          BY BuilderAssumption DEF NoMemory
        <5> QED BY <5>1, <5>2
      <4> QED BY <3>1, <4>1, <4>2 DEF Records
    <3>2. \A id \in DOMAIN memories : memories[id] \in Records
      BY <1>1 DEF MemoryInv
    <3>3. NoMemory \notin V
      BY DEF NoMemory
    <3> HIDE DEF V
    <3> QED BY <3>1, <3>2, <3>3 DEF IsMemory
  <2>2. \A id : Active(id) <=> Current(memories, id)
    BY DEF Active, Current
  <2>3. ASSUME NEW start \in V, NEW n \in Nat, NEW p \in Chains(start, n)
        PROVE  \E k : Chain(memories, V, start, p, k) /\ k <= n + 1 /\ Last(p) = p[k]
    <3>1. PICK k \in 1 .. (n + 1) : p \in [1 .. k -> V]
      BY <2>3 DEF Chains
    <3>2. Len(p) = k /\ Last(p) = p[k]
      BY <3>1 DEF Last
    <3>3. Chain(memories, V, start, p, k)
      BY <2>3, <3>1, <3>2 DEF Chains, Chain, Leads
    <3> QED BY <3>1, <3>2, <3>3
  <2>4. ASSUME NEW start \in V, NEW n \in Nat, NEW p, NEW k, Chain(memories, V, start, p, k), k <= n + 1
        PROVE  p \in Chains(start, n) /\ Last(p) = p[k]
    <3>1. k \in 1 .. (n + 1) /\ p \in [1 .. k -> V]
      BY <2>4 DEF Chain
    <3>2. Len(p) = k /\ Last(p) = p[k]
      BY <3>1 DEF Last
    <3> QED BY <2>4, <3>1, <3>2 DEF Chains, Chain, Leads
  <2>5. ASSUME NEW start \in V
        PROVE  LET found == Follow(memories, start, MaxHops)
               IN  /\ found.kind # "searching"
                   /\ \A id \in V :
                        found = [kind |-> "content", id |-> id]
                          <=> Active(id) /\ \E p \in Chains(start, MaxHops) : Last(p) = id
                   /\ found.kind = "cycle" =>
                        \A p \in Chains(start, MaxMemories) : ~Active(Last(p))
    <3> DEFINE found == Follow(memories, start, MaxHops)
    <3>1. MaxHops \in Nat /\ MaxMemories \in Nat
      BY BuilderAssumption
    <3>2. /\ found.kind # "searching"
          /\ \A id : found = [kind |-> "content", id |-> id]
                       <=> \E p, k : /\ Chain(memories, V, start, p, k) /\ k <= MaxHops + 1
                                     /\ p[k] = id /\ Current(memories, id)
          /\ found.kind = "cycle" =>
               \A p, k : Chain(memories, V, start, p, k) => ~Current(memories, p[k])
      BY <2>1, <3>1, FollowIsCurrent
    <3> HIDE DEF found, V
    <3>3. ASSUME NEW id \in V
          PROVE  found = [kind |-> "content", id |-> id]
                   <=> Active(id) /\ \E p \in Chains(start, MaxHops) : Last(p) = id
      <4>1. ASSUME NEW p \in Chains(start, MaxHops), Last(p) = id, Active(id)
            PROVE  found = [kind |-> "content", id |-> id]
        <5>1. PICK k : Chain(memories, V, start, p, k) /\ k <= MaxHops + 1 /\ Last(p) = p[k]
          BY <2>3, <3>1
        <5> QED BY <2>2, <3>2, <4>1, <5>1
      <4>2. ASSUME found = [kind |-> "content", id |-> id]
            PROVE  Active(id) /\ \E p \in Chains(start, MaxHops) : Last(p) = id
        <5>1. PICK p, k : /\ Chain(memories, V, start, p, k) /\ k <= MaxHops + 1
                          /\ p[k] = id /\ Current(memories, id)
          BY <3>2, <4>2
        <5>2. p \in Chains(start, MaxHops) /\ Last(p) = p[k]
          BY <2>4, <3>1, <5>1
        <5> QED BY <2>2, <5>1, <5>2
      <4> QED BY <4>1, <4>2
    <3>4. ASSUME found.kind = "cycle", NEW p \in Chains(start, MaxMemories)
          PROVE  ~Active(Last(p))
      <4>1. PICK k : Chain(memories, V, start, p, k) /\ Last(p) = p[k]
        BY <2>3, <3>1
      <4> QED BY <2>2, <3>2, <3>4, <4>1
    <3> QED BY <3>2, <3>3, <3>4 DEF found
  <2> QED BY <2>5 DEF MemoryIsCurrent
<1> QED BY <1>1, MemoryAlways, PTL

-----------------------------------------------------------------------------
(* The values of a document.                                               *)

\* A value has one field, named for its kind.
IsVal(v) ==
    \/ v = Null
    \/ v = Bool(v.bool) /\ v.bool \in BOOLEAN
    \/ v = Num(v.int) /\ v.int \in Int
    \/ v = Str(v.str)
    \/ v = List(v.list) /\ v.list \in Seq(ToSet(v.list))
    \/ v = Map(v.map) /\ v.map = [key \in DOMAIN v.map |-> v.map[key]]

\* D holds values, and with a list or a mapping all that is in it.
IsData(D) ==
    \A v \in D : /\ IsVal(v)
                 /\ Kind(v) = "list" => ToSet(v.list) \subseteq D
                 /\ Kind(v) = "map" => \A key \in DOMAIN v.map : v.map[key] \in D

\* A mapping to values of D.
IsMapping(m, D) == m = [key \in DOMAIN m |-> m[key]] /\ \A key \in DOMAIN m : m[key] \in D

\* Null has the kind "null".
LEMMA KindOfNull == Kind(Null) = "null"
BY DEF Kind, Null

\* A Boolean has the kind "bool".
LEMMA KindOfBool == \A b : Kind(Bool(b)) = "bool" /\ Bool(b).bool = b
BY DEF Kind, Bool

\* FALSE is a value.
LEMMA KindOfNo == IsVal(No) /\ Kind(No) = "bool" /\ No # Null
<1>1. Kind(No) = "bool" /\ No.bool = FALSE
  BY Zenon DEF Kind, No, Bool
<1> QED BY <1>1, KindOfNull, Zenon DEF IsVal, No

\* A number has the kind "int".
LEMMA KindOfNum == \A n : Kind(Num(n)) = "int" /\ Num(n).int = n
BY DEF Kind, Num

\* A string has the kind "str".
LEMMA KindOfStr == \A s : Kind(Str(s)) = "str" /\ Str(s).str = s
BY DEF Kind, Str

\* The empty string is a value.
LEMMA KindOfNoText == IsVal(NoText) /\ Kind(NoText) = "str" /\ NoText # Null
<1>1. Kind(NoText) = "str" /\ NoText = Str(NoText.str)
  BY KindOfStr, Zenon DEF NoText
<1> QED BY <1>1, KindOfNull, Zenon DEF IsVal

\* A list has the kind "list".
LEMMA KindOfList == \A q : Kind(List(q)) = "list" /\ List(q).list = q
BY DEF Kind, List

\* An empty list is a value.
LEMMA KindOfNothing == IsVal(List(<<>>)) /\ Kind(List(<<>>)) = "list" /\ List(<<>>) # Null
<1>1. /\ Kind(List(<<>>)) = "list" /\ List(<<>>).list = <<>>
      /\ List(<<>>) = List(List(<<>>).list)
  BY KindOfList
<1>2. <<>> \in Seq(ToSet(<<>>))
  OBVIOUS
<1> QED BY <1>1, <1>2, KindOfNull DEF IsVal

\* A mapping has the kind "map".
LEMMA KindOfMap == \A m : Kind(Map(m)) = "map" /\ Map(m).map = m
BY DEF Kind, Map

\* A value is determined by its kind and what is in it.
LEMMA ValueOf ==
  ASSUME NEW v, IsVal(v)
  PROVE  /\ Kind(v) \in Anything
         /\ Kind(v) = "null" => v = Null
         /\ Kind(v) = "bool" => v = Bool(v.bool) /\ v.bool \in BOOLEAN
         /\ Kind(v) = "int" => v = Num(v.int) /\ v.int \in Int
         /\ Kind(v) = "str" => v = Str(v.str)
         /\ Kind(v) = "list" => v = List(v.list) /\ v.list \in Seq(ToSet(v.list))
         /\ Kind(v) = "map" => v = Map(v.map) /\ v.map = [key \in DOMAIN v.map |-> v.map[key]]
BY KindOfNull, KindOfBool, KindOfNum, KindOfStr, KindOfList, KindOfMap
   DEF IsVal, Anything, Text, Whole, Several, Nested

\* The records of a parsed flow: every field is its default, or a value of one of its kinds.
Typed(r, default, kinds) ==
    /\ r = [key \in DOMAIN default |-> r[key]]
    /\ \A key \in DOMAIN default :
         \/ r[key] = default[key]
         \/ IsVal(r[key]) /\ r[key] # Null /\ Kind(r[key]) \in kinds[key]

\* What a mapping that fits is filled to.
LEMMA FilledTyped ==
  ASSUME NEW D, IsData(D), NEW m, IsMapping(m, D), NEW kinds, Fits(m, kinds), NEW default
  PROVE  Typed(Filled(m, default), default, kinds)
BY DEF IsData, IsMapping, Fits, Filled, Get, Typed

\* What is filled again is the same if only defaults were left out.
LEMMA FilledAgain ==
  ASSUME NEW r, NEW default, NEW kinds, Typed(r, default, kinds), NEW m,
         \A key \in DOMAIN default : IF key \in DOMAIN m THEN m[key] = r[key] ELSE r[key] = default[key]
  PROVE  Filled(m, default) = r
<1>1. ASSUME NEW key \in DOMAIN default
      PROVE  (IF Get(m, key) = Null THEN default[key] ELSE m[key]) = r[key]
  BY DEF Typed, Get
<1>2. Filled(m, default) = [key \in DOMAIN default |-> r[key]]
  BY <1>1 DEF Filled
<1> QED BY <1>2 DEF Typed

\* And it fits, if the defaults do.
LEMMA TypedFits ==
  ASSUME NEW r, NEW default, NEW kinds, Typed(r, default, kinds), NEW m,
         DOMAIN m \subseteq DOMAIN default, \A key \in DOMAIN m : m[key] = r[key],
         DOMAIN default \subseteq DOMAIN kinds,
         \A key \in DOMAIN default : Kind(default[key]) \in kinds[key]
  PROVE  Fits(m, kinds)
BY DEF Typed, Fits

-----------------------------------------------------------------------------
(* What parse() makes of a document.                                       *)

IsOption(option) ==
    IsVal(option) /\ Kind(option) = "map" /\ Typed(option.map, OptionDefault, OptionKinds)

IsOutput(output) ==
    \/ output = Null
    \/ /\ IsVal(output) /\ Kind(output) = "map" /\ Typed(output.map, OutputDefault, OutputKinds)
       /\ LET schema == output.map.schema.map IN AllStrings({schema[f] : f \in DOMAIN schema})

\* A step: its fields, its dependencies, what its output is to be, and its options.
IsStep(step) ==
    /\ Typed(step, StepDefault, StepKinds)
    /\ AllStrings(ToSet(step.depends_on.list))
    /\ IsOutput(step.output)
    /\ \A option \in ToSet(step.options.list) : IsOption(option)

IsParsed(f) ==
    /\ f = [head |-> f.head, defaults |-> f.defaults, memory |-> f.memory,
            secrets |-> f.secrets, steps |-> f.steps]
    /\ Typed(f.head, HeadDefault, RootKinds)
    /\ Typed(f.defaults, DefaultsDefault, DefaultsKinds)
    /\ Typed(f.memory, MemoryDefault, MemoryKinds)
    /\ Typed(f.secrets, SecretsDefault, SecretsKinds)
    /\ AllStrings(ToSet(f.secrets.required.list))
    /\ f.steps \in Seq(ToSet(f.steps)) /\ \A step \in ToSet(f.steps) : IsStep(step)

\* The kind of a field whose default and values are of one kind.
LEMMA FieldKind ==
  ASSUME NEW r, NEW default, NEW kinds, Typed(r, default, kinds), NEW key \in DOMAIN default,
         NEW kind, kind # "null", kinds[key] \subseteq {kind, "null"},
         IsVal(default[key]), Kind(default[key]) = kind
  PROVE  IsVal(r[key]) /\ Kind(r[key]) = kind
BY ValueOf DEF Typed

\* An option is one value for each key.
LEMMA ParsesOption ==
  ASSUME NEW D, IsData(D), NEW option \in D, OptionFits(option)
  PROVE  IsOption(Map(Filled(option.map, OptionDefault)))
<1> DEFINE r == Filled(option.map, OptionDefault)
<1>1. IsMapping(option.map, D) /\ Fits(option.map, OptionKinds)
  BY ValueOf DEF IsData, IsMapping, OptionFits
<1>2. Typed(r, OptionDefault, OptionKinds)
  BY <1>1, FilledTyped
<1> HIDE DEF r
<1>3. Map(r).map = r /\ Kind(Map(r)) = "map"
  BY KindOfMap
<1>4. IsVal(Map(r))
  BY <1>2, <1>3 DEF IsVal, Typed
<1> QED BY <1>2, <1>3, <1>4 DEF IsOption, r

\* A section of a document is a mapping too, if only an empty one.
LEMMA SectionIsMapping ==
  ASSUME NEW D, IsData(D), NEW m, IsMapping(m, D), NEW key,
         key \in DOMAIN m => Kind(m[key]) \in Nested
  PROVE  IsMapping(Section(m, key), D)
<1>1. CASE Get(m, key) = Null
  BY <1>1 DEF Section, IsMapping, Empty
<1>2. CASE Get(m, key) # Null
  <2>1. key \in DOMAIN m /\ m[key] \in D /\ m[key] # Null
    BY <1>2 DEF Get, IsMapping
  <2>2. Kind(m[key]) = "map"
    BY <2>1, ValueOf DEF Nested, IsData
  <2> QED BY <1>2, <2>1, <2>2, ValueOf DEF Section, IsData, IsMapping
<1> QED BY <1>1, <1>2

\* A list of a document is a sequence of values, if only an empty one.
LEMMA ItemsAreData ==
  ASSUME NEW D, IsData(D), NEW m, IsMapping(m, D), NEW key,
         key \in DOMAIN m => Kind(m[key]) \in Several
  PROVE  Items(m, key) \in Seq(ToSet(Items(m, key))) /\ ToSet(Items(m, key)) \subseteq D
<1>1. CASE Get(m, key) = Null
  BY <1>1 DEF Items, ToSet
<1>2. CASE Get(m, key) # Null
  <2>1. key \in DOMAIN m /\ m[key] \in D /\ m[key] # Null
    BY <1>2 DEF Get, IsMapping
  <2>2. Kind(m[key]) = "list"
    BY <2>1, ValueOf DEF Several, IsData
  <2> QED BY <1>2, <2>1, <2>2, ValueOf DEF Items, IsData
<1> QED BY <1>1, <1>2

\* What is output is a mapping with a format and a schema of strings.
LEMMA ParsesOutput ==
  ASSUME NEW D, IsData(D), NEW output \in D, Kind(output) = "map", Fits(output.map, OutputKinds),
         LET schema == Section(output.map, "schema")
         IN  AllStrings({schema[f] : f \in DOMAIN schema})
  PROVE  IsOutput(Map(Filled(output.map, OutputDefault)))
<1> DEFINE r == Filled(output.map, OutputDefault)
           schema == Section(output.map, "schema")
<1>1. IsMapping(output.map, D)
  BY ValueOf DEF IsData, IsMapping
<1>2. Typed(r, OutputDefault, OutputKinds)
  BY <1>1, FilledTyped
<1>3. r.schema.map = schema
  BY KindOfMap DEF Filled, OutputDefault, Section
<1> HIDE DEF r
<1>4. Map(r).map = r /\ Kind(Map(r)) = "map"
  BY KindOfMap
<1>5. IsVal(Map(r))
  BY <1>2, <1>4 DEF IsVal, Typed
<1> HIDE DEF schema
<1>6. AllStrings({schema[f] : f \in DOMAIN schema})
  BY DEF schema
<1> QED BY <1>2, <1>3, <1>4, <1>5, <1>6 DEF IsOutput, r

\* A step has all its fields, and what is nested in them is filled too.
LEMMA ParsesStep ==
  ASSUME NEW D, IsData(D), NEW step \in D, StepFits(step)
  PROVE  IsStep(ParseStep(step.map))
<1> DEFINE raw == step.map
           r == Filled(raw, StepDefault)
           p == ParseStep(raw)
           items == Items(raw, "options")
           options == [i \in DOMAIN items |-> Map(Filled(items[i].map, OptionDefault))]
           output == IF r.output = Null THEN Null ELSE Map(Filled(r.output.map, OutputDefault))
           keys == DOMAIN StepDefault
<1>1. IsMapping(raw, D) /\ Fits(raw, StepKinds)
  BY ValueOf DEF IsData, IsMapping, StepFits
<1>2. Typed(r, StepDefault, StepKinds)
  BY <1>1, FilledTyped
<1>3. /\ "options" \in keys /\ "output" \in keys /\ "depends_on" \in keys
      /\ StepDefault.options = List(<<>>) /\ StepDefault.output = Null
      /\ StepDefault.depends_on = List(<<>>)
      /\ StepKinds.options = Several /\ StepKinds.output = Nested /\ StepKinds.depends_on = Several
      /\ "options" \in DOMAIN StepKinds /\ "output" \in DOMAIN StepKinds
      /\ "depends_on" \in DOMAIN StepKinds
  BY DEF StepDefault, StepKinds
<1>4. /\ r.options.list = items /\ r.depends_on.list = Items(raw, "depends_on")
      /\ r.output = Get(raw, "output")
  BY <1>3, KindOfList DEF Filled, Items, Get
<1>5. /\ items \in Seq(ToSet(items)) /\ ToSet(items) \subseteq D
      /\ \A i \in DOMAIN items : items[i] \in D /\ OptionFits(items[i])
  <2>1. "options" \in DOMAIN raw => Kind(raw["options"]) \in Several
    BY <1>1, <1>3 DEF Fits
  <2>2. items \in Seq(ToSet(items)) /\ ToSet(items) \subseteq D
    BY <1>1, <2>1, ItemsAreData
  <2>3. \A option \in ToSet(items) : OptionFits(option)
    BY DEF StepFits
  <2> HIDE DEF items
  <2> QED BY <2>2, <2>3 DEF ToSet
<1> HIDE DEF items
<1>6. options \in Seq(ToSet(options)) /\ \A option \in ToSet(options) : IsOption(option)
  <2>1. options \in Seq(ToSet(options))
    <3>1. DOMAIN options = 1 .. Len(items) /\ Len(items) \in Nat
      BY <1>5
    <3> HIDE DEF options
    <3>2. \A i \in 1 .. Len(items) : options[i] \in ToSet(options)
      BY <3>1 DEF ToSet
    <3>3. options = [i \in 1 .. Len(items) |-> options[i]]
      BY <3>1 DEF options
    <3> QED BY <3>1, <3>2, <3>3
  <2>2. \A i \in DOMAIN options : IsOption(options[i])
    BY <1>5, ParsesOption
  <2> HIDE DEF options
  <2> QED BY <2>1, <2>2 DEF ToSet
<1>7. IsOutput(output) /\ (output # Null => IsVal(output) /\ Kind(output) = "map")
  <2>1. CASE r.output = Null
    BY <2>1 DEF IsOutput
  <2>2. CASE r.output # Null
    <3>1. r.output = raw.output /\ "output" \in DOMAIN raw /\ raw.output \in D
      BY <1>1, <1>4, <2>2 DEF Get, IsMapping
    <3>2. Kind(raw.output) = "map"
      BY <1>1, <1>3, <2>2, <3>1, ValueOf DEF Fits, IsData, Nested
    <3>3. Section(raw, "output") = raw.output.map
      BY <1>4, <2>2, <3>1 DEF Section
    <3>4. Fits(raw.output.map, OutputKinds)
          /\ LET schema == Section(raw.output.map, "schema")
             IN  AllStrings({schema[f] : f \in DOMAIN schema})
      BY <3>3 DEF StepFits
    <3>5. IsOutput(output)
      BY <2>2, <3>1, <3>2, <3>4, ParsesOutput
    <3> HIDE DEF output
    <3> QED BY <3>5 DEF IsOutput
  <2> QED BY <2>1, <2>2
<1> HIDE DEF options, output, r
<1>8. /\ p = [key \in keys |-> p[key]] /\ p.options = List(options) /\ p.output = output
      /\ \A key \in keys : key # "options" /\ key # "output" => p[key] = r[key]
  <2>1. p = [r EXCEPT !.output = output, !.options = List(options)]
    BY <1>4 DEF ParseStep, options, output, r
  <2>2. r = [key \in keys |-> r[key]]
    BY <1>2 DEF Typed
  <2>3. "options" \in keys /\ "output" \in keys
    BY <1>3
  <2> HIDE DEF p, keys, r
  <2>4. p = [key \in keys |-> IF key = "options" THEN List(options)
                              ELSE IF key = "output" THEN output ELSE r[key]]
    BY <2>1, <2>2, <2>3
  <2> QED BY <2>3, <2>4
<1> HIDE DEF p, raw
<1>9. IsVal(List(options)) /\ List(options) # Null /\ Kind(List(options)) = "list"
  BY <1>6, KindOfList, KindOfNull DEF IsVal
<1>10. Typed(p, StepDefault, StepKinds)
  <2>1. ASSUME NEW key \in keys
        PROVE  p[key] = StepDefault[key]
               \/ (IsVal(p[key]) /\ p[key] # Null /\ Kind(p[key]) \in StepKinds[key])
    <3>1. CASE key = "options"
      BY <1>3, <1>8, <1>9, <3>1 DEF Several
    <3>2. CASE key = "output"
      BY <1>3, <1>7, <1>8, <3>2 DEF Nested
    <3>3. CASE key # "options" /\ key # "output"
      BY <1>2, <1>8, <3>3 DEF Typed
    <3> QED BY <3>1, <3>2, <3>3
  <2> HIDE DEF keys
  <2> QED BY <1>8, <2>1 DEF Typed, keys
<1>11. AllStrings(ToSet(p.depends_on.list))
  <2>1. p.depends_on = r.depends_on
    BY <1>3, <1>8
  <2>2. AllStrings(ToSet(Items(raw, "depends_on")))
    BY DEF StepFits, raw
  <2> QED BY <1>4, <2>1, <2>2
<1>12. p.options.list = options
  BY <1>8, KindOfList
<1> QED BY <1>6, <1>7, <1>8, <1>10, <1>11, <1>12 DEF IsStep, p, raw

(* Whatever a document holds, if parse() takes it the flow has every field *)
(* it is to have, down to the options of a gate, each with a value of its  *)
(* kind: the defaults are of these kinds too.                              *)
THEOREM ParseTyped ==
  ASSUME NEW D, IsData(D), NEW doc, IsMapping(doc, D), Parses(doc)
  PROVE  IsParsed(Parse(doc))
<1> DEFINE f == Parse(doc)
           items == Items(doc, "steps")
           secrets == Section(doc, "secrets")
<1>1. Fits(doc, RootKinds)
  BY DEF Parses
<1>2. /\ RootKinds.defaults = Nested /\ RootKinds.memory = Nested /\ RootKinds.secrets = Nested
      /\ RootKinds.steps = Several /\ SecretsKinds.required = Several
  BY DEF RootKinds, SecretsKinds
<1>3. /\ IsMapping(Section(doc, "defaults"), D) /\ IsMapping(Section(doc, "memory"), D)
      /\ IsMapping(secrets, D)
  <2>1. /\ "defaults" \in DOMAIN doc => Kind(doc["defaults"]) \in Nested
        /\ "memory" \in DOMAIN doc => Kind(doc["memory"]) \in Nested
        /\ "secrets" \in DOMAIN doc => Kind(doc["secrets"]) \in Nested
    BY <1>1, <1>2 DEF Fits
  <2> QED BY <2>1, SectionIsMapping
<1>4. /\ Typed(f.head, HeadDefault, RootKinds)
      /\ Typed(f.defaults, DefaultsDefault, DefaultsKinds)
      /\ Typed(f.memory, MemoryDefault, MemoryKinds)
      /\ Typed(f.secrets, SecretsDefault, SecretsKinds)
  <2>1. /\ f.head = Filled(doc, HeadDefault)
        /\ f.defaults = Filled(Section(doc, "defaults"), DefaultsDefault)
        /\ f.memory = Filled(Section(doc, "memory"), MemoryDefault)
        /\ f.secrets = Filled(secrets, SecretsDefault)
    BY DEF Parse
  <2>2. /\ Fits(Section(doc, "defaults"), DefaultsKinds)
        /\ Fits(Section(doc, "memory"), MemoryKinds) /\ Fits(secrets, SecretsKinds)
    BY DEF Parses
  <2> HIDE DEF f, secrets
  <2> QED BY <1>1, <1>3, <2>1, <2>2, FilledTyped
<1>5. AllStrings(ToSet(f.secrets.required.list))
  <2>1. f.secrets.required.list = Items(secrets, "required")
    BY KindOfList DEF Parse, Filled, SecretsDefault, Items, Get
  <2> QED BY <2>1 DEF Parses
<1>6. /\ items \in Seq(ToSet(items)) /\ ToSet(items) \subseteq D
      /\ \A i \in DOMAIN items : items[i] \in D /\ StepFits(items[i])
  <2>1. "steps" \in DOMAIN doc => Kind(doc["steps"]) \in Several
    BY <1>1, <1>2 DEF Fits
  <2>2. items \in Seq(ToSet(items)) /\ ToSet(items) \subseteq D
    BY <2>1, ItemsAreData
  <2>3. \A step \in ToSet(items) : StepFits(step)
    BY DEF Parses
  <2> HIDE DEF items
  <2> QED BY <2>2, <2>3 DEF ToSet
<1>7. f.steps = [i \in DOMAIN items |-> ParseStep(items[i].map)]
  BY DEF Parse
<1>8. f = [head |-> f.head, defaults |-> f.defaults, memory |-> f.memory,
           secrets |-> f.secrets, steps |-> f.steps]
  BY DEF Parse
<1> HIDE DEF f, items
<1>9. f.steps \in Seq(ToSet(f.steps)) /\ \A step \in ToSet(f.steps) : IsStep(step)
  <2> DEFINE steps == f.steps
  <2>1. DOMAIN steps = 1 .. Len(items) /\ Len(items) \in Nat
    BY <1>6, <1>7
  <2>2. \A i \in DOMAIN steps : IsStep(steps[i])
    BY <1>6, <1>7, ParsesStep
  <2>3. steps = [i \in 1 .. Len(items) |-> steps[i]]
    BY <1>7, <2>1
  <2> HIDE DEF steps
  <2>4. \A i \in 1 .. Len(items) : steps[i] \in ToSet(steps)
    BY <2>1 DEF ToSet
  <2>5. steps \in Seq(ToSet(steps))
    BY <2>1, <2>3, <2>4
  <2> QED BY <2>2, <2>5 DEF steps, ToSet
<1> QED BY <1>4, <1>5, <1>8, <1>9 DEF IsParsed, f

-----------------------------------------------------------------------------
(* What is dumped of a flow.                                               *)

\* The defaults are of the kinds that their fields may be.
LEMMA DefaultKinds ==
  /\ DOMAIN StepDefault \subseteq DOMAIN StepKinds
  /\ \A key \in DOMAIN StepDefault : Kind(StepDefault[key]) \in StepKinds[key]
  /\ DOMAIN OutputDefault \subseteq DOMAIN OutputKinds
  /\ \A key \in DOMAIN OutputDefault : Kind(OutputDefault[key]) \in OutputKinds[key]
  /\ DOMAIN OptionDefault \subseteq DOMAIN OptionKinds
  /\ \A key \in DOMAIN OptionDefault : Kind(OptionDefault[key]) \in OptionKinds[key]
  /\ DOMAIN DefaultsDefault \subseteq DOMAIN DefaultsKinds
  /\ \A key \in DOMAIN DefaultsDefault : Kind(DefaultsDefault[key]) \in DefaultsKinds[key]
  /\ DOMAIN MemoryDefault \subseteq DOMAIN MemoryKinds
  /\ \A key \in DOMAIN MemoryDefault : Kind(MemoryDefault[key]) \in MemoryKinds[key]
  /\ DOMAIN SecretsDefault \subseteq DOMAIN SecretsKinds
  /\ \A key \in DOMAIN SecretsDefault : Kind(SecretsDefault[key]) \in SecretsKinds[key]
<1> USE KindOfNull, KindOfNo, KindOfNoText, KindOfNum, KindOfStr, KindOfList, KindOfMap
        DEF Text, Whole, Several, Nested, Anything
<1>1. /\ DOMAIN StepDefault \subseteq DOMAIN StepKinds
      /\ \A key \in DOMAIN StepDefault : Kind(StepDefault[key]) \in StepKinds[key]
  BY DEF StepDefault, StepKinds
<1>2. /\ DOMAIN OutputDefault \subseteq DOMAIN OutputKinds
      /\ \A key \in DOMAIN OutputDefault : Kind(OutputDefault[key]) \in OutputKinds[key]
  BY DEF OutputDefault, OutputKinds
<1>3. /\ DOMAIN OptionDefault \subseteq DOMAIN OptionKinds
      /\ \A key \in DOMAIN OptionDefault : Kind(OptionDefault[key]) \in OptionKinds[key]
  BY DEF OptionDefault, OptionKinds
<1>4. /\ DOMAIN DefaultsDefault \subseteq DOMAIN DefaultsKinds
      /\ \A key \in DOMAIN DefaultsDefault : Kind(DefaultsDefault[key]) \in DefaultsKinds[key]
  BY DEF DefaultsDefault, DefaultsKinds
<1>5. /\ DOMAIN MemoryDefault \subseteq DOMAIN MemoryKinds
      /\ \A key \in DOMAIN MemoryDefault : Kind(MemoryDefault[key]) \in MemoryKinds[key]
  BY DEF MemoryDefault, MemoryKinds
<1>6. /\ DOMAIN SecretsDefault \subseteq DOMAIN SecretsKinds
      /\ \A key \in DOMAIN SecretsDefault : Kind(SecretsDefault[key]) \in SecretsKinds[key]
  BY DEF SecretsDefault, SecretsKinds
<1> QED BY <1>1, <1>2, <1>3, <1>4, <1>5, <1>6

\* The fields of a step that have one kind.
LEMMA StepFieldKinds ==
  ASSUME NEW step, Typed(step, StepDefault, StepKinds)
  PROVE  /\ \A key \in {"id", "agent", "prompt", "type", "message"} :
              IsVal(step[key]) /\ Kind(step[key]) = "str"
         /\ \A key \in {"depends_on", "options"} : IsVal(step[key]) /\ Kind(step[key]) = "list"
         /\ IsVal(step.terminal) /\ Kind(step.terminal) = "bool"
         /\ DOMAIN step = DOMAIN StepDefault
<1>1. ASSUME NEW key \in {"id", "agent", "prompt", "type", "message"}
      PROVE  IsVal(step[key]) /\ Kind(step[key]) = "str"
  <2>1. /\ key \in DOMAIN StepDefault /\ StepKinds[key] \subseteq {"str", "null"}
        /\ StepDefault[key] = NoText \/ StepDefault[key] = Str("agent")
    BY DEF StepDefault, StepKinds, Text
  <2>2. IsVal(StepDefault[key]) /\ Kind(StepDefault[key]) = "str"
    BY <2>1, KindOfStr, KindOfNoText DEF IsVal
  <2> QED BY <2>1, <2>2, FieldKind
<1>2. ASSUME NEW key \in {"depends_on", "options"}
      PROVE  IsVal(step[key]) /\ Kind(step[key]) = "list"
  <2>1. /\ key \in DOMAIN StepDefault /\ StepKinds[key] \subseteq {"list", "null"}
        /\ StepDefault[key] = List(<<>>)
    BY DEF StepDefault, StepKinds, Several
  <2>2. IsVal(StepDefault[key]) /\ Kind(StepDefault[key]) = "list"
    BY <2>1, KindOfNothing
  <2> QED BY <2>1, <2>2, FieldKind
<1>3. IsVal(step.terminal) /\ Kind(step.terminal) = "bool"
  <2>1. /\ "terminal" \in DOMAIN StepDefault /\ StepKinds["terminal"] \subseteq {"bool", "null"}
        /\ StepDefault["terminal"] = No
    BY DEF StepDefault, StepKinds
  <2>2. IsVal(StepDefault["terminal"]) /\ Kind(StepDefault["terminal"]) = "bool"
    BY <2>1, KindOfNo
  <2> QED BY <2>1, <2>2, FieldKind
<1>4. DOMAIN step = DOMAIN StepDefault
  BY DEF Typed
<1> QED BY <1>1, <1>2, <1>3, <1>4

\* A field that is not written had its default.
LEMMA LeftOut ==
  ASSUME NEW step, Typed(step, StepDefault, StepKinds),
         NEW key \in DOMAIN StepDefault, key \notin DOMAIN DumpStep(step)
  PROVE  step[key] = StepDefault[key]
<1>1. DOMAIN step = DOMAIN StepDefault
  BY StepFieldKinds
<1>2. CASE key \in {"agent", "prompt", "message"}
  <2>1. step[key] \in {Null, NoText, Num(0), No, List(<<>>)} /\ Kind(step[key]) = "str"
    BY <1>1, <1>2, StepFieldKinds DEF DumpStep, Truthy
  <2>2. step[key] = NoText
    BY <2>1, KindOfNull, KindOfNum, KindOfNo, KindOfList
  <2> QED BY <1>2, <2>2 DEF StepDefault
<1>3. CASE key = "options"
  <2>1. step[key] \in {Null, NoText, Num(0), No, List(<<>>)} /\ Kind(step[key]) = "list"
    BY <1>1, <1>3, StepFieldKinds DEF DumpStep, Truthy
  <2>2. step[key] = List(<<>>)
    BY <2>1, KindOfNull, KindOfNum, KindOfNo, KindOfNoText
  <2> QED BY <1>3, <2>2 DEF StepDefault
<1>4. CASE key = "terminal"
  <2>1. step[key] \in {Null, NoText, Num(0), No, List(<<>>)} /\ Kind(step[key]) = "bool"
    BY <1>1, <1>4, StepFieldKinds DEF DumpStep, Truthy
  <2>2. step[key] = No
    BY <2>1, KindOfNull, KindOfNum, KindOfList, KindOfNoText
  <2> QED BY <1>4, <2>2 DEF StepDefault
<1>5. CASE key \in {"timeout", "retry", "max_visits", "group", "output"}
  <2>1. step[key] = Null
    BY <1>1, <1>5 DEF DumpStep
  <2> QED BY <1>5, <2>1 DEF StepDefault
<1>6. CASE key \in {"id", "type", "depends_on"}
  BY <1>1, <1>6 DEF DumpStep
<1> QED BY <1>2, <1>3, <1>4, <1>5, <1>6 DEF StepDefault

\* A mapping that is filled already is what it is filled to.
LEMMA FilledIsFilled ==
  ASSUME NEW v, IsVal(v), Kind(v) = "map", NEW default, NEW kinds, Typed(v.map, default, kinds)
  PROVE  Map(Filled(v.map, default)) = v
<1>1. Filled(v.map, default) = v.map
  <2>1. DOMAIN v.map = DOMAIN default
    BY DEF Typed
  <2> QED BY <2>1, FilledAgain
<1> QED BY <1>1, ValueOf

\* What is written of a step is parsed, and gives the step.
LEMMA DumpedStep ==
  ASSUME NEW step, IsStep(step)
  PROVE  StepFits(Map(DumpStep(step))) /\ ParseStep(DumpStep(step)) = step
<1> DEFINE d == DumpStep(step)
           keys == DOMAIN StepDefault
<1>1. Typed(step, StepDefault, StepKinds)
  BY DEF IsStep
<1>2. DOMAIN step = keys /\ DOMAIN d \subseteq keys /\ \A key \in DOMAIN d : d[key] = step[key]
  BY <1>1, StepFieldKinds DEF DumpStep
<1>3. \A key \in keys : key \notin DOMAIN d => step[key] = StepDefault[key]
  BY <1>1, LeftOut
<1>4. "depends_on" \in DOMAIN d
  BY <1>1, StepFieldKinds DEF DumpStep, StepDefault
<1>5. /\ "options" \in keys /\ "output" \in keys
      /\ StepDefault.options = List(<<>>) /\ StepDefault.output = Null
  BY DEF StepDefault
<1>6. /\ IsVal(step.options) /\ Kind(step.options) = "list" /\ Kind(step.depends_on) = "list"
      /\ step.options = List(step.options.list)
  BY <1>1, StepFieldKinds, ValueOf
<1> HIDE DEF d, keys
<1>7. Filled(d, StepDefault) = step
  BY <1>1, <1>2, <1>3, FilledAgain DEF keys
<1>8. Fits(d, StepKinds)
  BY <1>1, <1>2, DefaultKinds, TypedFits DEF keys
<1>9. \A i \in DOMAIN step.options.list :
        Map(Filled(step.options.list[i].map, OptionDefault)) = step.options.list[i]
  <2>1. \A i \in DOMAIN step.options.list : IsOption(step.options.list[i])
    BY DEF IsStep, ToSet
  <2> QED BY <2>1, FilledIsFilled DEF IsOption
<1>10. step.output # Null => Map(Filled(step.output.map, OutputDefault)) = step.output
  <2>1. IsOutput(step.output)
    BY DEF IsStep
  <2> QED BY <2>1, FilledIsFilled DEF IsOutput
<1>11. ParseStep(d) = step
  <2> DEFINE options == step.options.list
             again == [i \in DOMAIN options |-> Map(Filled(options[i].map, OptionDefault))]
             output == IF step.output = Null THEN Null ELSE Map(Filled(step.output.map, OutputDefault))
  <2>1. options \in Seq(ToSet(options))
    BY <1>6, ValueOf
  <2>2. again = options
    BY <1>9, <2>1
  <2>3. output = step.output
    BY <1>10
  <2>4. ParseStep(d) = [step EXCEPT !.output = output, !.options = List(again)]
    BY <1>7 DEF ParseStep
  <2>5. step = [key \in keys |-> step[key]]
    BY <1>1 DEF Typed, keys
  <2> HIDE DEF again, output, options
  <2>6. List(again) = step.options
    BY <1>6, <2>2 DEF options
  <2> QED BY <2>3, <2>4, <2>5, <2>6
<1>12. StepFits(Map(d))
  <2> DEFINE output == Section(d, "output")
             schema == Section(output, "schema")
  <2>1. Kind(Map(d)) = "map" /\ Map(d).map = d
    BY KindOfMap
  <2>2. Fits(output, OutputKinds) /\ AllStrings({schema[f] : f \in DOMAIN schema})
    <3>1. CASE step.output = Null
      <4>1. output = Empty
        BY <1>2, <1>5, <3>1 DEF Section, Get
      <4> HIDE DEF output
      <4>2. schema = Empty
        BY <4>1 DEF Section, Get, Empty
      <4> QED BY <4>1, <4>2 DEF Fits, AllStrings, Empty
    <3>2. CASE step.output # Null
      <4>1. output = step.output.map
        BY <1>2, <1>3, <1>5, <3>2 DEF Section, Get
      <4>2. Typed(output, OutputDefault, OutputKinds)
            /\ AllStrings({output.schema.map[f] : f \in DOMAIN output.schema.map})
        BY <3>2, <4>1 DEF IsStep, IsOutput
      <4> HIDE DEF output
      <4>3. DOMAIN output = DOMAIN OutputDefault
        BY <4>2 DEF Typed
      <4>4. Fits(output, OutputKinds)
        BY <4>2, <4>3, DefaultKinds, TypedFits
      <4>5. output.schema # Null /\ "schema" \in DOMAIN output
        <5>1. /\ "schema" \in DOMAIN OutputDefault /\ OutputKinds["schema"] \subseteq {"map", "null"}
              /\ OutputDefault["schema"] = Map(Empty)
          BY DEF OutputDefault, OutputKinds, Nested
        <5> QED BY <4>2, <4>3, <5>1, KindOfMap, KindOfNull DEF Typed
      <4>6. schema = output.schema.map
        BY <4>5 DEF Section, Get
      <4> QED BY <4>2, <4>4, <4>6
    <3> QED BY <3>1, <3>2
  <2>3. AllStrings(ToSet(Items(d, "depends_on")))
    <3>1. Items(d, "depends_on") = step.depends_on.list
      BY <1>2, <1>4, <1>6, KindOfNull DEF Items, Get
    <3> QED BY <3>1 DEF IsStep
  <2>4. \A option \in ToSet(Items(d, "options")) : OptionFits(option)
    <3>1. Items(d, "options") = <<>> \/ Items(d, "options") = step.options.list
      BY <1>2 DEF Items, Get
    <3>2. ASSUME NEW option, IsOption(option) PROVE OptionFits(option)
      <4>1. DOMAIN option.map = DOMAIN OptionDefault
        BY <3>2 DEF IsOption, Typed
      <4> QED BY <3>2, <4>1, DefaultKinds, TypedFits DEF IsOption, OptionFits
    <3>3. ToSet(<<>>) = {}
      BY DEF ToSet
    <3> QED BY <3>1, <3>2, <3>3 DEF IsStep
  <2> HIDE DEF output, schema
  <2> QED BY <1>8, <2>1, <2>2, <2>3, <2>4 DEF StepFits, output, schema
<1> QED BY <1>11, <1>12 DEF d

(* What dump_flow() writes of a flow, parse() takes, and it makes the same *)
(* flow of it: no field is lost, and none that was left out comes back as  *)
(* another value, whatever values the flow has.                            *)
THEOREM DumpIsParsed ==
  ASSUME NEW f, IsParsed(f)
  PROVE  Parses(Dump(f)) /\ Parse(Dump(f)) = f
<1> DEFINE doc == Dump(f)
           steps == [i \in DOMAIN f.steps |-> Map(DumpStep(f.steps[i]))]
<1>1. /\ DOMAIN doc = {"name", "version", "description", "defaults", "memory", "secrets", "steps"}
      /\ doc.name = f.head.name /\ doc.version = f.head.version
      /\ doc.description = f.head.description /\ doc.defaults = Map(f.defaults)
      /\ doc.memory = Map(f.memory) /\ doc.secrets = Map(f.secrets) /\ doc.steps = List(steps)
  BY DEF Dump
<1> HIDE DEF doc, steps
<1>2. /\ Section(doc, "defaults") = f.defaults /\ Section(doc, "memory") = f.memory
      /\ Section(doc, "secrets") = f.secrets /\ Items(doc, "steps") = steps
  BY <1>1, KindOfMap, KindOfList, KindOfNull DEF Section, Items, Get
<1>3. /\ Typed(f.head, HeadDefault, RootKinds)
      /\ Typed(f.defaults, DefaultsDefault, DefaultsKinds)
      /\ Typed(f.memory, MemoryDefault, MemoryKinds)
      /\ Typed(f.secrets, SecretsDefault, SecretsKinds)
      /\ f.steps \in Seq(ToSet(f.steps)) /\ \A step \in ToSet(f.steps) : IsStep(step)
  BY DEF IsParsed
<1>4. /\ DOMAIN f.defaults = DOMAIN DefaultsDefault /\ DOMAIN f.memory = DOMAIN MemoryDefault
      /\ DOMAIN f.secrets = DOMAIN SecretsDefault
  BY <1>3 DEF Typed
<1>5. \A i \in DOMAIN f.steps : IsStep(f.steps[i])
  BY <1>3 DEF ToSet
<1>6. Fits(doc, RootKinds)
  <2>1. \A key \in {"name", "version", "description"} :
          Kind(doc[key]) \in RootKinds[key] /\ key \in DOMAIN RootKinds
    <3>1. \A key \in DOMAIN HeadDefault :
            key \in DOMAIN RootKinds /\ Kind(HeadDefault[key]) \in RootKinds[key]
      BY KindOfNoText, KindOfNum DEF HeadDefault, RootKinds, Text, Whole
    <3>2. \A key \in DOMAIN HeadDefault : Kind(f.head[key]) \in RootKinds[key]
      BY <1>3, <3>1 DEF Typed
    <3>3. DOMAIN HeadDefault = {"name", "version", "description"}
      BY DEF HeadDefault
    <3> QED BY <1>1, <3>1, <3>2, <3>3
  <2>2. \A key \in {"defaults", "memory", "secrets", "steps"} :
          Kind(doc[key]) \in RootKinds[key] /\ key \in DOMAIN RootKinds
    BY <1>1, KindOfMap, KindOfList DEF RootKinds, Nested, Several
  <2> QED BY <1>1, <2>1, <2>2 DEF Fits
<1>7. /\ Fits(f.defaults, DefaultsKinds) /\ Fits(f.memory, MemoryKinds)
      /\ Fits(f.secrets, SecretsKinds)
  BY <1>3, <1>4, DefaultKinds, TypedFits
<1>8. Items(f.secrets, "required") = f.secrets.required.list
  <2>1. /\ "required" \in DOMAIN SecretsDefault
        /\ SecretsDefault["required"] = List(<<>>)
    BY DEF SecretsDefault
  <2>2. f.secrets.required # Null
    BY <1>3, <2>1, KindOfList, KindOfNull DEF Typed
  <2> QED BY <1>4, <2>1, <2>2 DEF Items, Get
<1>9. \A step \in ToSet(steps) : StepFits(step)
  BY <1>5, DumpedStep DEF ToSet, steps
<1>10. Parses(doc)
  BY <1>2, <1>6, <1>7, <1>8, <1>9 DEF Parses, IsParsed
<1>11. [i \in DOMAIN steps |-> ParseStep(steps[i].map)] = f.steps
  <2>1. \A i \in DOMAIN f.steps : ParseStep(steps[i].map) = f.steps[i]
    BY <1>5, DumpedStep, KindOfMap DEF steps
  <2>2. DOMAIN steps = DOMAIN f.steps
    BY DEF steps
  <2>3. f.steps = [i \in DOMAIN f.steps |-> f.steps[i]]
    BY <1>3
  <2> QED BY <2>1, <2>2, <2>3
<1>12. /\ Filled(doc, HeadDefault) = f.head
       /\ Filled(f.defaults, DefaultsDefault) = f.defaults
       /\ Filled(f.memory, MemoryDefault) = f.memory
       /\ Filled(f.secrets, SecretsDefault) = f.secrets
  <2>1. \A key \in DOMAIN HeadDefault : key \in DOMAIN doc /\ doc[key] = f.head[key]
    BY <1>1 DEF HeadDefault
  <2> QED BY <1>3, <1>4, <2>1, FilledAgain
<1>13. Parse(doc) = f
  BY <1>2, <1>11, <1>12 DEF Parse, IsParsed
<1> QED BY <1>10, <1>13 DEF doc

-----------------------------------------------------------------------------
(* What is valid.                                                          *)

\* A field that is a number has no other kind.
LEMMA NumbersAreWhole ==
  ASSUME NEW v, IsVal(v), Kind(v) = "int"
  PROVE  DOMAIN v = {"int"}
<1>1. \A n : DOMAIN Num(n) = {"int"}
  BY DEF Num
<1>2. v = Num(v.int)
  BY ValueOf
<1> QED BY <1>1, <1>2, Zenon

\* The defaults of a flow are numbers.
LEMMA DefaultsAreWhole ==
  ASSUME NEW f, IsParsed(f), NEW key \in {"timeout", "retry", "max_visits"}
  PROVE  IsVal(f.defaults[key]) /\ Kind(f.defaults[key]) = "int"
<1>1. /\ key \in DOMAIN DefaultsDefault /\ DefaultsKinds[key] \subseteq {"int", "null"}
      /\ \E n \in Int : DefaultsDefault[key] = Num(n)
  BY DEF DefaultsDefault, DefaultsKinds, Whole
<1>2. IsVal(DefaultsDefault[key]) /\ Kind(DefaultsDefault[key]) = "int"
  BY <1>1, KindOfNum DEF IsVal
<1> QED BY <1>1, <1>2, FieldKind DEF IsParsed

\* The ids of a valid flow differ, and depend on each other.
LEMMA GraphIsFlow ==
  ASSUME NEW f, IsParsed(f), ValidFields(f), ValidGraph(GraphOf(f))
  PROVE  IsFlow(GraphOf(f)) /\ Depends(GraphOf(f), ToSet(StepIds(f)))
<1> DEFINE ids == StepIds(f)
           g == GraphOf(f)
<1>1. DOMAIN ids = 1 .. Len(f.steps) /\ Len(f.steps) \in Nat
  BY DEF StepIds, IsParsed
<1>2. ids = [i \in 1 .. Len(f.steps) |-> ids[i]]
  BY <1>1 DEF StepIds
<1>3. IsInjective(ids)
  BY DEF ValidFields
<1>4. g.ids = ids /\ DOMAIN g.deps = ToSet(ids)
  BY DEF GraphOf
<1>5. \A s \in Ids(g) : g.deps[s] \subseteq Ids(g)
  BY DEF ValidGraph, UnknownDeps
<1>6. g.deps = [s \in DOMAIN g.deps |-> g.deps[s]]
  BY DEF GraphOf
<1> HIDE DEF ids, g
<1>7. ids \in Seq(ToSet(ids))
  <2>1. \A i \in 1 .. Len(f.steps) : ids[i] \in ToSet(ids)
    BY <1>1 DEF ToSet
  <2> QED BY <1>1, <1>2, <2>1
<1>8. Lists(ids, ToSet(ids))
  BY <1>3, <1>7 DEF Lists, IsInjective
<1>9. IsFiniteSet(ToSet(ids))
  BY <1>8, ListsCount
<1>10. IsFlow(g) /\ Depends(g, ToSet(ids))
  BY <1>4, <1>5, <1>6, <1>8, <1>9 DEF IsFlow, Depends, Ids
<1> QED BY <1>10 DEF ids, g

(* What validate() passes, the runner can run: every budget that it takes  *)
(* from a step or from the defaults is a number that allows a visit, a     *)
(* second and a try, whatever kind of value stood for it in the document;  *)
(* a gate has options that go to steps of the flow, and the graph is as    *)
(* GraphAssumption has it.                                                 *)
THEOREM ValidIsRunnable ==
  ASSUME NEW f, IsParsed(f), ValidFields(f), ValidGraph(GraphOf(f))
  PROVE  FieldsAreRunnable(f) /\ GraphIsRunnable(GraphOf(f))
<1>1. GraphIsRunnable(GraphOf(f))
  BY GraphIsFlow, ValidFlowsAreRunnable
<1> DEFINE ids == ToSet(StepIds(f))
           IsWhole(v, n) == DOMAIN v = {"int"} /\ v.int >= n
<1>2. /\ IsWhole(f.defaults.max_visits, 1) /\ IsWhole(f.defaults.timeout, 1)
      /\ IsWhole(f.defaults.retry, 0)
  <2>1. /\ f.defaults.timeout.int > 0 /\ f.defaults.retry.int >= 0
        /\ f.defaults.max_visits.int > 0
    BY DEF ValidFields
  <2>2. ASSUME NEW key \in {"timeout", "retry", "max_visits"}
        PROVE  DOMAIN f.defaults[key] = {"int"} /\ f.defaults[key].int \in Int
    <3>1. IsVal(f.defaults[key]) /\ Kind(f.defaults[key]) = "int"
      BY DefaultsAreWhole
    <3> QED BY <3>1, NumbersAreWhole, ValueOf
  <2> QED BY <2>1, <2>2
<1> SUFFICES ASSUME NEW step \in ToSet(f.steps)
             PROVE  /\ IsWhole(MaxVisitsOf(step, f), 1) /\ IsWhole(TimeoutOf(step, f), 1)
                    /\ IsWhole(RetryOf(step, f), 0)
                    /\ step.type = Str("human_gate") =>
                         /\ step.options # List(<<>>)
                         /\ \A option \in ToSet(step.options.list) :
                              option.map.action = Str("goto_step") => option.map.target.str \in ids
  BY <1>1 DEF FieldsAreRunnable
<1>3. Typed(step, StepDefault, StepKinds) /\ ValidStep(step, ids)
  BY DEF IsParsed, IsStep, ValidFields, ToSet
<1>4. \A key \in {"timeout", "retry", "max_visits"} : step[key] = Null \/ IsVal(step[key])
  <2>1. \A key \in {"timeout", "retry", "max_visits"} :
          key \in DOMAIN StepDefault /\ StepDefault[key] = Null
    BY DEF StepDefault
  <2> QED BY <1>3, <2>1 DEF Typed
<1>5. /\ step.max_visits = Null \/ IsWhole(step.max_visits, 1)
      /\ step.timeout = Null \/ IsWhole(step.timeout, 1)
      /\ step.retry = Null \/ IsWhole(step.retry, 0)
  BY <1>3, <1>4, NumbersAreWhole DEF ValidStep, AtLeast
<1>6. ~Truthy(Null)
  BY DEF Truthy
<1>7. /\ IsWhole(MaxVisitsOf(step, f), 1) /\ IsWhole(TimeoutOf(step, f), 1)
      /\ IsWhole(RetryOf(step, f), 0)
  BY <1>2, <1>5, <1>6 DEF MaxVisitsOf, TimeoutOf, RetryOf, OrDefault
<1>8. ASSUME step.type = Str("human_gate")
      PROVE  /\ step.options # List(<<>>)
             /\ \A option \in ToSet(step.options.list) :
                  option.map.action = Str("goto_step") => option.map.target.str \in ids
  <2>1. step.type.str = "human_gate"
    BY <1>8, KindOfStr
  <2>2. ValidOptions(step.options.list, ids)
    BY <1>3, <2>1 DEF ValidStep
  <2>3. step.options # List(<<>>)
    BY <2>2, KindOfList DEF ValidOptions
  <2>4. ASSUME NEW option \in ToSet(step.options.list), option.map.action = Str("goto_step")
        PROVE  option.map.target.str \in ids
    <3>1. PICK i \in DOMAIN step.options.list : step.options.list[i] = option
      BY DEF ToSet
    <3>2. option.map.action.str = "goto_step"
      BY <2>4, KindOfStr
    <3> QED BY <2>2, <3>1, <3>2 DEF ValidOptions
  <2> QED BY <2>3, <2>4
<1> QED BY <1>7, <1>8

-----------------------------------------------------------------------------
(* The documents that are written.                                         *)

\* A mapping of one key, and two of them together.
LEMMA MappingsJoin ==
  ASSUME NEW D
  PROVE  /\ IsMapping(Empty, D)
         /\ \A key : \A v \in D : IsMapping(At(key, v), D)
         /\ \A f, g : IsMapping(f, D) /\ IsMapping(g, D) => IsMapping(With(f, g), D)
<1>1. IsMapping(Empty, D)
  BY DEF IsMapping, Empty
<1>2. ASSUME NEW key, NEW v \in D
      PROVE  IsMapping(At(key, v), D)
  BY DEF IsMapping, At
<1>3. ASSUME NEW f, NEW g, IsMapping(f, D), IsMapping(g, D)
      PROVE  IsMapping(With(f, g), D)
  BY <1>3 DEF IsMapping, With
<1> QED BY <1>1, <1>2, <1>3

\* A mapping to some values is one to more of them.
LEMMA MappingsGrow ==
  ASSUME NEW D, NEW E, D \subseteq E, NEW m, IsMapping(m, D)
  PROVE  IsMapping(m, E)
BY DEF IsMapping

\* A mapping or a list of values is a value.
LEMMA MapIsVal ==
  ASSUME NEW D, NEW m, IsMapping(m, D)
  PROVE  IsVal(Map(m)) /\ Kind(Map(m)) = "map" /\ Map(m).map = m
BY KindOfMap DEF IsVal, IsMapping

\* A list of values is a value.
LEMMA ListIsVal ==
  ASSUME NEW D, NEW q \in Seq(D)
  PROVE  IsVal(List(q)) /\ Kind(List(q)) = "list" /\ List(q).list = q /\ ToSet(q) \subseteq D
<1>1. Kind(List(q)) = "list" /\ List(q).list = q
  BY KindOfList
<1>2. ToSet(q) \subseteq D
  BY DEF ToSet
<1>3. q \in Seq(ToSet(q))
  <2>1. \A i \in 1 .. Len(q) : q[i] \in ToSet(q)
    BY DEF ToSet
  <2> QED BY <2>1
<1> QED BY <1>1, <1>2, <1>3 DEF IsVal

\* Mappings and lists of data are data again.
LEMMA DataGrow ==
  ASSUME NEW D, IsData(D), NEW X,
         \A v \in X : \/ \E m : v = Map(m) /\ IsMapping(m, D)
                      \/ \E q \in Seq(D) : v = List(q)
  PROVE  IsData(D \cup X)
<1> SUFFICES ASSUME NEW v \in D \cup X
             PROVE  /\ IsVal(v)
                    /\ Kind(v) = "list" => ToSet(v.list) \subseteq D
                    /\ Kind(v) = "map" => \A key \in DOMAIN v.map : v.map[key] \in D
  BY Zenon DEF IsData
<1>1. CASE v \in D
  BY <1>1, Zenon DEF IsData
<1>2. ASSUME NEW m, v = Map(m), IsMapping(m, D)
      PROVE  /\ IsVal(v)
             /\ Kind(v) = "list" => ToSet(v.list) \subseteq D
             /\ Kind(v) = "map" => \A key \in DOMAIN v.map : v.map[key] \in D
  BY <1>2, MapIsVal DEF IsMapping
<1>3. ASSUME NEW q \in Seq(D), v = List(q)
      PROVE  /\ IsVal(v)
             /\ Kind(v) = "list" => ToSet(v.list) \subseteq D
             /\ Kind(v) = "map" => \A key \in DOMAIN v.map : v.map[key] \in D
  BY <1>3, ListIsVal
<1> QED BY <1>1, <1>2, <1>3

\* What a key of a document is given, or has from the start.
GivenTexts == {Str(s) : s \in {"flow", "a", "x", "g", "human_gate", "yes", "next_step", "no",
                               "json", "goto_step", "string"}}
GivenLeaves == {Null, Bool(TRUE), No, Num(0), Num(2), NoText} \cup GivenTexts
GivenLists == {List(<<>>), List(<<Str("a")>>)}
GivenMaps == {Map(Empty), Map([field |-> Str("string")])}
Given == GivenLeaves \cup (GivenLists \cup GivenMaps)

\* These are values, with all that is in them.
LEMMA GivenIsData == IsData(Given) /\ Values \subseteq Given
<1>1. IsData(GivenLeaves)
  <2> DEFINE yes == Bool(TRUE)
  <2>1. ASSUME NEW v \in {Null, Num(0), Num(2)} \cup GivenTexts
        PROVE  IsVal(v) /\ Kind(v) \notin {"list", "map"}
    BY KindOfNull, KindOfNum, KindOfStr DEF IsVal, GivenTexts
  <2>2. IsVal(yes) /\ Kind(yes) = "bool"
    <3>1. Kind(Bool(TRUE)) = "bool" /\ Bool(TRUE).bool = TRUE
      BY Zenon DEF Kind, Bool
    <3> QED BY <3>1, Zenon DEF IsVal
  <2> HIDE DEF yes
  <2>3. \A v \in {yes, No, NoText} : IsVal(v) /\ Kind(v) \notin {"list", "map"}
    BY <2>2, KindOfNo, KindOfNoText
  <2>4. \A v \in GivenLeaves : v \in {Null, Num(0), Num(2)} \cup GivenTexts \/ v \in {yes, No, NoText}
    BY Zenon DEF GivenLeaves, yes
  <2> QED BY <2>1, <2>3, <2>4 DEF IsData
<1>2. \A v \in GivenLists \cup GivenMaps : \/ \E m : v = Map(m) /\ IsMapping(m, GivenLeaves)
                                           \/ \E q \in Seq(GivenLeaves) : v = List(q)
  <2>1. Str("a") \in GivenLeaves /\ Str("string") \in GivenLeaves
    BY DEF GivenLeaves, GivenTexts
  <2>2. <<>> \in Seq(GivenLeaves) /\ <<Str("a")>> \in Seq(GivenLeaves)
    BY <2>1
  <2>3. IsMapping(Empty, GivenLeaves) /\ IsMapping([field |-> Str("string")], GivenLeaves)
    BY <2>1 DEF IsMapping, Empty
  <2> QED BY <2>2, <2>3 DEF GivenLists, GivenMaps
<1>3. IsData(Given)
  BY <1>1, <1>2, DataGrow DEF Given
<1>4. Values \subseteq Given
  BY DEF Values, Given, GivenLeaves, GivenTexts, GivenLists, GivenMaps
<1> QED BY <1>3, <1>4

\* The parts of the document are mappings to such values.
DocInv ==
    /\ parts = [part \in DOMAIN Parts |-> parts[part]]
    /\ \A part \in DOMAIN Parts : IsMapping(parts[part], Given)

\* They are at the start.
LEMMA InitDoc == Init => DocInv
<1> SUFFICES ASSUME Init PROVE DocInv
  OBVIOUS
<1>1. parts = Parts
  BY DEF Init
<1>2. \A s \in {"flow", "a", "x", "g", "human_gate", "yes", "next_step"} : Str(s) \in Given
  BY DEF Given, GivenLeaves, GivenTexts
<1>3. List(<<Str("a")>>) \in Given
  BY DEF Given, GivenLists
<1>4. IsMapping([name |-> Str("flow")], Given) /\ IsMapping(Empty, Given)
  BY <1>2 DEF IsMapping, Empty
<1>5. IsMapping([id |-> Str("a"), agent |-> Str("x")], Given)
  BY <1>2 DEF IsMapping
<1>6. IsMapping([id |-> Str("g"), type |-> Str("human_gate"), depends_on |-> List(<<Str("a")>>)],
                Given)
  BY <1>2, <1>3 DEF IsMapping
<1>7. IsMapping([label |-> Str("yes"), action |-> Str("next_step")], Given)
  BY <1>2 DEF IsMapping
<1> HIDE DEF Given
<1>8. \A part \in DOMAIN Parts : IsMapping(Parts[part], Given)
  BY <1>4, <1>5, <1>6, <1>7 DEF Parts
<1>9. Parts = [part \in DOMAIN Parts |-> Parts[part]]
  BY DEF Parts
<1> QED BY <1>1, <1>8, <1>9 DEF DocInv

\* And stay so.
LEMMA NextDoc == DocInv /\ [Next]_vars => DocInv'
<1> SUFFICES ASSUME DocInv, [Next]_vars PROVE DocInv'
  OBVIOUS
<1>1. ASSUME NEW part \in DOMAIN Parts, NEW key, NEW value \in Values, GiveKey(part, key, value)
      PROVE  DocInv'
  <2> DEFINE m == With(At(key, value), parts[part])
  <2>1. IsMapping(m, Given)
    BY GivenIsData, MappingsJoin DEF DocInv
  <2>2. parts' = [parts EXCEPT ![part] = m]
    BY <1>1 DEF GiveKey
  <2> HIDE DEF m
  <2> QED BY <2>1, <2>2 DEF DocInv
<1>2. CASE parts' = parts
  BY <1>2 DEF DocInv
<1>3. \/ \E part \in DOMAIN Parts : \E key \in DOMAIN Keys[part] \cup {"other"}, value \in Values :
           GiveKey(part, key, value)
      \/ parts' = parts
  BY DEF Next, AddStep, AddMemory, vars
<1> QED BY <1>1, <1>2, <1>3

\* They are mappings in every state.
LEMMA DocAlways == Spec => []DocInv
BY InitDoc, NextDoc, PTL DEF Spec

\* The document that the parts make up is one.
LEMMA DocIsData ==
  ASSUME DocInv
  PROVE  \E D : IsData(D) /\ IsMapping(Doc, D)
<1> DEFINE Written(part) == IF parts[part] = Empty THEN Empty ELSE At(part, Map(parts[part]))
           yes == Map(parts.option)
           no == Map([label |-> Str("no"), action |-> Str("goto_step"), target |-> Str("a")])
           options == List(<<yes, no>>)
           agent == With(parts.agent, Written("output"))
           gate == With(parts.gate, [options |-> options])
           rest == With(Written("memory"), Written("secrets"))
           list == List(<<Map(agent), Map(gate)>>)
           steps == [steps |-> list]
           D1 == Given \cup ({Map(parts[part]) : part \in DOMAIN Parts} \cup {no})
           D2 == D1 \cup {options}
           D3 == D2 \cup {Map(agent), Map(gate)}
           D4 == D3 \cup {list}
<1>1. Doc = With(parts.root, With(Written("defaults"), With(rest, steps)))
  BY Zenon DEF Doc
<1>2. DOMAIN Parts = {"root", "defaults", "memory", "secrets", "output", "agent", "gate", "option"}
  BY DEF Parts
<1>3. IsData(D1) /\ no \in D1 /\ \A part \in DOMAIN Parts : Map(parts[part]) \in D1
  <2>1. IsMapping([label |-> Str("no"), action |-> Str("goto_step"), target |-> Str("a")], Given)
    <3>1. Str("no") \in Given /\ Str("goto_step") \in Given /\ Str("a") \in Given
      BY DEF Given, GivenLeaves, GivenTexts
    <3> QED BY <3>1 DEF IsMapping
  <2>2. \A v \in {Map(parts[part]) : part \in DOMAIN Parts} \cup {no} :
          \E m : v = Map(m) /\ IsMapping(m, Given)
    BY <2>1 DEF DocInv
  <2>3. IsData(D1)
    BY <2>2, GivenIsData, DataGrow
  <2> QED BY <2>3
<1> HIDE DEF D1, no, Written
<1>4. IsData(D2) /\ options \in D2
  <2>1. yes \in D1
    BY <1>2, <1>3
  <2> HIDE DEF yes
  <2>2. <<yes, no>> \in Seq(D1)
    BY <1>3, <2>1
  <2>3. IsData(D2)
    BY <1>3, <2>2, DataGrow
  <2> QED BY <2>3
<1>5. Given \subseteq D1 /\ D1 \subseteq D2
  BY DEF D1
<1> HIDE DEF D2, options
<1>6. ASSUME NEW part \in DOMAIN Parts
      PROVE  IsMapping(parts[part], D2) /\ IsMapping(Written(part), D2)
  <2>1. IsMapping(parts[part], Given)
    BY DEF DocInv
  <2>2. IsMapping(parts[part], D2)
    BY <1>5, <2>1 DEF IsMapping
  <2>3. Map(parts[part]) \in D2
    BY <1>3, <1>5
  <2> QED BY <2>2, <2>3, MappingsJoin DEF Written
<1>7. IsMapping(agent, D2)
  BY <1>2, <1>6, MappingsJoin
<1>8. IsMapping(gate, D2)
  <2>1. IsMapping([options |-> options], D2)
    BY <1>4 DEF IsMapping
  <2> QED BY <1>2, <1>6, <2>1, MappingsJoin
<1> HIDE DEF agent, gate
<1>9. IsData(D3) /\ Map(agent) \in D3 /\ Map(gate) \in D3
  BY <1>4, <1>7, <1>8, DataGrow
<1>10. D2 \subseteq D3 /\ D3 \subseteq D4 /\ list \in D4
  OBVIOUS
<1> HIDE DEF D3
<1>11. IsData(D4)
  <2>1. <<Map(agent), Map(gate)>> \in Seq(D3)
    BY <1>9
  <2> QED BY <1>9, <2>1, DataGrow
<1> HIDE DEF D4, list
<1>12. ASSUME NEW part \in DOMAIN Parts
       PROVE  IsMapping(parts[part], D4) /\ IsMapping(Written(part), D4)
  BY <1>6, <1>10 DEF IsMapping
<1>13. IsMapping(steps, D4)
  BY <1>10 DEF IsMapping
<1>14. IsMapping(rest, D4)
  BY <1>2, <1>12, MappingsJoin
<1> HIDE DEF steps, rest
<1>15. IsMapping(Doc, D4)
  BY <1>1, <1>2, <1>12, <1>13, <1>14, MappingsJoin
<1> QED BY <1>11, <1>15

(* What validate() passes, the runner can run: the graphs of any size, and *)
(* the documents with any keys given any of the values.                    *)
THEOREM ValidAlwaysRunnable == Spec => []ValidFlowIsRunnable
<1>1. FlowInv => (ValidGraph(built) => GraphIsRunnable(built))
  BY BuiltIsFlow, ValidFlowsAreRunnable
<1>2. ASSUME DocInv, Parses(Doc)
      PROVE  LET f == Parse(Doc)
             IN  ValidFields(f) /\ ValidGraph(GraphOf(f)) =>
                   FieldsAreRunnable(f) /\ GraphIsRunnable(GraphOf(f))
  <2>1. PICK D : IsData(D) /\ IsMapping(Doc, D)
    BY <1>2, DocIsData
  <2>2. IsParsed(Parse(Doc))
    BY <1>2, <2>1, ParseTyped
  <2> QED BY <2>2, ValidIsRunnable
<1>3. FlowInv /\ DocInv => ValidFlowIsRunnable
  BY <1>1, <1>2, Zenon DEF ValidFlowIsRunnable
<1> QED BY <1>3, FlowAlways, DocAlways, PTL

-----------------------------------------------------------------------------
(* The flow that is resumed.                                               *)

\* A flow differs from one that has another workspace in that alone.
LEMMA OtherWorkspace ==
  ASSUME NEW f, IsParsed(f), NEW w
  PROVE  /\ [f EXCEPT !.memory.workspace = w]
              = [head |-> f.head, defaults |-> f.defaults, memory |-> [workspace |-> w],
                 secrets |-> f.secrets, steps |-> f.steps]
         /\ f.memory = [workspace |-> f.memory.workspace]
         /\ w = f.memory.workspace => [f EXCEPT !.memory.workspace = w] = f
<1> DEFINE memory == f.memory
           g == [f EXCEPT !.memory.workspace = w]
<1>1. f = [head |-> f.head, defaults |-> f.defaults, memory |-> f.memory,
           secrets |-> f.secrets, steps |-> f.steps]
  BY DEF IsParsed
<1>2. memory = [workspace |-> memory.workspace]
  BY DEF IsParsed, Typed, MemoryDefault
<1>3. [memory EXCEPT !.workspace = w] = [workspace |-> w]
  <2> HIDE DEF memory
  <2> QED BY <1>2
<1>4. g = [f EXCEPT !.memory = [memory EXCEPT !.workspace = w]]
  OBVIOUS
<1> HIDE DEF memory, g
<1>5. g = [f EXCEPT !.memory = [workspace |-> w]]
  BY <1>3, <1>4
<1>6. g = [head |-> f.head, defaults |-> f.defaults, memory |-> [workspace |-> w],
           secrets |-> f.secrets, steps |-> f.steps]
  BY <1>1, <1>5
<1>7. w = f.memory.workspace => g = f
  BY <1>1, <1>2, <1>6 DEF memory
<1> QED BY <1>2, <1>6, <1>7 DEF memory, g

\* With its own workspace again it is as it was.
LEMMA OtherAndBack ==
  ASSUME NEW f, IsParsed(f), NEW w, NEW g, g = [f EXCEPT !.memory.workspace = w], IsParsed(g)
  PROVE  f = [g EXCEPT !.memory.workspace = f.memory.workspace]
<1> DEFINE x == f.memory.workspace
           h == [g EXCEPT !.memory.workspace = x]
<1>1. g = [head |-> f.head, defaults |-> f.defaults, memory |-> [workspace |-> w],
           secrets |-> f.secrets, steps |-> f.steps]
  BY OtherWorkspace
<1>2. h = [head |-> g.head, defaults |-> g.defaults, memory |-> [workspace |-> x],
           secrets |-> g.secrets, steps |-> g.steps]
  <2> HIDE DEF x
  <2> QED BY OtherWorkspace, Zenon
<1>3. f.memory = [workspace |-> x]
  BY OtherWorkspace
<1>4. f = [head |-> f.head, defaults |-> f.defaults, memory |-> f.memory,
           secrets |-> f.secrets, steps |-> f.steps]
  BY DEF IsParsed
<1> HIDE DEF x, h
<1>5. h = f
  BY <1>1, <1>2, <1>3, <1>4
<1> QED BY <1>5 DEF h, x

\* The workspace can be any text.
LEMMA OtherIsParsed ==
  ASSUME NEW f, IsParsed(f), NEW w, IsVal(w), Kind(w) = "str"
  PROVE  IsParsed([f EXCEPT !.memory.workspace = w])
<1> DEFINE g == [f EXCEPT !.memory.workspace = w]
<1>1. g = [head |-> f.head, defaults |-> f.defaults, memory |-> [workspace |-> w],
           secrets |-> f.secrets, steps |-> f.steps]
  BY OtherWorkspace
<1> HIDE DEF g
<1>2. Typed([workspace |-> w], MemoryDefault, MemoryKinds)
  BY KindOfNull DEF Typed, MemoryDefault, MemoryKinds, Text
<1> QED BY <1>1, <1>2 DEF IsParsed, g

\* And validate() passes it, if it is not empty.
LEMMA OtherIsValid ==
  ASSUME NEW f, IsParsed(f), NEW w, w # NoText, ValidFields(f)
  PROVE  ValidFields([f EXCEPT !.memory.workspace = w])
<1> DEFINE g == [f EXCEPT !.memory.workspace = w]
<1>1. g = [head |-> f.head, defaults |-> f.defaults, memory |-> [workspace |-> w],
           secrets |-> f.secrets, steps |-> f.steps]
  BY OtherWorkspace
<1> HIDE DEF g
<1>2. /\ g.head = f.head /\ g.defaults = f.defaults /\ g.memory.workspace = w
      /\ g.secrets = f.secrets /\ g.steps = f.steps
  BY <1>1
<1>3. StepIds(g) = StepIds(f)
  BY <1>2 DEF StepIds
<1>4. ValidFields(g)
  BY <1>2, <1>3 DEF ValidFields
<1> QED BY <1>4 DEF g

\* The workspace of a valid flow is a text that counts as given.
LEMMA WorkspaceIsGiven ==
  ASSUME NEW f, IsParsed(f), ValidFields(f)
  PROVE  Truthy(f.memory.workspace)
<1> DEFINE w == f.memory.workspace
<1>1. IsVal(w) /\ Kind(w) = "str"
  <2>1. /\ "workspace" \in DOMAIN MemoryDefault
        /\ MemoryKinds["workspace"] \subseteq {"str", "null"}
        /\ MemoryDefault["workspace"] = Str("default")
    BY DEF MemoryDefault, MemoryKinds, Text
  <2>2. IsVal(MemoryDefault["workspace"]) /\ Kind(MemoryDefault["workspace"]) = "str"
    BY <2>1, KindOfStr DEF IsVal
  <2> QED BY <2>1, <2>2, FieldKind DEF IsParsed
<1>2. w # NoText
  BY DEF ValidFields
<1> HIDE DEF w
<1>3. w \notin {Null, Num(0), No, List(<<>>)}
  BY <1>1, KindOfNull, KindOfNum, KindOfNo, KindOfList
<1>4. Truthy(w)
  BY <1>2, <1>3 DEF Truthy
<1> QED BY <1>4 DEF w

\* A resume takes the workspace from the context, and the rest from the snapshot.
LEMMA ResumedIs ==
  ASSUME NEW f, IsParsed(f), ValidFields(f), NEW snapshot,
         Parse(snapshot) = f \/ \E w : f = [Parse(snapshot) EXCEPT !.memory.workspace = w],
         IsParsed(Parse(snapshot))
  PROVE  Resumed(snapshot, f.memory.workspace) = f
<1> DEFINE p == Parse(snapshot)
           x == f.memory.workspace
<1>1. Resumed(snapshot, x) = [p EXCEPT !.memory.workspace = x]
  BY WorkspaceIsGiven DEF Resumed
<1>2. CASE p = f
  BY <1>1, <1>2, OtherWorkspace
<1>3. ASSUME NEW w, f = [p EXCEPT !.memory.workspace = w]
      PROVE  Resumed(snapshot, x) = f
  <2> HIDE DEF p
  <2>1. IsParsed(p)
    BY DEF p
  <2>2. f = [head |-> p.head, defaults |-> p.defaults, memory |-> [workspace |-> w],
             secrets |-> p.secrets, steps |-> p.steps]
    BY <1>3, <2>1, OtherWorkspace
  <2>3. x = w
    BY <2>2
  <2> QED BY <1>1, <1>3, <2>3
<1> QED BY <1>2, <1>3

(* Of every document that parses and every workspace of the command line:  *)
(* if the flow that is run passes validation, what is stored of it parses  *)
(* and passes again, and a resume makes of it the flow that was run, be it *)
(* the text or what dump_flow() writes; it accepts that flow too.          *)
THEOREM ResumedIsSame ==
  ASSUME NEW D, IsData(D), NEW doc, IsMapping(doc, D), Parses(doc), NEW workspace,
         NEW f, f = ApplyFlowDefaults(doc, Parse(doc), workspace), ValidFields(f),
         NEW snapshot \in {doc, Dump(f)}
  PROVE  /\ Parses(snapshot) /\ ValidFields(Parse(snapshot))
         /\ Resumed(snapshot, f.memory.workspace) = f
         /\ AcceptsFlow(f, snapshot, f.memory.workspace)
<1> DEFINE p == Parse(doc)
<1>1. IsParsed(p)
  BY ParseTyped
<1>2. \/ f = p
      \/ /\ f = [p EXCEPT !.memory.workspace = Str(workspace)]
         /\ "workspace" \notin DOMAIN Section(doc, "memory")
  BY DEF ApplyFlowDefaults
<1> HIDE DEF p
<1>3. IsParsed(f)
  <2> DEFINE w == Str(workspace)
  <2>1. IsVal(w) /\ Kind(w) = "str"
    BY KindOfStr DEF IsVal
  <2> HIDE DEF w
  <2>2. IsParsed([p EXCEPT !.memory.workspace = w])
    BY <1>1, <2>1, OtherIsParsed
  <2> QED BY <1>1, <1>2, <2>2 DEF w
<1>4. ValidFields(p)
  <2>1. CASE f = p
    BY <2>1
  <2>2. CASE /\ f = [p EXCEPT !.memory.workspace = Str(workspace)]
             /\ "workspace" \notin DOMAIN Section(doc, "memory")
    <3>1. p.memory.workspace = Str("default")
      BY <2>2 DEF p, Parse, Filled, Get, MemoryDefault
    <3>2. Str("default") # NoText
      <4>1. "default" # ""
        BY Zenon
      <4>2. Str("default").str = "default" /\ NoText.str = ""
        BY KindOfStr, Zenon DEF NoText
      <4> QED BY <4>1, <4>2, Zenon
    <3>3. p = [f EXCEPT !.memory.workspace = p.memory.workspace]
      BY <1>1, <1>3, <2>2, OtherAndBack
    <3> QED BY <1>3, <3>1, <3>2, <3>3, OtherIsValid
  <2> QED BY <1>2, <2>1, <2>2
<1>5. /\ Parses(snapshot) /\ ValidFields(Parse(snapshot))
      /\ Resumed(snapshot, f.memory.workspace) = f
  <2>1. CASE snapshot = doc
    <3>1. Parse(snapshot) = p
      BY <2>1 DEF p
    <3> QED BY <1>1, <1>2, <1>3, <1>4, <2>1, <3>1, ResumedIs
  <2>2. CASE snapshot = Dump(f)
    <3>1. Parses(snapshot) /\ Parse(snapshot) = f
      BY <1>3, <2>2, DumpIsParsed
    <3> QED BY <1>3, <3>1, ResumedIs
  <2> QED BY <2>1, <2>2
<1> QED BY <1>5 DEF AcceptsFlow

(* A resume runs the flow that was run, of every document written with any *)
(* number of keys given any of the values.                                 *)
THEOREM ResumeAlwaysSame == Spec => []ResumeRunsSameFlow
<1>1. ASSUME DocInv PROVE ResumeRunsSameFlow
  <2>1. PICK D : IsData(D) /\ IsMapping(Doc, D)
    BY <1>1, DocIsData
  <2>2. ASSUME Parses(Doc), NEW workspace,
               NEW f, f = ApplyFlowDefaults(Doc, Parse(Doc), workspace), ValidFields(f),
               NEW snapshot \in {Doc, Dump(f)}
        PROVE  /\ Parses(snapshot) /\ ValidFields(Parse(snapshot))
               /\ Resumed(snapshot, f.memory.workspace) = f
               /\ AcceptsFlow(f, snapshot, f.memory.workspace)
    BY <2>1, <2>2, ResumedIsSame
  <2> QED BY <2>2, Zenon DEF ResumeRunsSameFlow
<1> QED BY <1>1, DocAlways, PTL
=============================================================================
