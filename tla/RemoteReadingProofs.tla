------------------------- MODULE RemoteReadingProofs -------------------------
(***************************************************************************)
(* Proofs about reads of a remote client, for every content of every       *)
(* version, every limit and budget, and every change from outside.         *)
(*                                                                         *)
(* First the loops of Paging: a loop over the prefixes of a list exists    *)
(* and is unique, so a sum, a listing and the batches of git commands are  *)
(* what they should be.  Then one lemma per tool says what its page is:    *)
(* the next rows of what the version has, and at a silent end all of them  *)
(* (Follows).  ReadInv says where a read is and what it has received; one  *)
(* lemma per tool shows that a page keeps it.                              *)
(***************************************************************************)
EXTENDS RemoteReading, TLAPS, FiniteSetTheorems, SequenceTheorems

-----------------------------------------------------------------------------
(* Recursion over the prefixes of a sequence. *)

\* A set of naturals that has a member has a least one.
LEMMA LeastNumber ==
  ASSUME NEW T \in SUBSET Nat, T # {}
  PROVE  \E n \in T : \A m \in T : n <= m
<1>1. PICK n \in T : \A m \in T : ~ (<<m, n>> \in OpToRel(<, Nat))
  BY NatLessThanWellFounded, WFMin
<1>2. \A m \in T : ~ (m < n)
  BY <1>1 DEF OpToRel
<1> QED
  BY <1>2

\* What a loop has after each of N turns, from what it has before the first.
Loop(f, V, start, Turn, N) ==
  /\ f \in [0..N -> V] /\ f[0] = start
  /\ \A n \in 1..N : f[n] = Turn[n][f[n - 1]]

\* A loop whose turns never leave V can take any number of them.
LEMMA LoopExists ==
  ASSUME NEW V, NEW start \in V, NEW Turn \in [Nat -> [V -> V]], NEW N \in Nat
  PROVE  \E f : Loop(f, V, start, Turn, N)
<1> DEFINE T == {n \in Nat : ~ \E f : Loop(f, V, start, Turn, n)}
<1>1. SUFFICES ASSUME T # {} PROVE FALSE
  <2>1. N \notin T
    BY <1>1
  <2> QED BY <2>1
<1>2. PICK n \in T : \A m \in T : n <= m
  <2>1. T \in SUBSET Nat
    OBVIOUS
  <2> HIDE DEF T
  <2> QED BY <1>1, <2>1, LeastNumber
<1>3. CASE n = 0
  <2>1. Loop([k \in 0..0 |-> start], V, start, Turn, 0)
    BY DEF Loop
  <2> QED BY <1>2, <1>3, <2>1
<1>4. CASE n # 0
  <2>1. n - 1 \in Nat /\ n - 1 \notin T
    BY <1>2, <1>4
  <2>2. PICK f : Loop(f, V, start, Turn, n - 1)
    BY <2>1
  <2> DEFINE last == Turn[n][f[n - 1]]
             g == [k \in 0..n |-> IF k = n THEN last ELSE f[k]]
  <2>3. n \in Nat /\ f[n - 1] \in V
    BY <2>1, <2>2, <1>2 DEF Loop
  <2>4. last \in V
    BY <2>3
  <2>5. g \in [0..n -> V] /\ g[0] = start
    BY <2>2, <2>3, <2>4, <1>4 DEF Loop
  <2>6. ASSUME NEW k \in 1..n PROVE g[k] = Turn[k][g[k - 1]]
    <3>1. CASE k = n
      BY <3>1, <2>3, <1>4
    <3>2. CASE k # n
      <4>1. k \in 1..n - 1
        BY <3>2, <2>3
      <4>2. g[k] = f[k] /\ g[k - 1] = f[k - 1]
        BY <4>1, <2>3
      <4> QED BY <4>1, <4>2, <2>2 DEF Loop
    <3> QED BY <3>1, <3>2
  <2>7. Loop(g, V, start, Turn, n)
    <3> HIDE DEF g
    <3> QED BY <2>5, <2>6 DEF Loop
  <2> QED BY <2>7, <1>2
<1> QED
  BY <1>3, <1>4

\* Two loops that start alike and turn alike.
RunAlike(f, g, N) == f[0] = g[0] /\ \A n \in 1..N : f[n - 1] = g[n - 1] => f[n] = g[n]

\* They have the same after each of N turns.
SameUpTo(f, g, N) == \A n \in 0..N : f[n] = g[n]

\* Loops that run alike are the same.
LEMMA SameLoop ==
  ASSUME NEW N \in Nat, NEW f, NEW g, RunAlike(f, g, N)
  PROVE  SameUpTo(f, g, N)
<1> DEFINE T == {n \in 0..N : f[n] # g[n]}
<1>1. SUFFICES ASSUME T # {} PROVE FALSE
  BY DEF SameUpTo
<1>2. PICK n \in T : \A m \in T : n <= m
  <2>1. T \in SUBSET Nat
    OBVIOUS
  <2> HIDE DEF T
  <2> QED BY <1>1, <2>1, LeastNumber
<1>3. n \in 1..N /\ f[n] # g[n]
  BY <1>2 DEF RunAlike
<1>4. n - 1 \in 0..N /\ n - 1 \notin T
  BY <1>2, <1>3
<1>5. f[n - 1] = g[n - 1]
  BY <1>4
<1> QED
  BY <1>3, <1>5 DEF RunAlike

-----------------------------------------------------------------------------
(* What the operators of Paging return. *)

\* A sum of sizes is a natural number, and the sum of none is zero.
LEMMA TotalIsNatural ==
  ASSUME NEW costs \in Seq(Nat)
  PROVE  Total(costs) \in Nat /\ (Len(costs) = 0 => Total(costs) = 0)
<1> DEFINE N == Len(costs)
           Turn == [n \in Nat |-> [s \in Nat |-> IF n \in 1..N THEN s + costs[n] ELSE 0]]
           Sums(f) == f = [n \in 0..N |-> IF n = 0 THEN 0 ELSE f[n - 1] + costs[n]]
           sum == CHOOSE f : Sums(f)
<1>1. N \in Nat /\ \A n \in 1..N : costs[n] \in Nat
  BY LenProperties
<1>2. Turn \in [Nat -> [Nat -> Nat]]
  BY <1>1
<1>3. \A n \in 1..N, s \in Nat : Turn[n][s] = s + costs[n]
  BY <1>1
<1> HIDE DEF Turn, N
<1>4. PICK f : Loop(f, Nat, 0, Turn, N)
  BY <1>1, <1>2, LoopExists
<1>5. f \in [0..N -> Nat] /\ f[0] = 0
  BY <1>4 DEF Loop
<1>6. ASSUME NEW n \in 1..N PROVE f[n] = f[n - 1] + costs[n]
  <2>1. f[n - 1] \in Nat
    BY <1>1, <1>5
  <2> QED BY <1>3, <1>4, <2>1 DEF Loop
<1>7. Sums(f)
  BY <1>1, <1>5, <1>6
<1>8. Sums(sum)
  <2> HIDE DEF Sums
  <2> QED BY <1>7
<1>9. Total(costs) = sum[N]
  BY DEF Total, N
<1> HIDE DEF sum
<1>10. sum[0] = f[0] /\ \A n \in 1..N : sum[n - 1] = f[n - 1] => sum[n] = f[n]
  BY <1>1, <1>5, <1>6, <1>8
<1>11. \A n \in 0..N : sum[n] = f[n]
  <2>1. RunAlike(sum, f, N)
    BY <1>10 DEF RunAlike
  <2>2. SameUpTo(sum, f, N)
    BY <1>1, <2>1, SameLoop
  <2> QED BY <2>2 DEF SameUpTo
<1>12. Total(costs) = f[N] /\ (N = 0 => f[N] = 0)
  BY <1>1, <1>5, <1>9, <1>11
<1> QED
  BY <1>1, <1>5, <1>12 DEF N

\* The smaller of two numbers, and the largest of some numbers up to a limit.
LEMMA MinOfTwo ==
  ASSUME NEW a \in Int, NEW b \in Int
  PROVE  Min({a, b}) = IF a <= b THEN a ELSE b
<1>1. CASE a <= b
  BY <1>1 DEF Min
<1>2. CASE ~ (a <= b)
  BY <1>2 DEF Min
<1> QED
  BY <1>1, <1>2

\* The larger of two numbers.
LEMMA MaxOfTwo ==
  ASSUME NEW a \in Int, NEW b \in Int
  PROVE  Max({a, b}) = IF a <= b THEN b ELSE a
<1>1. CASE a <= b
  BY <1>1 DEF Max
<1>2. CASE ~ (a <= b)
  BY <1>2 DEF Max
<1> QED
  BY <1>1, <1>2

\* The least of three numbers.
LEMMA MinOfThree ==
  ASSUME NEW a \in Int, NEW b \in Int, NEW c \in Int
  PROVE  /\ Min({a, b, c}) \in {a, b, c}
         /\ Min({a, b, c}) <= a /\ Min({a, b, c}) <= b /\ Min({a, b, c}) <= c
<1> DEFINE S == {a, b, c}
<1>1. \E x \in S : \A y \in S : x <= y
  <2>1. CASE a <= b /\ a <= c
    BY <2>1
  <2>2. CASE b <= a /\ b <= c
    BY <2>2
  <2>3. CASE c <= a /\ c <= b
    BY <2>3
  <2> QED BY <2>1, <2>2, <2>3
<1>2. Min(S) \in S /\ \A y \in S : Min(S) <= y
  <2> HIDE DEF S
  <2> QED BY <1>1 DEF Min
<1> QED
  BY <1>2

\* A nonempty set of numbers up to a limit has a greatest member, and Max is it.
LEMMA MaxUpTo ==
  ASSUME NEW limit \in Nat, NEW S \in SUBSET (0..limit), S # {}
  PROVE  Max(S) \in S /\ \A x \in S : x <= Max(S)
<1> DEFINE T == {limit - x : x \in S}
<1>1. T \in SUBSET Nat
  <2> SUFFICES ASSUME NEW x \in S PROVE limit - x \in Nat
    OBVIOUS
  <2>1. x \in 0..limit
    OBVIOUS
  <2> QED BY <2>1
<1>2. T # {}
  OBVIOUS
<1>3. PICK n \in T : \A m \in T : n <= m
  <2> HIDE DEF T
  <2> QED BY <1>1, <1>2, LeastNumber
<1>4. PICK x \in S : n = limit - x
  OBVIOUS
<1>5. ASSUME NEW y \in S PROVE y <= x
  <2>1. x \in 0..limit /\ y \in 0..limit
    OBVIOUS
  <2>2. limit - x <= limit - y
    BY <1>3, <1>4
  <2> QED BY <2>1, <2>2
<1>6. \E z \in S : \A y \in S : z >= y
  BY <1>5
<1>7. Max(S) \in S /\ \A y \in S : Max(S) >= y
  BY <1>6 DEF Max
<1> QED
  BY <1>7

\* p is what s has from behind `from` to `to`.
IsPart(p, S, s, from, to) ==
  LET n == IF to <= Len(s) THEN to ELSE Len(s)
  IN  /\ p \in Seq(S)
      /\ Len(p) = IF from < n THEN n - from ELSE 0
      /\ \A i \in 1..Len(p) : p[i] = s[from + i]

\* A slice is such a part.
LEMMA SliceFacts ==
  ASSUME NEW S, NEW s \in Seq(S), NEW from \in Nat, NEW to \in Int
  PROVE  IsPart(Slice(s, from, to), S, s, from, to)
<1> DEFINE n == IF to <= Len(s) THEN to ELSE Len(s)
<1>1. Len(s) \in Nat /\ \A i \in 1..Len(s) : s[i] \in S
  BY LenProperties
<1>2. Min({to, Len(s)}) = n
  BY <1>1, MinOfTwo
<1>3. Slice(s, from, to) = SubSeq(s, from + 1, n)
  BY <1>2 DEF Slice
<1>4. n \in Int /\ from + 1 \in Int /\ \A i \in from + 1..n : s[i] \in S
  BY <1>1
<1>5. /\ SubSeq(s, from + 1, n) \in Seq(S)
      /\ Len(SubSeq(s, from + 1, n)) = IF from + 1 <= n THEN n - (from + 1) + 1 ELSE 0
      /\ \A i \in 1..n - (from + 1) + 1 : SubSeq(s, from + 1, n)[i] = s[from + 1 + i - 1]
  <2> HIDE DEF n
  <2> QED BY <1>4, SubSeqProperties
<1>6. Len(SubSeq(s, from + 1, n)) = IF from < n THEN n - from ELSE 0
  BY <1>1, <1>5
<1>7. ASSUME NEW i \in 1..Len(Slice(s, from, to)) PROVE Slice(s, from, to)[i] = s[from + i]
  <2>1. i \in 1..n - (from + 1) + 1 /\ from + 1 + i - 1 = from + i
    BY <1>1, <1>3, <1>6, <1>7
  <2>2. SubSeq(s, from + 1, n)[i] = s[from + 1 + i - 1]
    BY <1>5, <2>1
  <2> QED BY <1>3, <2>1, <2>2
<1> QED
  BY <1>3, <1>5, <1>6, <1>7 DEF IsPart

\* Consecutive numbers.
LEMMA SpanFacts ==
  ASSUME NEW first \in Nat, NEW last \in Int
  PROVE  /\ Span(first, last) \in Seq(Nat)
         /\ Len(Span(first, last)) = IF first <= last THEN last - first + 1 ELSE 0
         /\ \A i \in 1..Len(Span(first, last)) : Span(first, last)[i] = first + i - 1
<1> DEFINE n == IF first <= last THEN last - first + 1 ELSE 0
<1>1. n \in Nat /\ 1..(last - first + 1) = 1..n
  OBVIOUS
<1>2. Span(first, last) = [k \in 1..n |-> first + k - 1]
  BY <1>1 DEF Span
<1> HIDE DEF n
<1>3. Span(first, last) \in [1..n -> Nat]
  BY <1>1, <1>2
<1>4. Span(first, last) \in Seq(Nat)
  BY <1>1, <1>3, SeqDef
<1>5. Len(Span(first, last)) = n
  BY <1>1, <1>3, <1>4, LenProperties
<1> QED
  BY <1>2, <1>4, <1>5 DEF n

\* Whatever the budget, Fitting takes a first part of what is asked for, and never nothing of something.
LEMMA FittingTakes ==
  ASSUME NEW S, NEW picked \in Seq(S), NEW costs, NEW budget
  PROVE  /\ Fitting(picked, costs, budget) \in Seq(S)
         /\ Len(Fitting(picked, costs, budget)) <= Len(picked)
         /\ Len(picked) > 0 => Len(Fitting(picked, costs, budget)) > 0
         /\ \A i \in 1..Len(Fitting(picked, costs, budget)) : Fitting(picked, costs, budget)[i] = picked[i]
<1> DEFINE T == {n \in 0..Len(picked) : n <= 1 \/ Total(Slice(costs, 0, n)) <= budget}
           most == Max(T)
<1>1. Len(picked) \in Nat
  BY LenProperties
<1>2. T \in SUBSET (0..Len(picked)) /\ 0 \in T /\ (Len(picked) > 0 => 1 \in T)
  BY <1>1
<1>3. most \in T /\ \A n \in T : n <= most
  <2> HIDE DEF T
  <2> QED BY <1>1, <1>2, MaxUpTo
<1>4. most \in 0..Len(picked) /\ (Len(picked) > 0 => most > 0)
  BY <1>1, <1>2, <1>3
<1>5. Fitting(picked, costs, budget) = Slice(picked, 0, most)
  BY DEF Fitting
<1> HIDE DEF most
<1>6. /\ Slice(picked, 0, most) \in Seq(S)
      /\ Len(Slice(picked, 0, most)) = most
      /\ \A i \in 1..Len(Slice(picked, 0, most)) : Slice(picked, 0, most)[i] = picked[0 + i]
  <2>1. IsPart(Slice(picked, 0, most), S, picked, 0, most)
    BY <1>4, SliceFacts
  <2> QED BY <1>1, <1>4, <2>1 DEF IsPart
<1> QED
  BY <1>1, <1>4, <1>5, <1>6

\* The loop that lists the rows that are not hidden, in the order of the rows.
Listing(f, rows, rules) ==
  /\ f \in [0..Len(rows) -> Seq(1..Len(rows))] /\ f[0] = <<>>
  /\ \A n \in 1..Len(rows) : f[n] = IF isHidden(rows[n], rules) THEN f[n - 1] ELSE Append(f[n - 1], n)

\* Visible is what that loop has at its end.
LEMMA ShownIsAListing ==
  ASSUME NEW S, NEW rows \in Seq(S), NEW rules \in BOOLEAN
  PROVE  \E f : Listing(f, rows, rules) /\ Visible(rows, rules) = f[Len(rows)]
<1> DEFINE N == Len(rows)
           V == Seq(1..N)
           Hides(n) == isHidden(rows[n], rules)
           Turn == [n \in Nat |-> [s \in V |-> IF n \in 1..N /\ ~ Hides(n) THEN Append(s, n) ELSE s]]
           Lists(f) == f = [n \in 0..N |-> IF n = 0 THEN <<>> ELSE IF Hides(n) THEN f[n - 1] ELSE Append(f[n - 1], n)]
           shown == CHOOSE f : Lists(f)
<1>1. N \in Nat
  BY LenProperties
<1>2. \A s \in V, n \in 1..N : Append(s, n) \in V
  OBVIOUS
<1>3. <<>> \in V
  OBVIOUS
<1> HIDE DEF N, V, Hides
<1>4. Turn \in [Nat -> [V -> V]]
  BY <1>2
<1>5. \A n \in 1..N, s \in V : Turn[n][s] = IF Hides(n) THEN s ELSE Append(s, n)
  BY <1>1
<1> HIDE DEF Turn
<1>6. PICK f : Loop(f, V, <<>>, Turn, N)
  <2> DEFINE none == <<>>
  <2>1. none \in V
    BY <1>3
  <2> HIDE DEF none
  <2>2. \E f : Loop(f, V, none, Turn, N)
    BY <1>1, <1>4, <2>1, LoopExists
  <2> QED BY <2>2 DEF none
<1>7. f \in [0..N -> V] /\ f[0] = <<>>
  BY <1>6 DEF Loop
<1>8. ASSUME NEW n \in 1..N PROVE f[n] = IF Hides(n) THEN f[n - 1] ELSE Append(f[n - 1], n)
  <2>1. n - 1 \in 0..N
    BY <1>1
  <2>2. f[n - 1] \in V
    BY <1>7, <2>1
  <2>3. f[n] = Turn[n][f[n - 1]]
    BY <1>6 DEF Loop
  <2> QED BY <1>5, <2>2, <2>3
<1>9. Lists(f)
  <2> DEFINE At(n) == IF n = 0 THEN <<>> ELSE IF Hides(n) THEN f[n - 1] ELSE Append(f[n - 1], n)
  <2>1. ASSUME NEW n \in 0..N PROVE f[n] = At(n)
    <3>1. CASE n = 0
      BY <3>1, <1>7
    <3>2. CASE n # 0
      <4>1. n \in 1..N
        BY <1>1, <3>2
      <4> QED BY <3>2, <4>1, <1>8
    <3> QED BY <3>1, <3>2
  <2> HIDE DEF At
  <2>2. f = [n \in 0..N |-> At(n)]
    BY <1>7, <2>1
  <2> QED BY <2>2 DEF At
<1>10. Lists(shown)
  <2> HIDE DEF Lists
  <2> QED BY <1>9
<1>11. Visible(rows, rules) = shown[N]
  BY DEF Visible, N, Hides
<1> HIDE DEF shown
<1>12. shown[0] = f[0]
  <2>1. 0 \in 0..N
    BY <1>1
  <2> QED BY <1>7, <1>10, <2>1
<1>13. ASSUME NEW n \in 1..N, shown[n - 1] = f[n - 1] PROVE shown[n] = f[n]
  <2>1. n \in 0..N /\ n # 0
    BY <1>1
  <2>2. shown[n] = IF Hides(n) THEN shown[n - 1] ELSE Append(shown[n - 1], n)
    BY <1>10, <2>1
  <2> QED BY <1>8, <1>13, <2>2
<1>14. shown[N] = f[N]
  <2>1. RunAlike(shown, f, N)
    BY <1>12, <1>13 DEF RunAlike
  <2>2. SameUpTo(shown, f, N)
    BY <1>1, <2>1, SameLoop
  <2> QED BY <1>1, <2>2 DEF SameUpTo
<1>15. Listing(f, rows, rules)
  BY <1>7, <1>8 DEF Listing, N, V, Hides
<1> QED
  BY <1>11, <1>14, <1>15 DEF N

\* What a part of the rows shows is a first part of what all of them show.
LEMMA ShownOfPart ==
  ASSUME NEW S, NEW rows \in Seq(S), NEW rules \in BOOLEAN, NEW m \in 0..Len(rows)
  PROVE  LET part == Visible(SubSeq(rows, 1, m), rules)
             all  == Visible(rows, rules)
         IN  /\ all \in Seq(1..Len(rows)) /\ part \in Seq(1..Len(rows)) /\ Len(part) <= Len(all)
             /\ \A i \in 1..Len(part) : part[i] = all[i]
             /\ m = Len(rows) => part = all
<1> DEFINE N == Len(rows)
           first == SubSeq(rows, 1, m)
<1>1. N \in Nat /\ m \in 0..N /\ \A i \in 1..N : rows[i] \in S
  BY LenProperties
<1>2. /\ first \in Seq(S) /\ Len(first) = m
      /\ \A i \in 1..m : first[i] = rows[i]
  <2>1. \A i \in 1..m : rows[i] \in S
    BY <1>1
  <2>2. /\ first \in Seq(S)
        /\ Len(first) = IF 1 <= m THEN m - 1 + 1 ELSE 0
        /\ \A i \in 1..m - 1 + 1 : first[i] = rows[1 + i - 1]
    BY <1>1, <2>1, SubSeqProperties
  <2> QED BY <1>1, <2>2
<1>3. PICK f : Listing(f, rows, rules) /\ Visible(rows, rules) = f[N]
  BY ShownIsAListing
<1> HIDE DEF first
<1>4. PICK g : Listing(g, first, rules) /\ Visible(first, rules) = g[m]
  BY <1>2, ShownIsAListing
<1>5. f[0] = g[0]
  BY <1>3, <1>4 DEF Listing
<1>6. ASSUME NEW n \in 1..m, f[n - 1] = g[n - 1] PROVE f[n] = g[n]
  <2>1. n \in 1..Len(rows) /\ n \in 1..Len(first) /\ first[n] = rows[n]
    BY <1>1, <1>2
  <2>2. f[n] = IF isHidden(rows[n], rules) THEN f[n - 1] ELSE Append(f[n - 1], n)
    BY <1>3, <2>1 DEF Listing
  <2>3. g[n] = IF isHidden(first[n], rules) THEN g[n - 1] ELSE Append(g[n - 1], n)
    BY <1>4, <2>1 DEF Listing
  <2> QED BY <1>6, <2>1, <2>2, <2>3
<1>7. f[m] = g[m]
  <2>1. m \in Nat
    BY <1>1
  <2> HIDE DEF N
  <2>2. RunAlike(f, g, m)
    BY <1>5, <1>6 DEF RunAlike
  <2>3. SameUpTo(f, g, m)
    BY <2>1, <2>2, SameLoop
  <2> QED BY <2>1, <2>3 DEF SameUpTo
<1>8. \A n \in 0..N : f[n] \in Seq(1..N)
  BY <1>3 DEF Listing
<1> DEFINE Begins(s, u) == Len(s) <= Len(u) /\ \A i \in 1..Len(s) : s[i] = u[i]
           T == {n \in m..N : ~ Begins(f[m], f[n])}
<1>9. T = {}
  <2> SUFFICES ASSUME T # {} PROVE FALSE
    OBVIOUS
  <2>1. PICK n \in T : \A k \in T : n <= k
    <3>1. T \in SUBSET Nat
      BY <1>1
    <3> HIDE DEF T
    <3> QED BY <3>1, LeastNumber
  <2>2. n \in m..N /\ ~ Begins(f[m], f[n])
    OBVIOUS
  <2>3. n # m
    BY <1>1, <1>8, <2>2, LenProperties
  <2>4. n - 1 \in m..N /\ n - 1 \notin T /\ n \in 1..N
    BY <1>1, <2>1, <2>2, <2>3
  <2>5. Begins(f[m], f[n - 1])
    BY <2>4
  <2>6. f[n - 1] \in Seq(1..N) /\ f[m] \in Seq(1..N)
    BY <1>1, <1>8, <2>4
  <2>7. CASE f[n] = f[n - 1]
    BY <2>2, <2>5, <2>7
  <2>8. CASE f[n] = Append(f[n - 1], n)
    <3>1. Len(f[n]) = Len(f[n - 1]) + 1 /\ \A i \in 1..Len(f[n - 1]) : f[n][i] = f[n - 1][i]
      BY <2>6, <2>8
    <3>2. Len(f[n - 1]) \in Nat /\ Len(f[m]) \in Nat
      BY <2>6, LenProperties
    <3> QED BY <2>2, <2>5, <3>1, <3>2
  <2> QED BY <1>3, <2>4, <2>7, <2>8 DEF Listing
<1>10. Begins(f[m], f[N])
  BY <1>1, <1>9
<1>11. Visible(rows, rules) = f[N] /\ Visible(SubSeq(rows, 1, m), rules) = f[m]
  BY <1>3, <1>4, <1>7 DEF first
<1>12. f[N] \in Seq(1..Len(rows)) /\ f[m] \in Seq(1..Len(rows))
  BY <1>1, <1>8
<1>13. m = Len(rows) => f[m] = f[N]
  OBVIOUS
<1> HIDE DEF N
<1> QED
  BY <1>10, <1>11, <1>12, <1>13

\* More batches hold at least as much.
LEMMA Multiples ==
  ASSUME NEW i \in Nat, NEW j \in Nat, NEW b \in Nat, i <= j
  PROVE  i * b <= j * b /\ i * b \in Nat /\ (i + 1) * b = i * b + b
<1>1. PICK k \in Nat : j = i + k
  <2>1. j - i \in Nat /\ j = i + (j - i)
    OBVIOUS
  <2> QED BY <2>1
<1>2. k * b \in Nat /\ i * b \in Nat
  OBVIOUS
<1>3. (i + k) * b = i * b + k * b
  OBVIOUS
<1> QED
  BY <1>1, <1>2, <1>3

\* The number of batches of n paths, at most b in each.
BatchesOf(n, b) == (n + b - 1) \div b

\* Enough batches for everything, and none that is empty.
Batched(c, n, b) ==
  /\ c \in Nat /\ n <= c * b /\ (n = 0 => c = 0) /\ (n > 0 => c > 0)
  /\ \A i \in 1..c : (i - 1) * b < n /\ (i - 1) * b \in Nat /\ i * b = (i - 1) * b + b

\* That number of batches is right.
LEMMA Batches ==
  ASSUME NEW n \in Nat, NEW b \in Nat \ {0}, NEW c, c = BatchesOf(n, b)
  PROVE  Batched(c, n, b)
<1>1. c \in Nat /\ b * c <= n + b - 1 /\ n + b - 1 < b * c + b
  BY DEF BatchesOf
<1>2. b * c = c * b /\ c * b \in Nat
  BY <1>1
<1>3. n <= c * b
  BY <1>1, <1>2
<1>4. n > 0 => c > 0
  BY <1>1, <1>3
<1>5. n = 0 => c = 0
  <2> SUFFICES ASSUME n = 0, c >= 1 PROVE FALSE
    BY <1>1
  <2>1. 1 * b <= c * b
    BY <1>1, Multiples
  <2> QED BY <1>1, <1>2, <2>1
<1>6. ASSUME NEW i \in 1..c PROVE (i - 1) * b < n /\ (i - 1) * b \in Nat /\ i * b = (i - 1) * b + b
  <2>1. i - 1 \in Nat /\ i \in Nat /\ i <= c /\ i - 1 + 1 = i
    BY <1>1
  <2> DEFINE j == i - 1
  <2>2. j * b \in Nat /\ (j + 1) * b = j * b + b
    BY <2>1, Multiples
  <2>3. i * b <= c * b
    BY <1>1, <2>1, Multiples
  <2> QED BY <1>1, <1>2, <2>1, <2>2, <2>3
<1> QED
  BY <1>1, <1>3, <1>4, <1>5, <1>6 DEF Batched

\* The batches, put together again, are the paths: none is lost, repeated or moved at a boundary.
LEMMA BatchesJoin ==
  ASSUME NEW S, NEW paths \in Seq(S), BatchRows \in Nat \ {0}
  PROVE  FlattenSeq(chunkPaths(paths)) = paths
<1> DEFINE N == Len(paths)
           C == (N + BatchRows - 1) \div BatchRows
           Lo(i) == (i - 1) * BatchRows
           Hi(i) == i * BatchRows
           seqs == chunkPaths(paths)
           Up(i) == IF Hi(i) <= N THEN Hi(i) ELSE N
           Joins(f) == f = [i \in 1..Len(seqs) |-> IF i = 1 THEN seqs[i] ELSE f[i - 1] \o seqs[i]]
           flat == CHOOSE f : Joins(f)
           g == [i \in 1..C |-> SubSeq(paths, 1, Up(i))]
<1>1. N \in Nat
  BY LenProperties
<1>2. seqs = [i \in 1..C |-> Slice(paths, Lo(i), Hi(i))]
  BY DEF chunkPaths
<1>3. /\ C \in Nat /\ N <= Hi(C) /\ (N = 0 => C = 0) /\ (N > 0 => C > 0)
      /\ \A i \in 1..C : Lo(i) < N /\ Lo(i) \in Nat /\ Hi(i) = Lo(i) + BatchRows
  <2>1. C = BatchesOf(N, BatchRows)
    BY DEF BatchesOf
  <2> HIDE DEF C, N
  <2>2. /\ C \in Nat /\ N <= C * BatchRows /\ (N = 0 => C = 0) /\ (N > 0 => C > 0)
        /\ \A i \in 1..C : (i - 1) * BatchRows < N /\ (i - 1) * BatchRows \in Nat
                          /\ i * BatchRows = (i - 1) * BatchRows + BatchRows
    <3>1. Batched(C, N, BatchRows)
      BY <1>1, <2>1, Batches
    <3> QED BY <3>1 DEF Batched
  <2> QED BY <2>2
<1>4. Lo(1) = 0 /\ \A i \in 1..C : Hi(i - 1) = Lo(i)
  OBVIOUS
<1> HIDE DEF seqs, N, C, Lo, Hi
<1>5. \A i \in 1..C : Hi(i) \in Nat /\ Lo(i) <= Hi(i)
  BY <1>3
<1>6. ASSUME NEW i \in 1..C
      PROVE  Up(i) \in Nat /\ Up(i) <= N /\ Lo(i) <= Up(i) /\ Min({Hi(i), N}) = Up(i)
  <2>1. Hi(i) \in Nat /\ Lo(i) \in Nat /\ Lo(i) <= Hi(i) /\ Lo(i) < N
    BY <1>3, <1>5
  <2>2. Min({Hi(i), N}) = Up(i)
    BY <1>1, <2>1, MinOfTwo
  <2> QED BY <1>1, <2>1, <2>2
<1> HIDE DEF Up
<1>7. \A i \in 1..C : seqs[i] = SubSeq(paths, Lo(i) + 1, Up(i))
  BY <1>2, <1>6 DEF Slice, N
<1>8. seqs \in Seq(Seq(S)) /\ Len(seqs) = C
  <2>1. ASSUME NEW i \in 1..C PROVE seqs[i] \in Seq(S)
    <3>1. Lo(i) \in Nat /\ Hi(i) \in Int
      BY <1>3, <1>5
    <3>2. IsPart(Slice(paths, Lo(i), Hi(i)), S, paths, Lo(i), Hi(i))
      BY <3>1, SliceFacts
    <3> QED BY <1>2, <3>2 DEF IsPart
  <2>2. seqs \in [1..C -> Seq(S)]
    BY <1>2, <2>1
  <2>3. seqs \in Seq(Seq(S))
    BY <1>3, <2>2, SeqDef
  <2>4. DOMAIN seqs = 1..Len(seqs) /\ Len(seqs) \in Nat
    BY <2>3, LenProperties
  <2> QED BY <1>3, <2>2, <2>3, <2>4
<1>9. CASE N = 0
  <2>1. Len(seqs) = 0
    BY <1>3, <1>8, <1>9
  <2>2. seqs = <<>> /\ paths = <<>>
    BY <1>8, <1>9, <2>1, EmptySeq DEF N
  <2> QED BY <2>1, <2>2 DEF FlattenSeq, seqs
<1>10. CASE N # 0
  <2>1. C \in Nat \ {0} /\ Len(seqs) # 0
    BY <1>1, <1>3, <1>8, <1>10
  <2>2. \A i \in 1..C : g[i] = SubSeq(paths, 1, Up(i))
    OBVIOUS
  <2> HIDE DEF g
  <2>3. ASSUME NEW i \in 1..C, i # 1 PROVE g[i] = g[i - 1] \o seqs[i]
    <3>1. i - 1 \in 1..C
      BY <2>1, <2>3
    <3>2. Lo(i) \in Nat /\ Lo(i) < N /\ Hi(i - 1) = Lo(i)
      BY <1>3, <1>4
    <3>3. Up(i - 1) = Lo(i)
      BY <1>1, <3>2 DEF Up
    <3>4. Up(i) \in Nat /\ Up(i) <= N /\ Lo(i) <= Up(i)
      BY <1>6
    <3>5. Up(i) \in Lo(i)..N
      BY <1>1, <3>2, <3>4
    <3>6. 1 \in 1..Len(paths) + 1 /\ Lo(i) \in 1 - 1..Len(paths) /\ Up(i) \in Lo(i)..Len(paths)
      BY <1>1, <3>2, <3>5 DEF N
    <3>7. SubSeq(paths, 1, Lo(i)) \o SubSeq(paths, Lo(i) + 1, Up(i)) = SubSeq(paths, 1, Up(i))
      BY <3>6, ConcatAdjacentSubSeq
    <3> QED BY <1>7, <2>2, <3>1, <3>3, <3>7
  <2>4. g[1] = seqs[1]
    <3>1. 1 \in 1..C
      BY <2>1
    <3>2. Lo(1) + 1 = 1
      BY <1>4
    <3>3. seqs[1] = SubSeq(paths, Lo(1) + 1, Up(1)) /\ g[1] = SubSeq(paths, 1, Up(1))
      BY <1>7, <2>2, <3>1
    <3> QED BY <3>2, <3>3
  <2>5. Joins(g)
    <3> DEFINE At(i) == IF i = 1 THEN seqs[i] ELSE g[i - 1] \o seqs[i]
    <3>1. \A i \in 1..C : g[i] = At(i)
      BY <2>3, <2>4
    <3>2. g = [i \in 1..C |-> g[i]]
      BY DEF g
    <3> HIDE DEF At
    <3>3. g = [i \in 1..C |-> At(i)]
      BY <3>1, <3>2
    <3> QED BY <1>8, <3>3 DEF At
  <2>6. Joins(flat)
    <3> HIDE DEF Joins
    <3> QED BY <2>5
  <2>7. FlattenSeq(seqs) = flat[C]
    BY <1>8, <2>1 DEF FlattenSeq
  <2> HIDE DEF flat
  <2>8. \A i \in 1..C : flat[i] = IF i = 1 THEN seqs[i] ELSE flat[i - 1] \o seqs[i]
    BY <1>8, <2>6
  <2> HIDE DEF Joins
  <2> DEFINE T == {i \in 1..C : flat[i] # g[i]}
  <2>9. T = {}
    <3> SUFFICES ASSUME T # {} PROVE FALSE
      OBVIOUS
    <3>1. PICK i \in T : \A k \in T : i <= k
      <4>1. T \in SUBSET Nat
        OBVIOUS
      <4> HIDE DEF T
      <4> QED BY <4>1, LeastNumber
    <3>2. i \in 1..C /\ flat[i] # g[i]
      OBVIOUS
    <3>3. i # 1
      BY <2>4, <2>8, <3>2
    <3>4. i - 1 \in 1..C
      BY <2>1, <3>2, <3>3
    <3>5. i - 1 \notin T
      <4> HIDE DEF T
      <4> QED BY <3>1, <3>2, <2>1
    <3>6. flat[i - 1] = g[i - 1]
      BY <3>4, <3>5
    <3>7. flat[i] = flat[i - 1] \o seqs[i]
      BY <2>8, <3>2, <3>3
    <3>8. g[i] = g[i - 1] \o seqs[i]
      BY <2>3, <3>2, <3>3
    <3> QED BY <3>2, <3>6, <3>7, <3>8
  <2>10. flat[C] = g[C]
    BY <2>1, <2>9
  <2>11. Up(C) = N
    BY <1>1, <1>3, <1>5, <2>1 DEF Up
  <2>12. SubSeq(paths, 1, N) = paths
    BY SubSeqFull DEF N
  <2>13. g[C] = paths
    <3>1. C \in 1..C
      BY <2>1
    <3>2. g[C] = SubSeq(paths, 1, Up(C))
      BY <2>2, <3>1
    <3> QED BY <2>11, <2>12, <3>2
  <2> QED BY <2>7, <2>10, <2>13 DEF seqs
<1> QED
  BY <1>9, <1>10

-----------------------------------------------------------------------------
(* What a page is. *)

\* A page resumes `all` behind `offset`: its rows are the next ones, and when another page follows it
\* leaves some.
Resumes(page, all, offset, first) ==
  LET count == Len(page.rows)
      within == offset = 0 \/ offset < Len(all)
  IN  /\ page.rows \in Seq(Nat) /\ page.truncated \in BOOLEAN /\ page.next \in Int
      /\ page.next # NoPage => page.next = first + offset + count
      /\ within => /\ offset + count <= Len(all)
                   /\ \A i \in 1..count : page.rows[i] = all[offset + i]
                   /\ page.next # NoPage => offset + count < Len(all)

\* A page that another one follows has rows.
Brings(page) == page.next # NoPage => Len(page.rows) > 0

\* A page continues `all`: it resumes it and brings something.
Continues(page, all, offset, first) == Resumes(page, all, offset, first) /\ Brings(page)

\* The last page, when it does not call itself truncated, leaves nothing.
Ends(page, all, offset) ==
  (offset = 0 \/ offset < Len(all)) /\ page.next = NoPage /\ ~ page.truncated
    => offset + Len(page.rows) = Len(all)

\* Both: what the page of every tool does.
Follows(page, all, offset, first) == Continues(page, all, offset, first) /\ Ends(page, all, offset)

\* A function on the first numbers is a sequence.
LEMMA SequenceOf ==
  ASSUME NEW S, NEW n \in Nat, NEW s \in [1..n -> S]
  PROVE  s \in Seq(S) /\ Len(s) = n
<1>1. s \in Seq(S)
  BY SeqDef
<1> QED
  BY <1>1, LenProperties

\* All line numbers of a file.
LEMMA WholeSpan ==
  ASSUME NEW N \in Nat
  PROVE  Span(1, N) \in Seq(Nat) /\ Len(Span(1, N)) = N /\ \A i \in 1..N : Span(1, N)[i] = i
<1>1. N \in Int /\ Span(1, N) = [k \in 1..N |-> k]
  BY DEF Span
<1>2. Span(1, N) \in [1..N -> Nat]
  BY <1>1
<1>3. Span(1, N) \in Seq(Nat)
  BY <1>2, SeqDef
<1>4. Len(Span(1, N)) = N
  BY <1>2, <1>3, LenProperties
<1> QED
  BY <1>1, <1>3, <1>4

\* The last line of a page: before its first one only when the client names such an end line.
LEMMA EndLimitFacts ==
  ASSUME NEW start \in Nat \ {0}, NEW lines \in Nat \ {0}, NEW end \in Nat \union {None}
  PROVE  /\ endLimit(start, lines, end) \in Int
         /\ endLimit(start, lines, end) < start => end # None /\ start > end
<1>1. HardLines \in Nat \ {0}
  BY PagingBounds
<1>2. CASE end = None
  BY <1>2 DEF endLimit
<1>3. CASE end # None
  <2>1. endLimit(start, lines, end) = IF end <= start + HardLines - 1 THEN end ELSE start + HardLines - 1
    BY <1>1, <1>3, MinOfTwo DEF endLimit
  <2> QED BY <1>1, <1>3, <2>1
<1> QED
  BY <1>2, <1>3

\* Where browsing a file begins, and that it ends there or later.
LEMMA HardEndFacts ==
  ASSUME NEW from \in Nat \ {0}, NEW lines \in Nat \ {0}, NEW end \in Nat \union {None}
  PROVE  hardEnd(from, lines, end) \in Int /\ hardEnd(from, lines, end) >= from
<1> DEFINE named == IF end = None THEN None ELSE Max({from, end})
<1>1. named \in Nat \union {None} /\ (named # None => named >= from)
  BY MaxOfTwo DEF None
<1>2. hardEnd(from, lines, end) = endLimit(from, lines, named)
  BY DEF hardEnd
<1> HIDE DEF named
<1>3. endLimit(from, lines, named) \in Int /\ (endLimit(from, lines, named) < from => named # None /\ from > named)
  BY <1>1, EndLimitFacts
<1> QED
  BY <1>1, <1>2, <1>3 DEF None

\* The lines of a file at a commit.
LEMMA BrowseFileFollows ==
  ASSUME NEW S, NEW rows \in Seq(S), NEW start \in Nat \ {0}, NEW lines \in Nat \ {0},
         NEW ended \in Nat \union {None}
  PROVE  Follows(browseFile(rows, start, lines, ended), Span(1, Len(rows)), start - 1, 1)
<1> DEFINE N == Len(rows)
           from == StartLine(rows, start)
           limit == hardEnd(from, lines, ended)
           last == Min({limit, N})
           asked == Span(from, last)
           fits == Fitting(asked, [k \in DOMAIN asked |-> rows[asked[k]].size + (IF k = 1 THEN 0 ELSE 1)], TextBytes)
           page == browseFile(rows, start, lines, ended)
           end == from - 1 + Len(fits)
<1>1. N \in Nat /\ (rows = <<>> <=> N = 0)
  BY LenProperties, EmptySeq
<1>2. page.rows = fits /\ page.next = (IF end < N THEN end + 1 ELSE NoPage) /\ page.truncated = (end < N)
  BY DEF browseFile, LinePage, Page, NextIf
<1> HIDE DEF page, N
<1>3. from \in Nat \ {0} /\ from = (IF N = 0 THEN 1 ELSE IF start <= N THEN start ELSE N)
  BY <1>1, MinOfTwo DEF StartLine, N
<1> HIDE DEF from
<1>4. last \in Int /\ last <= N /\ (N > 0 => last >= from)
  <2>1. limit \in Int /\ limit >= from
    BY <1>3, HardEndFacts
  <2> HIDE DEF limit
  <2> QED BY <1>1, <1>3, <2>1, MinOfTwo
<1> HIDE DEF last
<1>5. /\ asked \in Seq(Nat) /\ Len(asked) = IF from <= last THEN last - from + 1 ELSE 0
      /\ \A i \in 1..Len(asked) : asked[i] = from + i - 1
  BY <1>3, <1>4, SpanFacts
<1> HIDE DEF asked
<1>6. Len(asked) \in Nat /\ from + Len(asked) - 1 <= N /\ (N > 0 => Len(asked) > 0)
  BY <1>1, <1>3, <1>4, <1>5
<1>7. /\ fits \in Seq(Nat) /\ Len(fits) <= Len(asked) /\ (Len(asked) > 0 => Len(fits) > 0)
      /\ \A i \in 1..Len(fits) : fits[i] = asked[i]
  BY <1>5, FittingTakes
<1> HIDE DEF fits
<1>8. Len(fits) \in Nat
  BY <1>7, LenProperties
<1>9. /\ Len(Span(1, N)) = N /\ \A i \in 1..N : Span(1, N)[i] = i
  BY <1>1, WholeSpan
<1>10. ASSUME start = 1 \/ start <= N
       PROVE  from = start /\ start - 1 + Len(fits) <= N
              /\ \A i \in 1..Len(fits) : fits[i] = Span(1, N)[start - 1 + i]
  <2>1. from = start
    BY <1>1, <1>3, <1>10
  <2>2. start - 1 + Len(fits) <= N
    BY <1>1, <1>6, <1>7, <1>8, <2>1
  <2>3. ASSUME NEW i \in 1..Len(fits) PROVE fits[i] = Span(1, N)[start - 1 + i]
    <3>1. fits[i] = start + i - 1 /\ start + i - 1 \in 1..N
      BY <1>1, <1>5, <1>6, <1>7, <1>8, <2>1, <2>2
    <3>2. start - 1 + i = start + i - 1
      BY <1>8
    <3> QED BY <1>9, <3>1, <3>2
  <2> QED BY <2>1, <2>2, <2>3
<1>11. end < N => from = start /\ Len(fits) > 0
  BY <1>1, <1>3, <1>6, <1>7, <1>8
<1>12. /\ page.next \in Int /\ page.truncated \in BOOLEAN
       /\ page.next # NoPage => page.next = 1 + (start - 1) + Len(fits) /\ Len(fits) > 0 /\ start - 1 + Len(fits) < N
  <2>1. page.truncated \in BOOLEAN
    BY <1>2
  <2> QED BY <1>1, <1>2, <1>3, <1>8, <1>11, <2>1 DEF NoPage
<1>13. ASSUME start - 1 = 0 \/ start - 1 < N, page.next = NoPage PROVE start - 1 + Len(fits) = N
  <2>1. start = 1 \/ start <= N
    BY <1>1, <1>13
  <2>2. ~ (end < N)
    BY <1>1, <1>2, <1>3, <1>8, <1>13 DEF NoPage
  <2>3. from = start /\ start - 1 + Len(fits) <= N
    BY <1>10, <2>1
  <2> QED BY <1>1, <1>8, <2>2, <2>3
<1>14. start - 1 = 0 \/ start - 1 < N => start = 1 \/ start <= N
  BY <1>1
<1>15. Follows(page, Span(1, N), start - 1, 1)
  BY <1>2, <1>7, <1>9, <1>10, <1>12, <1>13, <1>14 DEF Follows, Continues, Resumes, Brings, Ends
<1> QED
  BY <1>15 DEF page, N

\* The lines of a file of the working tree.
LEMMA ReadFileFollows ==
  ASSUME NEW S, NEW rows \in Seq(S), NEW start \in Nat \ {0}, NEW end \in Int, NEW maxBytes
  PROVE  LET page == readFile(rows, start, end, maxBytes)
         IN  /\ Resumes(page, Span(1, Len(rows)), start - 1, 1) /\ Ends(page, Span(1, Len(rows)), start - 1)
             /\ end >= start => Brings(page)
<1> DEFINE N == Len(rows)
           last == Min({end, N})
           asked == Span(start, last)
           fits == Fitting(asked, [k \in DOMAIN asked |-> rows[asked[k]].size + 1], maxBytes)
           page == readFile(rows, start, end, maxBytes)
           stop == start - 1 + Len(fits)
<1>1. N \in Nat /\ start \in Nat
  BY LenProperties
<1>2. page.rows = fits /\ page.next = (IF stop < N THEN stop + 1 ELSE NoPage) /\ page.truncated = (stop < N)
  BY DEF readFile, LinePage, Page, NextIf
<1> HIDE DEF page, N
<1>3. last \in Int /\ last <= N /\ (start <= N /\ start <= end => last >= start)
  BY <1>1, MinOfTwo
<1> HIDE DEF last
<1>4. /\ asked \in Seq(Nat) /\ Len(asked) = IF start <= last THEN last - start + 1 ELSE 0
      /\ \A i \in 1..Len(asked) : asked[i] = start + i - 1
  BY <1>1, <1>3, SpanFacts
<1> HIDE DEF asked
<1>5. /\ Len(asked) \in Nat /\ (Len(asked) > 0 => start + Len(asked) - 1 <= N)
      /\ (start <= N /\ start <= end => Len(asked) > 0)
  BY <1>1, <1>3, <1>4
<1>6. /\ fits \in Seq(Nat) /\ Len(fits) <= Len(asked) /\ (Len(asked) > 0 => Len(fits) > 0)
      /\ \A i \in 1..Len(fits) : fits[i] = asked[i]
  BY <1>4, FittingTakes
<1> HIDE DEF fits
<1>7. Len(fits) \in Nat
  BY <1>6, LenProperties
<1>8. /\ Len(Span(1, N)) = N /\ \A i \in 1..N : Span(1, N)[i] = i
  BY <1>1, WholeSpan
<1>9. ASSUME start = 1 \/ start <= N
      PROVE  start - 1 + Len(fits) <= N /\ \A i \in 1..Len(fits) : fits[i] = Span(1, N)[start - 1 + i]
  <2>1. start - 1 + Len(fits) <= N
    BY <1>1, <1>4, <1>5, <1>6, <1>7, <1>9
  <2>2. ASSUME NEW i \in 1..Len(fits) PROVE fits[i] = Span(1, N)[start - 1 + i]
    <3>1. fits[i] = start + i - 1 /\ start + i - 1 \in 1..N
      BY <1>1, <1>4, <1>5, <1>6, <1>7, <2>1
    <3>2. start - 1 + i = start + i - 1
      BY <1>7
    <3> QED BY <1>8, <3>1, <3>2
  <2> QED BY <2>1, <2>2
<1>10. stop < N => start <= N /\ (start <= end => Len(fits) > 0)
  BY <1>1, <1>5, <1>6, <1>7
<1>11. /\ page.next \in Int /\ page.truncated \in BOOLEAN
       /\ page.next # NoPage => page.next = 1 + (start - 1) + Len(fits) /\ start - 1 + Len(fits) < N
                                                           /\ (start <= end => Len(fits) > 0)
  <2>1. page.truncated \in BOOLEAN
    BY <1>2
  <2> QED BY <1>1, <1>2, <1>7, <1>10, <2>1 DEF NoPage
<1>12. ASSUME start - 1 = 0 \/ start - 1 < N, page.next = NoPage PROVE start - 1 + Len(fits) = N
  <2>1. start = 1 \/ start <= N
    BY <1>1, <1>12
  <2> QED BY <1>1, <1>2, <1>7, <1>9, <1>12, <2>1 DEF NoPage
<1>13. start - 1 = 0 \/ start - 1 < N => start = 1 \/ start <= N
  BY <1>1
<1>14. /\ Resumes(page, Span(1, N), start - 1, 1) /\ Ends(page, Span(1, N), start - 1)
       /\ end >= start => Brings(page)
  BY <1>2, <1>6, <1>8, <1>9, <1>11, <1>12, <1>13 DEF Resumes, Brings, Ends
<1> QED
  BY <1>14 DEF page, N

\* The numbers of the rows that are shown.
LEMMA ShownNumbers ==
  ASSUME NEW S, NEW rows \in Seq(S), NEW rules \in BOOLEAN
  PROVE  Visible(rows, rules) \in Seq(Nat) /\ Len(Visible(rows, rules)) \in Nat
<1>1. PICK f : Listing(f, rows, rules) /\ Visible(rows, rules) = f[Len(rows)]
  BY ShownIsAListing
<1>2. Len(rows) \in Nat
  BY LenProperties
<1>3. Visible(rows, rules) \in Seq(1..Len(rows))
  BY <1>1, <1>2 DEF Listing
<1>4. Seq(1..Len(rows)) \subseteq Seq(Nat)
  <2> SUFFICES ASSUME NEW s \in Seq(1..Len(rows)) PROVE s \in Seq(Nat)
    OBVIOUS
  <2>1. Len(s) \in Nat /\ s \in [1..Len(s) -> 1..Len(rows)]
    BY LenProperties
  <2>2. s \in [1..Len(s) -> Nat]
    BY <1>2, <2>1
  <2> QED BY <2>1, <2>2, SeqDef
<1>5. Visible(rows, rules) \in Seq(Nat)
  BY <1>3, <1>4
<1> QED
  BY <1>5, LenProperties

\* The entries of a directory at a commit, and the branches.
LEMMA ListTreePageFollows ==
  ASSUME NEW S, NEW rows \in Seq(S), NEW rules \in BOOLEAN, NEW offset \in Nat, NEW limit \in Nat \ {0}
  PROVE  Follows(listTreePage(rows, rules, offset, limit), Visible(rows, rules), offset, 0)
<1> DEFINE all == Visible(rows, rules)
           last == offset + limit
           part == Slice(all, offset, last)
           page == listTreePage(rows, rules, offset, limit)
<1>1. all \in Seq(Nat) /\ Len(all) \in Nat
  BY ShownNumbers
<1>2. page.rows = part /\ page.next = (IF Len(all) > last THEN last ELSE NoPage) /\ page.truncated = FALSE
  BY DEF listTreePage, Page, NextIf
<1>3. last \in Int /\ last = offset + limit
  OBVIOUS
<1> HIDE DEF page, all, last
<1>4. /\ part \in Seq(Nat)
      /\ Len(part) = LET n == IF last <= Len(all) THEN last ELSE Len(all) IN IF offset < n THEN n - offset ELSE 0
      /\ \A i \in 1..Len(part) : part[i] = all[offset + i]
  <2>1. IsPart(part, Nat, all, offset, last)
    BY <1>1, <1>3, SliceFacts
  <2> HIDE DEF part
  <2> QED BY <2>1 DEF IsPart
<1> HIDE DEF part
<1>5. Len(part) \in Nat
  BY <1>4, LenProperties
<1>6. /\ page.next \in Int
      /\ page.next # NoPage => page.next = 0 + offset + Len(part) /\ Len(part) > 0 /\ offset + Len(part) < Len(all)
  BY <1>1, <1>2, <1>3, <1>4 DEF NoPage
<1>7. offset = 0 \/ offset < Len(all) => /\ offset + Len(part) <= Len(all)
                                         /\ page.next = NoPage => offset + Len(part) = Len(all)
  BY <1>1, <1>2, <1>3, <1>4 DEF NoPage
<1>8. Follows(page, all, offset, 0)
  BY <1>2, <1>4, <1>6, <1>7 DEF Follows, Continues, Resumes, Brings, Ends
<1> QED
  BY <1>8 DEF page, all

\* What a walk comes to read has the rows in their places.
LEMMA ReadableRows ==
  ASSUME NEW rows \in Seq(Rows), NEW unread
  PROVE  Readable(rows, unread) \in Seq(Rows) /\ Len(Readable(rows, unread)) = Len(rows)
<1>1. Len(rows) \in Nat /\ DOMAIN rows = 1..Len(rows) /\ \A k \in 1..Len(rows) : rows[k] \in Rows
  BY LenProperties
<1>2. ASSUME NEW k \in 1..Len(rows) PROVE [rows[k] EXCEPT !.hidden = "always"] \in Rows
  BY <1>1 DEF Rows
<1>3. Readable(rows, unread) \in [1..Len(rows) -> Rows]
  BY <1>1, <1>2 DEF Readable
<1> QED
  BY <1>1, <1>3, SequenceOf

\* Nothing is passed over: all rows are read.
LEMMA AllReadable ==
  ASSUME NEW rows \in Seq(Rows)
  PROVE  Readable(rows, {}) = rows
<1>1. rows = [k \in DOMAIN rows |-> rows[k]]
  BY LenProperties
<1> QED
  BY <1>1 DEF Readable

\* The entries of a directory of the working tree.
LEMMA ListDirectoryFollows ==
  ASSUME NEW rows \in Seq(Rows), NEW unread, NEW rules \in BOOLEAN, NEW offset \in Nat, NEW limit \in Nat \ {0},
         WalkSlack \in Nat \ {0}
  PROVE  Follows(listDirectory(rows, unread, rules, offset, limit), Visible(Readable(rows, unread), rules), offset, 0)
<1> DEFINE all == Visible(Readable(rows, unread), rules)
           cap == offset + limit + WalkSlack
           walked == Slice(all, 0, cap)
           last == offset + limit
           part == Slice(walked, offset, last)
           page == listDirectory(rows, unread, rules, offset, limit)
           zero == 0
<1>1. all \in Seq(Nat) /\ Len(all) \in Nat
  BY ReadableRows, ShownNumbers
<1>2. /\ page.rows = part /\ page.truncated = FALSE
      /\ page.next = (IF offset + Len(part) < Len(walked) THEN offset + Len(part) ELSE NoPage)
  BY DEF listDirectory, Page, NextIf
<1>3. last \in Int /\ last = offset + limit /\ cap \in Int /\ cap > last /\ zero \in Nat /\ zero = 0
  OBVIOUS
<1> HIDE DEF page, all, last, cap, zero
<1>4. /\ walked \in Seq(Nat)
      /\ Len(walked) = (IF cap <= Len(all) THEN cap ELSE Len(all))
      /\ \A i \in 1..Len(walked) : walked[i] = all[i]
  <2>1. /\ Slice(all, zero, cap) \in Seq(Nat)
        /\ Len(Slice(all, zero, cap)) = LET n == IF cap <= Len(all) THEN cap ELSE Len(all) IN IF zero < n THEN n - zero ELSE 0
        /\ \A i \in 1..Len(Slice(all, zero, cap)) : Slice(all, zero, cap)[i] = all[zero + i]
    <3>1. IsPart(Slice(all, zero, cap), Nat, all, zero, cap)
      BY <1>1, <1>3, SliceFacts
    <3> QED BY <3>1 DEF IsPart
  <2> QED BY <1>1, <1>3, <2>1
<1> HIDE DEF walked
<1>5. /\ part \in Seq(Nat)
      /\ Len(part) = LET n == IF last <= Len(walked) THEN last ELSE Len(walked) IN IF offset < n THEN n - offset ELSE 0
      /\ \A i \in 1..Len(part) : part[i] = walked[offset + i]
  <2>1. IsPart(part, Nat, walked, offset, last)
    BY <1>3, <1>4, SliceFacts
  <2> HIDE DEF part
  <2> QED BY <2>1 DEF IsPart
<1> HIDE DEF part
<1>6. Len(walked) \in Nat /\ Len(part) \in Nat /\ Len(walked) <= Len(all)
  BY <1>1, <1>4, <1>5, LenProperties
<1>7. ASSUME NEW i \in 1..Len(part) PROVE part[i] = all[offset + i]
  <2>1. offset + i \in 1..Len(walked)
    BY <1>3, <1>5, <1>6
  <2> QED BY <1>4, <1>5, <2>1
<1>8. /\ page.next \in Int
      /\ page.next # NoPage => page.next = 0 + offset + Len(part) /\ Len(part) > 0 /\ offset + Len(part) < Len(all)
  BY <1>1, <1>2, <1>3, <1>5, <1>6 DEF NoPage
<1>9. offset = 0 \/ offset < Len(all) => /\ offset + Len(part) <= Len(all)
                                         /\ page.next = NoPage => offset + Len(part) = Len(all)
  BY <1>1, <1>2, <1>3, <1>4, <1>5, <1>6 DEF NoPage
<1>10. Follows(page, all, offset, 0)
  BY <1>2, <1>5, <1>7, <1>8, <1>9 DEF Follows, Continues, Resumes, Brings, Ends
<1> QED
  BY <1>10 DEF page, all

\* The commits of a branch.
LEMMA HistoryPageFollows ==
  ASSUME NEW S, NEW rows \in Seq(S), NEW offset \in Nat, NEW limit \in Nat \ {0}, ScanRows \in Nat \ {0}
  PROVE  Follows(historyPage(rows, offset, limit), Span(1, Len(rows)), offset, 0)
<1> DEFINE N == Len(rows)
           raw == Min({N, ScanRows + 1, offset + limit + 1})
           entries == Min({raw, ScanRows})
           first == offset + 1
           last == Min({offset + limit, entries})
           asked == Span(first, last)
           kept == Fitting(asked, Jsons(rows, asked), AnswerBytes)
           page == historyPage(rows, offset, limit)
<1>1. N \in Nat /\ first \in Nat /\ first = offset + 1
  BY LenProperties
<1>2. /\ page.rows = kept /\ page.truncated = (Len(kept) < Len(asked) \/ raw > ScanRows)
      /\ page.next = (IF offset + Len(kept) < entries THEN offset + Len(kept) ELSE NoPage)
  BY DEF historyPage, Page, NextIf
<1> HIDE DEF page, N
<1>3. /\ raw \in {N, ScanRows + 1, offset + limit + 1}
      /\ raw <= N /\ raw <= ScanRows + 1 /\ raw <= offset + limit + 1
  <2> DEFINE scan == ScanRows + 1
             behind == offset + limit + 1
  <2>1. N \in Int /\ scan \in Int /\ behind \in Int
    BY <1>1
  <2> HIDE DEF scan, behind
  <2>2. LET least == Min({N, scan, behind})
        IN  least \in {N, scan, behind} /\ least <= N /\ least <= scan /\ least <= behind
    BY <2>1, MinOfThree
  <2> QED BY <2>2 DEF scan, behind
<1> HIDE DEF raw
<1>4. raw \in Int /\ entries = IF raw <= ScanRows THEN raw ELSE ScanRows
  BY <1>1, <1>3, MinOfTwo
<1> HIDE DEF entries
<1>5. entries \in Int /\ last = IF offset + limit <= entries THEN offset + limit ELSE entries
  BY <1>4, MinOfTwo
<1>6. last \in Int
  BY <1>5
<1> HIDE DEF last, first
<1>7. /\ asked \in Seq(Nat) /\ Len(asked) = IF first <= last THEN last - first + 1 ELSE 0
      /\ \A i \in 1..Len(asked) : asked[i] = first + i - 1
  BY <1>1, <1>6, SpanFacts
<1> HIDE DEF asked
<1>8. /\ kept \in Seq(Nat) /\ Len(kept) <= Len(asked) /\ (Len(asked) > 0 => Len(kept) > 0)
      /\ \A i \in 1..Len(kept) : kept[i] = asked[i]
  BY <1>7, FittingTakes
<1> HIDE DEF kept
<1>9. Len(kept) \in Nat /\ Len(asked) \in Nat
  BY <1>7, <1>8, LenProperties
<1>10. /\ Len(Span(1, N)) = N /\ \A i \in 1..N : Span(1, N)[i] = i
  BY <1>1, WholeSpan
<1>11. offset + Len(kept) <= N \/ Len(kept) = 0
  BY <1>1, <1>3, <1>4, <1>5, <1>6, <1>7, <1>8, <1>9
<1>12. ASSUME NEW i \in 1..Len(kept) PROVE kept[i] = Span(1, N)[offset + i]
  <2>1. kept[i] = offset + i /\ offset + i \in 1..N
    BY <1>1, <1>7, <1>8, <1>9, <1>11
  <2> QED BY <1>10, <2>1
<1>13. page.next # NoPage => page.next = offset + Len(kept) /\ Len(kept) > 0 /\ offset + Len(kept) < N
  BY <1>1, <1>2, <1>3, <1>4, <1>5, <1>7, <1>8, <1>9
<1>14. ASSUME offset = 0 \/ offset < N, page.next = NoPage, ~ page.truncated PROVE offset + Len(kept) = N
  <2>1. ~ (Len(kept) < Len(asked)) /\ ~ (raw > ScanRows)
    BY <1>2, <1>14
  <2>2. raw <= ScanRows /\ Len(kept) = Len(asked)
    BY <1>4, <1>8, <1>9, <2>1
  <2>3. entries = raw /\ offset + Len(kept) >= entries
    BY <1>2, <1>4, <1>9, <1>14, <2>2 DEF NoPage
  <2> QED BY <1>1, <1>3, <1>4, <1>5, <1>7, <1>9, <1>11, <1>14, <2>2, <2>3
<1>15. page.rows \in Seq(Nat) /\ page.truncated \in BOOLEAN /\ page.next \in Int
  BY <1>2, <1>8, <1>9 DEF NoPage
<1>16. Follows(page, Span(1, N), offset, 0)
  BY <1>1, <1>2, <1>9, <1>10, <1>11, <1>12, <1>13, <1>14, <1>15 DEF Follows, Continues, Resumes, Brings, Ends
<1> QED
  BY <1>16 DEF page, N

\* p is the first rows of s, at most so many.
IsStart(p, S, s, many) ==
  /\ p \in Seq(S) /\ Len(p) = (IF many <= Len(s) THEN many ELSE Len(s))
  /\ \A i \in 1..Len(p) : p[i] = s[i]

\* A slice from the beginning is.
LEMMA FirstPart ==
  ASSUME NEW S, NEW s \in Seq(S), NEW to \in Nat
  PROVE  IsStart(Slice(s, 0, to), S, s, to)
<1> DEFINE zero == 0
<1>1. zero \in Nat /\ to \in Int /\ Len(s) \in Nat
  BY LenProperties
<1> HIDE DEF zero
<1>2. /\ Slice(s, zero, to) \in Seq(S)
      /\ Len(Slice(s, zero, to)) = LET n == IF to <= Len(s) THEN to ELSE Len(s) IN IF zero < n THEN n - zero ELSE 0
      /\ \A i \in 1..Len(Slice(s, zero, to)) : Slice(s, zero, to)[i] = s[zero + i]
  <2>1. IsPart(Slice(s, zero, to), S, s, zero, to)
    BY <1>1, SliceFacts
  <2> QED BY <2>1 DEF IsPart
<1>3. zero = 0
  BY DEF zero
<1>4. Len(Slice(s, zero, to)) \in Nat
  BY <1>2, LenProperties
<1>5. \A i \in 1..Len(Slice(s, zero, to)) : zero + i = i
  BY <1>3, <1>4
<1> QED
  BY <1>1, <1>2, <1>3, <1>5 DEF IsStart

\* p is what s has from an offset on, within a limit.
IsPage(p, S, s, offset, limit) ==
  /\ p \in Seq(S) /\ Len(p) \in Nat /\ Len(p) <= limit
  /\ offset <= Len(s) => offset + Len(p) <= Len(s)
  /\ offset >= Len(s) => Len(p) = 0
  /\ offset < Len(s) /\ limit > 0 => Len(p) > 0
  /\ offset <= Len(s) /\ Len(p) < limit => offset + Len(p) = Len(s)
  /\ \A i \in 1..Len(p) : p[i] = s[offset + i]

\* A slice of that length is.
LEMMA PartFrom ==
  ASSUME NEW S, NEW s \in Seq(S), NEW offset \in Nat, NEW limit \in Nat
  PROVE  IsPage(Slice(s, offset, offset + limit), S, s, offset, limit)
<1> DEFINE last == offset + limit
<1>1. last \in Int /\ Len(s) \in Nat
  BY LenProperties
<1>2. last = offset + limit
  OBVIOUS
<1> HIDE DEF last
<1>3. /\ Slice(s, offset, last) \in Seq(S)
      /\ Len(Slice(s, offset, last)) = LET n == IF last <= Len(s) THEN last ELSE Len(s) IN IF offset < n THEN n - offset ELSE 0
      /\ \A i \in 1..Len(Slice(s, offset, last)) : Slice(s, offset, last)[i] = s[offset + i]
  <2>1. IsPart(Slice(s, offset, last), S, s, offset, last)
    BY <1>1, SliceFacts
  <2> QED BY <2>1 DEF IsPart
<1> QED
  BY <1>1, <1>2, <1>3 DEF IsPage

\* The summaries of the changed files.
LEMMA SummariesFollow ==
  ASSUME NEW S, NEW rows \in Seq(S), NEW rules \in BOOLEAN, NEW offset \in Nat, NEW limit \in Nat \ {0},
         ScanRows \in Nat \ {0}
  PROVE  Follows(paginateGitSummaries(rows, rules, offset, limit), Visible(rows, rules), offset, 0)
<1> DEFINE all == Visible(rows, rules)
           changes == Slice(all, 0, ScanRows)
           asked == Slice(changes, offset, offset + limit)
           kept == Fitting(asked, Jsons(rows, asked), AnswerBytes)
           page == paginateGitSummaries(rows, rules, offset, limit)
<1>1. all \in Seq(Nat) /\ Len(all) \in Nat
  BY ShownNumbers
<1>2. /\ page.rows = kept /\ page.truncated = (Len(kept) < Len(asked) \/ Len(all) > ScanRows)
      /\ page.next = (IF offset + Len(kept) < Len(changes) THEN offset + Len(kept) ELSE NoPage)
  BY DEF paginateGitSummaries, Page, NextIf
<1> HIDE DEF page, all
<1>3. /\ changes \in Seq(Nat) /\ Len(changes) = (IF ScanRows <= Len(all) THEN ScanRows ELSE Len(all))
      /\ \A i \in 1..Len(changes) : changes[i] = all[i]
  <2>1. ScanRows \in Nat
    OBVIOUS
  <2>2. IsStart(changes, Nat, all, ScanRows)
    BY <1>1, <2>1, FirstPart
  <2> HIDE DEF changes
  <2> QED BY <2>2 DEF IsStart
<1>4. Len(changes) \in Nat /\ Len(changes) <= Len(all)
  BY <1>1, <1>3
<1> HIDE DEF changes
<1>5. /\ asked \in Seq(Nat) /\ Len(asked) \in Nat /\ Len(asked) <= limit
      /\ offset <= Len(changes) => offset + Len(asked) <= Len(changes)
      /\ offset >= Len(changes) => Len(asked) = 0
      /\ offset < Len(changes) /\ limit > 0 => Len(asked) > 0
      /\ offset <= Len(changes) /\ Len(asked) < limit => offset + Len(asked) = Len(changes)
      /\ \A i \in 1..Len(asked) : asked[i] = changes[offset + i]
  <2>1. limit \in Nat
    OBVIOUS
  <2>2. IsPage(asked, Nat, changes, offset, limit)
    BY <1>3, <2>1, PartFrom
  <2> HIDE DEF asked
  <2> QED BY <2>2 DEF IsPage
<1> HIDE DEF asked
<1>6. /\ kept \in Seq(Nat) /\ Len(kept) <= Len(asked) /\ (Len(asked) > 0 => Len(kept) > 0)
      /\ \A i \in 1..Len(kept) : kept[i] = asked[i]
  BY <1>5, FittingTakes, SMTT(20)
<1> HIDE DEF kept
<1>7. Len(kept) \in Nat
  BY <1>6, LenProperties
<1>8. offset + Len(kept) <= Len(changes) \/ Len(kept) = 0
  BY <1>4, <1>5, <1>6, <1>7
<1>9. ASSUME NEW i \in 1..Len(kept) PROVE kept[i] = all[offset + i]
  <2>1. i \in 1..Len(asked)
    BY <1>5, <1>6, <1>7
  <2>2. offset + i \in 1..Len(changes)
    BY <1>4, <1>7, <1>8
  <2> QED BY <1>3, <1>5, <1>6, <2>1, <2>2
<1>10. /\ page.next \in Int
       /\ page.next # NoPage => page.next = 0 + offset + Len(kept) /\ Len(kept) > 0 /\ offset + Len(kept) < Len(all)
  BY <1>1, <1>2, <1>4, <1>5, <1>6, <1>7 DEF NoPage
<1>11. offset = 0 \/ offset < Len(all) => offset + Len(kept) <= Len(all)
  BY <1>1, <1>4, <1>7, <1>8
<1>12. ASSUME offset = 0 \/ offset < Len(all), page.next = NoPage, ~ page.truncated
       PROVE  offset + Len(kept) = Len(all)
  <2>1. ~ (Len(kept) < Len(asked)) /\ ~ (Len(all) > ScanRows)
    BY <1>2, <1>12
  <2>2. Len(kept) = Len(asked) /\ Len(changes) = Len(all)
    BY <1>1, <1>3, <1>5, <1>6, <1>7, <2>1
  <2>3. offset + Len(kept) >= Len(changes)
    BY <1>2, <1>4, <1>7, <1>12 DEF NoPage
  <2> QED BY <1>1, <1>7, <1>8, <1>11, <1>12, <2>2, <2>3
<1>13. page.rows \in Seq(Nat) /\ page.truncated \in BOOLEAN
  BY <1>2, <1>6
<1>14. Follows(page, all, offset, 0)
  BY <1>2, <1>9, <1>10, <1>11, <1>12, <1>13 DEF Follows, Continues, Resumes, Brings, Ends
<1> QED
  BY <1>14 DEF page, all

\* The bytes of a diff, wherever its lines end.
LEMMA DiffPageFollows ==
  ASSUME NEW total \in Nat, NEW ends \in SUBSET Nat, NEW offset \in Nat, NEW maxBytes \in Nat \ {0}
  PROVE  Follows(diffPage(total, ends, offset, maxBytes), Span(1, total), offset, 0)
<1> DEFINE cut == Min({total, offset + maxBytes})
           whole == {e \in ends : offset + 1 < e /\ e <= cut}
           end == IF cut < total /\ whole # {} THEN Max(whole) ELSE cut
           first == offset + 1
           bytes == Span(first, end)
           page == diffPage(total, ends, offset, maxBytes)
<1>1. /\ page.rows = bytes /\ page.truncated = FALSE
      /\ page.next = (IF end < total THEN end ELSE NoPage)
  BY DEF diffPage, Page, NextIf
<1> HIDE DEF page
<1>2. cut = IF total <= offset + maxBytes THEN total ELSE offset + maxBytes
  BY MinOfTwo
<1>3. cut \in Nat /\ cut <= total /\ (cut < total => cut > offset)
  BY <1>2
<1> HIDE DEF cut
<1>4. whole # {} => Max(whole) \in whole
  <2> SUFFICES ASSUME whole # {} PROVE Max(whole) \in whole
    OBVIOUS
  <2>1. ASSUME NEW e \in whole PROVE e \in 0..cut
    <3>1. e \in Nat /\ e <= cut
      OBVIOUS
    <3> QED BY <1>3, <3>1
  <2>2. whole \in SUBSET (0..cut)
    BY <2>1
  <2> HIDE DEF whole
  <2> QED BY <1>3, <2>2, MaxUpTo
<1>5. whole # {} => Max(whole) \in Nat /\ Max(whole) > offset + 1 /\ Max(whole) <= cut
  BY <1>4
<1> HIDE DEF whole
<1>6. end \in Nat /\ end <= total /\ (end < total => end > offset) /\ (end = total \/ end > offset)
  BY <1>3, <1>5
<1> HIDE DEF end
<1>7. first \in Nat /\ first = offset + 1
  OBVIOUS
<1> HIDE DEF first
<1>8. end \in Int
  BY <1>6
<1>9. /\ bytes \in Seq(Nat) /\ Len(bytes) = IF first <= end THEN end - first + 1 ELSE 0
      /\ \A i \in 1..Len(bytes) : bytes[i] = first + i - 1
  BY <1>8, <1>7, SpanFacts
<1> HIDE DEF bytes
<1>10. Len(bytes) \in Nat /\ (end >= offset => offset + Len(bytes) = end) /\ (end < offset => Len(bytes) = 0)
  BY <1>6, <1>7, <1>9
<1>11. /\ Len(Span(1, total)) = total /\ \A i \in 1..total : Span(1, total)[i] = i
  BY WholeSpan
<1>12. ASSUME offset = 0 \/ offset < total, NEW i \in 1..Len(bytes) PROVE bytes[i] = Span(1, total)[offset + i]
  <2>1. bytes[i] = offset + i /\ offset + i \in 1..total
    BY <1>6, <1>7, <1>9, <1>10, <1>12
  <2> QED BY <1>11, <2>1
<1>13. /\ page.next \in Int
       /\ page.next # NoPage => page.next = 0 + offset + Len(bytes) /\ Len(bytes) > 0 /\ offset + Len(bytes) < total
  BY <1>1, <1>6, <1>10 DEF NoPage
<1>14. offset = 0 \/ offset < total => /\ offset + Len(bytes) <= total
                                       /\ page.next = NoPage => offset + Len(bytes) = total
  BY <1>1, <1>6, <1>10 DEF NoPage
<1>15. Follows(page, Span(1, total), offset, 0)
  BY <1>1, <1>9, <1>11, <1>12, <1>13, <1>14 DEF Follows, Continues, Resumes, Brings, Ends
<1> QED
  BY <1>15 DEF page

\* page is the answer of a search that found these rows, and more when it was cut.
IsResult(page, R, found, offset, limit, cut) ==
  LET count == Len(page.rows)
  IN  /\ page.rows \in Seq(R) /\ count \in Nat /\ page.truncated \in BOOLEAN /\ page.next \in Int
      /\ offset + count <= Len(found) \/ count = 0
      /\ \A i \in 1..count : page.rows[i] = found[offset + i]
      /\ page.next # NoPage => page.next = offset + count /\ count > 0 /\ offset + count < Len(found)
      /\ page.next = NoPage /\ ~ page.truncated => ~ cut /\ Len(found) <= offset + limit
      /\ page.next = NoPage /\ ~ page.truncated /\ offset <= Len(found) => offset + count = Len(found)

\* What is returned of the candidates that an engine found.
LEMMA SearchResult ==
  ASSUME NEW R, NEW found \in Seq(R), NEW rows, NEW offset \in Nat, NEW limit \in Nat \ {0}, NEW cut \in BOOLEAN
  PROVE  IsResult(buildSearchResult(rows, found, offset, limit, cut), R, found, offset, limit, cut)
<1> DEFINE asked == Slice(found, offset, offset + limit)
           kept == Fitting(asked, Jsons(rows, asked), AnswerBytes)
           reached == Len(found) > offset + limit
           more == reached \/ Len(kept) < Len(asked)
           unknown == cut /\ ~ reached
           page == buildSearchResult(rows, found, offset, limit, cut)
<1>1. /\ page.rows = kept /\ page.truncated = (more \/ unknown)
      /\ page.next = (IF more /\ ~ unknown THEN offset + Len(kept) ELSE NoPage)
  BY DEF buildSearchResult, Page, NextIf
<1> HIDE DEF page
<1>2. Len(found) \in Nat
  BY LenProperties
<1>3. /\ asked \in Seq(R) /\ Len(asked) \in Nat /\ Len(asked) <= limit
      /\ offset <= Len(found) => offset + Len(asked) <= Len(found)
      /\ offset >= Len(found) => Len(asked) = 0
      /\ offset < Len(found) /\ limit > 0 => Len(asked) > 0
      /\ offset <= Len(found) /\ Len(asked) < limit => offset + Len(asked) = Len(found)
      /\ \A i \in 1..Len(asked) : asked[i] = found[offset + i]
  <2>1. limit \in Nat
    OBVIOUS
  <2>2. IsPage(asked, R, found, offset, limit)
    BY <2>1, PartFrom
  <2> HIDE DEF asked
  <2> QED BY <2>2 DEF IsPage
<1> HIDE DEF asked
<1>4. /\ kept \in Seq(R) /\ Len(kept) <= Len(asked) /\ (Len(asked) > 0 => Len(kept) > 0)
      /\ \A i \in 1..Len(kept) : kept[i] = asked[i]
  BY <1>3, FittingTakes
<1> HIDE DEF kept
<1>5. Len(kept) \in Nat
  BY <1>4, LenProperties
<1>6. offset + Len(kept) <= Len(found) \/ Len(kept) = 0
  BY <1>2, <1>3, <1>4, <1>5
<1>7. ASSUME NEW i \in 1..Len(kept) PROVE kept[i] = found[offset + i]
  <2>1. i \in 1..Len(asked)
    BY <1>3, <1>4, <1>5
  <2> QED BY <1>3, <1>4, <2>1
<1>8. ASSUME page.next # NoPage
      PROVE  page.next = offset + Len(kept) /\ Len(kept) > 0 /\ offset + Len(kept) < Len(found)
  <2>1. more /\ page.next = offset + Len(kept)
    BY <1>1, <1>8
  <2>2. CASE reached
    <3>1. offset < Len(found) /\ offset + limit < Len(found)
      BY <1>2, <2>2
    <3> QED BY <1>2, <1>3, <1>4, <1>5, <2>1, <3>1
  <2>3. CASE Len(kept) < Len(asked)
    BY <1>2, <1>3, <1>4, <1>5, <2>1, <2>3
  <2> QED BY <2>1, <2>2, <2>3
<1>9. page.next \in Int
  BY <1>1, <1>5 DEF NoPage
<1>10. ASSUME page.next = NoPage, ~ page.truncated
       PROVE  ~ cut /\ Len(found) <= offset + limit /\ (offset <= Len(found) => offset + Len(kept) = Len(found))
  <2>1. ~ cut /\ ~ reached /\ ~ (Len(kept) < Len(asked))
    BY <1>1, <1>10
  <2>2. Len(kept) = Len(asked) /\ Len(found) <= offset + limit
    BY <1>2, <1>3, <1>4, <1>5, <2>1
  <2> QED BY <1>2, <1>3, <1>5, <2>1, <2>2
<1>11. page.truncated \in BOOLEAN
  BY <1>1
<1>12. page.rows = kept
  BY <1>1
<1>13. IsResult(page, R, found, offset, limit, cut)
  BY <1>4, <1>5, <1>6, <1>7, <1>8, <1>9, <1>10, <1>11, <1>12 DEF IsResult
<1> QED
  BY <1>13 DEF page

\* What is returned of the matches that an engine found among the first rows continues what all the
\* rows show; when no stop was noticed and nothing was missed, the last page leaves nothing.
LEMMA SearchContinues ==
  ASSUME NEW S, NEW rows \in Seq(S), NEW rules \in BOOLEAN, NEW offset \in Nat, NEW limit \in Nat \ {0},
         NEW scanned \in 0..Len(rows), NEW searched, NEW cut \in BOOLEAN
  PROVE  LET found == Slice(Visible(SubSeq(rows, 1, scanned), rules), 0, offset + limit + 1)
             page  == buildSearchResult(searched, found, offset, limit, cut)
         IN  /\ Continues(page, Visible(rows, rules), offset, 0)
             /\ (~ cut => scanned = Len(rows)) => Ends(page, Visible(rows, rules), offset)
<1> DEFINE R == 1..Len(rows)
           all == Visible(rows, rules)
           part == Visible(SubSeq(rows, 1, scanned), rules)
           most == offset + limit + 1
           found == Slice(part, 0, most)
           page == buildSearchResult(searched, found, offset, limit, cut)
           count == Len(page.rows)
<1>1. all \in Seq(Nat) /\ Len(all) \in Nat /\ Len(rows) \in Nat
  BY ShownNumbers, LenProperties
<1>2. /\ part \in Seq(R) /\ Len(part) <= Len(all)
      /\ \A i \in 1..Len(part) : part[i] = all[i]
      /\ scanned = Len(rows) => part = all
  BY ShownOfPart
<1>3. most \in Nat /\ most = offset + limit + 1
  OBVIOUS
<1> HIDE DEF all, part, most, R
<1>4. /\ found \in Seq(R) /\ Len(found) = (IF most <= Len(part) THEN most ELSE Len(part))
      /\ \A i \in 1..Len(found) : found[i] = part[i]
  <2>1. IsStart(found, R, part, most)
    BY <1>2, <1>3, FirstPart
  <2> HIDE DEF found
  <2> QED BY <2>1 DEF IsStart
<1>5. Len(part) \in Nat /\ Len(found) \in Nat
  BY <1>2, <1>4, LenProperties
<1>6. Len(found) <= Len(part)
  BY <1>3, <1>4, <1>5
<1> HIDE DEF found
<1>7. /\ page.rows \in Seq(R) /\ count \in Nat /\ page.truncated \in BOOLEAN /\ page.next \in Int
      /\ offset + count <= Len(found) \/ count = 0
      /\ \A i \in 1..count : page.rows[i] = found[offset + i]
      /\ page.next # NoPage => page.next = offset + count /\ count > 0 /\ offset + count < Len(found)
      /\ page.next = NoPage /\ ~ page.truncated =>
           ~ cut /\ Len(found) <= offset + limit /\ (offset <= Len(found) => offset + count = Len(found))
  <2>1. found \in Seq(R)
    BY <1>3, <1>4
  <2>2. IsResult(page, R, found, offset, limit, cut)
    BY <2>1, SearchResult
  <2> HIDE DEF page
  <2> QED BY <2>2 DEF IsResult
<1> HIDE DEF page
<1>8. page.rows \in Seq(Nat)
  <2> DEFINE picked == page.rows
  <2>1. picked \in Seq(R) /\ Len(picked) \in Nat
    BY <1>7
  <2> HIDE DEF picked
  <2>2. picked \in [1..Len(picked) -> R]
    BY <2>1, LenProperties
  <2>3. picked \in [1..Len(picked) -> Nat]
    BY <1>1, <2>2 DEF R
  <2>4. picked \in Seq(Nat)
    BY <2>1, <2>3, SeqDef
  <2> QED BY <2>4 DEF picked
<1>9. ASSUME NEW i \in 1..count PROVE page.rows[i] = all[offset + i]
  <2>1. offset + i \in 1..Len(found)
    <3>1. count \in Nat /\ (offset + count <= Len(found) \/ count = 0)
      BY <1>7
    <3> QED BY <1>5, <3>1
  <2>2. offset + i \in 1..Len(part)
    BY <1>5, <1>6, <2>1
  <2> QED BY <1>2, <1>4, <1>7, <2>1, <2>2
<1>10. page.next # NoPage => page.next = 0 + offset + count /\ count > 0 /\ offset + count < Len(all)
  BY <1>1, <1>2, <1>5, <1>6, <1>7
<1>11. offset = 0 \/ offset < Len(all) => offset + count <= Len(all)
  BY <1>1, <1>2, <1>5, <1>6, <1>7
<1>12. ASSUME offset = 0 \/ offset < Len(all), page.next = NoPage, ~ page.truncated, ~ cut => scanned = Len(rows)
       PROVE  offset + count = Len(all)
  <2>1. ~ cut /\ Len(found) <= offset + limit /\ (offset <= Len(found) => offset + count = Len(found))
    BY <1>7, <1>12
  <2>2. part = all
    BY <1>2, <1>12, <2>1
  <2>3. Len(found) = Len(all)
    BY <1>3, <1>4, <1>5, <2>1, <2>2
  <2> QED BY <1>1, <1>12, <2>1, <2>3
<1>13. Continues(page, all, offset, 0) /\ ((~ cut => scanned = Len(rows)) => Ends(page, all, offset))
  BY <1>7, <1>8, <1>9, <1>10, <1>11, <1>12 DEF Continues, Resumes, Brings, Ends
<1> QED
  BY <1>13 DEF page, found, most, part, all

\* The matches that an engine found before it stopped.
LEMMA SearchFollows ==
  ASSUME NEW S, NEW rows \in Seq(S), NEW rules \in BOOLEAN, NEW offset \in Nat, NEW limit \in Nat \ {0},
         NEW scanned \in 0..Len(rows)
  PROVE  Follows(search(rows, rules, offset, limit, scanned), Visible(rows, rules), offset, 0)
<1> DEFINE cut == scanned < Len(rows)
<1>1. cut \in BOOLEAN /\ (~ cut => scanned = Len(rows))
  BY LenProperties
<1>2. search(rows, rules, offset, limit, scanned) =
        buildSearchResult(rows, Slice(Visible(SubSeq(rows, 1, scanned), rules), 0, offset + limit + 1),
                          offset, limit, cut)
  BY DEF search
<1> HIDE DEF cut
<1> QED
  BY <1>1, <1>2, SearchContinues DEF Follows

\* The matches of an engine that failed behind the first rows and was taken to have searched everything.
LEMMA FailedSearchContinues ==
  ASSUME NEW S, NEW rows \in Seq(S), NEW rules \in BOOLEAN, NEW offset \in Nat, NEW limit \in Nat \ {0},
         NEW scanned \in 0..Len(rows)
  PROVE  Continues(search(SubSeq(rows, 1, scanned), rules, offset, limit, scanned), Visible(rows, rules), offset, 0)
<1> DEFINE first == SubSeq(rows, 1, scanned)
           cut == scanned < Len(first)
<1>1. SubSeq(first, 1, scanned) = first /\ cut \in BOOLEAN
  OBVIOUS
<1>2. search(first, rules, offset, limit, scanned) =
        buildSearchResult(first, Slice(Visible(first, rules), 0, offset + limit + 1), offset, limit, cut)
  BY <1>1 DEF search
<1> HIDE DEF cut
<1>3. Continues(buildSearchResult(first, Slice(Visible(first, rules), 0, offset + limit + 1), offset, limit, cut),
                Visible(rows, rules), offset, 0)
  BY <1>1, SearchContinues
<1> QED
  BY <1>2, <1>3

\* The sizes of some of the rows of a list.
LEMMA SizesOfRows ==
  ASSUME NEW rows \in Seq(Rows), NEW picked \in Seq(1..Len(rows))
  PROVE  /\ Sizes(rows, picked) \in Seq(Nat) /\ Len(Sizes(rows, picked)) = Len(picked)
         /\ AnswerBytes \in Nat => Jsons(rows, picked) \in Seq(Nat)
<1>1. Len(picked) \in Nat /\ DOMAIN picked = 1..Len(picked) /\ \A k \in 1..Len(picked) : picked[k] \in 1..Len(rows)
  BY LenProperties
<1>2. \A i \in 1..Len(rows) : rows[i] \in Rows
  BY LenProperties
<1>3. \A k \in 1..Len(picked) : /\ rows[picked[k]].size \in Nat
                                /\ AnswerBytes \in Nat => rows[picked[k]].json \in Nat
  BY <1>1, <1>2 DEF Rows
<1>4. Sizes(rows, picked) \in [1..Len(picked) -> Nat]
  <2>1. Sizes(rows, picked) = [k \in 1..Len(picked) |-> rows[picked[k]].size]
    BY <1>1 DEF Sizes
  <2> QED BY <1>3, <2>1
<1>5. Sizes(rows, picked) \in Seq(Nat) /\ Len(Sizes(rows, picked)) = Len(picked)
  BY <1>1, <1>4, SequenceOf
<1>6. ASSUME AnswerBytes \in Nat PROVE Jsons(rows, picked) \in Seq(Nat)
  <2>1. Jsons(rows, picked) \in [1..Len(picked) -> Nat]
    <3>1. Jsons(rows, picked) = [k \in 1..Len(picked) |-> rows[picked[k]].json]
      BY <1>1 DEF Jsons
    <3> QED BY <1>3, <1>6, <3>1
  <2> QED BY <1>1, <2>1, SequenceOf
<1> QED
  BY <1>5, <1>6

\* The diff of the batches is the diff of the changes that are shown, and its lines end somewhere.
LEMMA DiffFacts ==
  ASSUME NEW rows \in Seq(Rows), NEW rules \in BOOLEAN, BatchRows \in Nat \ {0}
  PROVE  LET diff == DiffOf(rows, rules)
         IN  Total(Sizes(rows, diff)) \in Nat /\ LineEnds(rows, diff) \in SUBSET Nat
<1> DEFINE R == 1..Len(rows)
           diff == DiffOf(rows, rules)
           shown == Visible(rows, rules)
<1>1. PICK f : Listing(f, rows, rules) /\ shown = f[Len(rows)]
  BY ShownIsAListing
<1>2. Len(rows) \in Nat
  BY LenProperties
<1>3. shown \in Seq(R)
  BY <1>1, <1>2 DEF Listing
<1>4. diff = shown
  <2> HIDE DEF R, shown
  <2>1. FlattenSeq(chunkPaths(shown)) = shown
    BY <1>3, BatchesJoin
  <2> QED BY <2>1 DEF DiffOf, shown
<1> HIDE DEF diff, shown
<1>5. Total(Sizes(rows, diff)) \in Nat
  <2>1. Sizes(rows, diff) \in Seq(Nat)
    BY <1>3, <1>4, SizesOfRows
  <2> QED BY <2>1, TotalIsNatural
<1>6. ASSUME NEW k \in DOMAIN diff PROVE Total(Sizes(rows, Slice(diff, 0, k))) \in Nat
  <2> DEFINE first == Slice(diff, 0, k)
  <2>1. k \in Nat
    BY <1>3, <1>4, LenProperties
  <2>2. first \in Seq(R)
    <3> HIDE DEF R
    <3>1. IsStart(first, R, diff, k)
      BY <1>3, <1>4, <2>1, FirstPart
    <3> HIDE DEF first
    <3> QED BY <3>1 DEF IsStart
  <2> HIDE DEF first
  <2>3. Sizes(rows, first) \in Seq(Nat)
    BY <2>2, SizesOfRows
  <2>4. Total(Sizes(rows, first)) \in Nat
    BY <2>3, TotalIsNatural
  <2> QED BY <2>4 DEF first
<1>7. LineEnds(rows, diff) \in SUBSET Nat
  BY <1>6 DEF LineEnds
<1> QED
  BY <1>5, <1>7 DEF diff

\* The one answer of a search at a commit.
LEMMA SearchSnapshotFollows ==
  ASSUME NEW rows \in Seq(Rows), NEW rules \in BOOLEAN, NEW limit \in Nat \ {0}, SearchBytes \in Nat \ {0}
  PROVE  /\ Follows(searchSnapshot(rows, rules, limit), Visible(rows, rules), 0, 0)
         /\ searchSnapshot(rows, rules, limit).next = NoPage
<1> DEFINE all == Visible(rows, rules)
           read == {n \in 0..Len(rows) : Total(Sizes(rows, Span(1, n))) <= SearchBytes}
           most == Max(read)
           R == 1..Len(rows)
           found == Visible(SubSeq(rows, 1, most), rules)
           part == Slice(found, 0, limit)
           page == searchSnapshot(rows, rules, limit)
<1>1. /\ page.rows = part /\ page.next = NoPage
      /\ page.truncated = (Len(found) >= limit \/ most < Len(rows))
  BY DEF searchSnapshot, Page
<1> HIDE DEF page
<1>2. Len(rows) \in Nat /\ all \in Seq(Nat) /\ Len(all) \in Nat
  BY ShownNumbers, LenProperties
<1>3. 0 \in read
  <2> DEFINE none == Span(1, 0)
  <2>1. none = [k \in 1..0 |-> 1 + k - 1]
    BY DEF Span
  <2>2. none \in [1..0 -> R]
    <3>1. \A k \in 1..0 : 1 + k - 1 \in R
      OBVIOUS
    <3> QED BY <2>1, <3>1
  <2>3. none \in Seq(R) /\ Len(none) = 0
    BY <2>2, SeqDef, LenProperties
  <2> HIDE DEF none
  <2>4. Sizes(rows, none) \in Seq(Nat) /\ Len(Sizes(rows, none)) = 0
    BY <2>3, SizesOfRows
  <2>5. Total(Sizes(rows, none)) = 0
    BY <2>4, TotalIsNatural
  <2> QED BY <1>2, <2>5 DEF none
<1>4. most \in 0..Len(rows)
  <2>1. read \in SUBSET (0..Len(rows)) /\ read # {}
    BY <1>3
  <2> HIDE DEF read
  <2>2. most \in read
    BY <1>2, <2>1, MaxUpTo
  <2> QED BY <2>1, <2>2
<1> HIDE DEF most
<1>5. /\ found \in Seq(R) /\ Len(found) <= Len(all)
      /\ \A i \in 1..Len(found) : found[i] = all[i]
      /\ most = Len(rows) => found = all
  BY <1>4, ShownOfPart
<1> HIDE DEF found, all, R
<1>6. limit \in Nat
  OBVIOUS
<1>7. /\ part \in Seq(R) /\ Len(part) = (IF limit <= Len(found) THEN limit ELSE Len(found))
      /\ \A i \in 1..Len(part) : part[i] = found[i]
  <2>1. IsStart(part, R, found, limit)
    BY <1>5, <1>6, FirstPart
  <2> HIDE DEF part
  <2> QED BY <2>1 DEF IsStart
<1>8. Len(part) \in Nat /\ Len(found) \in Nat /\ Len(part) <= Len(found)
  BY <1>5, <1>6, <1>7, LenProperties
<1> HIDE DEF part
<1>9. part \in Seq(Nat)
  <2>1. part \in [1..Len(part) -> R]
    BY <1>7, LenProperties
  <2>2. part \in [1..Len(part) -> Nat]
    BY <1>2, <2>1 DEF R
  <2> QED BY <1>8, <2>2, SeqDef
<1>10. ASSUME NEW i \in 1..Len(part) PROVE part[i] = all[0 + i]
  <2>1. i \in 1..Len(found) /\ 0 + i = i
    BY <1>8
  <2> QED BY <1>5, <1>7, <2>1
<1>11. 0 + Len(part) <= Len(all)
  BY <1>2, <1>5, <1>8
<1>12. ASSUME ~ page.truncated PROVE 0 + Len(part) = Len(all)
  <2>1. ~ (Len(found) >= limit) /\ ~ (most < Len(rows))
    BY <1>1, <1>12
  <2>2. found = all
    BY <1>2, <1>4, <1>5, <2>1
  <2> QED BY <1>2, <1>7, <1>8, <2>1, <2>2
<1>13. page.truncated \in BOOLEAN
  BY <1>1
<1>14. Follows(page, all, 0, 0)
  BY <1>1, <1>9, <1>10, <1>11, <1>12, <1>13 DEF Follows, Continues, Resumes, Brings, Ends, NoPage
<1> QED
  BY <1>1, <1>14 DEF page, all

-----------------------------------------------------------------------------
(* The invariant of a read.                                                *)

\* The workspaces, their versions and their ignore rules.
World ==
  /\ now \in [Roots -> [Sources -> Versions \union {Gone}]]
  /\ custom \in SUBSET Roots /\ registered \in SUBSET Roots

\* What a client may ask for.
Asked ==
  /\ request.tool \in Tools /\ request.workspace \in Roots \union {AnyWorkspace}
  /\ request.careful \in BOOLEAN /\ request.rows \in Nat \ {0} /\ request.bytes \in Nat \ {0}
  /\ request.end = None \/ request.end \in Nat \ {0}
  /\ request.tool = "read_files" => request.bytes \in BulkBytes

\* What was received and how the read stands.
Received ==
  /\ at \in Int /\ got \in Seq(Nat) /\ flagged \in BOOLEAN
  /\ status \in {"reading", "done", "refused", "failed"}

\* A comparison under way has a workspace, its rules and the base commit, and may continue.
Compares ==
  base # <<>> =>
    /\ request.tool \in Comparisons /\ Continuation
    /\ \E w \in Roots, rules \in BOOLEAN, v \in Versions \union {Gone} : base = <<w, rules, v>>

\* What pages are cut from exists.
Exists(from) ==
  Last(from.commits) \in Versions /\ from.rules \in BOOLEAN /\ from.engine \in {"", "ripgrep", "node"}

\* The first position of the tool.
Origin == First(request.tool)

\* Where a read is: at its beginning, or behind it once a page was answered.
Position ==
  request.tool # "read_files" =>
    /\ seen = {} => got = <<>> /\ barren = {}
    /\ status = "reading" => IF seen = {} THEN at = Origin ELSE at > Origin
    /\ over = 0

\* The tools that ask for a commit again have one answer to it.
Pinned ==
  request.tool \in PinnedTools =>
    /\ \A f, g \in seen : f.commits = g.commits
    /\ status = "reading" => \A f \in seen : expected = <<>> \/ expected = f.commits
    /\ seen = {} => expected = <<>>

\* What was received begins what one version has, and is all of it at a silent end.
Joined ==
  request.tool # "read_files" =>
    \A f \in seen : seen = {f} =>
      /\ Len(got) <= Len(Everything(f)) /\ \A i \in 1..Len(got) : got[i] = Everything(f)[i]
      /\ status = "reading" => at = Origin + Len(got) /\ Len(got) < Len(Everything(f))
      /\ status = "done" /\ ~ flagged /\ ~ failed => Len(got) = Len(Everything(f))

\* A search at a commit has one answer.
OneAnswer == request.tool = "git_search" /\ status = "reading" => seen = {}

\* n files that are refused.
Refusals(n) == [k \in 1..n |-> Refusal]

\* While the files of a bulk answer are read one by one, the answer fits with the others refused.
Bulk ==
  request.tool = "read_files" =>
    /\ seen = {} /\ barren = {} /\ over <= 1
    /\ status = "reading" => /\ at \in 0..BulkFiles - 1
                             /\ Envelope + Total(got \o Refusals(BulkFiles - at)) <= request.bytes

\* All of it: the inductive invariant.
ReadInv ==
  /\ World /\ Asked /\ Received /\ Compares /\ (\A from \in seen : Exists(from)) /\ IsFiniteSet(seen)
  /\ Position /\ Pinned /\ Joined /\ OneAnswer /\ Bulk /\ EveryPageBrings

\* The first request finds the invariant.
LEMMA ReadingInitEstablishes ==
  ASSUME ReadingInit
  PROVE  ReadInv
<1>1. PICK tool \in Tools, w \in Roots \union {AnyWorkspace}, careful \in BOOLEAN,
           rows \in PageRows, end \in EndLines \union {None}, maxBytes \in PageBytes \union BulkBytes, scopes \in Scopes :
        /\ request = [tool |-> tool, workspace |-> w, careful |-> careful, rows |-> rows,
                      end |-> end, bytes |-> maxBytes, scopes |-> scopes]
        /\ tool \notin PinnedTools => careful
        /\ maxBytes \in IF tool = "read_files" THEN BulkBytes ELSE PageBytes
        /\ tool \notin {"browse_file", "read_file"} => end = None
        /\ tool \notin {"compare", "diff", "read_files"} => maxBytes = Min(PageBytes)
        /\ at = First(tool) /\ base = <<>> /\ expected = <<>> /\ got = <<>> /\ barren = {} /\ seen = {}
        /\ flagged = FALSE /\ failed = FALSE /\ over = 0 /\ status = "reading"
        /\ now = [x \in Roots |-> [s \in Sources |-> CHOOSE v \in Versions : TRUE]]
        /\ custom = {} /\ registered \in SUBSET Roots /\ moves = 0
  BY Zenon DEF ReadingInit
<1>2. request.tool = tool /\ request.workspace = w /\ request.careful = careful /\ request.rows = rows
      /\ request.bytes = maxBytes /\ request.end = end
  BY <1>1
<1>3. First(tool) \in {0, 1} /\ (tool = "read_files" => First(tool) = 0)
  BY DEF First
<1>4. World
  <2>1. (CHOOSE v \in Versions : TRUE) \in Versions
    BY ReadingBounds
  <2> QED BY <1>1, <2>1 DEF World
<1>5. Asked
  <2>1. rows \in Nat \ {0} /\ maxBytes \in Nat \ {0} /\ (end = None \/ end \in Nat \ {0})
    BY <1>1, ReadingBounds
  <2> QED BY <1>1, <1>2, <2>1 DEF Asked
<1>6. Received
  <2>1. <<>> \in Seq(Nat) /\ First(tool) \in Int
    BY <1>3
  <2> QED BY <1>1, <2>1 DEF Received
<1>7. Compares /\ (\A from \in seen : Exists(from)) /\ Position /\ Pinned /\ Joined /\ OneAnswer
  BY <1>1, <1>2 DEF Compares, Position, Pinned, Joined, OneAnswer, Origin
<1>8. IsFiniteSet(seen)
  BY <1>1, FS_EmptySet
<1>9. EveryPageBrings
  BY <1>1 DEF EveryPageBrings
<1>10. Bulk
  <2> SUFFICES ASSUME tool = "read_files" PROVE Bulk
    BY <1>2 DEF Bulk
  <2> DEFINE all == [k \in 1..BulkFiles |-> Refusal]
  <2>1. maxBytes \in BulkBytes /\ at = 0 /\ BulkFiles \in Nat \ {0} /\ Refusal \in Nat /\ Envelope \in Nat
    BY <1>1, <1>3, ReadingBounds, PagingBounds
  <2>2. serialize(all, TRUE) <= maxBytes
    BY <2>1, ReadingBounds
  <2>3. all \in Seq(Nat)
    BY <2>1, SequenceOf
  <2>4. got \o Refusals(BulkFiles - at) = all
    <3>1. BulkFiles - at = BulkFiles
      BY <2>1
    <3> QED BY <1>1, <2>3, <3>1 DEF Refusals
  <2> HIDE DEF all
  <2>5. Total(all) \in Nat
    BY <2>3, TotalIsNatural
  <2>6. serialize(all, TRUE) = Envelope + Total(all)
    BY <2>1, <2>5 DEF serialize
  <2>7. Envelope + Total(got \o Refusals(BulkFiles - at)) <= request.bytes
    BY <1>2, <2>2, <2>4, <2>6
  <2>8. at \in 0..BulkFiles - 1
    BY <2>1
  <2> QED BY <1>1, <2>7, <2>8 DEF Bulk
<1> QED
  BY <1>4, <1>5, <1>6, <1>7, <1>8, <1>9, <1>10 DEF ReadInv

\* A page of read_file that begins behind the end line that the client named.
Behind == request.tool = "read_file" /\ request.end # None /\ at > request.end

\* A page that resumes what one version has, cut from the commits that were asked for.
LEMMA AnswersKeep ==
  ASSUME ReadInv, status = "reading", request.tool # "read_files",
         NEW page, NEW from, AnswersPage(page, from), base' = <<>>, Exists(from),
         Resumes(page, Everything(from), at - Origin, Origin), Brings(page) \/ Behind,
         ~ failed' => Ends(page, Everything(from), at - Origin),
         request.tool \in PinnedTools => Continuation /\ assertExpectedCommit(from.commits),
         request.tool = "git_search" => page.next = NoPage
  PROVE  ReadInv'
<1> DEFINE all == Everything(from)
           offset == at - Origin
           count == Len(page.rows)
<1>1. /\ got' = got \o page.rows /\ seen' = seen \union {from}
      /\ barren' = barren \union {p \in {at} : page.next # NoPage /\ page.rows = <<>>}
      /\ at' = page.next /\ flagged' = page.truncated
      /\ status' = (IF page.next = NoPage THEN "done" ELSE "reading")
      /\ expected' = (IF request.careful THEN from.commits ELSE <<>>)
      /\ UNCHANGED <<world, request, over>>
  BY DEF AnswersPage
<1>2. UNCHANGED <<now, custom, registered, Origin>> /\ \A f : Everything(f)' = Everything(f)
  BY <1>1 DEF world, Everything, Origin
<1>3. Origin \in {0, 1}
  BY DEF Origin, First
<1>4. at \in Int /\ got \in Seq(Nat) /\ Len(got) \in Nat
  BY LenProperties DEF ReadInv, Received
<1>5. /\ seen = {} => got = <<>> /\ barren = {}
      /\ IF seen = {} THEN at = Origin ELSE at > Origin
      /\ over = 0
  BY DEF ReadInv, Position
<1>6. offset \in Nat /\ at = Origin + offset /\ (seen = {} => offset = 0)
  BY <1>3, <1>4, <1>5
<1>7. /\ page.rows \in Seq(Nat) /\ page.truncated \in BOOLEAN /\ page.next \in Int
      /\ page.next # NoPage => page.next = Origin + offset + count
  BY DEF Resumes
<1>8. offset = 0 \/ offset < Len(all) => /\ offset + count <= Len(all)
                                         /\ \A i \in 1..count : page.rows[i] = all[offset + i]
                                         /\ page.next # NoPage => offset + count < Len(all)
  BY DEF Resumes
<1>9. /\ count \in Nat /\ got' \in Seq(Nat) /\ Len(got') = Len(got) + count
      /\ \A i \in 1..Len(got') : got'[i] = IF i <= Len(got) THEN got[i] ELSE page.rows[i - Len(got)]
  BY <1>1, <1>4, <1>7, ConcatProperties, LenProperties
<1> HIDE DEF all, offset, count
<1>10. World' /\ Asked'
  BY <1>1, <1>2 DEF ReadInv, World, Asked
<1>11. Received'
  BY <1>1, <1>4, <1>7, <1>9 DEF Received
<1>12. Compares'
  BY DEF Compares
<1>13. \A f \in seen' : Exists(f)
  BY <1>1 DEF ReadInv
<1>14. IsFiniteSet(seen')
  BY <1>1, FS_AddElement DEF ReadInv
<1>15. Position'
  <2>1. ASSUME status' = "reading" PROVE at' > Origin
    <3>1. at' = Origin + offset + count /\ page.next # NoPage
      BY <1>1, <1>7, <2>1
    <3>2. CASE Brings(page)
      <4>1. count > 0
        BY <3>1, <3>2 DEF Brings, count
      <4> QED BY <1>3, <1>6, <1>9, <3>1, <4>1
    <3>3. CASE Behind
      <4>1. request.tool = "read_file" /\ request.end # None /\ at > request.end
        BY <3>3 DEF Behind
      <4>2. Asked
        BY DEF ReadInv
      <4>3. request.end \in Nat \ {0} /\ Origin = 1
        BY <4>1, <4>2 DEF Asked, Origin, First
      <4> HIDE DEF Origin, Behind
      <4>4. at > 1
        BY <1>4, <4>1, <4>3
      <4>5. at' = at + count
        BY <1>6, <3>1
      <4> QED BY <1>4, <1>9, <4>3, <4>4, <4>5
    <3> QED BY <3>2, <3>3
  <2> QED BY <1>1, <1>2, <1>5, <2>1 DEF Position
<1>16. Pinned'
  <2> SUFFICES ASSUME request.tool \in PinnedTools
               PROVE  /\ \A f, g \in seen' : f.commits = g.commits
                      /\ \A f \in seen' : expected' = <<>> \/ expected' = f.commits
                      /\ seen' # {}
    BY <1>1 DEF Pinned
  <2>1. ASSUME NEW f \in seen PROVE f.commits = from.commits
    <3>1. at > First(request.tool)
      BY <1>5 DEF Origin
    <3>2. expected # <<>> /\ expected = from.commits
      BY <3>1 DEF Continuation, assertExpectedCommit
    <3>3. expected = <<>> \/ expected = f.commits
      BY DEF ReadInv, Pinned
    <3> QED BY <3>2, <3>3
  <2>2. \A f \in seen' : f.commits = from.commits
    BY <1>1, <2>1
  <2> QED BY <1>1, <2>2
<1>17. Joined'
  <2> SUFFICES ASSUME NEW f \in seen', seen' = {f}
               PROVE  /\ Len(got') <= Len(Everything(f))
                      /\ \A i \in 1..Len(got') : got'[i] = Everything(f)[i]
                      /\ status' = "reading" => at' = Origin + Len(got') /\ Len(got') < Len(Everything(f))
                      /\ status' = "done" /\ ~ flagged' /\ ~ failed' => Len(got') = Len(Everything(f))
    <3>1. Origin' = Origin /\ \A f \in seen' : Everything(f)' = Everything(f)
      BY <1>2
    <3> HIDE DEF Origin
    <3> QED BY <3>1 DEF Joined
  <2>1. f = from /\ (seen = {} \/ seen = {from})
    <3>1. seen \union {from} = {f}
      BY <1>1
    <3>2. f = from /\ \A g \in seen : g = from
      BY <3>1
    <3> QED BY <3>2
  <2>2. Everything(f) = all
    BY <2>1 DEF all
  <2>3. /\ offset = Len(got) /\ (offset = 0 \/ offset < Len(all))
        /\ \A i \in 1..Len(got) : got[i] = all[i]
    <3>1. CASE seen = {}
      BY <1>4, <1>5, <1>6, <3>1
    <3>2. CASE seen = {from}
      <4>1. /\ \A i \in 1..Len(got) : got[i] = all[i]
            /\ at = Origin + Len(got) /\ Len(got) < Len(all)
        BY <3>2 DEF ReadInv, Joined, all
      <4> QED BY <1>3, <1>4, <1>6, <4>1
    <3> QED BY <2>1, <3>1, <3>2
  <2>4. Len(got') <= Len(all) /\ (status' = "reading" => at' = Origin + Len(got') /\ Len(got') < Len(all))
    BY <1>1, <1>3, <1>4, <1>6, <1>7, <1>8, <1>9, <2>3
  <2>5. ASSUME NEW i \in 1..Len(got') PROVE got'[i] = all[i]
    <3>1. CASE i <= Len(got)
      <4>1. i \in 1..Len(got)
        BY <1>4, <1>9, <3>1
      <4> QED BY <1>9, <2>3, <3>1, <4>1
    <3>2. CASE ~ (i <= Len(got))
      <4>1. i - Len(got) \in 1..count /\ offset + (i - Len(got)) = i
        BY <1>4, <1>9, <2>3, <3>2
      <4>2. page.rows[i - Len(got)] = all[offset + (i - Len(got))]
        BY <1>8, <2>3, <4>1
      <4> QED BY <1>9, <3>2, <4>1, <4>2
    <3> QED BY <3>1, <3>2
  <2>6. ASSUME status' = "done", ~ flagged', ~ failed' PROVE Len(got') = Len(all)
    <3>1. page.next = NoPage /\ ~ page.truncated
      BY <1>1, <2>6
    <3>2. offset + count = Len(all)
      BY <2>3, <2>6, <3>1 DEF Ends, all, offset, count
    <3> QED BY <1>9, <2>3, <3>2
  <2> QED BY <2>2, <2>4, <2>5, <2>6
<1>18. OneAnswer'
  BY <1>1 DEF OneAnswer
<1>19. Bulk'
  BY <1>1 DEF Bulk
<1>20. EveryPageBrings'
  <2> SUFFICES ASSUME NEW p \in barren', p \notin barren PROVE Behind /\ p = at
    BY <1>1 DEF ReadInv, EveryPageBrings, Behind
  <2>1. p = at /\ page.next # NoPage /\ page.rows = <<>>
    BY <1>1
  <2>2. ~ Brings(page)
    BY <2>1, EmptySeq DEF Brings
  <2> QED BY <2>1, <2>2
<1>21. \A f \in seen' : Exists(f)'
  BY <1>13 DEF Exists
<1> QED
  BY <1>10, <1>11, <1>12, <1>14, <1>15, <1>16, <1>17, <1>18, <1>19, <1>20, <1>21 DEF ReadInv

\* A request that ends without a page leaves what was received.
LEMMA EndKeeps ==
  ASSUME ReadInv, status = "reading", status' \in {"refused", "failed"}, base' = base \/ base' = <<>>,
         UNCHANGED <<world, request, at, expected, got, barren, seen, flagged, over>>
  PROVE  ReadInv'
<1>1. UNCHANGED <<now, custom, registered, request, at, expected, got, barren, seen, flagged, over>>
  BY DEF world
<1>2. Origin' = Origin /\ \A f : Everything(f)' = Everything(f) /\ Exists(f)' = Exists(f)
  BY <1>1 DEF Origin, Everything, Exists
<1>3. World' /\ Asked' /\ Received'
  BY <1>1 DEF ReadInv, World, Asked, Received
<1>4. Compares'
  BY <1>1 DEF ReadInv, Compares, Continuation
<1>5. (\A f \in seen : Exists(f))' /\ IsFiniteSet(seen)'
  BY <1>1, <1>2 DEF ReadInv
<1>6. Position' /\ Pinned'
  BY <1>1 DEF ReadInv, Position, Pinned
<1>7. Joined'
  BY <1>1, <1>2 DEF ReadInv, Joined
<1>8. OneAnswer' /\ Bulk'
  BY <1>1 DEF ReadInv, OneAnswer, Bulk
<1>9. EveryPageBrings'
  BY <1>1 DEF ReadInv, EveryPageBrings
<1> QED
  BY <1>3, <1>4, <1>5, <1>6, <1>7, <1>8, <1>9 DEF ReadInv

\* A refusal or a failure is such an end.
LEMMA StopsKeeps ==
  ASSUME ReadInv, status = "reading", NEW how \in {"refused", "failed"}, Stops(how)
  PROVE  ReadInv'
BY EndKeeps DEF Stops

\* What happens outside changes nothing of a read.
LEMMA EnvironmentKeeps ==
  ASSUME ReadInv, World', UNCHANGED <<request, at, base, expected, got, barren, seen, flagged, failed, over, status>>
  PROVE  ReadInv'
<1>1. Origin' = Origin /\ \A f : Everything(f)' = Everything(f) /\ Exists(f)' = Exists(f)
  BY DEF Origin, Everything, Exists
<1>2. Asked' /\ Received'
  BY DEF ReadInv, Asked, Received
<1>3. Compares'
  BY DEF ReadInv, Compares, Continuation
<1>4. (\A f \in seen : Exists(f))' /\ IsFiniteSet(seen)'
  BY <1>1 DEF ReadInv
<1>5. Position' /\ Pinned'
  BY DEF ReadInv, Position, Pinned, Origin
<1>6. Joined'
  BY <1>1 DEF ReadInv, Joined
<1>7. OneAnswer' /\ Bulk' /\ EveryPageBrings'
  BY DEF ReadInv, OneAnswer, Bulk, EveryPageBrings
<1> QED
  BY <1>2, <1>3, <1>4, <1>5, <1>6, <1>7 DEF ReadInv

\* Commits, checkouts, edits of .c2cignore and registrations leave the invariant alone.
LEMMA EnvironmentPreserves ==
  ASSUME ReadInv, Environment
  PROVE  ReadInv'
<1>1. World
  BY DEF ReadInv
<1>2. PICK w \in Roots : \/ EditIgnore(w) \/ RegisterRoot(w) \/ UnregisterRoot(w)
                         \/ \E s \in SourcesOf(request.tool), v \in Versions \union {Gone} : Move(w, s, v)
  BY DEF Environment
<1>3. UNCHANGED <<request, at, base, expected, got, barren, seen, flagged, failed, over, status>>
  BY <1>2 DEF EditIgnore, RegisterRoot, UnregisterRoot, Move, Outside
<1>4. World'
  <2>1. CASE EditIgnore(w)
    BY <1>1, <2>1 DEF EditIgnore, Outside, World
  <2>2. CASE RegisterRoot(w) \/ UnregisterRoot(w)
    BY <1>1, <2>2 DEF RegisterRoot, UnregisterRoot, Outside, World
  <2>3. ASSUME NEW s \in SourcesOf(request.tool), NEW v \in Versions \union {Gone}, Move(w, s, v) PROVE World'
    <3>1. s \in Sources
      BY DEF SourcesOf, Sources, Branches
    <3> QED BY <1>1, <2>3, <3>1 DEF Move, Outside, World
  <2> QED BY <1>2, <2>1, <2>2, <2>3
<1> QED
  BY <1>3, <1>4, EnvironmentKeeps

\* A request that is admitted has a workspace.
LEMMA AdmittedPlace ==
  ASSUME World, Asked, Admitted
  PROVE  resolveTarget \in Roots /\ Rules \in BOOLEAN
<1>1. resolveTarget # NotFound
  BY DEF Admitted, resolveRepositorySnapshotOwner
<1>2. registered # {} \/ resolveTarget \in registered \/ resolveTarget = NotFound
  BY DEF resolveTarget
<1>3. Cardinality(registered) = 1 => registered # {}
  BY FS_EmptySet
<1>4. resolveTarget \in registered
  BY <1>1, <1>3 DEF resolveTarget
<1> QED
  BY <1>4 DEF World, Rules

\* A page of an unpinned tool.
LEMMA UnpinnedKeeps ==
  ASSUME ReadInv, status = "reading", request.tool \notin PinnedTools \union {"read_files"},
         NEW v \in Versions \union {Gone}, NEW page, NEW from, UnpinnedPage(v, page, from),
         v \in Versions => /\ Exists(from)
                           /\ Resumes(page, Everything(from), at - Origin, Origin) /\ (Brings(page) \/ Behind)
                           /\ ~ failed' => Ends(page, Everything(from), at - Origin),
         request.tool = "git_search" => page.next = NoPage
  PROVE  ReadInv'
<1>1. CASE v = Gone
  BY <1>1, StopsKeeps DEF UnpinnedPage
<1>2. CASE v # Gone
  <2>1. v \in Versions /\ UNCHANGED base /\ AnswersPage(page, from)
    BY <1>2 DEF UnpinnedPage
  <2>2. base = <<>>
    BY DEF ReadInv, Compares, Comparisons, PinnedTools
  <2> QED BY <2>1, <2>2, AnswersKeep
<1> QED
  BY <1>1, <1>2

\* A page of a tool that asks for the commit again.
LEMMA PinnedKeeps ==
  ASSUME ReadInv, status = "reading", request.tool \in PinnedTools,
         NEW v \in Versions \union {Gone}, NEW page, NEW from, from.commits = <<v>>,
         NEW valid, PinnedPage(valid, page, from),
         v \in Versions => /\ Exists(from)
                           /\ Continues(page, Everything(from), at - Origin, Origin)
                           /\ Ends(page, Everything(from), at - Origin)
  PROVE  ReadInv'
<1>1. CASE Stops("refused") \/ Stops("failed")
  BY <1>1, StopsKeeps
<1>2. CASE /\ Continuation /\ Gone \notin ToSet(from.commits) /\ assertExpectedCommit(from.commits)
           /\ base' = <<>> /\ AnswersPage(page, from)
  <2>1. v \in ToSet(from.commits)
    BY DEF ToSet
  <2>2. v \in Versions
    BY <1>2, <2>1
  <2>3. request.tool \notin {"read_files", "git_search"}
    BY DEF PinnedTools
  <2> QED BY <1>2, <2>2, <2>3, AnswersKeep DEF Continues
<1> QED
  BY <1>1, <1>2 DEF PinnedPage

\* Where a page begins, and how much is asked for.
LEMMA Asks ==
  ASSUME ReadInv, status = "reading", request.tool # "read_files"
  PROVE  /\ Origin \in {0, 1} /\ at \in Int /\ at - Origin \in Nat /\ (seen = {} => at = Origin)
         /\ request.rows \in Nat \ {0} /\ request.bytes \in Nat \ {0}
<1>1. Origin \in {0, 1}
  BY DEF Origin, First
<1>2. at \in Int /\ (IF seen = {} THEN at = Origin ELSE at > Origin)
  BY DEF ReadInv, Received, Position
<1> HIDE DEF Origin
<1>3. at - Origin \in Nat
  BY <1>1, <1>2
<1> QED
  BY <1>1, <1>2, <1>3 DEF ReadInv, Asked

\* What pages are cut from, and the order in which an engine finds it.
LEMMA CutFrom ==
  ASSUME NEW v \in Versions, NEW place, NEW rules \in BOOLEAN, NEW engine \in {"", "ripgrep", "node"}
  PROVE  LET from == From(place, <<v>>, rules, engine)
         IN  Exists(from) /\ Last(from.commits) = v /\ from.rules = rules /\ from.engine = engine /\ from.unread = {}
BY DEF From, Exists, Last

\* The rows of a version are rows.
LEMMA RowsOfVersions ==
  ASSUME NEW v \in Versions
  PROVE  Content[v] \in Seq(Rows) /\ Len(Content[v]) \in Nat
<1>1. Content[v] \in Seq(Rows)
  BY ReadingBounds
<1> QED
  BY <1>1, LenProperties

\* The places of a list, counted from its end, are its places.
LEMMA Mirrored ==
  ASSUME NEW N \in Nat
  PROVE  \A i \in 1..N : N - i + 1 \in 1..N
OBVIOUS

\* The order in which an engine comes across the rows has the same rows.
LEMMA OrderedFacts ==
  ASSUME NEW rows \in Seq(Rows), NEW engine \in {"", "ripgrep", "node"}
  PROVE  /\ Ordered(rows, engine) \in Seq(Rows) /\ Len(Ordered(rows, engine)) = Len(rows)
         /\ engine # "node" => Ordered(rows, engine) = rows
<1> DEFINE N == Len(rows)
<1>1. N \in Nat
  BY LenProperties
<1>2. \A i \in 1..N : rows[i] \in Rows
  BY LenProperties
<1>3. Reverse(rows) = [i \in 1..N |-> rows[N - i + 1]]
  BY DEF Reverse
<1> HIDE DEF N
<1>4. \A i \in 1..N : N - i + 1 \in 1..N
  BY <1>1, Mirrored
<1>5. Reverse(rows) \in [1..N -> Rows]
  BY <1>2, <1>3, <1>4
<1>6. Reverse(rows) \in Seq(Rows) /\ Len(Reverse(rows)) = N
  BY <1>1, <1>5, SequenceOf
<1> QED
  BY <1>6 DEF Ordered, N

\* The versions that a request looks up.
LEMMA VersionsNow ==
  ASSUME ReadInv, Admitted
  PROVE  /\ TargetNow \in Versions \union {Gone} /\ Tree \in Versions \union {Gone}
         /\ Rules \in BOOLEAN /\ resolveTarget \in Roots
<1>1. resolveTarget \in Roots /\ Rules \in BOOLEAN
  BY AdmittedPlace DEF ReadInv
<1>2. \A s \in Sources : now[resolveTarget][s] \in Versions \union {Gone}
  BY <1>1 DEF ReadInv, World
<1> QED
  BY <1>1, <1>2 DEF TargetNow, resolveBranchRef, Tree, Sources, Branches

\* The position of the tools that count from 0.
LEMMA FromZero ==
  ASSUME ReadInv, status = "reading", request.tool \notin {"browse_file", "read_file", "read_files"}
  PROVE  Origin = 0 /\ at \in Nat /\ at - Origin = at /\ (seen = {} => at = 0)
<1>1. Origin = 0
  BY DEF Origin, First
<1>2. at \in Int /\ at - Origin \in Nat /\ (seen = {} => at = Origin)
  BY Asks
<1> QED
  BY <1>1, <1>2

\* What a listing returns: the rows that are shown, in the order of the rows.
LEMMA EverythingListed ==
  ASSUME NEW v \in Versions, NEW place, NEW rules \in BOOLEAN, NEW engine \in {"", "ripgrep"},
         request.tool \notin {"browse_file", "read_file", "git_history", "compare", "diff"}
  PROVE  Everything(From(place, <<v>>, rules, engine)) = Visible(Content[v], rules)
<1> DEFINE from == From(place, <<v>>, rules, engine)
<1>1. Last(from.commits) = v /\ from.rules = rules /\ from.engine = engine /\ from.unread = {}
  BY DEF From, Last
<1>2. Readable(Content[v], {}) = Content[v] /\ Ordered(Content[v], engine) = Content[v]
  BY RowsOfVersions, AllReadable, OrderedFacts
<1> HIDE DEF from
<1>3. Everything(from) = Visible(Content[v], rules)
  BY <1>1, <1>2 DEF Everything
<1> QED
  BY <1>3 DEF from

\* What a walk returns: the rows that are shown among those it could read.
LEMMA EverythingWalked ==
  ASSUME NEW v \in Versions, NEW from, Last(from.commits) = v, from.engine \in {"", "ripgrep"},
         request.tool \notin {"browse_file", "read_file", "git_history", "compare", "diff"}
  PROVE  Everything(from) = Visible(Readable(Content[v], from.unread), from.rules)
<1> DEFINE rows == Readable(Content[v], from.unread)
<1>1. rows \in Seq(Rows)
  BY RowsOfVersions, ReadableRows
<1> HIDE DEF rows
<1>2. Ordered(rows, from.engine) = rows
  BY <1>1, OrderedFacts
<1> QED
  BY <1>2 DEF Everything, rows

\* What the tools that number what they return have: all numbers.
LEMMA EverythingNumbered ==
  ASSUME NEW v \in Versions, NEW place, NEW rules \in BOOLEAN, NEW engine \in {"", "ripgrep", "node"},
         request.tool \in {"browse_file", "read_file", "git_history"}
  PROVE  Everything(From(place, <<v>>, rules, engine)) = Span(1, Len(Content[v]))
<1> DEFINE from == From(place, <<v>>, rules, engine)
<1>1. Last(from.commits) = v
  BY DEF From, Last
<1> HIDE DEF from
<1>2. Everything(from) = Span(1, Len(Content[v]))
  BY <1>1 DEF Everything
<1> QED
  BY <1>2 DEF from

\* list_branches keeps the invariant.
LEMMA BranchesKeep ==
  ASSUME ReadInv, list_branches
  PROVE  ReadInv'
<1> DEFINE v == TargetNow
           from == From(resolveTarget, <<v>>, FALSE, "")
           page == parseBranchPage(Content[v], at, request.rows)
<1>1. /\ status = "reading" /\ request.tool = "list_branches" /\ Admitted
      /\ UnpinnedPage(v, page, from)
  BY DEF list_branches, listBranches, Handles
<1>2. v \in Versions \union {Gone}
  BY <1>1, VersionsNow
<1>3. Origin = 0 /\ at \in Nat /\ at - Origin = at /\ request.rows \in Nat \ {0}
  BY <1>1, FromZero, Asks
<1>4. ASSUME v \in Versions
      PROVE  Exists(from) /\ Follows(page, Everything(from), at - Origin, Origin)
  <2>1. Content[v] \in Seq(Rows)
    BY <1>4, RowsOfVersions
  <2>2. Exists(from)
    BY <1>4, CutFrom
  <2>3. Everything(from) = Visible(Content[v], FALSE)
    BY <1>1, <1>4, EverythingListed
  <2> HIDE DEF v, from
  <2>4. Follows(page, Visible(Content[v], FALSE), at, 0)
    BY <1>3, <2>1, ListTreePageFollows DEF parseBranchPage
  <2> QED BY <1>3, <2>2, <2>3, <2>4
<1> HIDE DEF v, page, from
<1> QED
  BY <1>1, <1>2, <1>4, UnpinnedKeeps DEF PinnedTools, Follows, Continues

\* git_browse of a file keeps the invariant.
LEMMA BrowseFileKeeps ==
  ASSUME ReadInv, Handles("browse_file"), browseSnapshotFile
  PROVE  ReadInv'
<1> DEFINE v == TargetNow
           from == From("", <<v>>, FALSE, "")
           page == browseFile(Content[v], at, request.rows, request.end)
           valid == v # Gone => ~ LineTooLong(Content[v], at, request.rows, request.end)
<1>1. /\ status = "reading" /\ request.tool = "browse_file" /\ Admitted
      /\ PinnedPage(valid, page, from)
  BY DEF browseSnapshotFile, Handles
<1>2. v \in Versions \union {Gone}
  BY <1>1, VersionsNow
<1>3. Origin = 1 /\ at \in Nat \ {0} /\ request.rows \in Nat \ {0} /\ request.end \in Nat \union {None}
  <2>1. Origin = 1
    BY <1>1 DEF Origin, First
  <2>2. at \in Int /\ at - Origin \in Nat /\ request.rows \in Nat \ {0}
    BY <1>1, Asks
  <2>3. request.end \in Nat \union {None}
    BY DEF ReadInv, Asked
  <2> QED BY <2>1, <2>2, <2>3
<1>4. ASSUME v \in Versions
      PROVE  Exists(from) /\ Follows(page, Everything(from), at - Origin, Origin)
  <2>1. Content[v] \in Seq(Rows)
    BY <1>4, RowsOfVersions
  <2>2. Exists(from)
    BY <1>4, CutFrom
  <2>3. Everything(from) = Span(1, Len(Content[v]))
    BY <1>1, <1>4, EverythingNumbered
  <2> HIDE DEF v, from
  <2>4. Follows(page, Span(1, Len(Content[v])), at - 1, 1)
    BY <1>3, <2>1, BrowseFileFollows
  <2> QED BY <1>3, <2>2, <2>3, <2>4
<1>5. from.commits = <<v>>
  BY DEF From
<1> HIDE DEF v, page, from, valid
<1> QED
  BY <1>1, <1>2, <1>4, <1>5, PinnedKeeps DEF PinnedTools, Follows

\* git_browse of a directory keeps the invariant.
LEMMA BrowseDirectoryKeeps ==
  ASSUME ReadInv, Handles("browse_directory"), browseSnapshotDirectory
  PROVE  ReadInv'
<1> DEFINE v == TargetNow
           from == From("", <<v>>, Rules, "")
           page == listTreePage(Content[v], Rules, at, request.rows)
<1>1. /\ status = "reading" /\ request.tool = "browse_directory" /\ Admitted
      /\ PinnedPage(TRUE, page, from)
  BY DEF browseSnapshotDirectory, Handles
<1>2. v \in Versions \union {Gone} /\ Rules \in BOOLEAN
  BY <1>1, VersionsNow
<1>3. Origin = 0 /\ at \in Nat /\ at - Origin = at /\ request.rows \in Nat \ {0}
  BY <1>1, FromZero, Asks
<1>4. ASSUME v \in Versions
      PROVE  Exists(from) /\ Follows(page, Everything(from), at - Origin, Origin)
  <2>1. Content[v] \in Seq(Rows)
    BY <1>4, RowsOfVersions
  <2>2. Exists(from)
    BY <1>2, <1>4, CutFrom
  <2>3. Everything(from) = Visible(Content[v], Rules)
    BY <1>1, <1>2, <1>4, EverythingListed
  <2> HIDE DEF v, from
  <2>4. Follows(page, Visible(Content[v], Rules), at, 0)
    BY <1>2, <1>3, <2>1, ListTreePageFollows
  <2> QED BY <1>3, <2>2, <2>3, <2>4
<1>5. from.commits = <<v>>
  BY DEF From
<1> HIDE DEF v, page, from
<1> QED
  BY <1>1, <1>2, <1>4, <1>5, PinnedKeeps DEF PinnedTools, Follows

\* git_history keeps the invariant.
LEMMA HistoryKeeps ==
  ASSUME ReadInv, git_history
  PROVE  ReadInv'
<1> DEFINE v == TargetNow
           from == From("", <<v>>, FALSE, "")
           page == historyPage(Content[v], at, request.rows)
<1>1. /\ status = "reading" /\ request.tool = "git_history" /\ Admitted
      /\ PinnedPage(TRUE, page, from)
  BY DEF git_history, gitHistory, Handles
<1>2. v \in Versions \union {Gone} /\ ScanRows \in Nat \ {0}
  BY <1>1, VersionsNow, PagingBounds
<1>3. Origin = 0 /\ at \in Nat /\ at - Origin = at /\ request.rows \in Nat \ {0}
  BY <1>1, FromZero, Asks
<1>4. ASSUME v \in Versions
      PROVE  Exists(from) /\ Follows(page, Everything(from), at - Origin, Origin)
  <2>1. Content[v] \in Seq(Rows)
    BY <1>4, RowsOfVersions
  <2>2. Exists(from)
    BY <1>4, CutFrom
  <2>3. Everything(from) = Span(1, Len(Content[v]))
    BY <1>1, <1>4, EverythingNumbered
  <2> HIDE DEF v, from
  <2>4. Follows(page, Span(1, Len(Content[v])), at, 0)
    BY <1>2, <1>3, <2>1, HistoryPageFollows
  <2> QED BY <1>3, <2>2, <2>3, <2>4
<1>5. from.commits = <<v>>
  BY DEF From
<1> HIDE DEF v, page, from
<1> QED
  BY <1>1, <1>2, <1>4, <1>5, PinnedKeeps DEF PinnedTools, Follows

\* git_search keeps the invariant: its only answer begins at the beginning.
LEMMA GitSearchKeeps ==
  ASSUME ReadInv, git_search
  PROVE  ReadInv'
<1> DEFINE v == TargetNow
           from == From(resolveTarget, <<v>>, Rules, "")
           page == searchSnapshot(Content[v], Rules, request.rows)
<1>1. /\ status = "reading" /\ request.tool = "git_search" /\ Admitted
      /\ Stops("failed") \/ UnpinnedPage(v, page, from)
  BY DEF git_search, Handles
<1>2. v \in Versions \union {Gone} /\ Rules \in BOOLEAN /\ SearchBytes \in Nat \ {0}
  BY <1>1, VersionsNow, PagingBounds
<1>3. Origin = 0 /\ at - Origin = 0 /\ request.rows \in Nat \ {0}
  <2>1. seen = {}
    BY <1>1 DEF ReadInv, OneAnswer
  <2> QED BY <1>1, <2>1, FromZero, Asks
<1>4. ASSUME v \in Versions
      PROVE  Exists(from) /\ Follows(page, Everything(from), at - Origin, Origin)
  <2>1. Content[v] \in Seq(Rows)
    BY <1>4, RowsOfVersions
  <2>2. Exists(from)
    BY <1>2, <1>4, CutFrom
  <2>3. Everything(from) = Visible(Content[v], Rules)
    BY <1>1, <1>2, <1>4, EverythingListed
  <2> HIDE DEF v, from
  <2>4. Follows(page, Visible(Content[v], Rules), 0, 0)
    BY <1>2, <1>3, <2>1, SearchSnapshotFollows
  <2> QED BY <1>3, <2>2, <2>3, <2>4
<1>5. v \in Versions => page.next = NoPage
  BY DEF searchSnapshot, Page
<1>6. CASE Stops("failed")
  BY <1>1, <1>6, StopsKeeps
<1>7. CASE UnpinnedPage(v, page, from)
  <2>1. page.next = NoPage
    BY DEF searchSnapshot, Page
  <2> HIDE DEF v, page, from
  <2> QED BY <1>1, <1>2, <1>4, <1>7, <2>1, UnpinnedKeeps DEF PinnedTools, Follows, Continues
<1> QED
  BY <1>1, <1>6, <1>7

\* list_directory keeps the invariant, whatever cannot be read.
LEMMA DirectoryKeeps ==
  ASSUME ReadInv, list_directory, UNCHANGED failed
  PROVE  ReadInv'
<1>1. PICK unread \in Passed : UnpinnedPage(Tree, listDirectory(Content[Tree], unread, Rules, at, request.rows),
                                           Without(TreeNow(""), unread))
  BY DEF list_directory
<1> DEFINE v == Tree
           from == Without(From(resolveTarget, <<v>>, Rules, ""), unread)
           page == listDirectory(Content[v], unread, Rules, at, request.rows)
<1>2. /\ status = "reading" /\ request.tool = "list_directory" /\ Admitted
      /\ UnpinnedPage(v, page, from)
  BY <1>1 DEF list_directory, TreeNow, Handles
<1>3. v \in Versions \union {Gone} /\ Rules \in BOOLEAN /\ WalkSlack \in Nat \ {0}
  BY <1>2, VersionsNow, PagingBounds
<1>4. Origin = 0 /\ at \in Nat /\ at - Origin = at /\ request.rows \in Nat \ {0}
  BY <1>2, FromZero, Asks
<1>5. ASSUME v \in Versions
      PROVE  Exists(from) /\ Follows(page, Everything(from), at - Origin, Origin)
  <2>1. Content[v] \in Seq(Rows)
    BY <1>5, RowsOfVersions
  <2>2. Last(from.commits) = v /\ from.rules = Rules /\ from.engine = "" /\ from.unread = unread
    BY DEF From, Without, Last
  <2> HIDE DEF v, from
  <2>3. Exists(from) /\ Everything(from) = Visible(Readable(Content[v], unread), Rules)
    BY <1>2, <1>3, <1>5, <2>2, EverythingWalked DEF Exists
  <2>4. Follows(page, Visible(Readable(Content[v], unread), Rules), at, 0)
    BY <1>3, <1>4, <2>1, ListDirectoryFollows
  <2> QED BY <1>4, <2>3, <2>4
<1> HIDE DEF v, page, from
<1> QED
  BY <1>2, <1>3, <1>5, UnpinnedKeeps DEF PinnedTools, Follows, Continues

\* read_file keeps the invariant: a page without a line begins behind the end line that the client named.
LEMMA FileKeeps ==
  ASSUME ReadInv, read_file
  PROVE  ReadInv'
<1> DEFINE v == Tree
           from == From(resolveTarget, <<v>>, Rules, "")
           last == endLimit(at, request.rows, request.end)
           page == readFile(Content[v], at, last, TextBytes)
<1>1. /\ status = "reading" /\ request.tool = "read_file" /\ Admitted
      /\ UnpinnedPage(v, page, from)
  BY DEF read_file, TreeNow, Handles
<1>2. v \in Versions \union {Gone} /\ Rules \in BOOLEAN
  BY <1>1, VersionsNow
<1>3. Origin = 1 /\ at \in Nat \ {0} /\ request.rows \in Nat \ {0} /\ request.end \in Nat \union {None}
  <2>1. Origin = 1
    BY <1>1 DEF Origin, First
  <2>2. at \in Int /\ at - Origin \in Nat /\ request.rows \in Nat \ {0}
    BY <1>1, Asks
  <2>3. request.end \in Nat \union {None}
    BY DEF ReadInv, Asked
  <2> QED BY <2>1, <2>2, <2>3
<1>4. last \in Int /\ (last >= at \/ Behind)
  <2>1. last \in Int /\ (last < at => request.end # None /\ at > request.end)
    BY <1>3, EndLimitFacts
  <2> HIDE DEF last
  <2>2. last >= at \/ last < at
    BY <1>3, <2>1
  <2>3. ASSUME last < at PROVE Behind
    <3>1. request.tool = "read_file"
      BY <1>1
    <3> QED BY <2>1, <2>3, <3>1 DEF Behind
  <2> QED BY <2>1, <2>2, <2>3
<1> HIDE DEF last
<1>5. ASSUME v \in Versions
      PROVE  /\ Exists(from)
             /\ Resumes(page, Everything(from), at - Origin, Origin) /\ (Brings(page) \/ Behind)
             /\ Ends(page, Everything(from), at - Origin)
  <2>1. Content[v] \in Seq(Rows)
    BY <1>5, RowsOfVersions
  <2>2. Exists(from)
    BY <1>2, <1>5, CutFrom
  <2>3. Everything(from) = Span(1, Len(Content[v]))
    BY <1>1, <1>2, <1>5, EverythingNumbered
  <2> HIDE DEF v, from
  <2>4. /\ Resumes(page, Span(1, Len(Content[v])), at - 1, 1) /\ Ends(page, Span(1, Len(Content[v])), at - 1)
        /\ last >= at => Brings(page)
    BY <1>3, <1>4, <2>1, ReadFileFollows
  <2> QED BY <1>3, <1>4, <2>2, <2>3, <2>4
<1> HIDE DEF v, page, from
<1> QED
  BY <1>1, <1>2, <1>5, UnpinnedKeeps DEF PinnedTools

\* A page of a diff of one version.
LEMMA DiffPageOf ==
  ASSUME NEW v \in Versions, NEW rules \in BOOLEAN, at \in Nat, request.bytes \in Nat \ {0}
  PROVE  Follows(DiffPage(Content[v], rules), Span(1, Total(Sizes(Content[v], DiffOf(Content[v], rules)))), at, 0)
<1> DEFINE rows == Content[v]
           total == Total(Sizes(rows, DiffOf(rows, rules)))
           ends == LineEnds(rows, DiffOf(rows, rules))
<1>1. rows \in Seq(Rows) /\ BatchRows \in Nat \ {0}
  BY RowsOfVersions, PagingBounds
<1> HIDE DEF rows
<1>2. total \in Nat /\ ends \in SUBSET Nat
  BY <1>1, DiffFacts
<1>3. DiffPage(rows, rules) = diffPage(total, ends, at, request.bytes)
  BY DEF DiffPage
<1> HIDE DEF total, ends
<1>4. Follows(DiffPage(rows, rules), Span(1, total), at, 0)
  <2>1. Follows(diffPage(total, ends, at, request.bytes), Span(1, total), at, 0)
    BY <1>2, DiffPageFollows
  <2> QED BY <1>3, <2>1
<1> QED
  BY <1>4 DEF rows, total

\* git_diff keeps the invariant: the bytes of the diff, or a summary of the changed files.
LEMMA DiffKeeps ==
  ASSUME ReadInv, git_diff
  PROVE  ReadInv'
<1> DEFINE v == Tree
           from == From(resolveTarget, <<v>>, Rules, "")
<1>1. status = "reading" /\ request.tool \in {"diff", "diff_summary"} /\ Admitted
  BY DEF git_diff, Handles
<1>2. v \in Versions \union {Gone} /\ Rules \in BOOLEAN /\ ScanRows \in Nat \ {0}
  BY <1>1, VersionsNow, PagingBounds
<1>3. Origin = 0 /\ at \in Nat /\ at - Origin = at /\ request.rows \in Nat \ {0} /\ request.bytes \in Nat \ {0}
  BY <1>1, FromZero, Asks
<1>4. v \in Versions => Exists(from) /\ Last(from.commits) = v /\ from.rules = Rules
  <2> DEFINE here == resolveTarget
             rules == Rules
  <2>1. from = From(here, <<v>>, rules, "") /\ rules \in BOOLEAN
    BY <1>2
  <2> HIDE DEF v, from, here, rules
  <2>2. v \in Versions => Exists(from) /\ Last(from.commits) = v /\ from.rules = rules
    BY <2>1 DEF From, Exists, Last
  <2> QED BY <2>2 DEF rules
<1>5. CASE request.tool = "diff" /\ UnpinnedPage(v, DiffPage(Content[v], Rules), from)
  <2> DEFINE page == DiffPage(Content[v], Rules)
  <2> HIDE DEF v, from
  <2>1. ASSUME v \in Versions
        PROVE  Exists(from) /\ Follows(page, Everything(from), at - Origin, Origin)
    <3>1. Everything(from) = Span(1, Total(Sizes(Content[v], DiffOf(Content[v], Rules))))
      BY <1>4, <1>5, <2>1 DEF Everything
    <3>2. Follows(page, Span(1, Total(Sizes(Content[v], DiffOf(Content[v], Rules)))), at, 0)
      BY <1>2, <1>3, <2>1, DiffPageOf
    <3> QED BY <1>3, <1>4, <2>1, <3>1, <3>2
  <2> HIDE DEF page
  <2>2. UnpinnedPage(v, page, from)
    BY <1>5 DEF page
  <2> QED BY <1>1, <1>2, <2>1, <2>2, UnpinnedKeeps DEF PinnedTools, Follows, Continues
<1>6. CASE request.tool = "diff_summary" /\ UnpinnedPage(v, SummaryPage(Content[v], Rules), from)
  <2> DEFINE page == SummaryPage(Content[v], Rules)
  <2>1. ASSUME v \in Versions
        PROVE  Exists(from) /\ Follows(page, Everything(from), at - Origin, Origin)
    <3>1. Content[v] \in Seq(Rows)
      BY <2>1, RowsOfVersions
    <3>2. Everything(from) = Visible(Content[v], Rules)
      BY <1>2, <1>6, <2>1, EverythingListed
    <3> HIDE DEF v, from
    <3>3. Follows(page, Visible(Content[v], Rules), at, 0)
      BY <1>2, <1>3, <3>1, SummariesFollow DEF SummaryPage
    <3> QED BY <1>3, <1>4, <2>1, <3>2, <3>3
  <2> HIDE DEF v, from, page
  <2>2. UnpinnedPage(v, page, from)
    BY <1>6 DEF page
  <2> QED BY <1>1, <1>2, <2>1, <2>2, UnpinnedKeeps DEF PinnedTools, Follows, Continues
<1> HIDE DEF v, from
<1>7. \/ request.tool = "diff" /\ UnpinnedPage(v, DiffPage(Content[v], Rules), from)
      \/ request.tool = "diff_summary" /\ UnpinnedPage(v, SummaryPage(Content[v], Rules), from)
  BY DEF git_diff, gitDiffText, gitDiffSummary, TreeNow, Handles, v, from
<1> QED
  BY <1>5, <1>6, <1>7

\* A page of ripgrep, stopped or failed among the rows of one version that it could read.
LEMMA RipgrepPage ==
  ASSUME NEW v \in Versions, NEW unread, NEW rules \in BOOLEAN, NEW offset \in Nat, NEW limit \in Nat \ {0},
         NEW n \in 0..Len(Content[v]), NEW fails \in BOOLEAN
  PROVE  LET page == searchWithRipgrep(Content[v], unread, rules, offset, limit, n, fails)
             all  == Visible(Readable(Content[v], unread), rules)
         IN  Continues(page, all, offset, 0) /\ (~ fails => Ends(page, all, offset))
<1> DEFINE rows == Readable(Content[v], unread)
           page == searchWithRipgrep(Content[v], unread, rules, offset, limit, n, fails)
<1>1. rows \in Seq(Rows) /\ Len(rows) = Len(Content[v])
  BY RowsOfVersions, ReadableRows
<1>2. n \in 0..Len(rows)
  BY <1>1
<1>3. page = search(IF fails THEN SubSeq(rows, 1, n) ELSE rows, rules, offset, limit, n)
  BY DEF searchWithRipgrep
<1> HIDE DEF rows, page
<1>4. CASE fails
  <2>1. page = search(SubSeq(rows, 1, n), rules, offset, limit, n)
    BY <1>3, <1>4
  <2>2. Continues(page, Visible(rows, rules), offset, 0)
    BY <1>1, <1>2, <2>1, FailedSearchContinues
  <2> QED BY <1>4, <2>2 DEF rows, page
<1>5. CASE ~ fails
  <2>1. page = search(rows, rules, offset, limit, n)
    BY <1>3, <1>5
  <2>2. Follows(page, Visible(rows, rules), offset, 0)
    BY <1>1, <1>2, <2>1, SearchFollows
  <2> QED BY <2>2 DEF Follows, rows, page
<1> QED
  BY <1>4, <1>5

\* A page of the engine that comes across the files in the other order.
LEMMA NodePage ==
  ASSUME NEW v \in Versions, NEW unread, NEW rules \in BOOLEAN, NEW offset \in Nat, NEW limit \in Nat \ {0},
         NEW n \in 0..Len(Content[v])
  PROVE  Follows(searchWithNode(Content[v], unread, rules, offset, limit, n),
                 Visible(Ordered(Readable(Content[v], unread), "node"), rules), offset, 0)
<1> DEFINE rows == Ordered(Readable(Content[v], unread), "node")
<1>1. rows \in Seq(Rows) /\ Len(rows) = Len(Content[v])
  BY RowsOfVersions, ReadableRows, OrderedFacts
<1> HIDE DEF rows
<1>2. n \in 0..Len(rows)
  BY <1>1
<1>3. Follows(search(rows, rules, offset, limit, n), Visible(rows, rules), offset, 0)
  BY <1>1, <1>2, SearchFollows
<1> QED
  BY <1>3 DEF searchWithNode, rows

\* search_workspace keeps the invariant, with either engine, stopped or failing anywhere.
LEMMA SearchKeeps ==
  ASSUME ReadInv, search_workspace
  PROVE  ReadInv'
<1> DEFINE v == Tree
<1>1. status = "reading" /\ request.tool = "search" /\ Admitted
  BY DEF search_workspace, Handles
<1>2. v \in Versions \union {Gone} /\ Rules \in BOOLEAN /\ Gone \notin Versions
  BY <1>1, VersionsNow, ReadingBounds
<1>3. Origin = 0 /\ at \in Nat /\ at - Origin = at /\ request.rows \in Nat \ {0}
  BY <1>1, FromZero, Asks
<1>4. CASE Stops("refused")
  BY <1>1, <1>4, StopsKeeps
<1>5. ASSUME NEW n, NEW unread, v \in Versions => n \in 0..Len(Content[v]), searchWorkspace(n, unread)
      PROVE  ReadInv'
  <2>1. ASSUME NEW fails \in BOOLEAN, failed' = fails,
               UnpinnedPage(v, searchWithRipgrep(Content[v], unread, Rules, at, request.rows, n, fails),
                            Without(From(resolveTarget, <<v>>, Rules, "ripgrep"), unread))
        PROVE  ReadInv'
    <3> DEFINE from == Without(From(resolveTarget, <<v>>, Rules, "ripgrep"), unread)
               page == searchWithRipgrep(Content[v], unread, Rules, at, request.rows, n, fails)
    <3>1. ASSUME v \in Versions
          PROVE  /\ Exists(from) /\ Continues(page, Everything(from), at - Origin, Origin)
                 /\ ~ failed' => Ends(page, Everything(from), at - Origin)
      <4>1. Last(from.commits) = v /\ from.rules = Rules /\ from.engine = "ripgrep" /\ from.unread = unread
        BY DEF From, Without, Last
      <4>2. n \in 0..Len(Content[v])
        BY <1>5, <3>1
      <4> HIDE DEF v, from
      <4>3. Exists(from) /\ Everything(from) = Visible(Readable(Content[v], unread), Rules)
        BY <1>1, <1>2, <3>1, <4>1, EverythingWalked DEF Exists
      <4> DEFINE all == Visible(Readable(Content[v], unread), Rules)
      <4>4. Continues(page, all, at, 0) /\ (~ fails => Ends(page, all, at))
        BY <1>2, <1>3, <3>1, <4>2, RipgrepPage
      <4> HIDE DEF page
      <4> QED BY <1>3, <2>1, <4>3, <4>4
    <3>2. UnpinnedPage(v, page, from)
      BY <2>1
    <3> HIDE DEF v, from, page
    <3> QED BY <1>1, <1>2, <3>1, <3>2, UnpinnedKeeps DEF PinnedTools, Continues
  <2>2. CASE UnpinnedPage(v, searchWithNode(Content[v], unread, Rules, at, request.rows, n),
                          Without(From(resolveTarget, <<v>>, Rules, "node"), unread))
    <3> DEFINE from == Without(From(resolveTarget, <<v>>, Rules, "node"), unread)
               page == searchWithNode(Content[v], unread, Rules, at, request.rows, n)
    <3>1. ASSUME v \in Versions
          PROVE  Exists(from) /\ Follows(page, Everything(from), at - Origin, Origin)
      <4>1. Exists(from) /\ Last(from.commits) = v /\ from.rules = Rules /\ from.engine = "node" /\ from.unread = unread
        <5>1. Last(from.commits) = v /\ from.rules = Rules /\ from.engine = "node" /\ from.unread = unread
          BY DEF From, Without, Last
        <5> HIDE DEF v, from
        <5> QED BY <1>2, <3>1, <5>1 DEF Exists
      <4>2. n \in 0..Len(Content[v])
        BY <1>5, <3>1
      <4> HIDE DEF v, from
      <4>3. Everything(from) = Visible(Ordered(Readable(Content[v], unread), "node"), Rules)
        BY <1>1, <4>1 DEF Everything
      <4>4. Follows(page, Visible(Ordered(Readable(Content[v], unread), "node"), Rules), at, 0)
        BY <1>2, <1>3, <3>1, <4>2, NodePage
      <4> QED BY <1>3, <4>1, <4>3, <4>4
    <3>2. UnpinnedPage(v, page, from)
      BY <2>2
    <3> HIDE DEF v, from, page
    <3> QED BY <1>1, <1>2, <3>1, <3>2, UnpinnedKeeps DEF PinnedTools, Follows, Continues
  <2> QED BY <1>5, <2>1, <2>2 DEF searchWorkspace, TreeNow
<1>6. \/ Stops("refused")
      \/ \E n \in IF v = Gone THEN {0} ELSE 0..Len(Content[v]), unread \in Passed : searchWorkspace(n, unread)
  BY DEF search_workspace
<1>7. ASSUME NEW n \in IF v = Gone THEN {0} ELSE 0..Len(Content[v])
      PROVE  v \in Versions => n \in 0..Len(Content[v])
  BY <1>2
<1> HIDE DEF v
<1> QED
  BY <1>4, <1>5, <1>6, <1>7

\* git_compare keeps the invariant when it looks up the base.
LEMMA BaseKeeps ==
  ASSUME ReadInv, base = <<>>, NEW view \in Comparisons, Handles(view), resolveBase
  PROVE  ReadInv'
<1>1. status = "reading" /\ request.tool \in Comparisons /\ Admitted
  BY DEF Handles
<1>2. CASE Stops("refused")
  BY <1>1, <1>2, StopsKeeps
<1>3. CASE /\ Continuation /\ base' = <<resolveTarget, Rules, resolveBranchRef("base")>>
           /\ UNCHANGED <<world, request, at, expected, got, barren, seen, flagged, over, status>>
  <2>1. UNCHANGED <<now, custom, registered, request, at, expected, got, barren, seen, flagged, over, status>>
    BY <1>3 DEF world
  <2>2. resolveTarget \in Roots /\ Rules \in BOOLEAN
    BY <1>1, VersionsNow
  <2>3. resolveBranchRef("base") \in Versions \union {Gone}
    BY <2>2 DEF resolveBranchRef, ReadInv, World, Sources, Branches
  <2>4. Origin' = Origin /\ \A f : Everything(f)' = Everything(f) /\ Exists(f)' = Exists(f)
    BY <2>1 DEF Origin, Everything, Exists
  <2>5. World' /\ Asked' /\ Received'
    BY <2>1 DEF ReadInv, World, Asked, Received
  <2>6. Compares'
    <3>1. Continuation'
      BY <1>3, <2>1 DEF Continuation
    <3> QED BY <1>1, <1>3, <2>1, <2>2, <2>3, <3>1 DEF Compares
  <2>7. (\A f \in seen : Exists(f))' /\ IsFiniteSet(seen)'
    BY <2>1, <2>4 DEF ReadInv
  <2>8. Position' /\ Pinned'
    BY <2>1 DEF ReadInv, Position, Pinned, Origin
  <2>9. Joined'
    BY <1>1, <2>1, <2>4 DEF ReadInv, Joined
  <2>10. OneAnswer' /\ Bulk' /\ EveryPageBrings'
    BY <2>1 DEF ReadInv, OneAnswer, Bulk, EveryPageBrings
  <2> QED BY <2>5, <2>6, <2>7, <2>8, <2>9, <2>10 DEF ReadInv
<1> QED
  BY <1>2, <1>3 DEF resolveBase

\* git_compare keeps the invariant when it looks up the target, which may have moved since, and compares.
LEMMA CompareKeeps ==
  ASSUME ReadInv, status = "reading", base # <<>>, compareSnapshots
  PROVE  ReadInv'
<1> DEFINE v == now[base[1]]["target"]
           ignores == base[2]
           commits == <<base[3], v>>
           from == From("", commits, ignores, "")
           page == IF request.tool = "compare" THEN DiffPage(Content[v], ignores) ELSE SummaryPage(Content[v], ignores)
           known == Gone \notin ToSet(commits) /\ assertExpectedCommit(commits)
<1>1. request.tool \in Comparisons /\ Continuation
  BY DEF ReadInv, Compares
<1>2. PICK w \in Roots, rules \in BOOLEAN, b \in Versions \union {Gone} : base = <<w, rules, b>>
  BY DEF ReadInv, Compares
<1>3. v \in Versions \union {Gone} /\ ignores \in BOOLEAN
  BY <1>2 DEF ReadInv, World, Sources, Branches
<1>4. base' = <<>> /\ IF known THEN AnswersPage(page, from)
                       ELSE /\ status' = "failed"
                            /\ UNCHANGED <<world, request, at, expected, got, barren, seen, flagged, over>>
  BY DEF compareSnapshots
<1>5. CASE ~ known
  BY <1>4, <1>5, EndKeeps
<1>6. CASE known
  <2>1. Gone \notin ToSet(commits) /\ assertExpectedCommit(commits) /\ v \in ToSet(commits)
    BY <1>6 DEF ToSet
  <2>2. v \in Versions
    BY <1>3, <2>1
  <2>3. from.commits = commits /\ Last(from.commits) = v /\ from.rules = ignores /\ from.engine = "" /\ from.unread = {}
    BY DEF From, Last
  <2>4. Exists(from)
    BY <1>3, <2>2, <2>3 DEF Exists
  <2>5. request.tool \notin {"browse_file", "read_file", "read_files", "git_search", "git_history"}
    BY <1>1 DEF Comparisons
  <2>6. Origin = 0 /\ at \in Nat /\ at - Origin = at /\ request.rows \in Nat \ {0} /\ request.bytes \in Nat \ {0}
    BY <2>5, FromZero, Asks
  <2>7. /\ ScanRows \in Nat \ {0} /\ Content[v] \in Seq(Rows) /\ Ordered(Content[v], "") = Content[v]
        /\ Readable(Content[v], {}) = Content[v]
    BY <2>2, RowsOfVersions, OrderedFacts, AllReadable, PagingBounds
  <2>8. AnswersPage(page, from) /\ assertExpectedCommit(from.commits)
    BY <1>4, <1>6, <2>1, <2>3
  <2>9. ASSUME request.tool = "compare"
        PROVE  Follows(page, Everything(from), at - Origin, Origin)
    <3>1. page = DiffPage(Content[v], ignores)
      BY <2>9
    <3> HIDE DEF v, from, page, commits, ignores
    <3>2. Everything(from) = Span(1, Total(Sizes(Content[v], DiffOf(Content[v], ignores))))
      BY <2>3, <2>9 DEF Everything
    <3>3. Follows(page, Span(1, Total(Sizes(Content[v], DiffOf(Content[v], ignores)))), at, 0)
      BY <1>3, <2>2, <2>6, <3>1, DiffPageOf
    <3> QED BY <2>6, <3>2, <3>3
  <2>10. ASSUME request.tool # "compare"
        PROVE  Follows(page, Everything(from), at - Origin, Origin)
    <3>1. page = SummaryPage(Content[v], ignores)
      BY <2>10
    <3> HIDE DEF v, from, page, commits, ignores
    <3>2. Everything(from) = Visible(Content[v], ignores)
      BY <1>1, <2>3, <2>5, <2>7, <2>10 DEF Everything, Comparisons
    <3>3. Follows(page, Visible(Content[v], ignores), at, 0)
      BY <1>3, <2>6, <2>7, <3>1, SummariesFollow DEF SummaryPage
    <3> QED BY <2>6, <3>2, <3>3
  <2>11. Follows(page, Everything(from), at - Origin, Origin)
    <3> HIDE DEF page, from
    <3> QED BY <2>9, <2>10
  <2> HIDE DEF v, from, page, commits, ignores
  <2> QED BY <1>1, <1>4, <2>4, <2>5, <2>8, <2>11, AnswersKeep DEF Follows, Continues
<1> QED
  BY <1>5, <1>6

\* Refusals are costs; a refused file takes the place of the first refusal that was counted for it.
LEMMA RefusalsJoin ==
  ASSUME NEW items \in Seq(Nat), NEW n \in Nat, Refusal \in Nat
  PROVE  /\ Refusals(n) \in Seq(Nat) /\ Len(Refusals(n)) = n
         /\ Append(items, Refusal) \o Refusals(n) = items \o Refusals(n + 1)
<1> DEFINE m == n + 1
<1>1. m \in Nat /\ m = n + 1
  OBVIOUS
<1> HIDE DEF m
<1>2. /\ Refusals(n) \in Seq(Nat) /\ Len(Refusals(n)) = n
      /\ \A k \in 1..n : Refusals(n)[k] = Refusal
  <2>1. Refusals(n) \in [1..n -> Nat] /\ \A k \in 1..n : Refusals(n)[k] = Refusal
    BY DEF Refusals
  <2> QED BY <2>1, SequenceOf
<1>3. /\ Refusals(m) \in Seq(Nat) /\ Len(Refusals(m)) = m
      /\ \A k \in 1..m : Refusals(m)[k] = Refusal
  <2>1. Refusals(m) \in [1..m -> Nat] /\ \A k \in 1..m : Refusals(m)[k] = Refusal
    BY DEF Refusals
  <2> QED BY <1>1, <2>1, SequenceOf
<1> DEFINE left == Append(items, Refusal) \o Refusals(n)
           right == items \o Refusals(m)
           longer == Append(items, Refusal)
<1>4. /\ longer \in Seq(Nat) /\ Len(longer) = Len(items) + 1 /\ Len(items) \in Nat
      /\ \A k \in 1..Len(items) + 1 : longer[k] = IF k <= Len(items) THEN items[k] ELSE Refusal
  BY LenProperties
<1>5. left = longer \o Refusals(n)
  OBVIOUS
<1> HIDE DEF longer
<1>6. /\ left \in Seq(Nat) /\ Len(left) = Len(items) + 1 + n
      /\ \A k \in 1..Len(left) : left[k] = IF k <= Len(items) + 1 THEN longer[k] ELSE Refusals(n)[k - (Len(items) + 1)]
  <2> DEFINE tail == Refusals(n)
  <2>1. longer \in Seq(Nat) /\ tail \in Seq(Nat) /\ left = longer \o tail
    BY <1>2, <1>4, <1>5
  <2> HIDE DEF left, tail
  <2>2. /\ left \in Seq(Nat) /\ Len(left) = Len(longer) + Len(tail)
        /\ \A k \in 1..Len(left) : left[k] = IF k <= Len(longer) THEN longer[k] ELSE tail[k - Len(longer)]
    BY <2>1, ConcatProperties
  <2>3. Len(longer) = Len(items) + 1 /\ Len(tail) = n
    BY <1>2, <1>4 DEF tail
  <2> QED BY <2>2, <2>3 DEF tail
<1>7. /\ right \in Seq(Nat) /\ Len(right) = Len(items) + m
      /\ \A k \in 1..Len(right) : right[k] = IF k <= Len(items) THEN items[k] ELSE Refusals(m)[k - Len(items)]
  BY <1>3, ConcatProperties
<1> HIDE DEF left, right
<1>8. Len(left) = Len(right)
  BY <1>1, <1>4, <1>6, <1>7
<1>9. ASSUME NEW k \in 1..Len(left) PROVE left[k] = right[k]
  <2>1. k \in Nat /\ k >= 1 /\ k <= Len(items) + 1 + n /\ k \in 1..Len(right)
    BY <1>4, <1>6, <1>8
  <2>2. CASE k <= Len(items)
    <3>1. k \in 1..Len(items) + 1
      BY <1>4, <2>1, <2>2
    <3>2. left[k] = longer[k]
      BY <1>4, <1>6, <2>1, <2>2
    <3> QED BY <1>4, <1>7, <2>1, <2>2, <3>1, <3>2
  <2>3. CASE k = Len(items) + 1
    <3>1. left[k] = Refusal
      BY <1>4, <1>6, <2>1, <2>3
    <3>2. k - Len(items) \in 1..m
      BY <1>1, <1>4, <2>3
    <3> QED BY <1>3, <1>4, <1>7, <2>1, <2>3, <3>1, <3>2
  <2>4. CASE k > Len(items) + 1
    <3>1. k - (Len(items) + 1) \in 1..n /\ k - Len(items) \in 1..m
      BY <1>1, <1>4, <2>1, <2>4
    <3>2. left[k] = Refusal
      BY <1>2, <1>4, <1>6, <2>4, <3>1
    <3>3. right[k] = Refusal
      BY <1>3, <1>4, <1>7, <2>1, <2>4, <3>1
    <3> QED BY <3>2, <3>3
  <2> QED BY <1>4, <2>1, <2>2, <2>3, <2>4
<1>10. left = right
  BY <1>6, <1>7, <1>8, <1>9, SeqEqual
<1> QED
  BY <1>1, <1>2, <1>10 DEF left, right

\* What a file adds to a bulk answer is a cost, however much of it is read.
LEMMA CostOfFile ==
  ASSUME NEW file \in Seq(Rows), NEW last \in Int, NEW maxBytes
  PROVE  Overhead + Total(Jsons(file, readFile(file, 1, last, maxBytes).rows)) \in Nat
<1> DEFINE page == readFile(file, 1, last, maxBytes)
           picked == page.rows
           all == Span(1, Len(file))
           one == 1
<1>1. Len(file) \in Nat /\ one \in Nat \ {0} /\ one - 1 = 0
  BY LenProperties
<1>2. page = readFile(file, one, last, maxBytes)
  OBVIOUS
<1> HIDE DEF one, page
<1>3. Resumes(page, all, one - 1, 1)
  BY <1>1, <1>2, ReadFileFollows
<1>4. /\ all \in Seq(Nat) /\ Len(all) = Len(file)
      /\ \A i \in 1..Len(file) : all[i] = i
  BY <1>1, WholeSpan
<1> HIDE DEF all
<1>5. /\ picked \in Seq(Nat) /\ Len(picked) <= Len(file)
      /\ \A i \in 1..Len(picked) : picked[i] = all[0 + i]
  BY <1>1, <1>3, <1>4 DEF Resumes
<1>6. Len(picked) \in Nat /\ picked = [i \in 1..Len(picked) |-> picked[i]]
  BY <1>5, LenProperties
<1>7. ASSUME NEW i \in 1..Len(picked) PROVE picked[i] \in 1..Len(file)
  <2>1. i \in 1..Len(file) /\ 0 + i = i
    BY <1>1, <1>5, <1>6
  <2> QED BY <1>4, <1>5, <2>1
<1> HIDE DEF picked
<1>8. picked \in [1..Len(picked) -> 1..Len(file)]
  BY <1>6, <1>7
<1>9. picked \in Seq(1..Len(file))
  BY <1>6, <1>8, SequenceOf
<1>10. AnswerBytes \in Nat /\ Overhead \in Nat
  BY PagingBounds
<1>11. Jsons(file, picked) \in Seq(Nat)
  BY <1>9, <1>10, SizesOfRows
<1>12. Total(Jsons(file, picked)) \in Nat
  BY <1>11, TotalIsNatural
<1> QED
  BY <1>10, <1>12 DEF picked, page, one

\* A file that is returned fits, with the files after it refused.
LEMMA ReadItemFits ==
  ASSUME NEW items \in Seq(Nat), NEW rest \in Nat, NEW file \in Seq(Rows), NEW last \in Int,
         NEW truncated \in BOOLEAN, NEW budget \in Nat,
         readItem(items, rest, file, last, truncated, budget) # None
  PROVE  LET item == readItem(items, rest, file, last, truncated, budget)
         IN  item \in Nat /\ Envelope + Total(Append(items, item) \o Refusals(rest)) <= budget
<1> DEFINE item == readItem(items, rest, file, last, truncated, budget)
           Cost(max) == Overhead + Total(Jsons(file, readFile(file, 1, last, max).rows))
           Shut(max) == truncated \/ readFile(file, 1, last, max).truncated
<1>1. PICK max : item = Cost(max) /\ Measured(items, Cost(max), rest, Shut(max)) - budget <= 0
  <2> DEFINE Over(m) == Measured(items, Cost(m), rest, Shut(m)) - budget
             Less(m) == Max({Least, m - Over(m) - Least})
             first == Available(items, rest, truncated, budget)
             second == Less(first)
             third == Less(second)
  <2>1. item = IF Over(first) <= 0 THEN Cost(first)
               ELSE IF second < first /\ Over(second) <= 0 THEN Cost(second)
               ELSE IF second < first /\ third < second /\ Over(third) <= 0 THEN Cost(third)
               ELSE None
    BY DEF readItem
  <2>2. item # None
    OBVIOUS
  <2> HIDE DEF item, first, second, third, Cost
  <2>3. \E m : item = Cost(m) /\ Over(m) <= 0
    <3> HIDE DEF Over
    <3> QED BY <2>1, <2>2
  <2> QED BY <2>3
<1>2. Cost(max) \in Nat
  BY CostOfFile
<1>3. Refusal \in Nat /\ Envelope \in Nat
  BY PagingBounds
<1> HIDE DEF item, Cost
<1> DEFINE all == Append(items, item) \o Refusals(rest)
<1>4. Append(items, item) \in Seq(Nat) /\ Refusals(rest) \in Seq(Nat)
  BY <1>1, <1>2, <1>3, RefusalsJoin
<1>5. all \in Seq(Nat)
  BY <1>4, ConcatProperties
<1>6. Measured(items, item, rest, Shut(max)) = serialize(all, Shut(max))
  BY DEF Measured, Refusals
<1> HIDE DEF all, Shut
<1>7. Total(all) \in Nat
  BY <1>5, TotalIsNatural
<1>8. serialize(all, Shut(max)) - budget <= 0
  BY <1>1, <1>6
<1>9. serialize(all, Shut(max)) = Envelope + (IF Shut(max) THEN 0 ELSE 1) + Total(all)
  BY DEF serialize
<1>10. Envelope + Total(all) <= budget
  <2>1. CASE Shut(max)
    BY <1>3, <1>7, <1>8, <1>9, <2>1
  <2>2. CASE ~ Shut(max)
    BY <1>3, <1>7, <1>8, <1>9, <2>2
  <2> QED BY <2>1, <2>2
<1> QED
  BY <1>1, <1>2, <1>10 DEF item, all

\* read_files keeps the invariant: the next file, or the refusal that was counted for it; the last one ends the answer.
LEMMA FilesKeep ==
  ASSUME ReadInv, read_files
  PROVE  ReadInv'
<1>1. /\ status = "reading" /\ request.tool = "read_files"
      /\ UNCHANGED <<world, request, base, expected, barren, seen>>
  BY DEF read_files, Handles
<1>2. PICK file \in {Content[v] : v \in Versions} \union {Missing}, last \in 0..request.rows : readFiles(file, last)
  BY DEF read_files
<1> DEFINE rest == BulkFiles - at - 1
           item == readItem(got, rest, file, last, flagged, request.bytes)
           lost == Available(got, rest, flagged, request.bytes) < Least \/ (file # Missing /\ item = None)
           added == IF lost \/ file = Missing THEN Refusal ELSE item
<1>3. /\ got' = Append(got, added) /\ flagged' = (flagged \/ lost)
      /\ IF rest = 0
         THEN at' = NoPage /\ status' = "done" /\ over' = serialize(got', flagged') - request.bytes
         ELSE at' = at + 1 /\ UNCHANGED <<status, over>>
  BY <1>2 DEF readFiles
<1>4. /\ got \in Seq(Nat) /\ Len(got) \in Nat /\ flagged \in BOOLEAN
      /\ last \in Int /\ request.bytes \in Nat
  BY LenProperties DEF ReadInv, Received, Asked
<1>5. /\ seen = {} /\ barren = {} /\ over <= 1 /\ at \in 0..BulkFiles - 1
      /\ Envelope + Total(got \o Refusals(BulkFiles - at)) <= request.bytes
  BY <1>1 DEF ReadInv, Bulk
<1>6. BulkFiles \in Nat \ {0} /\ Refusal \in Nat /\ Envelope \in Nat
  BY ReadingBounds, PagingBounds
<1>7. rest \in Nat /\ BulkFiles - at = rest + 1 /\ at \in Int
  BY <1>5, <1>6
<1> HIDE DEF rest
<1>8. added \in Nat /\ Envelope + Total(Append(got, added) \o Refusals(rest)) <= request.bytes
  <2>1. CASE lost \/ file = Missing
    <3>1. added = Refusal
      BY <2>1
    <3>2. Append(got, Refusal) \o Refusals(rest) = got \o Refusals(rest + 1)
      BY <1>4, <1>6, <1>7, RefusalsJoin
    <3> QED BY <1>5, <1>6, <1>7, <3>1, <3>2
  <2>2. CASE ~ (lost \/ file = Missing)
    <3>1. added = item /\ item # None /\ file # Missing
      BY <2>2
    <3>2. file \in Seq(Rows)
      BY <3>1, RowsOfVersions
    <3> HIDE DEF added
    <3>3. item \in Nat /\ Envelope + Total(Append(got, item) \o Refusals(rest)) <= request.bytes
      BY <1>4, <1>7, <3>1, <3>2, ReadItemFits
    <3> QED BY <3>1, <3>3
  <2> QED BY <2>1, <2>2
<1>9. flagged' \in BOOLEAN
  BY <1>3, <1>4
<1> HIDE DEF item, lost, added
<1>10. /\ got' \in Seq(Nat) /\ Len(got') = Len(got) + 1
       /\ Envelope + Total(got' \o Refusals(rest)) <= request.bytes
  BY <1>3, <1>4, <1>8, AppendProperties
<1>11. UNCHANGED <<now, custom, registered, request, base, expected, barren, seen>>
  BY <1>1 DEF world
<1>12. World' /\ Asked'
  BY <1>11 DEF ReadInv, World, Asked
<1>13. at' \in Int /\ status' \in {"reading", "done"}
  BY <1>1, <1>3, <1>7 DEF NoPage
<1>14. Received'
  BY <1>9, <1>10, <1>11, <1>13 DEF ReadInv, Received
<1>15. Compares'
  <2>1. base = <<>>
    BY <1>1 DEF ReadInv, Compares, Comparisons
  <2> QED BY <1>11, <2>1 DEF Compares
<1>16. (\A from \in seen : Exists(from))' /\ IsFiniteSet(seen)'
  BY <1>5, <1>11, FS_EmptySet
<1>17. Position' /\ Pinned' /\ Joined' /\ OneAnswer'
  BY <1>1, <1>11 DEF Position, Pinned, Joined, OneAnswer, PinnedTools
<1>18. EveryPageBrings'
  BY <1>4, <1>5, <1>10, <1>11 DEF EveryPageBrings
<1>19. over' <= 1
  <2>1. CASE rest = 0
    <3>1. got' \o Refusals(rest) = got'
      <4>1. Refusals(rest) = <<>>
        BY <2>1 DEF Refusals
      <4> QED BY <1>10, <4>1
    <3>2. Total(got') \in Nat
      BY <1>10, TotalIsNatural
    <3>3. Envelope + Total(got') <= request.bytes
      BY <1>10, <3>1
    <3>4. over' = serialize(got', flagged') - request.bytes
      BY <1>3, <2>1
    <3>5. serialize(got', flagged') = Envelope + (IF flagged' THEN 0 ELSE 1) + Total(got')
      BY DEF serialize
    <3>6. CASE flagged'
      BY <1>4, <1>6, <3>2, <3>3, <3>4, <3>5, <3>6
    <3>7. CASE ~ flagged'
      BY <1>4, <1>6, <3>2, <3>3, <3>4, <3>5, <3>7
    <3> QED BY <3>6, <3>7
  <2>2. CASE rest # 0
    BY <1>3, <1>5, <2>2
  <2> QED BY <2>1, <2>2
<1>20. status' = "reading" => /\ at' \in 0..BulkFiles - 1
                              /\ Envelope + Total(got' \o Refusals(BulkFiles - at')) <= request.bytes
  <2> SUFFICES ASSUME status' = "reading"
               PROVE  /\ at' \in 0..BulkFiles - 1
                      /\ Envelope + Total(got' \o Refusals(BulkFiles - at')) <= request.bytes
    OBVIOUS
  <2>1. rest # 0 /\ at' = at + 1
    BY <1>3
  <2>2. at' \in 0..BulkFiles - 1 /\ BulkFiles - at' = rest
    BY <1>5, <1>6, <1>7, <2>1
  <2> QED BY <1>10, <2>2
<1>21. Bulk'
  BY <1>5, <1>11, <1>19, <1>20 DEF Bulk, Refusals
<1> QED
  BY <1>12, <1>14, <1>15, <1>16, <1>17, <1>18, <1>21 DEF ReadInv

-----------------------------------------------------------------------------
(* What holds of every read. *)

\* Every step keeps the invariant.
LEMMA ReadingNextKeeps ==
  ASSUME ReadInv, [ReadingNext]_readingVars
  PROVE  ReadInv'
<1>1. CASE Environment
  BY <1>1, EnvironmentPreserves
<1>2. CASE Refused
  <2>1. status = "reading" /\ Stops("refused")
    BY <1>2 DEF Refused
  <2> QED BY <2>1, StopsKeeps
<1>3. CASE list_branches \/ git_history \/ git_search
  BY <1>3, BranchesKeep, HistoryKeeps, GitSearchKeeps
<1>4. CASE git_browse
  BY <1>4, BrowseFileKeeps, BrowseDirectoryKeeps DEF git_browse
<1>5. CASE git_compare
  <2>1. CASE base = <<>> /\ (\E view \in Comparisons : Handles(view)) /\ resolveBase
    BY <2>1, BaseKeeps
  <2>2. CASE base # <<>> /\ status = "reading" /\ compareSnapshots
    BY <2>2, CompareKeeps
  <2> QED BY <1>5, <2>1, <2>2 DEF git_compare
<1>6. CASE (list_directory /\ UNCHANGED failed) \/ read_file
  BY <1>6, DirectoryKeeps, FileKeeps
<1>7. CASE read_files
  BY <1>7, FilesKeep
<1>8. CASE search_workspace
  BY <1>8, SearchKeeps
<1>9. CASE git_diff
  BY <1>9, DiffKeeps
<1>10. CASE UNCHANGED readingVars
  <2>1. UNCHANGED <<now, custom, registered, request, at, base, expected, got, barren, seen, flagged, failed, over, status>>
    BY <1>10 DEF readingVars
  <2>2. World'
    BY <2>1 DEF ReadInv, World
  <2> QED BY <2>1, <2>2, EnvironmentKeeps
<1> QED
  BY <1>1, <1>2, <1>3, <1>4, <1>5, <1>6, <1>7, <1>8, <1>9, <1>10 DEF ReadingNext, Request

\* Every state of a read satisfies the invariant, for every content, limit and budget.
THEOREM ReadInvariant == ReadingSpec => []ReadInv
<1>1. ReadingInit => ReadInv
  BY ReadingInitEstablishes
<1>2. ReadInv /\ [ReadingNext]_readingVars => ReadInv'
  BY ReadingNextKeeps
<1> QED
  BY <1>1, <1>2, PTL DEF ReadingSpec

\* Everything a version has is a list of numbers.
LEMMA EverythingIsAList ==
  ASSUME NEW from, Exists(from)
  PROVE  Everything(from) \in Seq(Nat) /\ Len(Everything(from)) \in Nat
<1> DEFINE v == Last(from.commits)
           rules == from.rules
           rows == Content[v]
           total == Total(Sizes(rows, DiffOf(rows, rules)))
           size == Len(rows)
           ordered == Ordered(Readable(rows, from.unread), from.engine)
<1>1. v \in Versions /\ rules \in BOOLEAN /\ from.engine \in {"", "ripgrep", "node"}
  BY DEF Exists
<1>2. rows \in Seq(Rows) /\ BatchRows \in Nat \ {0} /\ size \in Nat
  BY <1>1, RowsOfVersions, PagingBounds
<1>3. \/ Everything(from) = Span(1, size) \/ Everything(from) = Span(1, total)
      \/ Everything(from) = Visible(ordered, rules)
  BY DEF Everything
<1> HIDE DEF v, rules, rows
<1>4. total \in Nat
  BY <1>1, <1>2, DiffFacts
<1>5. ordered \in Seq(Rows)
  BY <1>1, <1>2, ReadableRows, OrderedFacts
<1> HIDE DEF total, size, ordered
<1>6. Span(1, size) \in Seq(Nat) /\ Span(1, total) \in Seq(Nat)
  BY <1>2, <1>4, WholeSpan
<1>7. Visible(ordered, rules) \in Seq(Nat)
  BY <1>1, <1>5, ShownNumbers
<1> QED
  BY <1>3, <1>6, <1>7, LenProperties

\* What a read was cut from, when all of its pages came from one version; nothing for a bulk answer.
LEMMA OneSource ==
  ASSUME ReadInv, Cardinality(seen) = 1
  PROVE  /\ Sole \in seen /\ seen = {Sole} /\ Exists(Sole) /\ request.tool # "read_files"
<1>1. IsFiniteSet(seen)
  BY DEF ReadInv
<1>2. seen # {}
  BY FS_EmptySet
<1>3. Sole \in seen
  BY <1>2 DEF Sole
<1>4. PICK f : seen = {f}
  BY <1>1, FS_Singleton
<1> QED
  BY <1>2, <1>3, <1>4 DEF ReadInv, Bulk

\* The pages of a read fit together, however branches, the tree, .c2cignore and the registry change:
\* the tools that ask for the commit again have pages of the same commits only, and pages cut from one
\* version are a first part of what it has (git-snapshot.ts, git.ts, manager.ts, search.ts).
THEOREM PagesOfAReadFit == ReadingSpec => []PagesFit
<1>1. ReadInv => PagesFit
  <2> SUFFICES ASSUME ReadInv PROVE PagesFit
    OBVIOUS
  <2>1. ASSUME request.tool \in PinnedTools PROVE Cardinality({from.commits : from \in seen}) <= 1
    <3>1. \A f, g \in seen : f.commits = g.commits
      BY <2>1 DEF ReadInv, Pinned
    <3>2. CASE seen = {}
      <4>1. {from.commits : from \in seen} = {}
        BY <3>2
      <4> QED BY <4>1, FS_EmptySet
    <3>3. CASE seen # {}
      <4>1. PICK f : f \in seen
        BY <3>3
      <4>2. {from.commits : from \in seen} = {f.commits}
        BY <3>1, <4>1
      <4>3. Cardinality({f.commits}) = 1
        BY FS_Singleton
      <4> QED BY <4>2, <4>3
    <3> QED BY <3>2, <3>3
  <2>2. ASSUME Cardinality(seen) = 1 PROVE IsPrefix(got, Everything(Sole))
    <3>1. seen = {Sole} /\ Exists(Sole) /\ request.tool # "read_files" /\ Sole \in seen
      BY <2>2, OneSource
    <3> DEFINE sole == Sole
               all == Everything(sole)
    <3>2. Len(got) <= Len(all) /\ \A i \in 1..Len(got) : got[i] = all[i]
      <4> HIDE DEF sole
      <4>1. sole \in seen /\ seen = {sole}
        BY <3>1 DEF sole
      <4> QED BY <3>1, <4>1 DEF ReadInv, Joined
    <3>3. all \in Seq(Nat) /\ got \in Seq(Nat)
      BY <3>1, EverythingIsAList DEF ReadInv, Received
    <3> HIDE DEF all
    <3>4. got = SubSeq(all, 1, Len(got))
      BY <3>2, <3>3
    <3> QED BY <3>2, <3>3, <3>4 DEF IsPrefix, all, sole
  <2> QED BY <2>1, <2>2 DEF PagesFit
<1> QED
  BY <1>1, ReadInvariant, PTL

\* A read that ended without calling its last page truncated has everything that could be read, when
\* its pages came from one version and the last one not from a ripgrep that failed: no page, scan, budget
\* or time limit ends a read silently, whatever a walk passes over (git-snapshot.ts, search.ts, manager.ts).
THEOREM SilentEndIsComplete == ReadingSpec => []EndedReadIsComplete
<1>1. ReadInv => EndedReadIsComplete
  <2> SUFFICES ASSUME ReadInv, status = "done", ~ flagged, ~ failed, Cardinality(seen) = 1
               PROVE  got = Everything(Sole)
    BY DEF EndedReadIsComplete
  <2>1. seen = {Sole} /\ Exists(Sole) /\ request.tool # "read_files" /\ Sole \in seen
    BY OneSource
  <2> DEFINE sole == Sole
             all == Everything(sole)
  <2>2. Len(got) = Len(all) /\ \A i \in 1..Len(got) : got[i] = all[i]
    <3> HIDE DEF sole
    <3>1. sole \in seen /\ seen = {sole}
      BY <2>1 DEF sole
    <3> QED BY <2>1, <3>1 DEF ReadInv, Joined
  <2>3. all \in Seq(Nat) /\ got \in Seq(Nat)
    BY <2>1, EverythingIsAList DEF ReadInv, Received
  <2> HIDE DEF all
  <2>4. got = all
    BY <2>2, <2>3, SeqEqual
  <2> QED BY <2>4 DEF all, sole
<1> QED
  BY <1>1, ReadInvariant, PTL

\* An answer with several files exceeds what was asked for by at most one byte, whatever the files
\* cost and however often each is read again (bulk-read.ts).
THEOREM BulkAnswerFits == ReadingSpec => []AnswerFits
<1>1. ReadInv => AnswerFits
  <2> SUFFICES ASSUME ReadInv PROVE over <= 1
    BY DEF AnswerFits
  <2>1. CASE request.tool = "read_files"
    BY <2>1 DEF ReadInv, Bulk
  <2>2. CASE request.tool # "read_files"
    BY <2>2 DEF ReadInv, Position
  <2> QED BY <2>1, <2>2
<1> QED
  BY <1>1, ReadInvariant, PTL

\* A page that another one follows brings at least one row or byte, so every read ends: also when a row
\* alone exceeds every budget, and when what is read changes between two pages.  Only read_file may answer
\* without a line and with the same next one: when the client asks for lines behind the end line
\* that it names again (manager.ts:189-227).
THEOREM EveryPageBringsSomething == ReadingSpec => []EveryPageBrings
<1>1. ReadInv => EveryPageBrings
  BY DEF ReadInv
<1> QED
  BY <1>1, ReadInvariant, PTL

=============================================================================
