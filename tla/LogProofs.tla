----------------------------- MODULE LogProofs -----------------------------
(* Proofs about the logs of items: the old log survives its move to the     *)
(* table, for every number of instances, items and restarts and whatever    *)
(* later attempts write; and a job's output is in the table as it was       *)
(* written, for every limit on a row and every way to split the output.     *)
EXTENDS LogMigration, LogWriter, SequenceTheorems, WellFoundedInduction, TLAPS

---------------------------------------------------------------------------
(* Induction and recursion on numbers, without an operator as a parameter: a *)
(* property is a set of numbers, a step is a function.                       *)

\* A set of numbers that has 0 and the successor of each of its numbers has all.
LEMMA AllNumbers ==
  ASSUME NEW P \in SUBSET Nat, 0 \in P, \A n \in P : n + 1 \in P
  PROVE  P = Nat
<1> DEFINE T == Nat \ P
           R == OpToRel(<, Nat)
<1>1. SUFFICES ASSUME T # {} PROVE FALSE
  OBVIOUS
<1>2. PICK n \in T : \A m \in T : ~(<<m, n>> \in R)
  <2>1. IsWellFoundedOn(R, Nat)
    BY NatLessThanWellFounded, Zenon
  <2>2. T \in SUBSET Nat
    OBVIOUS
  <2>3. QED BY <1>1, <2>1, <2>2, WFMin, Zenon
<1>3. n \in Nat /\ n # 0
  OBVIOUS
<1>4. n - 1 \in Nat /\ n - 1 < n
  BY <1>3
<1>5. <<n - 1, n>> \in R
  BY <1>3, <1>4 DEF OpToRel
<1>6. n - 1 \in P
  BY <1>2, <1>4, <1>5
<1>7. QED BY <1>3, <1>6

\* A first value and a step make a function on the numbers up to any bound.
LEMMA Recursion ==
  ASSUME NEW S, NEW base \in S, NEW N \in Nat, NEW step \in [1..N -> [S -> S]]
  PROVE  \E f \in [0..N -> S] : f[0] = base /\ \A n \in 1..N : f[n] = step[n][f[n - 1]]
<1> DEFINE Made(f, m) == f[0] = base /\ \A n \in 1..m : f[n] = step[n][f[n - 1]]
           P == {m \in Nat : m <= N => \E f \in [0..m -> S] : Made(f, m)}
<1>1. 0 \in P
  <2>1. [n \in 0..0 |-> base] \in [0..0 -> S] /\ Made([n \in 0..0 |-> base], 0)
    OBVIOUS
  <2>2. QED BY <2>1
<1>2. ASSUME NEW m \in P PROVE m + 1 \in P
  <2>1. SUFFICES ASSUME m + 1 <= N PROVE \E f \in [0..m + 1 -> S] : Made(f, m + 1)
    BY <1>2
  <2>2. m \in Nat /\ m <= N
    BY <1>2, <2>1
  <2>3. PICK f \in [0..m -> S] : Made(f, m)
    BY <1>2, <2>2
  <2> DEFINE g == [n \in 0..m + 1 |-> IF n <= m THEN f[n] ELSE step[n][f[n - 1]]]
  <2>4. step[m + 1] \in [S -> S] /\ f[m] \in S /\ (m + 1) - 1 = m
    BY <2>1, <2>2, <2>3
  <2>5. step[m + 1][f[m]] \in S
    BY <2>4
  <2>6. \A n \in 0..m + 1 : g[n] \in S
    BY <2>2, <2>3, <2>4, <2>5
  <2>7. g[0] = base
    BY <2>2, <2>3
  <2>8. \A n \in 1..m + 1 : g[n] = step[n][g[n - 1]]
    BY <2>2, <2>3
  <2>9. QED BY <2>6, <2>7, <2>8
<1>3. P = Nat
  <2> HIDE DEF P
  <2>1. P \in SUBSET Nat
    BY DEF P
  <2>2. QED BY <1>1, <1>2, <2>1, AllNumbers
<1>4. QED BY <1>3

---------------------------------------------------------------------------
(* What a transaction sees *)

Line == {"first", "second"} \cup NewLine
Writer == Starter \cup {"committed", "nobody", "writer"}
LogRow == [line : Line, by : Writer]

\* Shown is what the recursion says: row by row, the lines of those it reads.
LEMMA ShownByRow ==
  ASSUME NEW rows \in Seq(LogRow), NEW who
  PROVE  \E seen \in [0..Len(rows) -> Seq(Line)] :
           /\ seen[0] = <<>>
           /\ \A n \in 1..Len(rows) :
                seen[n] = IF rows[n].by \in who THEN Append(seen[n - 1], rows[n].line) ELSE seen[n - 1]
           /\ Shown(rows, who) = seen[Len(rows)]
<1> DEFINE N == Len(rows)
           Body(f) == [n \in 0..N |->
             IF n = 0 THEN <<>> ELSE IF rows[n].by \in who THEN Append(f[n - 1], rows[n].line) ELSE f[n - 1]]
           next == [n \in 1..N |-> [q \in Seq(Line) |-> IF rows[n].by \in who THEN Append(q, rows[n].line) ELSE q]]
           seen == CHOOSE f : f = Body(f)
<1>0. \A r \in LogRow : r.line \in Line
  BY DEF LogRow
<1>1. N \in Nat /\ \A n \in 1..N : rows[n] \in LogRow /\ rows[n].line \in Line
  BY <1>0
<1>2. <<>> \in Seq(Line)
  OBVIOUS
<1>3. next \in [1..N -> [Seq(Line) -> Seq(Line)]]
  BY <1>1
<1>4. PICK g \in [0..N -> Seq(Line)] : g[0] = <<>> /\ \A n \in 1..N : g[n] = next[n][g[n - 1]]
  <2> DEFINE S == Seq(Line)
             none == <<>>
  <2>1. N \in Nat /\ none \in S /\ next \in [1..N -> [S -> S]]
    BY <1>1, <1>2, <1>3
  <2> HIDE DEF N, next, S, none
  <2>2. \E f \in [0..N -> S] : f[0] = none /\ \A n \in 1..N : f[n] = next[n][f[n - 1]]
    BY <2>1, Recursion, SMTT(30)
  <2>3. QED BY <2>2 DEF S, none
<1>5. g = Body(g)
  <2>1. \A n \in 1..N : n - 1 \in 0..N /\ g[n - 1] \in Seq(Line)
    BY <1>1, <1>4
  <2>2. \A n \in 1..N : g[n] = IF rows[n].by \in who THEN Append(g[n - 1], rows[n].line) ELSE g[n - 1]
    BY <1>4, <2>1
  <2>3. DOMAIN g = 0..N /\ \A n \in 0..N : n # 0 => n \in 1..N
    BY <1>1, <1>4
  <2>4. \A n \in 0..N : g[n] = Body(g)[n]
    BY <1>4, <2>2, <2>3
  <2>5. g = [n \in 0..N |-> g[n]]
    BY <1>4
  <2>6. QED BY <2>4, <2>5
<1>6. seen = Body(seen)
  <2> HIDE DEF Body
  <2>1. QED BY <1>5
<1>7. Shown(rows, who) = seen[N]
  BY DEF Shown
<1> HIDE DEF seen, next
<1>8. seen[0] = <<>> /\ DOMAIN seen = 0..N
  BY <1>1, <1>6
<1>9. \A n \in 1..N : seen[n] = IF rows[n].by \in who THEN Append(seen[n - 1], rows[n].line) ELSE seen[n - 1]
  <2>1. \A n \in 0..N : seen[n] = Body(seen)[n]
    <3> HIDE DEF Body
    <3>1. QED BY <1>6, Zenon
  <2>2. \A n \in 1..N : n \in 0..N /\ n # 0
    BY <1>1
  <2>3. QED BY <2>1, <2>2
<1>10. \A n \in 0..N : seen[n] \in Seq(Line)
  <2> DEFINE P == {n \in Nat : n <= N => seen[n] \in Seq(Line)}
  <2>1. 0 \in P
    BY <1>2, <1>8
  <2>2. ASSUME NEW n \in P PROVE n + 1 \in P
    <3>1. SUFFICES ASSUME n + 1 <= N PROVE seen[n + 1] \in Seq(Line)
      BY <2>2
    <3>2. n + 1 \in 1..N /\ (n + 1) - 1 = n /\ n <= N
      BY <1>1, <3>1
    <3>3. seen[n] \in Seq(Line) /\ rows[n + 1].line \in Line
      BY <1>1, <2>2, <3>2
    <3>4. seen[n + 1] \in {Append(seen[n], rows[n + 1].line), seen[n]}
      <4>1. seen[n + 1] \in {Append(seen[(n + 1) - 1], rows[n + 1].line), seen[(n + 1) - 1]}
        BY <1>9, <3>2, Zenon
      <4>2. QED BY <3>2, <4>1, Zenon
    <3>5. \A q \in Seq(Line), line \in Line : Append(q, line) \in Seq(Line)
      OBVIOUS
    <3>6. QED BY <3>3, <3>4, <3>5, Zenon
  <2>3. P = Nat
    <3> HIDE DEF P
    <3>1. P \in SUBSET Nat
      BY DEF P
    <3>2. QED BY <2>1, <2>2, <3>1, AllNumbers
  <2>4. QED BY <1>1, <2>3
<1>11. seen = [n \in 0..N |-> seen[n]]
  BY <1>6
<1>12. seen \in [0..N -> Seq(Line)]
  BY <1>10, <1>11
<1>13. QED BY <1>7, <1>8, <1>9, <1>12

LEMMA ShownType ==
  ASSUME NEW rows \in Seq(LogRow), NEW who
  PROVE  Shown(rows, who) \in Seq(Line)
<1>1. Len(rows) \in 0..Len(rows)
  OBVIOUS
<1>2. QED BY <1>1, ShownByRow

\* Two sequences of rows with the same lines, of which the same are read, show
\* the same, whoever the writers are.
LEMMA ShownSame ==
  ASSUME NEW rows \in Seq(LogRow), NEW others \in Seq(LogRow), NEW who, NEW them,
         Len(rows) = Len(others),
         \A k \in 1..Len(rows) : /\ rows[k].line = others[k].line
                                 /\ rows[k].by \in who <=> others[k].by \in them
  PROVE  Shown(rows, who) = Shown(others, them)
<1> DEFINE N == Len(rows)
<1>1. PICK f \in [0..N -> Seq(Line)] :
        /\ f[0] = <<>>
        /\ \A n \in 1..N : f[n] = IF rows[n].by \in who THEN Append(f[n - 1], rows[n].line) ELSE f[n - 1]
        /\ Shown(rows, who) = f[N]
  BY ShownByRow
<1>2. PICK g \in [0..N -> Seq(Line)] :
        /\ g[0] = <<>>
        /\ \A n \in 1..N : g[n] = IF others[n].by \in them THEN Append(g[n - 1], others[n].line) ELSE g[n - 1]
        /\ Shown(others, them) = g[N]
  <2>1. N = Len(others)
    OBVIOUS
  <2> HIDE DEF N
  <2>2. QED BY <2>1, ShownByRow, Zenon
<1> DEFINE P == {n \in Nat : n <= N => f[n] = g[n]}
<1>3. 0 \in P
  BY <1>1, <1>2
<1>4. ASSUME NEW n \in P PROVE n + 1 \in P
  <2>1. SUFFICES ASSUME n + 1 <= N PROVE f[n + 1] = g[n + 1]
    BY <1>4
  <2>2. n + 1 \in 1..N /\ (n + 1) - 1 = n /\ f[n] = g[n]
    BY <1>4, <2>1
  <2>3. QED BY <1>1, <1>2, <2>2
<1>5. P = Nat
  <2> HIDE DEF P
  <2>1. P \in SUBSET Nat
    BY DEF P
  <2>2. QED BY <1>3, <1>4, <2>1, AllNumbers
<1>6. N \in Nat
  OBVIOUS
<1>7. QED BY <1>1, <1>2, <1>5, <1>6

\* A new row is shown last, to those who read it.
LEMMA ShownAppend ==
  ASSUME NEW rows \in Seq(LogRow), NEW r \in LogRow, NEW who
  PROVE  Shown(Append(rows, r), who) =
           IF r.by \in who THEN Append(Shown(rows, who), r.line) ELSE Shown(rows, who)
<1> DEFINE more == Append(rows, r)
           N == Len(rows)
<1>1. more \in Seq(LogRow) /\ Len(more) = N + 1 /\ N \in Nat
  OBVIOUS
<1>2. more[N + 1] = r /\ \A k \in 1..N : more[k] = rows[k]
  OBVIOUS
<1> HIDE DEF more
<1>3. PICK f \in [0..N -> Seq(Line)] :
        /\ f[0] = <<>>
        /\ \A n \in 1..N : f[n] = IF rows[n].by \in who THEN Append(f[n - 1], rows[n].line) ELSE f[n - 1]
        /\ Shown(rows, who) = f[N]
  BY ShownByRow
<1>4. PICK g \in [0..N + 1 -> Seq(Line)] :
        /\ g[0] = <<>>
        /\ \A n \in 1..N + 1 : g[n] = IF more[n].by \in who THEN Append(g[n - 1], more[n].line) ELSE g[n - 1]
        /\ Shown(more, who) = g[N + 1]
  BY <1>1, ShownByRow
<1> DEFINE P == {n \in Nat : n <= N => f[n] = g[n]}
<1>5. 0 \in P
  BY <1>3, <1>4
<1>6. ASSUME NEW n \in P PROVE n + 1 \in P
  <2>1. SUFFICES ASSUME n + 1 <= N PROVE f[n + 1] = g[n + 1]
    BY <1>6
  <2>2. n + 1 \in 1..N /\ n + 1 \in 1..N + 1 /\ (n + 1) - 1 = n /\ f[n] = g[n]
    BY <1>1, <1>6, <2>1
  <2>3. f[n + 1] = IF rows[n + 1].by \in who THEN Append(f[n], rows[n + 1].line) ELSE f[n]
    BY <1>3, <2>2
  <2>4. g[n + 1] = IF more[n + 1].by \in who THEN Append(g[n], more[n + 1].line) ELSE g[n]
    BY <1>4, <2>2
  <2>5. more[n + 1] = rows[n + 1]
    BY <1>2, <2>2
  <2>6. QED BY <2>2, <2>3, <2>4, <2>5, Zenon
<1>7. P = Nat
  <2> HIDE DEF P
  <2>1. P \in SUBSET Nat
    BY DEF P
  <2>2. QED BY <1>5, <1>6, <2>1, AllNumbers
<1>8. f[N] = g[N] /\ N + 1 \in 1..N + 1 /\ (N + 1) - 1 = N
  BY <1>1, <1>7
<1>9. Shown(more, who) = IF r.by \in who THEN Append(f[N], r.line) ELSE f[N]
  BY <1>2, <1>4, <1>8
<1>10. QED BY <1>3, <1>9 DEF more

\* Nothing is shown exactly when there is no row to read.
LEMMA ShownEmpty ==
  ASSUME NEW rows \in Seq(LogRow), NEW who
  PROVE  Shown(rows, who) = <<>> <=> \A k \in 1..Len(rows) : rows[k].by \notin who
<1> DEFINE N == Len(rows)
<1>1. PICK f \in [0..N -> Seq(Line)] :
        /\ f[0] = <<>>
        /\ \A n \in 1..N : f[n] = IF rows[n].by \in who THEN Append(f[n - 1], rows[n].line) ELSE f[n - 1]
        /\ Shown(rows, who) = f[N]
  BY ShownByRow
<1> DEFINE P == {n \in Nat : n <= N => (f[n] = <<>> <=> \A k \in 1..n : rows[k].by \notin who)}
<1>2. 0 \in P
  BY <1>1
<1>3. ASSUME NEW n \in P PROVE n + 1 \in P
  <2>1. SUFFICES ASSUME n + 1 <= N PROVE f[n + 1] = <<>> <=> \A k \in 1..n + 1 : rows[k].by \notin who
    BY <1>3
  <2>2. n + 1 \in 1..N /\ (n + 1) - 1 = n /\ n \in 0..N
    BY <1>3, <2>1
  <2>3. f[n] = <<>> <=> \A k \in 1..n : rows[k].by \notin who
    BY <1>3, <2>1
  <2>4. f[n + 1] = IF rows[n + 1].by \in who THEN Append(f[n], rows[n + 1].line) ELSE f[n]
    BY <1>1, <2>2
  <2>5. Append(f[n], rows[n + 1].line) # <<>>
    <3>1. f[n] \in Seq(Line)
      BY <1>1, <2>2
    <3>2. rows[n + 1] \in LogRow
      BY <2>2
    <3>3. rows[n + 1].line \in Line
      BY <3>2 DEF LogRow
    <3>4. \A q \in Seq(Line), line \in Line : Append(q, line) # <<>>
      BY AppendProperties
    <3>5. QED BY <3>1, <3>3, <3>4, Zenon
  <2>6. \A k \in 1..n + 1 : k \in 1..n \/ k = n + 1
    BY <2>2
  <2>7. \A k \in 1..n : k \in 1..n + 1
    BY <2>2
  <2>8. n + 1 \in 1..n + 1
    BY <2>2
  <2>9. QED BY <2>3, <2>4, <2>5, <2>6, <2>7, <2>8, Zenon
<1>4. P = Nat
  <2> HIDE DEF P
  <2>1. P \in SUBSET Nat
    BY DEF P
  <2>2. QED BY <1>2, <1>3, <2>1, AllNumbers
<1>5. N \in Nat
  OBVIOUS
<1>6. QED BY <1>1, <1>4, <1>5

\* What two readers without a row in common see adds up.
LEMMA ShownLength ==
  ASSUME NEW rows \in Seq(LogRow), NEW who, NEW them, who \cap them = {}
  PROVE  Len(Shown(rows, who \cup them)) = Len(Shown(rows, who)) + Len(Shown(rows, them))
<1> DEFINE N == Len(rows)
           both == who \cup them
<1>1. PICK f \in [0..N -> Seq(Line)] :
        /\ f[0] = <<>>
        /\ \A n \in 1..N : f[n] = IF rows[n].by \in who THEN Append(f[n - 1], rows[n].line) ELSE f[n - 1]
        /\ Shown(rows, who) = f[N]
  BY ShownByRow
<1>2. PICK g \in [0..N -> Seq(Line)] :
        /\ g[0] = <<>>
        /\ \A n \in 1..N : g[n] = IF rows[n].by \in them THEN Append(g[n - 1], rows[n].line) ELSE g[n - 1]
        /\ Shown(rows, them) = g[N]
  BY ShownByRow
<1>3. PICK h \in [0..N -> Seq(Line)] :
        /\ h[0] = <<>>
        /\ \A n \in 1..N : h[n] = IF rows[n].by \in both THEN Append(h[n - 1], rows[n].line) ELSE h[n - 1]
        /\ Shown(rows, both) = h[N]
  <2> HIDE DEF both
  <2>1. QED BY ShownByRow
<1> DEFINE P == {n \in Nat : n <= N => Len(h[n]) = Len(f[n]) + Len(g[n])}
<1>4. 0 \in P
  BY <1>1, <1>2, <1>3
<1>5. ASSUME NEW n \in P PROVE n + 1 \in P
  <2>1. SUFFICES ASSUME n + 1 <= N PROVE Len(h[n + 1]) = Len(f[n + 1]) + Len(g[n + 1])
    BY <1>5
  <2>2. n + 1 \in 1..N /\ (n + 1) - 1 = n /\ n \in 0..N
    BY <1>5, <2>1
  <2>3. Len(h[n]) = Len(f[n]) + Len(g[n]) /\ f[n] \in Seq(Line) /\ g[n] \in Seq(Line) /\ h[n] \in Seq(Line)
    BY <1>5, <2>1, <2>2
  <2>4. f[n + 1] = IF rows[n + 1].by \in who THEN Append(f[n], rows[n + 1].line) ELSE f[n]
    BY <1>1, <2>2
  <2>5. g[n + 1] = IF rows[n + 1].by \in them THEN Append(g[n], rows[n + 1].line) ELSE g[n]
    BY <1>2, <2>2
  <2>6. h[n + 1] = IF rows[n + 1].by \in both THEN Append(h[n], rows[n + 1].line) ELSE h[n]
    BY <1>3, <2>2
  <2>7. \A q \in Seq(Line) : \A line : Len(Append(q, line)) = Len(q) + 1 /\ Len(q) \in Nat
    OBVIOUS
  <2>8. Len(f[n]) \in Nat /\ Len(g[n]) \in Nat /\ Len(h[n]) \in Nat
    BY <2>3, <2>7, Zenon
  <2>9. CASE rows[n + 1].by \in who
    <3>1. f[n + 1] = Append(f[n], rows[n + 1].line) /\ g[n + 1] = g[n] /\ h[n + 1] = Append(h[n], rows[n + 1].line)
      BY <2>4, <2>5, <2>6, <2>9, Zenon
    <3>2. Len(f[n + 1]) = Len(f[n]) + 1 /\ Len(g[n + 1]) = Len(g[n]) /\ Len(h[n + 1]) = Len(h[n]) + 1
      BY <2>3, <2>7, <3>1, Zenon
    <3>3. QED BY <2>3, <2>8, <3>2
  <2>10. CASE rows[n + 1].by \in them
    <3>1. f[n + 1] = f[n] /\ g[n + 1] = Append(g[n], rows[n + 1].line) /\ h[n + 1] = Append(h[n], rows[n + 1].line)
      BY <2>4, <2>5, <2>6, <2>10, Zenon
    <3>2. Len(f[n + 1]) = Len(f[n]) /\ Len(g[n + 1]) = Len(g[n]) + 1 /\ Len(h[n + 1]) = Len(h[n]) + 1
      BY <2>3, <2>7, <3>1, Zenon
    <3>3. QED BY <2>3, <2>8, <3>2
  <2>11. CASE rows[n + 1].by \notin both
    <3>1. f[n + 1] = f[n] /\ g[n + 1] = g[n] /\ h[n + 1] = h[n]
      BY <2>4, <2>5, <2>6, <2>11, Zenon
    <3>2. QED BY <2>3, <3>1, Zenon
  <2>12. QED BY <2>9, <2>10, <2>11, Zenon
<1>6. P = Nat
  <2> HIDE DEF P
  <2>1. P \in SUBSET Nat
    BY DEF P
  <2>2. QED BY <1>4, <1>5, <2>1, AllNumbers
<1>7. Len(h[N]) = Len(f[N]) + Len(g[N])
  <2>1. N \in Nat /\ N <= N
    OBVIOUS
  <2>2. QED BY <1>6, <2>1, Zenon
<1>8. QED BY <1>1, <1>2, <1>3, <1>7, Zenon

---------------------------------------------------------------------------
(* The lines of the old log among others *)

\* The old log at the beginning of another, and its lines, in their order, at
\* any places of it.
Old(q) == IsPrefix(Legacy, q)
FirstIn(q) == \E a \in 1..Len(q) : q[a] = "first"
OldIn(q) == \E a, b \in 1..Len(q) : a < b /\ q[a] = "first" /\ q[b] = "second"

LEMMA LegacyType == Legacy \in Seq(Line) /\ Len(Legacy) = 2 /\ Legacy[1] = "first" /\ Legacy[2] = "second"
<1>1. "first" \in Line /\ "second" \in Line
  BY DEF Line
<1>2. QED BY <1>1 DEF Legacy

\* A line more is the missing one, or what was there stays there.
LEMMA InGrows ==
  ASSUME NEW q \in Seq(Line), NEW line \in Line
  PROVE  /\ FirstIn(Append(q, line)) <=> FirstIn(q) \/ line = "first"
         /\ OldIn(Append(q, line)) <=> OldIn(q) \/ (FirstIn(q) /\ line = "second")
<1> DEFINE more == Append(q, line)
           N == Len(q)
<1>1. N \in Nat /\ Len(more) = N + 1 /\ more[N + 1] = line /\ \A k \in 1..N : more[k] = q[k]
  OBVIOUS
<1> HIDE DEF more, N
<1>2. \A k \in 1..N + 1 : k \in 1..N \/ k = N + 1
  BY <1>1
<1>3. N + 1 \in 1..N + 1 /\ \A k \in 1..N : k \in 1..N + 1 /\ k < N + 1 /\ ~(N + 1 < k)
  BY <1>1
<1>4. ~(N + 1 < N + 1) /\ "first" # "second"
  BY <1>1
<1>5. FirstIn(more) <=> (\E a \in 1..N : q[a] = "first") \/ line = "first"
  BY <1>1, <1>2, <1>3, Zenon DEF FirstIn
<1>6. OldIn(more) <=> \/ \E a, b \in 1..N : a < b /\ q[a] = "first" /\ q[b] = "second"
                      \/ (\E a \in 1..N : q[a] = "first") /\ line = "second"
  <2>1. ASSUME NEW a \in 1..N + 1, NEW b \in 1..N + 1, a < b, more[a] = "first", more[b] = "second"
        PROVE  \/ \E x, y \in 1..N : x < y /\ q[x] = "first" /\ q[y] = "second"
               \/ (\E x \in 1..N : q[x] = "first") /\ line = "second"
    <3>1. a \in 1..N
      BY <1>1, <2>1
    <3>2. q[a] = "first"
      BY <1>1, <2>1, <3>1
    <3>3. CASE b \in 1..N
      BY <1>1, <2>1, <3>1, <3>2, <3>3
    <3>4. CASE b = N + 1
      BY <1>1, <2>1, <3>1, <3>2, <3>4
    <3>5. QED BY <1>2, <3>3, <3>4
  <2>2. ASSUME NEW a \in 1..N, NEW b \in 1..N, a < b, q[a] = "first", q[b] = "second" PROVE OldIn(more)
    BY <1>1, <1>3, <2>2, Zenon DEF OldIn
  <2>3. ASSUME NEW a \in 1..N, q[a] = "first", line = "second" PROVE OldIn(more)
    BY <1>1, <1>3, <2>3, Zenon DEF OldIn
  <2>4. QED BY <1>1, <2>1, <2>2, <2>3, Zenon DEF OldIn
<1>7. QED BY <1>5, <1>6, Zenon DEF FirstIn, OldIn, more, N

LEMMA OldIs ==
  ASSUME NEW q \in Seq(Line)
  PROVE  Old(q) <=> Len(q) >= 2 /\ q[1] = Legacy[1] /\ q[2] = Legacy[2]
<1> DEFINE log == Legacy
<1>0. log \in Seq(Line) /\ Len(log) = 2
  BY LegacyType
<1> HIDE DEF log
<1>1. CASE Len(q) >= 2
  <2>1. \A p \in Seq(Line) : Len(p) >= 2 =>
          /\ SubSeq(p, 1, 2) \in Seq(Line) /\ Len(SubSeq(p, 1, 2)) = 2
          /\ SubSeq(p, 1, 2)[1] = p[1] /\ SubSeq(p, 1, 2)[2] = p[2]
    OBVIOUS
  <2>2. SubSeq(log, 1, 2) = SubSeq(q, 1, 2) <=> q[1] = log[1] /\ q[2] = log[2]
    <3>1. \A p, r \in Seq(Line) : Len(p) = 2 /\ Len(r) = 2 => (p = r <=> r[1] = p[1] /\ r[2] = p[2])
      OBVIOUS
    <3>2. QED BY <1>0, <1>1, <2>1, <3>1
  <2>3. QED BY <1>0, <1>1, <2>2 DEF Old, IsPrefix, log
<1>2. CASE ~(Len(q) >= 2)
  BY <1>0, <1>2 DEF Old, IsPrefix, log
<1>3. QED BY <1>1, <1>2

LEMMA OldGrows ==
  ASSUME NEW q \in Seq(Line), NEW line \in Line, Old(q)
  PROVE  Old(Append(q, line))
<1>1. Len(q) >= 2 /\ q[1] = Legacy[1] /\ q[2] = Legacy[2]
  BY OldIs
<1>2. Append(q, line) \in Seq(Line) /\ Len(Append(q, line)) = Len(q) + 1 /\ Len(q) \in Nat
  OBVIOUS
<1>3. Append(q, line)[1] = q[1] /\ Append(q, line)[2] = q[2]
  BY <1>1, <1>2
<1>4. Len(Append(q, line)) >= 2
  BY <1>1, <1>2
<1>5. QED BY <1>1, <1>2, <1>3, <1>4, OldIs, Zenon

\* A line may be appended before or after an old log is put ahead.
LEMMA AppendJoins ==
  \A p, q \in Seq(Line), line \in Line : Append(p \o q, line) = p \o Append(q, line)
OBVIOUS

\* The old log, alone, with lines after it, and put after another.
LEMMA OldLogs ==
  /\ Old(Legacy) /\ Legacy # <<>> /\ ~Old(<<>>)
  /\ \A q \in Seq(Line) : Legacy \o q \in Seq(Line) /\ Old(Legacy \o q)
  /\ \A q \in Seq(Line), line \in Line : Append(Legacy \o q, line) = Legacy \o Append(q, line)
  /\ Legacy \o <<>> = Legacy
  /\ Append(Append(<<>>, "first"), "second") = Legacy
<1> DEFINE log == Legacy
<1>0. log \in Seq(Line) /\ Len(log) = 2
  BY LegacyType
<1> HIDE DEF log
<1>1. Old(log) /\ log # <<>>
  <2>1. Len(log) >= 2
    BY <1>0
  <2>2. QED BY <1>0, <2>1, OldIs DEF log
<1>2. ~Old(<<>>)
  <2>1. Len(<<>>) = 0
    OBVIOUS
  <2>2. QED BY <1>0, <2>1 DEF Old, IsPrefix, log
<1>3. ASSUME NEW q \in Seq(Line) PROVE log \o q \in Seq(Line) /\ Old(log \o q)
  <2>1. log \o q \in Seq(Line) /\ Len(log \o q) = Len(log) + Len(q) /\ Len(q) \in Nat
    BY <1>0, ConcatProperties, LenProperties
  <2>2. (log \o q)[1] = log[1] /\ (log \o q)[2] = log[2] /\ Len(log \o q) >= 2
    <3>1. \A k \in 1..Len(log) + Len(q) : (log \o q)[k] = IF k <= Len(log) THEN log[k] ELSE q[k - Len(log)]
      BY <1>0, ConcatProperties
    <3>2. QED BY <1>0, <2>1, <3>1
  <2>3. QED BY <2>1, <2>2, OldIs, Zenon DEF log
<1>4. ASSUME NEW q \in Seq(Line), NEW line \in Line
      PROVE  Append(log \o q, line) = log \o Append(q, line)
  BY <1>0, AppendJoins, Zenon
<1>5. log \o <<>> = log
  BY <1>0
<1>6. Append(Append(<<>>, "first"), "second") = Legacy
  <2> DEFINE one == Append(<<>>, "first")
             two == Append(one, "second")
  <2>1. "first" \in Line /\ "second" \in Line
    BY DEF Line
  <2>2. one \in Seq(Line) /\ Len(one) = 1 /\ one[1] = "first"
    BY <2>1
  <2> HIDE DEF one
  <2>3. two \in Seq(Line) /\ Len(two) = 2 /\ two[1] = "first" /\ two[2] = "second"
    <3>1. \A q \in Seq(Line), line \in Line :
            /\ Append(q, line) \in Seq(Line) /\ Len(Append(q, line)) = Len(q) + 1
            /\ \A k \in 1..Len(q) : Append(q, line)[k] = q[k]
            /\ Append(q, line)[Len(q) + 1] = line
      BY AppendProperties
    <3>2. /\ two \in Seq(Line) /\ Len(two) = Len(one) + 1
          /\ \A k \in 1..Len(one) : two[k] = one[k]
          /\ two[Len(one) + 1] = "second"
      BY <2>1, <2>2, <3>1, Zenon
    <3> HIDE DEF two
    <3>3. QED BY <2>2, <3>2
  <2> HIDE DEF two
  <2>4. log[1] = "first" /\ log[2] = "second"
    BY LegacyType DEF log
  <2>5. two = log
    BY <1>0, <2>3, <2>4
  <2>6. QED BY <2>5 DEF two, one, log
<1>7. QED BY <1>1, <1>2, <1>3, <1>4, <1>5, <1>6, Zenon DEF log

\* Who has more to read is shown more, line by line, and in the same order.
LEMMA ShownMore ==
  ASSUME NEW rows \in Seq(LogRow), NEW who, NEW them, who \subseteq them, OldIn(Shown(rows, who))
  PROVE  OldIn(Shown(rows, them))
<1> DEFINE N == Len(rows)
<1>1. PICK f \in [0..N -> Seq(Line)] :
        /\ f[0] = <<>>
        /\ \A n \in 1..N : f[n] = IF rows[n].by \in who THEN Append(f[n - 1], rows[n].line) ELSE f[n - 1]
        /\ Shown(rows, who) = f[N]
  BY ShownByRow
<1>2. PICK g \in [0..N -> Seq(Line)] :
        /\ g[0] = <<>>
        /\ \A n \in 1..N : g[n] = IF rows[n].by \in them THEN Append(g[n - 1], rows[n].line) ELSE g[n - 1]
        /\ Shown(rows, them) = g[N]
  BY ShownByRow
<1> DEFINE P == {n \in Nat : n <= N => (FirstIn(f[n]) => FirstIn(g[n])) /\ (OldIn(f[n]) => OldIn(g[n]))}
<1>3. 0 \in P
  BY <1>1, <1>2
<1>4. ASSUME NEW n \in P PROVE n + 1 \in P
  <2>1. SUFFICES ASSUME n + 1 <= N
                 PROVE (FirstIn(f[n + 1]) => FirstIn(g[n + 1])) /\ (OldIn(f[n + 1]) => OldIn(g[n + 1]))
    BY <1>4
  <2>2. n + 1 \in 1..N /\ (n + 1) - 1 = n /\ n \in 0..N
    BY <1>4, <2>1
  <2>3. (FirstIn(f[n]) => FirstIn(g[n])) /\ (OldIn(f[n]) => OldIn(g[n]))
    BY <1>4, <2>1
  <2>4. f[n] \in Seq(Line) /\ g[n] \in Seq(Line)
    BY <2>2
  <2>5. rows[n + 1] \in LogRow
    BY <2>2
  <2>6. rows[n + 1].line \in Line
    BY <2>5 DEF LogRow
  <2>7. f[n + 1] = IF rows[n + 1].by \in who THEN Append(f[n], rows[n + 1].line) ELSE f[n]
    BY <1>1, <2>2
  <2>8. g[n + 1] = IF rows[n + 1].by \in them THEN Append(g[n], rows[n + 1].line) ELSE g[n]
    BY <1>2, <2>2
  <2>9. \A q \in {f[n], g[n]} :
          /\ FirstIn(Append(q, rows[n + 1].line)) <=> FirstIn(q) \/ rows[n + 1].line = "first"
          /\ OldIn(Append(q, rows[n + 1].line)) <=> OldIn(q) \/ (FirstIn(q) /\ rows[n + 1].line = "second")
    <3>1. \A q \in Seq(Line), line \in Line :
            /\ FirstIn(Append(q, line)) <=> FirstIn(q) \/ line = "first"
            /\ OldIn(Append(q, line)) <=> OldIn(q) \/ (FirstIn(q) /\ line = "second")
      BY InGrows
    <3>2. \A q \in {f[n], g[n]} : q \in Seq(Line)
      BY <2>4
    <3>3. QED BY <2>6, <3>1, <3>2, Zenon
  <2>10. CASE rows[n + 1].by \in who
    <3>1. f[n + 1] = Append(f[n], rows[n + 1].line) /\ g[n + 1] = Append(g[n], rows[n + 1].line)
      BY <2>7, <2>8, <2>10, Zenon
    <3>2. /\ FirstIn(f[n + 1]) <=> FirstIn(f[n]) \/ rows[n + 1].line = "first"
          /\ FirstIn(g[n + 1]) <=> FirstIn(g[n]) \/ rows[n + 1].line = "first"
          /\ OldIn(f[n + 1]) <=> OldIn(f[n]) \/ (FirstIn(f[n]) /\ rows[n + 1].line = "second")
          /\ OldIn(g[n + 1]) <=> OldIn(g[n]) \/ (FirstIn(g[n]) /\ rows[n + 1].line = "second")
      <4>1. f[n] \in {f[n], g[n]} /\ g[n] \in {f[n], g[n]}
        OBVIOUS
      <4>2. QED BY <2>9, <3>1, <4>1, Zenon
    <3>3. QED BY <2>3, <3>2, Zenon
  <2>11. CASE rows[n + 1].by \notin who
    <3>1. f[n + 1] = f[n]
      BY <2>7, <2>11, Zenon
    <3>2. (FirstIn(g[n]) => FirstIn(g[n + 1])) /\ (OldIn(g[n]) => OldIn(g[n + 1]))
      <4>1. g[n] \in {f[n], g[n]}
        OBVIOUS
      <4>2. QED BY <2>8, <2>9, <4>1, Zenon
    <3>3. QED BY <2>3, <3>1, <3>2, Zenon
  <2>12. QED BY <2>10, <2>11, Zenon
<1>5. P = Nat
  <2> HIDE DEF P
  <2>1. P \in SUBSET Nat
    BY DEF P
  <2>2. QED BY <1>3, <1>4, <2>1, AllNumbers
<1>6. N \in Nat
  OBVIOUS
<1>7. QED BY <1>1, <1>2, <1>5, <1>6

\* A log that begins with the old one has its lines, and so has every log in
\* which the old one is found.
LEMMA OldIsIn ==
  ASSUME NEW q \in Seq(Line), Old(q)
  PROVE  OldIn(q)
<1>1. Len(q) >= 2 /\ q[1] = "first" /\ q[2] = "second" /\ Len(q) \in Nat
  BY OldIs, LegacyType
<1>2. 1 \in 1..Len(q) /\ 2 \in 1..Len(q) /\ 1 < 2
  BY <1>1
<1>3. QED BY <1>1, <1>2 DEF OldIn

LEMMA InIsWithin ==
  ASSUME NEW q \in Seq(Line), OldIn(q)
  PROVE  Within(Legacy, q)
<1> DEFINE log == Legacy
<1>0. DOMAIN log = 1..2 /\ log[1] = "first" /\ log[2] = "second"
  BY LegacyType
<1>1. PICK a \in 1..Len(q), b \in 1..Len(q) : a < b /\ q[a] = "first" /\ q[b] = "second"
  BY DEF OldIn
<1> DEFINE where == [k \in 1..2 |-> IF k = 1 THEN a ELSE b]
<1>2. where \in [1..2 -> 1..Len(q)] /\ where[1] = a /\ where[2] = b
  OBVIOUS
<1>3. DOMAIN q = 1..Len(q)
  OBVIOUS
<1>4. \A k \in 1..2 : k = 1 \/ k = 2
  OBVIOUS
<1> HIDE DEF where, log
<1>5. \A j, k \in 1..2 : j < k => where[j] < where[k]
  <2>1. \A j, k \in 1..2 : j < k => j = 1 /\ k = 2
    OBVIOUS
  <2>2. QED BY <1>1, <1>2, <2>1, Zenon
<1>6. \A k \in 1..2 : q[where[k]] = log[k]
  BY <1>0, <1>1, <1>2, <1>4, Zenon
<1>7. QED BY <1>0, <1>2, <1>3, <1>5, <1>6, Zenon DEF Within, log

\* A sequence and the same without its last line.
ButLast(p, q) == p = q \/ \E line \in Line : q = Append(p, line)

\* A sequence without its last line, line by line.
LEMMA ButLastIs ==
  \A q \in Seq(Line) : Len(q) # 0 =>
    /\ Len(q) - 1 \in 0..Len(q) /\ SubSeq(q, 1, Len(q) - 1) \in Seq(Line)
    /\ Len(SubSeq(q, 1, Len(q) - 1)) = Len(q) - 1
    /\ \A k \in 1..Len(q) - 1 : SubSeq(q, 1, Len(q) - 1)[k] = q[k]
<1> SUFFICES ASSUME NEW q \in Seq(Line), Len(q) # 0
             PROVE  /\ Len(q) - 1 \in 0..Len(q) /\ SubSeq(q, 1, Len(q) - 1) \in Seq(Line)
                    /\ Len(SubSeq(q, 1, Len(q) - 1)) = Len(q) - 1
                    /\ \A k \in 1..Len(q) - 1 : SubSeq(q, 1, Len(q) - 1)[k] = q[k]
  OBVIOUS
<1>1. Len(q) - 1 \in Nat /\ Len(q) - 1 <= Len(q) /\ Len(q) - 1 \in 0..Len(q)
  OBVIOUS
<1>2. \A p \in Seq(Line), n \in Nat : n <= Len(p) =>
        /\ SubSeq(p, 1, n) \in Seq(Line) /\ Len(SubSeq(p, 1, n)) = n
        /\ \A k \in 1..n : SubSeq(p, 1, n)[k] = p[k]
  OBVIOUS
<1>3. QED BY <1>1, <1>2, Zenon

\* Lines put after the old log, line by line.
LEMMA AfterOld ==
  \A q \in Seq(Line) :
    /\ Legacy \o q \in Seq(Line) /\ Len(Legacy \o q) = 2 + Len(q) /\ Len(q) \in Nat
    /\ \A k \in 1..2 + Len(q) : (Legacy \o q)[k] = IF k <= 2 THEN Legacy[k] ELSE q[k - 2]
<1> DEFINE log == Legacy
<1>0. log \in Seq(Line) /\ Len(log) = 2
  BY LegacyType
<1> HIDE DEF log
<1>1. ASSUME NEW q \in Seq(Line)
      PROVE  /\ log \o q \in Seq(Line) /\ Len(log \o q) = 2 + Len(q) /\ Len(q) \in Nat
             /\ \A k \in 1..2 + Len(q) : (log \o q)[k] = IF k <= 2 THEN log[k] ELSE q[k - 2]
  <2>1. /\ log \o q \in Seq(Line) /\ Len(log \o q) = Len(log) + Len(q) /\ Len(q) \in Nat
        /\ \A k \in 1..Len(log) + Len(q) : (log \o q)[k] = IF k <= Len(log) THEN log[k] ELSE q[k - Len(log)]
    BY <1>0, ConcatProperties, LenProperties
  <2>2. QED BY <1>0, <2>1, Zenon
<1>2. QED BY <1>1 DEF log

\* What is left of the old log and later lines without the last of them.
LEMMA ButLastOfOld ==
  ASSUME NEW p \in Seq(Line), NEW later \in Seq(Line), ButLast(p, Legacy \o later)
  PROVE  p = <<"first">> \/ \E n \in 0..Len(later) : p = Legacy \o SubSeq(later, 1, n)
<1> DEFINE log == Legacy
           N == Len(later)
<1>0. log \in Seq(Line) /\ Len(log) = 2 /\ log[1] = "first" /\ log[2] = "second"
  BY LegacyType
<1>1. N \in 0..N /\ SubSeq(later, 1, N) = later
  OBVIOUS
<1> HIDE DEF log
<1>2. CASE p = log \o later
  BY <1>1, <1>2, Zenon DEF log
<1>3. CASE \E line \in Line : log \o later = Append(p, line)
  <2>1. PICK line \in Line : log \o later = Append(p, line)
    BY <1>3
  <2>2. /\ Len(log \o later) = 2 + N /\ N \in Nat
        /\ \A k \in 1..2 + N : (log \o later)[k] = IF k <= 2 THEN log[k] ELSE later[k - 2]
    BY AfterOld, Zenon DEF log
  <2>3. /\ Len(Append(p, line)) = Len(p) + 1 /\ Len(p) \in Nat
        /\ \A k \in 1..Len(p) : Append(p, line)[k] = p[k]
    BY AppendProperties, LenProperties
  <2>4. Len(p) = N + 1 /\ \A k \in 1..N + 1 : p[k] = IF k <= 2 THEN log[k] ELSE later[k - 2]
    BY <2>1, <2>2, <2>3
  <2>5. CASE N = 0
    <3>1. Len(p) = 1 /\ p[1] = "first"
      BY <1>0, <2>4, <2>5
    <3>2. p = <<"first">>
      BY <3>1
    <3>3. QED BY <3>2
  <2>6. CASE N # 0
    <3>1. N - 1 \in 0..N /\ SubSeq(later, 1, N - 1) \in Seq(Line) /\ Len(SubSeq(later, 1, N - 1)) = N - 1
          /\ \A k \in 1..N - 1 : SubSeq(later, 1, N - 1)[k] = later[k]
      BY <2>6, ButLastIs, Zenon
    <3> DEFINE front == SubSeq(later, 1, N - 1)
    <3>2. front \in Seq(Line) /\ Len(front) = N - 1 /\ \A k \in 1..N - 1 : front[k] = later[k]
      BY <3>1
    <3> HIDE DEF front
    <3>3. /\ log \o front \in Seq(Line) /\ Len(log \o front) = N + 1
          /\ \A k \in 1..N + 1 : (log \o front)[k] = IF k <= 2 THEN log[k] ELSE front[k - 2]
      <4>1. 2 + (N - 1) = N + 1
        BY <2>2
      <4>2. /\ log \o front \in Seq(Line) /\ Len(log \o front) = 2 + Len(front)
            /\ \A k \in 1..2 + Len(front) : (log \o front)[k] = IF k <= 2 THEN log[k] ELSE front[k - 2]
        BY <3>2, AfterOld, Zenon DEF log
      <4>3. QED BY <3>2, <4>1, <4>2, Zenon
    <3>4. \A k \in 1..N + 1 : p[k] = (log \o front)[k]
      <4>1. \A k \in 1..N + 1 : ~(k <= 2) => k - 2 \in 1..N - 1
        BY <2>2
      <4>2. QED BY <2>4, <3>2, <3>3, <4>1
    <3>5. p = log \o front
      BY <2>4, <3>3, <3>4, SeqEqual
    <3>6. QED BY <3>1, <3>5, Zenon DEF front, log
  <2>7. QED BY <2>5, <2>6
<1>4. QED BY <1>2, <1>3 DEF ButLast, log

---------------------------------------------------------------------------
(* The invariant of the migration *)

Moving == {"counting", "inserting", "verifying", "clearing"}

\* Those who may commit what they did to an item, the rows of a transaction, and
\* the rows that stay: of those committed and of the one line that will be.
May(i) == {s \in Starter : mig[s] = "clearing" /\ at[s].item = i}
RowsBy(rows, s) == \E k \in 1..Len(rows) : rows[k].by = s
Lasting == {"committed", "writer"}

\* What is known of an item's rows while nobody has moved its log a second time
\* or past a line in flight: whoever commits, all that is shown before the line
\* in flight is committed is shown; one mover puts the old log first, and who
\* has nothing to move found it written.
OrderKnown(rows, may, legacy, later, moved) ==
  /\ \A D \in SUBSET may : ButLast(Shown(rows, D \cup {"committed"}), Shown(rows, D \cup Lasting))
  /\ moved = 0 => \A s \in may : RowsBy(rows, s) => Shown(rows, {s} \cup Lasting) = Legacy \o later
  /\ moved = 0 /\ (legacy = <<>> \/ \E s \in may : ~RowsBy(rows, s)) => Old(later)
  /\ moved = 1 => Shown(rows, Lasting) = Legacy \o later

\* What is known of an item's rows in any case. Who may commit finds the old
\* log's lines among what is committed and its own, and everybody finds them
\* once the column is empty; before a move the rows are what was written.
ItemKnows(rows, may, legacy, later, moved, passed) ==
  /\ \A s \in may : OldIn(Shown(rows, {s, "committed"}))
  /\ legacy = <<>> => OldIn(Shown(rows, {"committed"}))
  /\ moved = 0 => Shown(rows, Lasting) = later
  /\ ~passed => OrderKnown(rows, may, legacy, later, moved)

RowsKnow == \A i \in Row : ItemKnows(stored[i], May(i), column[i], fresh[i], moves[i], late[i])

\* A transaction is about an item whose column was full; rows of its own it has
\* of that item, from its first insert to its end, and once it compares them
\* they are the old log or nothing.
Transaction(s) ==
  /\ mig[s] \in Moving => at[s].item \in Row /\ at[s].log = Legacy
  /\ \A i \in Row : RowsBy(stored[i], s) => mig[s] \in {"inserting", "verifying", "clearing"} /\ at[s].item = i
  /\ \A i \in Row : mig[s] = "inserting" => Shown(stored[i], {s}) \in {<<>>, <<"first">>}
  /\ \A i \in Row : mig[s] = "verifying" => Shown(stored[i], {s}) \in {<<>>, Legacy}
TransactionsKnow == \A s \in Starter : Transaction(s)

\* What a reader was shown has the old log's lines, and is the old log with what
\* was written later, unless that began with the old log itself.
Told(logs, later) == Old(later) \/ \E n \in 0..Len(later) : logs = Legacy \o SubSeq(later, 1, n)
ViewKnows ==
  /\ view.item # 0 /\ ~view.shown /\ view.legacy = <<>> => column[view.item] = <<>>
  /\ view.shown => view.item # 0 /\ OldIn(view.logs)
  /\ view.shown /\ moves[view.item] <= 1 /\ ~late[view.item] => Told(view.logs, fresh[view.item])

MigShape ==
  /\ stored \in [Row -> Seq(LogRow)] /\ fresh \in [Row -> Seq(Line)]
  /\ column \in [Row -> {Legacy, <<>>}] /\ moves \in [Row -> Nat] /\ late \in [Row -> BOOLEAN]
  /\ mig \in [Starter -> Moving \cup {"down", "selecting", "up"}]
  /\ at \in [Starter -> [item : 0..Items, log : {Legacy, <<>>}]]
  /\ view \in [item : 0..Items, legacy : {Legacy, <<>>}, logs : Seq(Line), shown : BOOLEAN]

MigInv == MigShape /\ TransactionsKnow /\ RowsKnow /\ ViewKnows

---------------------------------------------------------------------------
(* What a transaction and a writer do to the rows of an item *)

Outcome == {"committed", "nobody"}
EndedRows(rows, s, outcome) == [k \in DOMAIN rows |-> [rows[k] EXCEPT !.by = IF @ = s THEN outcome ELSE @]]

\* Readers of whom one reads as much as the other.
LEMMA SameReaders ==
  ASSUME NEW rows \in Seq(LogRow), NEW who, NEW them,
         \A k \in 1..Len(rows) : rows[k].by \in who <=> rows[k].by \in them
  PROVE  Shown(rows, who) = Shown(rows, them)
BY ShownSame

\* Who has no rows adds nothing to what is shown.
LEMMA NoRowsNoMatter ==
  ASSUME NEW rows \in Seq(LogRow), NEW s, ~RowsBy(rows, s), NEW who, NEW them,
         who \ {s} = them \ {s}
  PROVE  Shown(rows, who) = Shown(rows, them)
<1>1. \A k \in 1..Len(rows) : rows[k].by # s
  BY DEF RowsBy
<1>2. \A b : b # s => (b \in who <=> b \in them)
  <2>1. \A b : b # s => (b \in who <=> b \in who \ {s}) /\ (b \in them <=> b \in them \ {s})
    OBVIOUS
  <2>2. QED BY <2>1, Zenon
<1>3. \A k \in 1..Len(rows) : rows[k].by \in who <=> rows[k].by \in them
  BY <1>1, <1>2, Zenon
<1>4. QED BY <1>3, SameReaders

\* Without rows a transaction is shown nothing of its own, and with rows
\* something.
LEMMA OwnRows ==
  ASSUME NEW rows \in Seq(LogRow), NEW s
  PROVE  Shown(rows, {s}) = <<>> <=> ~RowsBy(rows, s)
<1>1. \A k \in 1..Len(rows) : rows[k].by \in {s} <=> rows[k].by = s
  OBVIOUS
<1>2. QED BY <1>1, ShownEmpty, Zenon DEF RowsBy

\* The end of a transaction or of a writer's statement turns its rows over to
\* everybody or to nobody.
LEMMA EndShows ==
  ASSUME NEW rows \in Seq(LogRow), NEW s \in Starter \cup {"writer"}, NEW outcome \in Outcome
  PROVE  /\ EndedRows(rows, s, outcome) \in Seq(LogRow)
         /\ Len(EndedRows(rows, s, outcome)) = Len(rows)
         /\ \A t : RowsBy(EndedRows(rows, s, outcome), t) /\ t # outcome => RowsBy(rows, t) /\ t # s
         /\ \A t : RowsBy(rows, t) /\ t # s => RowsBy(EndedRows(rows, s, outcome), t)
         /\ \A who : outcome \in who => Shown(EndedRows(rows, s, outcome), who) = Shown(rows, who \cup {s})
         /\ \A who : outcome \notin who => Shown(EndedRows(rows, s, outcome), who) = Shown(rows, who \ {s})
         /\ ~RowsBy(rows, s) => EndedRows(rows, s, outcome) = rows
<1> DEFINE new == EndedRows(rows, s, outcome)
           Turned(r) == [r EXCEPT !.by = IF @ = s THEN outcome ELSE @]
<1>1. s # outcome
  BY StarterAssumption DEF Outcome
<1>2. \A k \in 1..Len(rows) : rows[k] \in LogRow
  OBVIOUS
<1>3. \A r \in LogRow : /\ Turned(r) \in LogRow /\ Turned(r).line = r.line
                        /\ Turned(r).by = (IF r.by = s THEN outcome ELSE r.by)
                        /\ r.by # s => Turned(r) = r
  BY DEF LogRow, Writer, Outcome
<1>4. /\ DOMAIN rows = 1..Len(rows) /\ Len(rows) \in Nat
      /\ new = [k \in 1..Len(rows) |-> Turned(rows[k])]
  BY DEF EndedRows
<1> HIDE DEF new, Turned
<1>5. \A k \in 1..Len(rows) : /\ new[k] \in LogRow /\ new[k].line = rows[k].line
                              /\ new[k].by = (IF rows[k].by = s THEN outcome ELSE rows[k].by)
                              /\ rows[k].by # s => new[k] = rows[k]
  <2>1. \A k \in 1..Len(rows) : new[k] = Turned(rows[k])
    BY <1>4
  <2>2. QED BY <1>2, <1>3, <2>1, Zenon
<1>6. new \in Seq(LogRow) /\ Len(new) = Len(rows)
  <2>1. new = [k \in 1..Len(rows) |-> new[k]]
    BY <1>4
  <2>2. new \in [1..Len(rows) -> LogRow]
    BY <1>5, <2>1, Zenon
  <2>3. QED BY <1>4, <2>2
<1>7. /\ \A t : RowsBy(new, t) /\ t # outcome => RowsBy(rows, t) /\ t # s
      /\ \A t : RowsBy(rows, t) /\ t # s => RowsBy(new, t)
  <2>1. ASSUME NEW t, RowsBy(new, t), t # outcome PROVE RowsBy(rows, t) /\ t # s
    BY <1>1, <1>5, <1>6, <2>1, Zenon DEF RowsBy
  <2>2. ASSUME NEW t, RowsBy(rows, t), t # s PROVE RowsBy(new, t)
    BY <1>5, <1>6, <2>2, Zenon DEF RowsBy
  <2>3. QED BY <2>1, <2>2, Zenon
<1>8. ASSUME NEW who, outcome \in who PROVE Shown(new, who) = Shown(rows, who \cup {s})
  <2>1. \A k \in 1..Len(rows) : new[k].by \in who <=> rows[k].by \in who \cup {s}
    BY <1>5, <1>8, Zenon
  <2>2. QED BY <1>5, <1>6, <2>1, ShownSame
<1>9. ASSUME NEW who, outcome \notin who PROVE Shown(new, who) = Shown(rows, who \ {s})
  <2>1. \A k \in 1..Len(rows) : new[k].by \in who <=> rows[k].by \in who \ {s}
    BY <1>5, <1>9, Zenon
  <2>2. QED BY <1>5, <1>6, <2>1, ShownSame
<1>10. ASSUME ~RowsBy(rows, s) PROVE new = rows
  <2>1. \A k \in 1..Len(rows) : new[k] = rows[k]
    BY <1>5, <1>10, Zenon DEF RowsBy
  <2>2. QED BY <1>6, <2>1
<1>11. QED BY <1>6, <1>7, <1>8, <1>9, <1>10, Zenon DEF new

\* Whoever has rows afterwards had them before, and the other way round.
LEMMA EndedRowsBy ==
  ASSUME NEW rows \in Seq(LogRow), NEW s \in Starter \cup {"writer"}, NEW outcome \in Outcome,
         NEW t, t # outcome
  PROVE  RowsBy(EndedRows(rows, s, outcome), t) <=> RowsBy(rows, t) /\ t # s
BY EndShows, Zenon

\* Everybody reads what is committed; others than the ones whose rows changed
\* hands read what they read.
LEMMA CommitShows ==
  ASSUME NEW rows \in Seq(LogRow), NEW s \in Starter \cup {"writer"}, NEW who, "committed" \in who
  PROVE  Shown(EndedRows(rows, s, "committed"), who) = Shown(rows, who \cup {s})
BY EndShows DEF Outcome

LEMMA OthersShown ==
  ASSUME NEW rows \in Seq(LogRow), NEW s \in Starter \cup {"writer"}, NEW outcome \in Outcome,
         NEW who, outcome \notin who, s \notin who
  PROVE  Shown(EndedRows(rows, s, outcome), who) = Shown(rows, who)
<1>1. Shown(EndedRows(rows, s, outcome), who) = Shown(rows, who \ {s})
  BY EndShows
<1>2. who \ {s} = who
  OBVIOUS
<1>3. QED BY <1>1, <1>2, Zenon

\* A row more is shown last, to its readers.
LEMMA RowShows ==
  ASSUME NEW rows \in Seq(LogRow), NEW r \in LogRow
  PROVE  /\ Append(rows, r) \in Seq(LogRow)
         /\ \A t : RowsBy(Append(rows, r), t) <=> RowsBy(rows, t) \/ t = r.by
         /\ \A who : r.by \notin who => Shown(Append(rows, r), who) = Shown(rows, who)
         /\ \A who : r.by \in who => Shown(Append(rows, r), who) = Append(Shown(rows, who), r.line)
<1> DEFINE new == Append(rows, r)
<1>1. /\ new \in Seq(LogRow) /\ Len(new) = Len(rows) + 1 /\ Len(rows) \in Nat
      /\ new[Len(rows) + 1] = r /\ \A k \in 1..Len(rows) : new[k] = rows[k]
  BY AppendProperties, LenProperties
<1>2. \A who : Shown(new, who) = IF r.by \in who THEN Append(Shown(rows, who), r.line) ELSE Shown(rows, who)
  BY ShownAppend
<1> HIDE DEF new
<1>3. \A t : RowsBy(new, t) <=> RowsBy(rows, t) \/ t = r.by
  <2>1. \A k \in 1..Len(new) : k \in 1..Len(rows) \/ k = Len(rows) + 1
    BY <1>1
  <2>2. Len(rows) + 1 \in 1..Len(new) /\ \A k \in 1..Len(rows) : k \in 1..Len(new)
    BY <1>1
  <2>3. QED BY <1>1, <2>1, <2>2, Zenon DEF RowsBy
<1>4. QED BY <1>1, <1>2, <1>3, Zenon DEF new

\* The row of a transaction's or a writer's line.
LEMMA RowIs ==
  ASSUME NEW line \in Line, NEW by \in Writer
  PROVE  /\ [line |-> line, by |-> by] \in LogRow
         /\ [line |-> line, by |-> by].by = by /\ [line |-> line, by |-> by].line = line
BY DEF LogRow

\* Who sees the old log and has put it there itself sees nothing else.
LEMMA OwnIsAll ==
  ASSUME NEW rows \in Seq(LogRow), NEW s \in Starter,
         Shown(rows, {"committed", s}) = Legacy, Shown(rows, {s}) = Legacy
  PROVE  Shown(rows, {"committed"}) = <<>>
<1>1. {"committed"} \cap {s} = {} /\ {"committed"} \cup {s} = {"committed", s}
  BY StarterAssumption
<1>2. Len(Shown(rows, {"committed"} \cup {s})) = Len(Shown(rows, {"committed"})) + Len(Shown(rows, {s}))
  BY <1>1, ShownLength
<1>3. Len(Legacy) = Len(Shown(rows, {"committed"})) + Len(Legacy)
  BY <1>1, <1>2, Zenon
<1>4. Shown(rows, {"committed"}) \in Seq(Line)
  BY ShownType
<1>5. \A q \in Seq(Line) : Len(q) \in Nat /\ (Len(q) = 0 => q = <<>>)
  OBVIOUS
<1>6. Len(Shown(rows, {"committed"})) = 0
  <2> DEFINE n == Len(Shown(rows, {"committed"}))
  <2>1. n \in Nat /\ 2 = n + 2
    BY <1>3, <1>4, <1>5, LegacyType, Zenon
  <2> HIDE DEF n
  <2>2. n = 0
    BY <2>1
  <2>3. QED BY <2>2 DEF n
<1>7. QED BY <1>4, <1>5, <1>6, Zenon

---------------------------------------------------------------------------
(* What is known of an item's rows stays known *)

\* A transaction that may not commit yet inserts a row.
LEMMA InsertKeeps ==
  ASSUME NEW rows \in Seq(LogRow), NEW may \in SUBSET Starter, NEW legacy, NEW later, NEW moved, NEW passed,
         ItemKnows(rows, may, legacy, later, moved, passed), NEW s \in Starter, s \notin may, NEW line \in Line
  PROVE  ItemKnows(Append(rows, [line |-> line, by |-> s]), may, legacy, later, moved, passed)
<1> DEFINE r == [line |-> line, by |-> s]
           new == Append(rows, r)
<1>0. s # "committed" /\ s # "writer" /\ s \in Writer
  BY StarterAssumption DEF Writer
<1>1. r \in LogRow /\ r.by = s
  BY <1>0, RowIs
<1> HIDE DEF r
<1>2. /\ \A who : s \notin who => Shown(new, who) = Shown(rows, who)
      /\ \A t : RowsBy(new, t) <=> RowsBy(rows, t) \/ t = s
  <2>1. /\ \A who : r.by \notin who => Shown(new, who) = Shown(rows, who)
        /\ \A t : RowsBy(new, t) <=> RowsBy(rows, t) \/ t = r.by
    BY <1>1, RowShows, Zenon
  <2> HIDE DEF new
  <2>2. QED BY <1>1, <2>1
<1> HIDE DEF new
<1>3. ASSUME NEW D \in SUBSET may
      PROVE  /\ Shown(new, D \cup {"committed"}) = Shown(rows, D \cup {"committed"})
             /\ Shown(new, D \cup Lasting) = Shown(rows, D \cup Lasting)
  <2>1. s \notin D \cup {"committed"} /\ s \notin D \cup Lasting
    BY <1>0 DEF Lasting
  <2>2. QED BY <1>2, <2>1, Zenon
<1>4. Shown(new, Lasting) = Shown(rows, Lasting) /\ Shown(new, {"committed"}) = Shown(rows, {"committed"})
  <2>1. s \notin Lasting /\ s \notin {"committed"}
    BY <1>0 DEF Lasting
  <2>2. QED BY <1>2, <2>1, Zenon
<1>5. ASSUME NEW t \in may
      PROVE  /\ Shown(new, {t, "committed"}) = Shown(rows, {t, "committed"})
             /\ Shown(new, {t} \cup Lasting) = Shown(rows, {t} \cup Lasting)
             /\ RowsBy(new, t) <=> RowsBy(rows, t)
  <2>1. s \notin {t, "committed"} /\ s \notin {t} \cup Lasting /\ t # s
    BY <1>0 DEF Lasting
  <2>2. QED BY <1>2, <2>1, Zenon
<1>6. ASSUME OrderKnown(rows, may, legacy, later, moved) PROVE OrderKnown(new, may, legacy, later, moved)
  <2>1. \A D \in SUBSET may : ButLast(Shown(new, D \cup {"committed"}), Shown(new, D \cup Lasting))
    BY <1>3, <1>6, Zenon DEF OrderKnown
  <2>2. moved = 0 => \A t \in may : RowsBy(new, t) => Shown(new, {t} \cup Lasting) = Legacy \o later
    BY <1>5, <1>6, Zenon DEF OrderKnown
  <2>3. moved = 0 /\ (legacy = <<>> \/ \E t \in may : ~RowsBy(new, t)) => Old(later)
    BY <1>5, <1>6, Zenon DEF OrderKnown
  <2>4. moved = 1 => Shown(new, Lasting) = Legacy \o later
    BY <1>4, <1>6, Zenon DEF OrderKnown
  <2>5. QED BY <2>1, <2>2, <2>3, <2>4, Zenon DEF OrderKnown
<1>7. ItemKnows(new, may, legacy, later, moved, passed)
  BY <1>4, <1>5, <1>6, Zenon DEF ItemKnows
<1>8. QED BY <1>7 DEF new, r

\* A transaction that may commit does: its rows are everybody's.
LEMMA CommitKeeps ==
  ASSUME NEW rows \in Seq(LogRow), NEW may \in SUBSET Starter, NEW legacy, NEW later, NEW moved, NEW passed,
         ItemKnows(rows, may, legacy, later, moved, passed), NEW s \in may,
         NEW new, new = EndedRows(rows, s, "committed"),
         NEW after, after = 0 => moved = 0 /\ new = rows,
         after = 1 => (moved = 1 /\ new = rows) \/ (moved = 0 /\ new # rows)
  PROVE  ItemKnows(new, may \ {s}, <<>>, later, after, passed)
<1>0. s \in Starter /\ s \in Starter \cup {"writer"} /\ "committed" \notin Starter /\ "committed" \in Outcome
      /\ "committed" \in Lasting
  BY StarterAssumption DEF Outcome, Lasting
<1>1. \A who : "committed" \in who => Shown(new, who) = Shown(rows, who \cup {s})
  BY <1>0, CommitShows, Zenon
<1>2. ~RowsBy(rows, s) => new = rows
  BY <1>0, EndShows, Zenon
<1>3. \A t \in may \ {s} : t \in may /\ (RowsBy(new, t) <=> RowsBy(rows, t))
  <2>1. \A t \in may \ {s} : t \in may /\ t # "committed" /\ t # s
    BY <1>0
  <2>2. QED BY <1>0, <2>1, EndedRowsBy, Zenon
<1>4. new \in Seq(LogRow)
  BY <1>0, EndShows, Zenon
<1>5. OldIn(Shown(new, {"committed"}))
  <2>1. Shown(new, {"committed"}) = Shown(rows, {"committed"} \cup {s}) /\ {"committed"} \cup {s} = {s, "committed"}
    <3>1. "committed" \in {"committed"} /\ {"committed"} \cup {s} = {s, "committed"}
      OBVIOUS
    <3>2. QED BY <1>1, <3>1, Zenon
  <2>2. OldIn(Shown(rows, {s, "committed"}))
    BY Zenon DEF ItemKnows
  <2>3. QED BY <2>1, <2>2, Zenon
<1>6. ASSUME NEW t \in may \ {s} PROVE OldIn(Shown(new, {t, "committed"}))
  <2>1. {"committed"} \subseteq {t, "committed"}
    OBVIOUS
  <2>2. QED BY <1>4, <1>5, <2>1, ShownMore, Zenon
<1>7. Shown(new, Lasting) = Shown(rows, {s} \cup Lasting)
  <2>1. Lasting \cup {s} = {s} \cup Lasting
    OBVIOUS
  <2>2. QED BY <1>0, <1>1, <2>1, Zenon
<1>8. after = 0 => Shown(new, Lasting) = later
  BY Zenon DEF ItemKnows
<1>9. ASSUME OrderKnown(rows, may, legacy, later, moved) PROVE OrderKnown(new, may \ {s}, <<>>, later, after)
  <2>1. ASSUME NEW D \in SUBSET (may \ {s})
        PROVE  ButLast(Shown(new, D \cup {"committed"}), Shown(new, D \cup Lasting))
    <3>1. /\ "committed" \in D \cup {"committed"} /\ "committed" \in D \cup Lasting
          /\ (D \cup {"committed"}) \cup {s} = (D \cup {s}) \cup {"committed"}
          /\ (D \cup Lasting) \cup {s} = (D \cup {s}) \cup Lasting
          /\ D \cup {s} \in SUBSET may
      BY <1>0
    <3>2. ButLast(Shown(rows, (D \cup {s}) \cup {"committed"}), Shown(rows, (D \cup {s}) \cup Lasting))
      BY <1>9, <3>1, Zenon DEF OrderKnown
    <3>3. QED BY <1>1, <3>1, <3>2, Zenon
  <2>2. ASSUME after = 0 PROVE /\ \A t \in may \ {s} : RowsBy(new, t) => Shown(new, {t} \cup Lasting) = Legacy \o later
                               /\ Old(later)
    <3>1. moved = 0 /\ new = rows
      BY <2>2
    <3>2. \A t \in may : RowsBy(rows, t) => Shown(rows, {t} \cup Lasting) = Legacy \o later
      BY <1>9, <3>1, Zenon DEF OrderKnown
    <3>3. Old(later)
      <4>1. CASE ~RowsBy(rows, s)
        BY <1>9, <3>1, <4>1, Zenon DEF OrderKnown
      <4>2. CASE RowsBy(rows, s)
        <5>1. s # "committed" /\ ~RowsBy(new, s)
          BY <1>0, EndedRowsBy, Zenon
        <5>2. QED BY <3>1, <4>2, <5>1, Zenon
      <4>3. QED BY <4>1, <4>2
    <3>4. QED BY <1>3, <3>1, <3>2, <3>3, Zenon
  <2>3. after = 1 => Shown(new, Lasting) = Legacy \o later
    <3>1. CASE moved = 1 /\ new = rows
      BY <1>9, <3>1, Zenon DEF OrderKnown
    <3>2. CASE moved = 0 /\ new # rows
      <4>1. RowsBy(rows, s)
        BY <1>2, <3>2, Zenon
      <4>2. QED BY <1>7, <1>9, <3>2, <4>1, Zenon DEF OrderKnown
    <3>3. QED BY <3>1, <3>2, Zenon
  <2>4. QED BY <2>1, <2>2, <2>3, Zenon DEF OrderKnown
<1>10. QED BY <1>5, <1>6, <1>8, <1>9, Zenon DEF ItemKnows

\* A transaction is rolled back: what it did is gone.
LEMMA RollbackKeeps ==
  ASSUME NEW rows \in Seq(LogRow), NEW may \in SUBSET Starter, NEW legacy, NEW later, NEW moved, NEW passed,
         ItemKnows(rows, may, legacy, later, moved, passed), NEW s \in Starter
  PROVE  ItemKnows(EndedRows(rows, s, "nobody"), may \ {s}, legacy, later, moved, passed)
<1> DEFINE new == EndedRows(rows, s, "nobody")
<1>0. /\ "nobody" \notin Starter /\ "committed" \notin Starter /\ "writer" \notin Starter
      /\ "nobody" # "committed" /\ "nobody" # "writer" /\ s # "committed" /\ s # "writer"
      /\ s \in Starter \cup {"writer"} /\ "nobody" \in Outcome
  BY StarterAssumption DEF Outcome
<1>1. \A who : "nobody" \notin who /\ s \notin who => Shown(new, who) = Shown(rows, who)
  BY <1>0, OthersShown, Zenon
<1>2. \A t \in may \ {s} : t \in may /\ (RowsBy(new, t) <=> RowsBy(rows, t))
  <2>1. \A t \in may \ {s} : t \in may /\ t # "nobody" /\ t # s
    BY <1>0
  <2>2. QED BY <1>0, <2>1, EndedRowsBy, Zenon
<1> HIDE DEF new
<1>3. ASSUME NEW D \in SUBSET (may \ {s})
      PROVE  /\ Shown(new, D \cup {"committed"}) = Shown(rows, D \cup {"committed"})
             /\ Shown(new, D \cup Lasting) = Shown(rows, D \cup Lasting)
             /\ D \in SUBSET may
  <2>1. /\ "nobody" \notin D \cup {"committed"} /\ s \notin D \cup {"committed"}
        /\ "nobody" \notin D \cup Lasting /\ s \notin D \cup Lasting
    BY <1>0 DEF Lasting
  <2>2. D \in SUBSET may
    OBVIOUS
  <2>3. QED BY <1>1, <2>1, <2>2, Zenon
<1>4. Shown(new, Lasting) = Shown(rows, Lasting) /\ Shown(new, {"committed"}) = Shown(rows, {"committed"})
  <2>1. "nobody" \notin Lasting /\ s \notin Lasting /\ "nobody" \notin {"committed"} /\ s \notin {"committed"}
    BY <1>0 DEF Lasting
  <2>2. QED BY <1>1, <2>1, Zenon
<1>5. ASSUME NEW t \in may \ {s}
      PROVE  /\ Shown(new, {t, "committed"}) = Shown(rows, {t, "committed"})
             /\ Shown(new, {t} \cup Lasting) = Shown(rows, {t} \cup Lasting)
  <2>1. /\ "nobody" \notin {t, "committed"} /\ s \notin {t, "committed"}
        /\ "nobody" \notin {t} \cup Lasting /\ s \notin {t} \cup Lasting
    BY <1>0 DEF Lasting
  <2>2. QED BY <1>1, <2>1, Zenon
<1>6. ASSUME OrderKnown(rows, may, legacy, later, moved) PROVE OrderKnown(new, may \ {s}, legacy, later, moved)
  <2>1. \A D \in SUBSET (may \ {s}) : ButLast(Shown(new, D \cup {"committed"}), Shown(new, D \cup Lasting))
    BY <1>3, <1>6, Zenon DEF OrderKnown
  <2>2. moved = 0 => \A t \in may \ {s} : RowsBy(new, t) => Shown(new, {t} \cup Lasting) = Legacy \o later
    BY <1>2, <1>5, <1>6, Zenon DEF OrderKnown
  <2>3. moved = 0 /\ (legacy = <<>> \/ \E t \in may \ {s} : ~RowsBy(new, t)) => Old(later)
    BY <1>2, <1>6, Zenon DEF OrderKnown
  <2>4. moved = 1 => Shown(new, Lasting) = Legacy \o later
    BY <1>4, <1>6, Zenon DEF OrderKnown
  <2>5. QED BY <2>1, <2>2, <2>3, <2>4, Zenon DEF OrderKnown
<1>7. ItemKnows(new, may \ {s}, legacy, later, moved, passed)
  <2>1. \A t \in may \ {s} : OldIn(Shown(new, {t, "committed"}))
    BY <1>2, <1>5, Zenon DEF ItemKnows
  <2>2. (legacy = <<>> => OldIn(Shown(new, {"committed"}))) /\ (moved = 0 => Shown(new, Lasting) = later)
    BY <1>4, Zenon DEF ItemKnows
  <2>3. QED BY <1>6, <2>1, <2>2, Zenon DEF ItemKnows
<1>8. QED BY <1>7 DEF new

\* A transaction has compared what it sees with the old log and may commit.
LEMMA VerifyKeeps ==
  ASSUME NEW rows \in Seq(LogRow), NEW may \in SUBSET Starter, NEW legacy, NEW later \in Seq(Line), NEW moved, NEW passed,
         ItemKnows(rows, may, legacy, later, moved, passed), NEW s \in Starter,
         Shown(rows, {"committed", s}) = Legacy, RowsBy(rows, s) => Shown(rows, {s}) = Legacy
  PROVE  /\ \A t \in may \cup {s} : OldIn(Shown(rows, {t, "committed"}))
         /\ ~RowsBy(rows, "writer") /\ OrderKnown(rows, may, legacy, later, moved)
              => OrderKnown(rows, may \cup {s}, legacy, later, moved)
<1>1. \A t \in may \cup {s} : t \in may \/ t = s
  OBVIOUS
<1>2. OldIn(Shown(rows, {s, "committed"}))
  <2>1. {s, "committed"} = {"committed", s}
    OBVIOUS
  <2>2. Legacy \in Seq(Line) /\ Old(Legacy)
    BY LegacyType, OldLogs, Zenon
  <2>3. QED BY <2>1, <2>2, OldIsIn, Zenon
<1>3. ASSUME ~RowsBy(rows, "writer"), OrderKnown(rows, may, legacy, later, moved)
      PROVE  OrderKnown(rows, may \cup {s}, legacy, later, moved)
  <2>1. ASSUME NEW D PROVE Shown(rows, D \cup {"committed"}) = Shown(rows, D \cup Lasting)
    <3>1. (D \cup {"committed"}) \ {"writer"} = (D \cup Lasting) \ {"writer"}
      BY DEF Lasting
    <3>2. QED BY <1>3, <3>1, NoRowsNoMatter
  <2>2. \A D \in SUBSET (may \cup {s}) : ButLast(Shown(rows, D \cup {"committed"}), Shown(rows, D \cup Lasting))
    BY <2>1, Zenon DEF ButLast
  <2>3. Shown(rows, Lasting) = Shown(rows, {"committed"}) /\ Shown(rows, {s} \cup Lasting) = Legacy
    <3>1. {} \cup {"committed"} = {"committed"} /\ {} \cup Lasting = Lasting /\ {s} \cup {"committed"} = {"committed", s}
      OBVIOUS
    <3>2. QED BY <2>1, <3>1, Zenon
  <2>4. moved = 0 => later = Shown(rows, {"committed"})
    BY <2>3, Zenon DEF ItemKnows
  <2>5. ASSUME moved = 0, RowsBy(rows, s) PROVE Shown(rows, {s} \cup Lasting) = Legacy \o later
    <3>1. later = <<>>
      BY <2>4, <2>5, OwnIsAll, Zenon
    <3>2. QED BY <2>3, <3>1, OldLogs, Zenon
  <2>6. ASSUME moved = 0, ~RowsBy(rows, s) PROVE Old(later)
    <3>1. {"committed"} \ {s} = {"committed", s} \ {s}
      OBVIOUS
    <3>2. Shown(rows, {"committed"}) = Shown(rows, {"committed", s})
      BY <2>6, <3>1, NoRowsNoMatter
    <3>3. QED BY <2>4, <2>6, <3>2, OldLogs, Zenon
  <2>7. moved = 0 => \A t \in may \cup {s} : RowsBy(rows, t) => Shown(rows, {t} \cup Lasting) = Legacy \o later
    BY <1>1, <1>3, <2>5, Zenon DEF OrderKnown
  <2>8. moved = 0 /\ (legacy = <<>> \/ \E t \in may \cup {s} : ~RowsBy(rows, t)) => Old(later)
    BY <1>1, <1>3, <2>6, Zenon DEF OrderKnown
  <2>9. moved = 1 => Shown(rows, Lasting) = Legacy \o later
    BY <1>3, Zenon DEF OrderKnown
  <2>10. QED BY <2>2, <2>7, <2>8, <2>9, Zenon DEF OrderKnown
<1>4. \A t \in may \cup {s} : OldIn(Shown(rows, {t, "committed"}))
  BY <1>1, <1>2, Zenon DEF ItemKnows
<1>5. QED BY <1>3, <1>4, Zenon

\* A later attempt's line takes its id.
LEMMA AppendKeeps ==
  ASSUME NEW rows \in Seq(LogRow), NEW may \in SUBSET Starter, NEW legacy, NEW later \in Seq(Line), NEW moved, NEW passed,
         ItemKnows(rows, may, legacy, later, moved, passed), ~RowsBy(rows, "writer"), NEW line \in Line
  PROVE  ItemKnows(Append(rows, [line |-> line, by |-> "writer"]), may, legacy, Append(later, line), moved, passed)
<1> DEFINE r == [line |-> line, by |-> "writer"]
           new == Append(rows, r)
<1>0. /\ "writer" \notin Starter /\ "writer" # "committed" /\ "writer" \in Lasting
      /\ r \in LogRow /\ r.by = "writer" /\ r.line = line
  BY StarterAssumption, RowIs DEF Writer, Lasting
<1> HIDE DEF r
<1>1. /\ \A who : "writer" \notin who => Shown(new, who) = Shown(rows, who)
      /\ \A who : "writer" \in who => Shown(new, who) = Append(Shown(rows, who), line)
      /\ \A t : RowsBy(new, t) <=> RowsBy(rows, t) \/ t = "writer"
  <2>1. /\ \A who : r.by \notin who => Shown(new, who) = Shown(rows, who)
        /\ \A who : r.by \in who => Shown(new, who) = Append(Shown(rows, who), r.line)
        /\ \A t : RowsBy(new, t) <=> RowsBy(rows, t) \/ t = r.by
    BY <1>0, RowShows, Zenon
  <2> HIDE DEF new
  <2>2. QED BY <1>0, <2>1
<1> HIDE DEF new
<1>2. \A t \in may : t # "writer" /\ (RowsBy(new, t) <=> RowsBy(rows, t))
  <2>1. \A t \in may : t # "writer"
    BY <1>0
  <2>2. QED BY <1>1, <2>1, Zenon
<1>3. Append(Legacy \o later, line) = Legacy \o Append(later, line)
  BY OldLogs, Zenon
<1>4. ASSUME NEW D \in SUBSET may
      PROVE  /\ Shown(new, D \cup {"committed"}) = Shown(rows, D \cup Lasting)
             /\ Shown(new, D \cup Lasting) = Append(Shown(rows, D \cup Lasting), line)
  <2>1. /\ "writer" \notin D \cup {"committed"} /\ "writer" \in D \cup Lasting
        /\ (D \cup {"committed"}) \ {"writer"} = (D \cup Lasting) \ {"writer"}
    BY <1>0 DEF Lasting
  <2>2. Shown(rows, D \cup {"committed"}) = Shown(rows, D \cup Lasting)
    BY <2>1, NoRowsNoMatter
  <2>3. QED BY <1>1, <2>1, <2>2, Zenon
<1>5. Shown(new, Lasting) = Append(Shown(rows, Lasting), line) /\ Shown(new, {"committed"}) = Shown(rows, {"committed"})
  <2>1. "writer" \notin {"committed"}
    OBVIOUS
  <2>2. QED BY <1>0, <1>1, <2>1, Zenon
<1>6. ASSUME NEW t \in may
      PROVE  /\ Shown(new, {t, "committed"}) = Shown(rows, {t, "committed"})
             /\ Shown(new, {t} \cup Lasting) = Append(Shown(rows, {t} \cup Lasting), line)
  <2>1. "writer" \notin {t, "committed"} /\ "writer" \in {t} \cup Lasting
    BY <1>0
  <2>2. QED BY <1>1, <2>1, Zenon
<1>7. ASSUME OrderKnown(rows, may, legacy, later, moved)
      PROVE  OrderKnown(new, may, legacy, Append(later, line), moved)
  <2>1. \A D \in SUBSET may : ButLast(Shown(new, D \cup {"committed"}), Shown(new, D \cup Lasting))
    BY <1>4, Zenon DEF ButLast
  <2>2. moved = 0 => \A t \in may : RowsBy(new, t) => Shown(new, {t} \cup Lasting) = Legacy \o Append(later, line)
    BY <1>2, <1>3, <1>6, <1>7, Zenon DEF OrderKnown
  <2>3. moved = 0 /\ (legacy = <<>> \/ \E t \in may : ~RowsBy(new, t)) => Old(Append(later, line))
    BY <1>2, <1>7, OldGrows, Zenon DEF OrderKnown
  <2>4. moved = 1 => Shown(new, Lasting) = Legacy \o Append(later, line)
    BY <1>3, <1>5, <1>7, Zenon DEF OrderKnown
  <2>5. QED BY <2>1, <2>2, <2>3, <2>4, Zenon DEF OrderKnown
<1>8. ItemKnows(new, may, legacy, Append(later, line), moved, passed)
  <2>1. \A t \in may : OldIn(Shown(new, {t, "committed"}))
    BY <1>6, Zenon DEF ItemKnows
  <2>2. legacy = <<>> => OldIn(Shown(new, {"committed"}))
    BY <1>5, Zenon DEF ItemKnows
  <2>3. moved = 0 => Shown(new, Lasting) = Append(later, line)
    BY <1>5, Zenon DEF ItemKnows
  <2>4. QED BY <1>7, <2>1, <2>2, <2>3, Zenon DEF ItemKnows
<1>9. QED BY <1>8 DEF new, r

\* The line is committed: everybody reads it.
LEMMA CommitLineKeeps ==
  ASSUME NEW rows \in Seq(LogRow), NEW may \in SUBSET Starter, NEW legacy, NEW later, NEW moved, NEW passed,
         ItemKnows(rows, may, legacy, later, moved, passed)
  PROVE  ItemKnows(EndedRows(rows, "writer", "committed"), may, legacy, later, moved, passed)
<1> DEFINE new == EndedRows(rows, "writer", "committed")
<1>0. /\ "writer" \notin Starter /\ "committed" \notin Starter /\ "committed" \in Lasting
      /\ "writer" \in Starter \cup {"writer"} /\ "committed" \in Outcome
  BY StarterAssumption DEF Outcome, Lasting
<1>1. \A who : "committed" \in who => Shown(new, who) = Shown(rows, who \cup {"writer"})
  BY <1>0, CommitShows, Zenon
<1>2. \A t \in may : RowsBy(new, t) <=> RowsBy(rows, t)
  <2>1. \A t \in may : t # "committed" /\ t # "writer"
    BY <1>0
  <2>2. QED BY <1>0, <2>1, EndedRowsBy, Zenon
<1> HIDE DEF new
<1>3. ASSUME NEW D
      PROVE  /\ Shown(new, D \cup {"committed"}) = Shown(rows, D \cup Lasting)
             /\ Shown(new, D \cup Lasting) = Shown(rows, D \cup Lasting)
  <2>1. /\ (D \cup {"committed"}) \cup {"writer"} = D \cup Lasting
        /\ (D \cup Lasting) \cup {"writer"} = D \cup Lasting
        /\ "committed" \in D \cup {"committed"} /\ "committed" \in D \cup Lasting
    BY DEF Lasting
  <2>2. QED BY <1>1, <2>1, Zenon
<1>4. Shown(new, Lasting) = Shown(rows, Lasting) /\ Shown(new, {"committed"}) = Shown(rows, Lasting)
  <2>1. {} \cup Lasting = Lasting /\ {} \cup {"committed"} = {"committed"}
    OBVIOUS
  <2>2. QED BY <1>3, <2>1, Zenon
<1>5. \A t : Shown(new, {t, "committed"}) = Shown(rows, {t} \cup Lasting)
  <2>1. \A t : {t} \cup {"committed"} = {t, "committed"}
    OBVIOUS
  <2>2. QED BY <1>3, <2>1, Zenon
<1>6. ASSUME OrderKnown(rows, may, legacy, later, moved) PROVE OrderKnown(new, may, legacy, later, moved)
  <2>1. \A D \in SUBSET may : ButLast(Shown(new, D \cup {"committed"}), Shown(new, D \cup Lasting))
    BY <1>3, Zenon DEF ButLast
  <2>2. moved = 0 => \A t \in may : RowsBy(new, t) => Shown(new, {t} \cup Lasting) = Legacy \o later
    BY <1>2, <1>3, <1>6, Zenon DEF OrderKnown
  <2>3. moved = 0 /\ (legacy = <<>> \/ \E t \in may : ~RowsBy(new, t)) => Old(later)
    BY <1>2, <1>6, Zenon DEF OrderKnown
  <2>4. moved = 1 => Shown(new, Lasting) = Legacy \o later
    BY <1>4, <1>6, Zenon DEF OrderKnown
  <2>5. QED BY <2>1, <2>2, <2>3, <2>4, Zenon DEF OrderKnown
<1>7. \A t \in may : OldIn(Shown(new, {t, "committed"}))
  <2>1. ASSUME NEW t \in may PROVE OldIn(Shown(rows, {t} \cup Lasting))
    <3>1. OldIn(Shown(rows, {t, "committed"})) /\ {t, "committed"} \subseteq {t} \cup Lasting
      BY DEF ItemKnows, Lasting
    <3>2. QED BY <3>1, ShownMore, Zenon
  <2>2. QED BY <1>5, <2>1, Zenon
<1>8. legacy = <<>> => OldIn(Shown(new, {"committed"}))
  <2>1. ASSUME legacy = <<>> PROVE OldIn(Shown(rows, Lasting))
    <3>1. OldIn(Shown(rows, {"committed"}))
      BY <2>1, Zenon DEF ItemKnows
    <3>2. {"committed"} \subseteq Lasting
      BY DEF Lasting
    <3>3. QED BY <3>1, <3>2, ShownMore, Zenon
  <2>2. QED BY <1>4, <2>1, Zenon
<1>9. ItemKnows(new, may, legacy, later, moved, passed)
  BY <1>4, <1>6, <1>7, <1>8, Zenon DEF ItemKnows
<1>10. QED BY <1>9 DEF new

---------------------------------------------------------------------------
(* The invariant is kept *)

LEMMA MigInitHolds == MigInit => MigInv
<1> SUFFICES ASSUME MigInit PROVE MigInv
  OBVIOUS
<1>1. MigShape
  <2>1. <<>> \in Seq(LogRow) /\ <<>> \in Seq(Line)
    OBVIOUS
  <2> DEFINE log == Legacy
  <2>2. column \in [Row -> {log, <<>>}]
    BY DEF MigInit
  <2>3. at \in [Starter -> [item : 0..Items, log : {log, <<>>}]]
    BY ItemsAssumption DEF MigInit
  <2>4. view \in [item : 0..Items, legacy : {log, <<>>}, logs : Seq(Line), shown : BOOLEAN]
    BY <2>1, ItemsAssumption DEF MigInit, NoView
  <2> HIDE DEF log
  <2>5. /\ stored \in [Row -> Seq(LogRow)] /\ fresh \in [Row -> Seq(Line)] /\ moves \in [Row -> Nat]
        /\ late \in [Row -> BOOLEAN] /\ mig \in [Starter -> Moving \cup {"down", "selecting", "up"}]
    BY <2>1 DEF MigInit
  <2>6. QED BY <2>2, <2>3, <2>4, <2>5 DEF MigShape, log
<1>2. \A i \in Row : stored[i] = <<>> /\ fresh[i] = <<>> /\ moves[i] = 0 /\ column[i] = Legacy
  BY DEF MigInit
<1>3. \A s \in Starter : mig[s] = "down"
  BY DEF MigInit
<1>4. Len(<<>>) = 0 /\ <<>> \in Seq(LogRow)
  OBVIOUS
<1>5. \A s : ~RowsBy(<<>>, s)
  BY <1>4 DEF RowsBy
<1>6. TransactionsKnow
  <2>1. "down" \notin Moving /\ "down" # "inserting" /\ "down" # "verifying"
    BY DEF Moving
  <2>2. QED BY <1>2, <1>3, <1>5, <2>1, Zenon DEF TransactionsKnow, Transaction
<1>7. ASSUME NEW i \in Row PROVE ItemKnows(stored[i], May(i), column[i], fresh[i], moves[i], late[i])
  <2>1. May(i) = {}
    BY <1>3 DEF May
  <2>2. \A who : Shown(<<>>, who) = <<>>
    <3> DEFINE none == <<>>
    <3>1. none \in Seq(LogRow) /\ \A who : \A k \in 1..Len(none) : none[k].by \notin who
      BY <1>4
    <3> HIDE DEF none
    <3>2. \A who : Shown(none, who) = <<>>
      BY <3>1, ShownEmpty, Zenon
    <3>3. QED BY <3>2 DEF none
  <2>3. Legacy # <<>> /\ 0 # 1 /\ \A t \in {} : FALSE
    BY OldLogs
  <2>4. OrderKnown(<<>>, {}, Legacy, <<>>, 0)
    BY <2>2, <2>3, Zenon DEF OrderKnown, ButLast
  <2>5. \A passed : ItemKnows(<<>>, {}, Legacy, <<>>, 0, passed)
    BY <2>2, <2>3, <2>4, Zenon DEF ItemKnows
  <2>6. QED BY <1>2, <2>1, <2>5, Zenon
<1>8. ViewKnows
  <2>1. view.item = 0 /\ view.shown = FALSE
    BY DEF MigInit, NoView
  <2>2. QED BY <2>1 DEF ViewKnows
<1>9. QED BY <1>1, <1>6, <1>7, <1>8 DEF MigInv, RowsKnow

\* What a reader was shown stays true of the item: its column is only ever
\* emptied, its log only moved, and its later lines only added to.
LEMMA ViewStays ==
  ASSUME MigShape, ViewKnows, view' = view,
         \A i \in Row : column[i] = <<>> => column'[i] = <<>>,
         \A i \in Row : moves'[i] <= 1 => moves[i] <= 1,
         \A i \in Row : late[i] => late'[i],
         \A i \in Row : fresh'[i] = fresh[i] \/ \E line \in Line : fresh'[i] = Append(fresh[i], line)
  PROVE  ViewKnows'
<1>1. view.item # 0 => view.item \in Row
  BY ItemsAssumption DEF MigShape, Row
<1>2. \A i \in Row : fresh[i] \in Seq(Line)
  BY DEF MigShape
<1>3. ASSUME NEW q \in Seq(Line), NEW line \in Line, NEW logs, Told(logs, q)
      PROVE  Told(logs, Append(q, line))
  <2>1. CASE Old(q)
    BY <2>1, OldGrows, Zenon DEF Told
  <2>2. CASE \E n \in 0..Len(q) : logs = Legacy \o SubSeq(q, 1, n)
    <3>1. PICK n \in 0..Len(q) : logs = Legacy \o SubSeq(q, 1, n)
      BY <2>2
    <3>2. n \in 0..Len(Append(q, line)) /\ SubSeq(Append(q, line), 1, n) = SubSeq(q, 1, n)
      <4>1. Append(q, line) \in Seq(Line) /\ Len(Append(q, line)) = Len(q) + 1 /\ Len(q) \in Nat
            /\ \A k \in 1..Len(q) : Append(q, line)[k] = q[k]
        BY AppendProperties, LenProperties
      <4>2. QED BY <4>1
    <3>3. QED BY <3>1, <3>2, Zenon DEF Told
  <2>3. QED BY <1>3, <2>1, <2>2, Zenon DEF Told
<1>4. \A i \in Row : \A logs : Told(logs, fresh[i]) => Told(logs, fresh'[i])
  BY <1>2, <1>3, Zenon
<1>5. QED BY <1>1, <1>4, Zenon DEF ViewKnows

\* A transaction whose instance does nothing, and to whose rows nothing is done,
\* is where it was.
LEMMA TransactionStays ==
  ASSUME NEW t \in Starter, Transaction(t), mig'[t] = mig[t], at'[t] = at[t],
         \A i \in Row : RowsBy(stored'[i], t) => RowsBy(stored[i], t),
         \A i \in Row : Shown(stored'[i], {t}) = Shown(stored[i], {t})
  PROVE  Transaction(t)'
BY Zenon DEF Transaction

\* An instance that has no rows of its own goes on, short of its commit.
LEMMA QuietStep ==
  ASSUME MigInv, NEW s \in Starter, mig[s] \notin {"inserting", "verifying", "clearing"}, mig'[s] # "clearing",
         mig' \in [Starter -> Moving \cup {"down", "selecting", "up"}],
         at' \in [Starter -> [item : 0..Items, log : {Legacy, <<>>}]],
         \A t \in Starter \ {s} : mig'[t] = mig[t] /\ at'[t] = at[t],
         mig'[s] \in Moving => at'[s].item \in Row /\ at'[s].log = Legacy,
         UNCHANGED <<column, stored, fresh, moves, late, view>>
  PROVE  MigInv'
<1>0. column' = column /\ stored' = stored /\ fresh' = fresh /\ moves' = moves /\ late' = late /\ view' = view
  OBVIOUS
<1>1. ASSUME NEW t \in Starter, t # s PROVE mig'[t] = mig[t] /\ at'[t] = at[t]
  BY <1>1
<1>2. \A i \in Row : May(i)' = May(i)
  <2>1. \A i \in Row : May(i)' = {t \in Starter : mig'[t] = "clearing" /\ at'[t].item = i}
    BY DEF May
  <2>2. QED BY <1>1, <2>1 DEF May
<1>3. MigShape'
  BY DEF MigInv, MigShape
<1>4. TransactionsKnow'
  <2>1. ASSUME NEW i \in Row PROVE ~RowsBy(stored[i], s) /\ Shown(stored[i], {s}) = <<>>
    <3>1. ~RowsBy(stored[i], s)
      BY Zenon DEF MigInv, TransactionsKnow, Transaction
    <3>2. stored[i] \in Seq(LogRow)
      BY DEF MigInv, MigShape
    <3>3. QED BY <3>1, <3>2, OwnRows, Zenon
  <2>2. ASSUME NEW t \in Starter, t # s PROVE Transaction(t)'
    <3>1. Transaction(t)
      BY DEF MigInv, TransactionsKnow
    <3>2. QED BY <1>0, <1>1, <2>2, <3>1, TransactionStays, Zenon
  <2>3. Transaction(s)'
    <3>1. \A i \in Row : <<>> \in {<<>>, <<"first">>} /\ <<>> \in {<<>>, Legacy}
      OBVIOUS
    <3>2. QED BY <1>0, <2>1, <3>1, Zenon DEF Transaction
  <2>4. QED BY <2>2, <2>3, Zenon DEF TransactionsKnow
<1>5. RowsKnow'
  BY <1>0, <1>2, Zenon DEF MigInv, RowsKnow
<1>6. ViewKnows'
  BY <1>0, ViewStays, Zenon DEF MigInv
<1>7. QED BY <1>3, <1>4, <1>5, <1>6 DEF MigInv

LEMMA StartStep ==
  ASSUME MigInv, NEW s \in Starter, Start(s)
  PROVE  MigInv'
<1>1. mig[s] = "down" /\ mig' = [mig EXCEPT ![s] = "selecting"] /\ at' = at
  BY DEF Start
<1>2. "selecting" \notin Moving
  BY DEF Moving
<1>3. mig' \in [Starter -> Moving \cup {"down", "selecting", "up"}] /\ mig'[s] = "selecting"
      /\ \A t \in Starter \ {s} : mig'[t] = mig[t]
  BY <1>1 DEF MigInv, MigShape
<1>4. at' \in [Starter -> [item : 0..Items, log : {Legacy, <<>>}]]
  BY <1>1, Zenon DEF MigInv, MigShape
<1>5. UNCHANGED <<column, stored, fresh, moves, late, view>>
  BY DEF Start
<1>6. QED BY <1>1, <1>2, <1>3, <1>4, <1>5, QuietStep

LEMMA SelectStep ==
  ASSUME MigInv, NEW s \in Starter, Select(s)
  PROVE  MigInv'
<1>0. mig[s] = "selecting" /\ UNCHANGED <<column, stored, fresh, moves, late, view>>
  BY DEF Select
<1>1. CASE \E i \in Row : column[i] # <<>> /\ at' = [at EXCEPT ![s] = [item |-> i, log |-> column[i]]]
                           /\ mig' = [mig EXCEPT ![s] = "counting"]
  <2>1. PICK i \in Row : column[i] # <<>> /\ at' = [at EXCEPT ![s] = [item |-> i, log |-> column[i]]]
                           /\ mig' = [mig EXCEPT ![s] = "counting"]
    BY <1>1
  <2>2. column[i] = Legacy
    BY <2>1, Zenon DEF MigInv, MigShape
  <2> DEFINE log == Legacy
             logs == {log, <<>>}
  <2>3. at \in [Starter -> [item : 0..Items, log : logs]] /\ log \in logs
        /\ at' = [at EXCEPT ![s] = [item |-> i, log |-> log]]
    BY <2>1, <2>2 DEF MigInv, MigShape
  <2>4. i \in 0..Items
    BY ItemsAssumption DEF Row
  <2> HIDE DEF log, logs
  <2>5. at' \in [Starter -> [item : 0..Items, log : logs]] /\ at'[s] = [item |-> i, log |-> log]
        /\ \A t \in Starter \ {s} : at'[t] = at[t]
    BY <2>3, <2>4
  <2>6. mig' \in [Starter -> Moving \cup {"down", "selecting", "up"}] /\ mig'[s] = "counting"
        /\ \A t \in Starter \ {s} : mig'[t] = mig[t]
    BY <2>1 DEF MigInv, MigShape, Moving
  <2>7. at'[s].item \in Row /\ at'[s].log = Legacy
    BY <2>5 DEF log
  <2>8. at' \in [Starter -> [item : 0..Items, log : {Legacy, <<>>}]]
    BY <2>5 DEF logs, log
  <2>9. QED BY <1>0, <2>5, <2>6, <2>7, <2>8, QuietStep
<1>2. CASE mig' = [mig EXCEPT ![s] = "up"] /\ UNCHANGED at
  <2>1. mig' \in [Starter -> Moving \cup {"down", "selecting", "up"}] /\ mig'[s] = "up"
        /\ \A t \in Starter \ {s} : mig'[t] = mig[t]
    BY <1>2 DEF MigInv, MigShape
  <2>2. "up" \notin Moving
    BY DEF Moving
  <2>3. at' \in [Starter -> [item : 0..Items, log : {Legacy, <<>>}]]
    BY <1>2, Zenon DEF MigInv, MigShape
  <2>4. QED BY <1>0, <1>2, <2>1, <2>2, <2>3, QuietStep
<1>3. QED BY <1>1, <1>2 DEF Select

LEMMA CountRowsStep ==
  ASSUME MigInv, NEW s \in Starter, CountRows(s)
  PROVE  MigInv'
<1> DEFINE m == IF Lines(at[s].item, s) = <<>> THEN "inserting" ELSE "verifying"
<1>1. mig[s] = "counting" /\ mig' = [mig EXCEPT ![s] = m] /\ at' = at
      /\ UNCHANGED <<column, stored, fresh, moves, late, view>>
  BY DEF CountRows
<1>2. m \in {"inserting", "verifying"}
  OBVIOUS
<1> HIDE DEF m
<1>3. mig' \in [Starter -> Moving \cup {"down", "selecting", "up"}] /\ mig'[s] = m
      /\ \A t \in Starter \ {s} : mig'[t] = mig[t]
  BY <1>1, <1>2 DEF MigInv, MigShape, Moving
<1>4. at'[s].item \in Row /\ at'[s].log = Legacy
  <2>1. "counting" \in Moving
    BY DEF Moving
  <2>2. QED BY <1>1, <2>1, Zenon DEF MigInv, TransactionsKnow, Transaction
<1>5. at' \in [Starter -> [item : 0..Items, log : {Legacy, <<>>}]]
  BY <1>1, Zenon DEF MigInv, MigShape
<1>6. QED BY <1>1, <1>2, <1>3, <1>4, <1>5, QuietStep

\* The next line of the old log, and where the transaction is after it.
LEMMA NextLine ==
  ASSUME MigInv, NEW s \in Starter, InsertRow(s)
  PROVE  LET i0 == at[s].item
             q == Shown(stored[i0], {s})
         IN  \E line \in Line, m \in {"inserting", "verifying"} :
               /\ i0 \in Row /\ at[s].log = Legacy
               /\ stored' = [stored EXCEPT ![i0] = Append(@, [line |-> line, by |-> s])]
               /\ mig' = [mig EXCEPT ![s] = m]
               /\ m = "inserting" => Append(q, line) = <<"first">>
               /\ m = "verifying" => Append(q, line) = Legacy
<1> DEFINE i0 == at[s].item
           q == Shown(stored[i0], {s})
           log == Legacy
<1>1. mig[s] = "inserting" /\ mig[s] \in Moving
  BY DEF InsertRow, Moving
<1>2. i0 \in Row /\ at[s].log = log /\ q \in {<<>>, <<"first">>}
  BY <1>1, Zenon DEF MigInv, TransactionsKnow, Transaction
<1>3. /\ stored' = [stored EXCEPT ![i0] = Append(@, [line |-> log[Len(q) + 1], by |-> s])]
      /\ mig' = [mig EXCEPT ![s] = IF Len(q) + 1 = Len(log) THEN "verifying" ELSE mig[s]]
  <2> HIDE DEF log
  <2>1. QED BY <1>2 DEF InsertRow
<1>4. Len(log) = 2 /\ log[1] = "first" /\ log[2] = "second" /\ "first" \in Line /\ "second" \in Line
  BY LegacyType DEF Line
<1>5. Append(Append(<<>>, "first"), "second") = log /\ Append(<<>>, "first") = <<"first">>
  BY OldLogs
<1> HIDE DEF i0, q, log
<1>6. CASE q = <<>>
  <2>1. Len(q) + 1 = 1
    BY <1>6
  <2>2. /\ stored' = [stored EXCEPT ![i0] = Append(@, [line |-> "first", by |-> s])]
        /\ mig' = [mig EXCEPT ![s] = "inserting"]
    BY <1>1, <1>3, <1>4, <2>1
  <2>3. Append(q, "first") = <<"first">>
    BY <1>5, <1>6, Zenon
  <2>4. "inserting" # "verifying" /\ "inserting" \in {"inserting", "verifying"}
    OBVIOUS
  <2>5. QED BY <1>2, <1>4, <2>2, <2>3, <2>4, Zenon DEF i0, q, log
<1>7. CASE q = <<"first">>
  <2>1. Len(q) + 1 = 2
    BY <1>7
  <2>2. /\ stored' = [stored EXCEPT ![i0] = Append(@, [line |-> "second", by |-> s])]
        /\ mig' = [mig EXCEPT ![s] = "verifying"]
    BY <1>3, <1>4, <2>1
  <2>3. Append(q, "second") = log
    BY <1>5, <1>7, Zenon
  <2>4. "inserting" # "verifying" /\ "verifying" \in {"inserting", "verifying"}
    OBVIOUS
  <2>5. QED BY <1>2, <1>4, <2>2, <2>3, <2>4, Zenon DEF i0, q, log
<1>8. QED BY <1>2, <1>6, <1>7

LEMMA InsertRowStep ==
  ASSUME MigInv, NEW s \in Starter, InsertRow(s)
  PROVE  MigInv'
<1> DEFINE i0 == at[s].item
           q == Shown(stored[i0], {s})
<1>0. /\ mig[s] = "inserting" /\ column' = column /\ fresh' = fresh /\ moves' = moves /\ late' = late
      /\ view' = view /\ at' = at
  BY DEF InsertRow
<1>1. PICK line \in Line, m \in {"inserting", "verifying"} :
        /\ i0 \in Row /\ at[s].log = Legacy
        /\ stored' = [stored EXCEPT ![i0] = Append(@, [line |-> line, by |-> s])]
        /\ mig' = [mig EXCEPT ![s] = m]
        /\ m = "inserting" => Append(q, line) = <<"first">>
        /\ m = "verifying" => Append(q, line) = Legacy
  BY NextLine
<1> DEFINE r == [line |-> line, by |-> s]
           old == stored[i0]
           new == Append(old, r)
<1>2. stored \in [Row -> Seq(LogRow)] /\ old \in Seq(LogRow)
  BY <1>1 DEF MigInv, MigShape
<1>3. r \in LogRow /\ r.by = s /\ r.line = line
  BY RowIs DEF Writer
<1>4. /\ new \in Seq(LogRow)
      /\ \A t : RowsBy(new, t) <=> RowsBy(old, t) \/ t = s
      /\ \A who : s \notin who => Shown(new, who) = Shown(old, who)
      /\ \A who : s \in who => Shown(new, who) = Append(Shown(old, who), line)
  <2> HIDE DEF old, r
  <2>1. /\ new \in Seq(LogRow)
        /\ \A t : RowsBy(new, t) <=> RowsBy(old, t) \/ t = r.by
        /\ \A who : r.by \notin who => Shown(new, who) = Shown(old, who)
        /\ \A who : r.by \in who => Shown(new, who) = Append(Shown(old, who), r.line)
    BY <1>2, <1>3, RowShows, Zenon
  <2> HIDE DEF new
  <2>2. QED BY <1>3, <2>1
<1>5. stored' = [stored EXCEPT ![i0] = new]
  BY <1>1
<1>6. Shown(new, {s}) = Append(q, line)
  <2>1. s \in {s}
    OBVIOUS
  <2>2. QED BY <1>4, <2>1, Zenon
<1>7. at[s].item = i0 /\ stored[i0] = old
  OBVIOUS
<1> HIDE DEF i0, new, old, q
<1>8. /\ stored' \in [Row -> Seq(LogRow)] /\ stored'[i0] = new
      /\ \A i \in Row : i # i0 => stored'[i] = stored[i]
  BY <1>1, <1>2, <1>4, <1>5
<1>9. /\ mig' \in [Starter -> Moving \cup {"down", "selecting", "up"}] /\ mig'[s] = m
      /\ \A t \in Starter : t # s => mig'[t] = mig[t]
  BY <1>1 DEF MigInv, MigShape, Moving
<1>10. ASSUME NEW i \in Row PROVE May(i)' = May(i) /\ s \notin May(i)
  <2>1. \A t \in Starter : mig'[t] = "clearing" <=> mig[t] = "clearing"
    BY <1>0, <1>9
  <2>2. QED BY <1>0, <2>1 DEF May
<1>11. MigShape'
  BY <1>0, <1>8, <1>9, Zenon DEF MigInv, MigShape
<1>12. TransactionsKnow'
  <2>1. ASSUME NEW t \in Starter, t # s PROVE Transaction(t)'
    <3>1. Transaction(t)
      BY DEF MigInv, TransactionsKnow
    <3>2. ASSUME NEW i \in Row PROVE /\ RowsBy(stored'[i], t) => RowsBy(stored[i], t)
                                     /\ Shown(stored'[i], {t}) = Shown(stored[i], {t})
      <4>1. CASE i = i0
        <5>1. s \notin {t}
          BY <2>1
        <5>2. QED BY <1>4, <1>7, <1>8, <2>1, <4>1, <5>1, Zenon
      <4>2. CASE i # i0
        BY <1>8, <4>2, Zenon
      <4>3. QED BY <4>1, <4>2
    <3>3. QED BY <1>0, <1>9, <2>1, <3>1, <3>2, TransactionStays, Zenon
  <2>2. Transaction(s)'
    <3>1. Transaction(s)
      BY DEF MigInv, TransactionsKnow
    <3>2. ASSUME NEW i \in Row, i # i0 PROVE ~RowsBy(stored'[i], s) /\ Shown(stored'[i], {s}) = <<>>
      <4>1. ~RowsBy(stored[i], s)
        BY <1>7, <3>1, <3>2, Zenon DEF Transaction
      <4>2. stored[i] \in Seq(LogRow)
        BY <1>2
      <4>3. QED BY <1>8, <3>2, <4>1, <4>2, OwnRows, Zenon
    <3>3. m = "inserting" => Shown(stored'[i0], {s}) \in {<<>>, <<"first">>}
      BY <1>1, <1>6, <1>8
    <3>4. m = "verifying" => Shown(stored'[i0], {s}) \in {<<>>, Legacy}
      BY <1>1, <1>6, <1>8, Zenon
    <3>5. \A i \in Row : RowsBy(stored'[i], s) => m \in {"inserting", "verifying", "clearing"} /\ at'[s].item = i
      <4>1. m \in {"inserting", "verifying", "clearing"}
        BY <1>1
      <4>2. QED BY <1>0, <1>7, <3>2, <4>1, Zenon
    <3>6. \A i \in Row : m = "inserting" => Shown(stored'[i], {s}) \in {<<>>, <<"first">>}
      <4>1. <<>> \in {<<>>, <<"first">>}
        OBVIOUS
      <4>2. QED BY <3>2, <3>3, <4>1, Zenon
    <3>7. \A i \in Row : m = "verifying" => Shown(stored'[i], {s}) \in {<<>>, Legacy}
      <4>1. <<>> \in {<<>>, Legacy}
        OBVIOUS
      <4>2. QED BY <3>2, <3>4, <4>1, Zenon
    <3>8. at'[s].item \in Row /\ at'[s].log = Legacy
      BY <1>0, <1>1, <1>7, Zenon
    <3>9. QED BY <1>9, <3>5, <3>6, <3>7, <3>8, Zenon DEF Transaction
  <2>3. QED BY <2>1, <2>2, Zenon DEF TransactionsKnow
<1>13. RowsKnow'
  <2>1. ASSUME NEW i \in Row PROVE ItemKnows(stored'[i], May(i)', column'[i], fresh'[i], moves'[i], late'[i])
    <3>1. ItemKnows(stored[i], May(i), column[i], fresh[i], moves[i], late[i]) /\ stored[i] \in Seq(LogRow)
          /\ May(i) \in SUBSET Starter
      BY <1>2 DEF MigInv, RowsKnow, May
    <3>2. ItemKnows(stored'[i], May(i), column[i], fresh[i], moves[i], late[i])
      <4>1. CASE i = i0
        <5>1. ItemKnows(Append(stored[i], [line |-> line, by |-> s]), May(i), column[i], fresh[i], moves[i], late[i])
          BY <1>10, <3>1, InsertKeeps
        <5>2. QED BY <1>7, <1>8, <4>1, <5>1, Zenon DEF new, r
      <4>2. CASE i # i0
        BY <1>8, <3>1, <4>2, Zenon
      <4>3. QED BY <4>1, <4>2
    <3>3. QED BY <1>0, <1>10, <3>2, Zenon
  <2>2. QED BY <2>1, Zenon DEF RowsKnow
<1>14. ViewKnows'
  BY <1>0, ViewStays, Zenon DEF MigInv
<1>15. QED BY <1>11, <1>12, <1>13, <1>14 DEF MigInv

\* A line in flight is a row of its writer's.
LEMMA InFlightIs ==
  ASSUME MigInv, NEW i \in Row
  PROVE  InFlight(i) <=> RowsBy(stored[i], "writer")
<1>1. stored[i] \in Seq(LogRow)
  BY DEF MigInv, MigShape
<1>2. DOMAIN stored[i] = 1..Len(stored[i])
  BY <1>1
<1>3. QED BY <1>2, Zenon DEF InFlight, RowsBy

LEMMA VerifyRowsStep ==
  ASSUME MigInv, NEW s \in Starter, VerifyRows(s)
  PROVE  MigInv'
<1> DEFINE i0 == at[s].item
<1>0. /\ mig[s] = "verifying" /\ mig' = [mig EXCEPT ![s] = "clearing"] /\ stored' = stored
      /\ column' = column /\ fresh' = fresh /\ moves' = moves /\ view' = view /\ at' = at
      /\ late' = [late EXCEPT ![i0] = @ \/ InFlight(i0)]
  BY DEF VerifyRows
<1>1. i0 \in Row /\ at[s].log = Legacy /\ Shown(stored[i0], {s}) \in {<<>>, Legacy}
  <2>1. "verifying" \in Moving
    BY DEF Moving
  <2>2. QED BY <1>0, <2>1, Zenon DEF MigInv, TransactionsKnow, Transaction
<1>2. Shown(stored[i0], {"committed", s}) = Legacy
  BY <1>1 DEF VerifyRows, Lines
<1>3. at[s].item = i0
  OBVIOUS
<1> HIDE DEF i0
<1>4. /\ mig' \in [Starter -> Moving \cup {"down", "selecting", "up"}] /\ mig'[s] = "clearing"
      /\ \A t \in Starter : t # s => mig'[t] = mig[t]
  BY <1>0 DEF MigInv, MigShape, Moving
<1>5. ASSUME NEW i \in Row PROVE May(i)' = IF i = i0 THEN May(i) \cup {s} ELSE May(i)
  <2>1. May(i)' = {t \in Starter : mig'[t] = "clearing" /\ at[t].item = i}
    BY <1>0 DEF May
  <2>2. s \notin May(i)
    BY <1>0 DEF May
  <2>3. \A t \in Starter : t # s => (t \in May(i)' <=> t \in May(i))
    BY <1>4, <2>1 DEF May
  <2>4. s \in May(i)' <=> i = i0
    BY <1>3, <1>4, <2>1
  <2>5. May(i)' \in SUBSET Starter /\ May(i) \in SUBSET Starter
    BY <2>1 DEF May
  <2> HIDE DEF May
  <2>6. QED BY <2>2, <2>3, <2>4, <2>5
<1>6. /\ late' \in [Row -> BOOLEAN] /\ late'[i0] = (late[i0] \/ InFlight(i0))
      /\ \A i \in Row : i # i0 => late'[i] = late[i]
      /\ \A i \in Row : late[i] => late'[i]
  <2>1. late \in [Row -> BOOLEAN] /\ InFlight(i0) \in BOOLEAN
    BY DEF MigInv, MigShape, InFlight
  <2>2. QED BY <1>0, <1>1, <2>1
<1>7. MigShape'
  BY <1>0, <1>4, <1>6, Zenon DEF MigInv, MigShape
<1>8. TransactionsKnow'
  <2>1. ASSUME NEW t \in Starter, t # s PROVE Transaction(t)'
    <3>1. Transaction(t)
      BY DEF MigInv, TransactionsKnow
    <3>2. QED BY <1>0, <1>4, <2>1, <3>1, TransactionStays, Zenon
  <2>2. Transaction(s)'
    <3>1. Transaction(s)
      BY DEF MigInv, TransactionsKnow
    <3>2. "clearing" # "inserting" /\ "clearing" # "verifying" /\ "clearing" \in {"inserting", "verifying", "clearing"}
      OBVIOUS
    <3>3. QED BY <1>0, <1>1, <1>3, <1>4, <3>1, <3>2, Zenon DEF Transaction
  <2>3. QED BY <2>1, <2>2, Zenon DEF TransactionsKnow
<1>9. RowsKnow'
  <2>1. ASSUME NEW i \in Row PROVE ItemKnows(stored[i], May(i)', column[i], fresh[i], moves[i], late'[i])
    <3>1. ItemKnows(stored[i], May(i), column[i], fresh[i], moves[i], late[i])
          /\ stored[i] \in Seq(LogRow) /\ fresh[i] \in Seq(Line) /\ May(i) \in SUBSET Starter
      BY DEF MigInv, MigShape, RowsKnow, May
    <3>2. CASE i = i0
      <4>1. RowsBy(stored[i], s) => Shown(stored[i], {s}) = Legacy
        BY <1>1, <3>1, <3>2, OwnRows, Zenon
      <4>2. Shown(stored[i], {"committed", s}) = Legacy
        BY <1>2, <3>2, Zenon
      <4>3. ~late'[i] => ~late[i] /\ ~RowsBy(stored[i], "writer")
        BY <1>6, <3>2, InFlightIs, Zenon
      <4>4. /\ \A t \in May(i) \cup {s} : OldIn(Shown(stored[i], {t, "committed"}))
            /\ ~RowsBy(stored[i], "writer") /\ OrderKnown(stored[i], May(i), column[i], fresh[i], moves[i])
                 => OrderKnown(stored[i], May(i) \cup {s}, column[i], fresh[i], moves[i])
        BY <3>1, <4>1, <4>2, VerifyKeeps
      <4>5. ItemKnows(stored[i], May(i) \cup {s}, column[i], fresh[i], moves[i], late'[i])
        BY <3>1, <4>3, <4>4, Zenon DEF ItemKnows
      <4>6. QED BY <1>5, <3>2, <4>5, Zenon
    <3>3. CASE i # i0
      BY <1>5, <1>6, <3>1, <3>3, Zenon
    <3>4. QED BY <3>2, <3>3
  <2>2. QED BY <1>0, <2>1, Zenon DEF RowsKnow
<1>10. ViewKnows'
  BY <1>0, <1>6, ViewStays, Zenon DEF MigInv
<1>11. QED BY <1>7, <1>8, <1>9, <1>10 DEF MigInv

\* A transaction ends, one way or the other.
LEMMA EndStep ==
  ASSUME MigInv, NEW s \in Starter, NEW outcome \in Outcome,
         mig' \in [Starter -> Moving \cup {"down", "selecting", "up"}], mig'[s] \in {"down", "selecting", "up"},
         \A t \in Starter : t # s => mig'[t] = mig[t],
         stored' = [i \in Row |-> EndedRows(stored[i], s, outcome)],
         column' \in [Row -> {Legacy, <<>>}], moves' \in [Row -> Nat],
         at' = at, fresh' = fresh, late' = late, view' = view,
         \A i \in Row : ItemKnows(stored'[i], May(i) \ {s}, column'[i], fresh[i], moves'[i], late[i]),
         \A i \in Row : column[i] = <<>> => column'[i] = <<>>,
         \A i \in Row : moves'[i] <= 1 => moves[i] <= 1
  PROVE  MigInv'
<1>0. outcome \notin Starter
  BY StarterAssumption DEF Outcome
<1>1. \A i \in Row : stored[i] \in Seq(LogRow)
  BY DEF MigInv, MigShape
<1>2. \A i \in Row : stored'[i] = EndedRows(stored[i], s, outcome)
  OBVIOUS
<1>3. stored' \in [Row -> Seq(LogRow)]
  <2>1. ASSUME NEW i \in Row PROVE EndedRows(stored[i], s, outcome) \in Seq(LogRow)
    <3>1. stored[i] \in Seq(LogRow)
      BY <1>1
    <3>2. QED BY <3>1, EndShows
  <2>2. QED BY <2>1
<1>4. ASSUME NEW t \in Starter, t # s, NEW i \in Row
      PROVE  /\ RowsBy(stored'[i], t) => RowsBy(stored[i], t)
             /\ Shown(stored'[i], {t}) = Shown(stored[i], {t})
  <2>1. stored[i] \in Seq(LogRow) /\ s \in Starter \cup {"writer"} /\ t # outcome /\ outcome \notin {t}
        /\ s \notin {t}
    BY <1>0, <1>1, <1>4
  <2>2. Shown(EndedRows(stored[i], s, outcome), {t}) = Shown(stored[i], {t})
    BY <2>1, OthersShown, Zenon
  <2>3. RowsBy(EndedRows(stored[i], s, outcome), t) => RowsBy(stored[i], t)
    BY <2>1, EndedRowsBy, Zenon
  <2>4. QED BY <1>2, <2>1, <2>2, <2>3, Zenon
<1>5. ASSUME NEW i \in Row PROVE May(i)' = May(i) \ {s}
  <2>1. May(i)' = {t \in Starter : mig'[t] = "clearing" /\ at[t].item = i}
    BY DEF May
  <2>2. mig'[s] # "clearing"
    OBVIOUS
  <2>3. QED BY <2>1, <2>2 DEF May
<1>6. MigShape'
  BY <1>3, Zenon DEF MigInv, MigShape
<1>7. TransactionsKnow'
  <2>1. ASSUME NEW t \in Starter, t # s PROVE Transaction(t)'
    <3>1. Transaction(t)
      BY DEF MigInv, TransactionsKnow
    <3>2. QED BY <1>4, <2>1, <3>1, TransactionStays, Zenon
  <2>2. Transaction(s)'
    <3>1. mig'[s] \notin Moving /\ mig'[s] # "inserting" /\ mig'[s] # "verifying"
      BY DEF Moving
    <3>2. ASSUME NEW i \in Row PROVE ~RowsBy(stored'[i], s)
      <4>1. stored[i] \in Seq(LogRow) /\ s \in Starter \cup {"writer"} /\ s # outcome
        BY <1>0, <1>1
      <4>2. ~RowsBy(EndedRows(stored[i], s, outcome), s)
        BY <4>1, EndedRowsBy, Zenon
      <4>3. QED BY <1>2, <4>2, Zenon
    <3>3. QED BY <3>1, <3>2, Zenon DEF Transaction
  <2>3. QED BY <2>1, <2>2, Zenon DEF TransactionsKnow
<1>8. RowsKnow'
  BY <1>5, Zenon DEF RowsKnow
<1>9. ViewKnows'
  BY ViewStays, Zenon DEF MigInv
<1>10. QED BY <1>6, <1>7, <1>8, <1>9 DEF MigInv

\* A transaction has rows of the one item it is about.
LEMMA OwnItem ==
  ASSUME MigInv, NEW s \in Starter, NEW outcome \in Outcome, NEW i0 \in Row,
         \A i \in Row : RowsBy(stored[i], s) => i = i0
  PROVE  [stored EXCEPT ![i0] = EndedRows(stored[i0], s, outcome)] = [i \in Row |-> EndedRows(stored[i], s, outcome)]
<1>1. stored \in [Row -> Seq(LogRow)]
  BY DEF MigInv, MigShape
<1>2. ASSUME NEW i \in Row, i # i0 PROVE EndedRows(stored[i], s, outcome) = stored[i]
  <2>1. ~RowsBy(stored[i], s) /\ stored[i] \in Seq(LogRow)
    BY <1>1, <1>2
  <2>2. QED BY <2>1, EndShows
<1> DEFINE ends(i) == EndedRows(stored[i], s, outcome)
<1>3. \A i \in Row : i # i0 => ends(i) = stored[i]
  BY <1>2
<1> HIDE DEF ends
<1>4. [stored EXCEPT ![i0] = ends(i0)] = [i \in Row |-> ends(i)]
  BY <1>1, <1>3
<1>5. QED BY <1>4 DEF ends

LEMMA ClearAndCommitStep ==
  ASSUME MigInv, NEW s \in Starter, ClearAndCommit(s)
  PROVE  MigInv'
<1> DEFINE i0 == at[s].item
           new == EndedRows(stored[i0], s, "committed")
           more == IF new = stored[i0] THEN 0 ELSE 1
<1>0. /\ mig[s] = "clearing" /\ mig' = [mig EXCEPT ![s] = "selecting"]
      /\ fresh' = fresh /\ late' = late /\ view' = view /\ at' = at
  BY DEF ClearAndCommit
<1>1. i0 \in Row /\ s \in May(i0)
  <2>1. "clearing" \in Moving
    BY DEF Moving
  <2>2. QED BY <1>0, <2>1, Zenon DEF MigInv, TransactionsKnow, Transaction, May
<1>2. stored' = [stored EXCEPT ![i0] = new] /\ column' = [column EXCEPT ![i0] = <<>>]
      /\ moves' = [moves EXCEPT ![i0] = @ + (IF stored'[i0] = stored[i0] THEN 0 ELSE 1)]
  BY DEF ClearAndCommit, Committed, Ended, EndedRows
<1>3. \A i \in Row : RowsBy(stored[i], s) => i = i0
  BY Zenon DEF MigInv, TransactionsKnow, Transaction
<1>4. "committed" \in Outcome
  BY DEF Outcome
<1>5. stored' = [i \in Row |-> EndedRows(stored[i], s, "committed")]
  BY <1>1, <1>2, <1>3, <1>4, OwnItem, Zenon
<1>6. stored'[i0] = new
  BY <1>1, <1>5, Zenon
<1>7. /\ stored \in [Row -> Seq(LogRow)] /\ column \in [Row -> {Legacy, <<>>}] /\ moves \in [Row -> Nat]
      /\ mig \in [Starter -> Moving \cup {"down", "selecting", "up"}]
  BY DEF MigInv, MigShape
<1>8. moves' = [moves EXCEPT ![i0] = @ + more]
  BY <1>2, <1>6, Zenon
<1>9. more \in {0, 1}
  OBVIOUS
<1> HIDE DEF i0, new, more
<1>10. /\ moves' \in [Row -> Nat] /\ moves'[i0] = moves[i0] + more
       /\ \A i \in Row : i # i0 => moves'[i] = moves[i]
       /\ \A i \in Row : moves'[i] <= 1 => moves[i] <= 1
  BY <1>1, <1>7, <1>8, <1>9
<1>11. /\ column' \in [Row -> {Legacy, <<>>}] /\ column'[i0] = <<>>
       /\ \A i \in Row : i # i0 => column'[i] = column[i]
       /\ \A i \in Row : column[i] = <<>> => column'[i] = <<>>
  <2> DEFINE log == Legacy
             none == <<>>
  <2>1. column \in [Row -> {log, none}] /\ column' = [column EXCEPT ![i0] = none]
    BY <1>2, <1>7
  <2> HIDE DEF log, none
  <2>2. /\ column' \in [Row -> {log, none}] /\ column'[i0] = none
        /\ \A i \in Row : i # i0 => column'[i] = column[i]
        /\ \A i \in Row : column[i] = none => column'[i] = none
    BY <1>1, <2>1
  <2>3. QED BY <2>2 DEF log, none
<1>12. /\ mig' \in [Starter -> Moving \cup {"down", "selecting", "up"}] /\ mig'[s] = "selecting"
       /\ \A t \in Starter : t # s => mig'[t] = mig[t]
  BY <1>0, <1>7
<1>13. ASSUME NEW i \in Row PROVE ItemKnows(stored'[i], May(i) \ {s}, column'[i], fresh[i], moves'[i], late[i])
  <2>1. ItemKnows(stored[i], May(i), column[i], fresh[i], moves[i], late[i])
    BY DEF MigInv, RowsKnow
  <2>2. stored[i] \in Seq(LogRow) /\ moves[i] \in Nat /\ May(i) \in SUBSET Starter
    BY <1>7 DEF May
  <2>3. CASE i = i0
    <3>1. stored'[i] = EndedRows(stored[i], s, "committed") /\ s \in May(i)
      BY <1>1, <1>5, <2>3, Zenon
    <3>2. moves'[i] = moves[i] + (IF stored'[i] = stored[i] THEN 0 ELSE 1)
      BY <1>6, <1>10, <2>3, Zenon DEF new, more
    <3>3. /\ moves'[i] = 0 => moves[i] = 0 /\ stored'[i] = stored[i]
          /\ moves'[i] = 1 => (moves[i] = 1 /\ stored'[i] = stored[i]) \/ (moves[i] = 0 /\ stored'[i] # stored[i])
      BY <2>2, <3>2
    <3>4. ItemKnows(stored'[i], May(i) \ {s}, <<>>, fresh[i], moves'[i], late[i])
      BY <2>1, <2>2, <3>1, <3>3, CommitKeeps, Zenon
    <3>5. QED BY <1>11, <2>3, <3>4, Zenon
  <2>4. CASE i # i0
    <3>1. stored'[i] = stored[i]
      BY <1>2, <1>7, <2>4
    <3>2. May(i) \ {s} = May(i)
      BY <2>4 DEF May, i0
    <3>3. QED BY <1>10, <1>11, <2>1, <2>4, <3>1, <3>2, Zenon
  <2>5. QED BY <2>3, <2>4
<1>14. QED BY <1>0, <1>4, <1>5, <1>10, <1>11, <1>12, <1>13, EndStep

LEMMA RollbackStep ==
  ASSUME MigInv, NEW s \in Starter, BackfillFails(s) \/ Stop(s)
  PROVE  MigInv'
<1>0. column' = column /\ moves' = moves /\ fresh' = fresh /\ late' = late /\ view' = view /\ at' = at
  BY DEF BackfillFails, Stop
<1>1. "nobody" \in Outcome
  BY DEF Outcome
<1>2. \A i \in Row : RowsBy(stored[i], s) => mig[s] \in {"inserting", "verifying", "clearing"} /\ i = at[s].item
  BY Zenon DEF MigInv, TransactionsKnow, Transaction
<1>3. /\ stored \in [Row -> Seq(LogRow)] /\ mig \in [Starter -> Moving \cup {"down", "selecting", "up"}]
      /\ column \in [Row -> {Legacy, <<>>}] /\ moves \in [Row -> Nat]
  BY DEF MigInv, MigShape
<1>4. stored' = [i \in Row |-> EndedRows(stored[i], s, "nobody")]
  <2>1. CASE Stop(s)
    BY <2>1 DEF Stop, RolledBack, Ended, EndedRows
  <2>2. CASE BackfillFails(s)
    <3>1. CASE mig[s] = "selecting"
      <4>1. ASSUME NEW i \in Row PROVE EndedRows(stored[i], s, "nobody") = stored[i]
        <5>1. ~RowsBy(stored[i], s) /\ stored[i] \in Seq(LogRow)
          BY <1>2, <1>3, <3>1
        <5>2. QED BY <1>1, <5>1, EndShows
      <4>2. stored' = stored
        BY <2>2, <3>1 DEF BackfillFails
      <4>3. stored = [i \in Row |-> stored[i]]
        BY <1>3
      <4>4. QED BY <4>1, <4>2, <4>3, Zenon
    <3>2. CASE mig[s] # "selecting"
      <4>1. stored' = [stored EXCEPT ![at[s].item] = EndedRows(stored[at[s].item], s, "nobody")]
        BY <2>2, <3>2 DEF BackfillFails, RolledBack, Ended, EndedRows
      <4>2. mig[s] \in Moving
        BY <2>2, <3>2 DEF BackfillFails, Moving
      <4>3. at[s].item \in Row
        BY <4>2, Zenon DEF MigInv, TransactionsKnow, Transaction
      <4>4. \A i \in Row : RowsBy(stored[i], s) => i = at[s].item
        BY <1>2
      <4>5. QED BY <1>1, <4>1, <4>3, <4>4, OwnItem, Zenon
    <3>3. QED BY <3>1, <3>2
  <2>3. QED BY <2>1, <2>2
<1>5. /\ mig' \in [Starter -> Moving \cup {"down", "selecting", "up"}] /\ mig'[s] \in {"down", "selecting", "up"}
      /\ \A t \in Starter : t # s => mig'[t] = mig[t]
  <2>1. CASE Stop(s)
    BY <1>3, <2>1 DEF Stop
  <2>2. CASE BackfillFails(s)
    BY <1>3, <2>2 DEF BackfillFails
  <2>3. QED BY <2>1, <2>2
<1>6. ASSUME NEW i \in Row PROVE ItemKnows(stored'[i], May(i) \ {s}, column'[i], fresh[i], moves'[i], late[i])
  <2>1. ItemKnows(stored[i], May(i), column[i], fresh[i], moves[i], late[i])
    BY DEF MigInv, RowsKnow
  <2>2. stored[i] \in Seq(LogRow) /\ May(i) \in SUBSET Starter
    BY <1>3 DEF May
  <2>3. ItemKnows(EndedRows(stored[i], s, "nobody"), May(i) \ {s}, column[i], fresh[i], moves[i], late[i])
    BY <2>1, <2>2, RollbackKeeps
  <2>4. QED BY <1>0, <1>4, <2>3, Zenon
<1>7. column' \in [Row -> {Legacy, <<>>}] /\ moves' \in [Row -> Nat]
  BY <1>0, <1>3, Zenon
<1>8. \A i \in Row : column[i] = <<>> => column'[i] = <<>>
  BY <1>0, Zenon
<1>9. \A i \in Row : moves'[i] <= 1 => moves[i] <= 1
  BY <1>0, Zenon
<1>10. QED BY <1>0, <1>1, <1>4, <1>5, <1>6, <1>7, <1>8, <1>9, EndStep

LEMMA AppendLineStep ==
  ASSUME MigInv, NEW i0 \in Row, NEW line \in NewLine, AppendLine(i0, line)
  PROVE  MigInv'
<1> DEFINE r == [line |-> line, by |-> "writer"]
           old == stored[i0]
           new == Append(old, r)
<1>0. /\ column' = column /\ moves' = moves /\ late' = late /\ mig' = mig /\ at' = at /\ view' = view
      /\ stored' = [stored EXCEPT ![i0] = new] /\ fresh' = [fresh EXCEPT ![i0] = Append(@, line)] /\ ~InFlight(i0)
  BY DEF AppendLine
<1>1. line \in Line /\ r \in LogRow /\ r.by = "writer" /\ r.line = line
  BY RowIs DEF Line, Writer
<1>2. "writer" \notin Starter
  BY StarterAssumption
<1>3. stored \in [Row -> Seq(LogRow)] /\ fresh \in [Row -> Seq(Line)] /\ old \in Seq(LogRow)
  BY DEF MigInv, MigShape
<1>4. /\ new \in Seq(LogRow)
      /\ \A t : RowsBy(new, t) <=> RowsBy(old, t) \/ t = r.by
      /\ \A who : r.by \notin who => Shown(new, who) = Shown(old, who)
  <2> HIDE DEF old, r
  <2>1. QED BY <1>1, <1>3, RowShows, Zenon
<1>5. ~RowsBy(old, "writer") /\ stored[i0] = old
  BY <1>0, InFlightIs, Zenon
<1> HIDE DEF old, new, r
<1>6. /\ stored' \in [Row -> Seq(LogRow)] /\ fresh' \in [Row -> Seq(Line)]
      /\ stored'[i0] = new /\ fresh'[i0] = Append(fresh[i0], line)
      /\ \A i \in Row : i # i0 => stored'[i] = stored[i] /\ fresh'[i] = fresh[i]
  <2>1. Append(fresh[i0], line) \in Seq(Line)
    BY <1>1, <1>3
  <2>2. QED BY <1>0, <1>3, <1>4, <2>1
<1>7. \A i \in Row : May(i)' = May(i) /\ May(i) \in SUBSET Starter
  BY <1>0 DEF May
<1>8. MigShape'
  BY <1>0, <1>6, Zenon DEF MigInv, MigShape
<1>9. TransactionsKnow'
  <2>1. ASSUME NEW t \in Starter, NEW i \in Row
        PROVE  (RowsBy(stored'[i], t) => RowsBy(stored[i], t)) /\ Shown(stored'[i], {t}) = Shown(stored[i], {t})
    <3>1. t # r.by /\ r.by \notin {t}
      BY <1>1, <1>2
    <3>2. CASE i = i0
      BY <1>4, <1>5, <1>6, <3>1, <3>2, Zenon
    <3>3. CASE i # i0
      BY <1>6, <3>3, Zenon
    <3>4. QED BY <3>2, <3>3
  <2>2. ASSUME NEW t \in Starter PROVE Transaction(t)'
    <3>1. Transaction(t)
      BY DEF MigInv, TransactionsKnow
    <3>2. QED BY <1>0, <2>1, <3>1, TransactionStays, Zenon
  <2>3. QED BY <2>2, Zenon DEF TransactionsKnow
<1>10. RowsKnow'
  <2>1. ASSUME NEW i \in Row PROVE ItemKnows(stored'[i], May(i)', column'[i], fresh'[i], moves'[i], late'[i])
    <3>1. ItemKnows(stored[i], May(i), column[i], fresh[i], moves[i], late[i])
      BY DEF MigInv, RowsKnow
    <3>2. CASE i = i0
      <4>1. stored[i] \in Seq(LogRow) /\ fresh[i] \in Seq(Line) /\ ~RowsBy(stored[i], "writer")
        BY <1>3, <1>5, <3>2
      <4>2. ItemKnows(Append(stored[i], [line |-> line, by |-> "writer"]), May(i), column[i], Append(fresh[i], line), moves[i], late[i])
        BY <1>1, <1>7, <3>1, <4>1, AppendKeeps
      <4>3. QED BY <1>0, <1>5, <1>6, <1>7, <3>2, <4>2, Zenon DEF new, r
    <3>3. CASE i # i0
      BY <1>0, <1>6, <1>7, <3>1, <3>3, Zenon
    <3>4. QED BY <3>2, <3>3
  <2>2. QED BY <2>1, Zenon DEF RowsKnow
<1>11. ViewKnows'
  <2>1. \A i \in Row : fresh'[i] = fresh[i] \/ \E l \in Line : fresh'[i] = Append(fresh[i], l)
    BY <1>1, <1>6, Zenon
  <2>2. QED BY <1>0, <2>1, ViewStays, Zenon DEF MigInv
<1>12. QED BY <1>8, <1>9, <1>10, <1>11 DEF MigInv

LEMMA CommitLineStep ==
  ASSUME MigInv, NEW i0 \in Row, CommitLine(i0)
  PROVE  MigInv'
<1> DEFINE new == EndedRows(stored[i0], "writer", "committed")
<1>0. /\ column' = column /\ moves' = moves /\ late' = late /\ mig' = mig /\ at' = at /\ view' = view
      /\ fresh' = fresh /\ stored' = [stored EXCEPT ![i0] = new]
  BY DEF CommitLine, Committed, Ended, EndedRows
<1>1. "writer" \notin Starter /\ "committed" \notin Starter /\ "committed" \in Outcome /\ "writer" \in Starter \cup {"writer"}
  BY StarterAssumption DEF Outcome
<1>2. stored \in [Row -> Seq(LogRow)]
  BY DEF MigInv, MigShape
<1>3. stored[i0] \in Seq(LogRow)
  BY <1>2
<1>4. new \in Seq(LogRow)
  BY <1>1, <1>3, EndShows
<1>5. ASSUME NEW t \in Starter
      PROVE  (RowsBy(new, t) => RowsBy(stored[i0], t)) /\ Shown(new, {t}) = Shown(stored[i0], {t})
  <2>1. "committed" # t /\ "committed" \notin {t} /\ "writer" \notin {t}
    BY <1>1
  <2>2. Shown(new, {t}) = Shown(stored[i0], {t})
    BY <1>1, <1>3, <2>1, OthersShown, Zenon
  <2>3. RowsBy(new, t) => RowsBy(stored[i0], t)
    BY <1>1, <1>3, <2>1, EndedRowsBy, Zenon
  <2>4. QED BY <2>2, <2>3
<1> HIDE DEF new
<1>6. /\ stored' \in [Row -> Seq(LogRow)] /\ stored'[i0] = new
      /\ \A i \in Row : i # i0 => stored'[i] = stored[i]
  BY <1>0, <1>2, <1>4
<1>7. \A i \in Row : May(i)' = May(i) /\ May(i) \in SUBSET Starter
  BY <1>0 DEF May
<1>8. MigShape'
  BY <1>0, <1>6, Zenon DEF MigInv, MigShape
<1>9. TransactionsKnow'
  <2>1. ASSUME NEW t \in Starter PROVE Transaction(t)'
    <3>1. Transaction(t)
      BY DEF MigInv, TransactionsKnow
    <3>2. \A i \in Row : (RowsBy(stored'[i], t) => RowsBy(stored[i], t)) /\ Shown(stored'[i], {t}) = Shown(stored[i], {t})
      BY <1>5, <1>6, Zenon
    <3>3. QED BY <1>0, <3>1, <3>2, TransactionStays, Zenon
  <2>2. QED BY <2>1, Zenon DEF TransactionsKnow
<1>10. RowsKnow'
  <2>1. ASSUME NEW i \in Row PROVE ItemKnows(stored'[i], May(i)', column'[i], fresh'[i], moves'[i], late'[i])
    <3>1. ItemKnows(stored[i], May(i), column[i], fresh[i], moves[i], late[i]) /\ stored[i] \in Seq(LogRow)
      BY <1>2 DEF MigInv, RowsKnow
    <3>2. CASE i = i0
      <4>1. ItemKnows(EndedRows(stored[i], "writer", "committed"), May(i), column[i], fresh[i], moves[i], late[i])
        BY <1>7, <3>1, CommitLineKeeps, Zenon
      <4>2. QED BY <1>0, <1>6, <1>7, <3>2, <4>1, Zenon DEF new
    <3>3. CASE i # i0
      BY <1>0, <1>6, <1>7, <3>1, <3>3, Zenon
    <3>4. QED BY <3>2, <3>3
  <2>2. QED BY <2>1, Zenon DEF RowsKnow
<1>11. ViewKnows'
  BY <1>0, ViewStays, Zenon DEF MigInv
<1>12. QED BY <1>8, <1>9, <1>10, <1>11 DEF MigInv

\* A request changes nothing but what it has been shown.
LEMMA RequestStep ==
  ASSUME MigInv, column' = column, stored' = stored, fresh' = fresh, moves' = moves, late' = late, mig' = mig, at' = at,
         view' \in [item : 0..Items, legacy : {Legacy, <<>>}, logs : Seq(Line), shown : BOOLEAN],
         ViewKnows'
  PROVE  MigInv'
<1>1. MigShape'
  BY Zenon DEF MigInv, MigShape
<1>2. TransactionsKnow'
  <2>1. ASSUME NEW t \in Starter PROVE Transaction(t)'
    <3>1. Transaction(t)
      BY DEF MigInv, TransactionsKnow
    <3>2. QED BY <3>1, TransactionStays, Zenon
  <2>2. QED BY <2>1, Zenon DEF TransactionsKnow
<1>3. \A i \in Row : May(i)' = May(i)
  BY DEF May
<1>4. RowsKnow'
  BY <1>3, Zenon DEF MigInv, RowsKnow
<1>5. QED BY <1>1, <1>2, <1>4 DEF MigInv

LEMMA ReadItemStep ==
  ASSUME MigInv, NEW i \in Row, ReadItem(i)
  PROVE  MigInv'
<1> DEFINE legacies == {Legacy, <<>>}
           none == <<>>
<1>1. /\ column' = column /\ stored' = stored /\ fresh' = fresh /\ moves' = moves /\ late' = late
      /\ mig' = mig /\ at' = at /\ view' = [NoView EXCEPT !.item = i, !.legacy = column[i]]
  BY DEF ReadItem
<1>2. column[i] \in legacies /\ none \in legacies /\ none \in Seq(Line) /\ i \in 0..Items /\ i # 0
  BY ItemsAssumption DEF MigInv, MigShape, Row
<1>3. view' = [item |-> i, legacy |-> column[i], logs |-> none, shown |-> FALSE]
  BY <1>1 DEF NoView
<1> HIDE DEF legacies, none
<1>4. view' \in [item : 0..Items, legacy : legacies, logs : Seq(Line), shown : BOOLEAN]
      /\ view'.item = i /\ view'.legacy = column[i] /\ view'.shown = FALSE
  BY <1>2, <1>3
<1>5. ViewKnows'
  BY <1>1, <1>4 DEF ViewKnows
<1>6. QED BY <1>1, <1>4, <1>5, RequestStep DEF legacies

LEMMA RespondStep ==
  ASSUME MigInv, Respond
  PROVE  MigInv'
<1> DEFINE legacies == {Legacy, <<>>}
           none == <<>>
<1>1. /\ column' = column /\ stored' = stored /\ fresh' = fresh /\ moves' = moves /\ late' = late
      /\ mig' = mig /\ at' = at /\ view' = NoView
  BY DEF Respond
<1>2. none \in legacies /\ none \in Seq(Line) /\ 0 \in 0..Items
  BY ItemsAssumption
<1>3. view' = [item |-> 0, legacy |-> none, logs |-> none, shown |-> FALSE]
  BY <1>1 DEF NoView
<1> HIDE DEF legacies, none
<1>4. view' \in [item : 0..Items, legacy : legacies, logs : Seq(Line), shown : BOOLEAN]
      /\ view'.item = 0 /\ view'.shown = FALSE
  BY <1>2, <1>3
<1>5. ViewKnows'
  BY <1>4 DEF ViewKnows
<1>6. QED BY <1>1, <1>4, <1>5, RequestStep DEF legacies

\* What a merge gives: the column's log, the rows, or one after the other.
LEMMA MergeGives ==
  ASSUME NEW legacy \in {Legacy, <<>>}, NEW logs \in Seq(Line), legacy = <<>> => OldIn(logs)
  PROVE  LET merged == mergeLegacyAndChunkLogs(legacy, logs)
         IN  /\ legacy = <<>> => merged = logs
             /\ legacy = Legacy => \/ merged = Legacy
                                   \/ merged = logs /\ Old(logs)
                                   \/ merged = Legacy \o logs /\ ~Old(logs) /\ logs # <<"first">>
<1> DEFINE merged == mergeLegacyAndChunkLogs(legacy, logs)
           log == Legacy
<1>1. log # <<>> /\ IsPrefix(<<"first">>, log) /\ log # <<"first">>
  <2>1. log \in Seq(Line) /\ Len(log) = 2 /\ log[1] = "first"
    BY LegacyType
  <2> DEFINE one == <<"first">>
  <2>2. "first" \in Line
    BY DEF Line
  <2>3. one \in Seq(Line) /\ Len(one) = 1 /\ one[1] = "first" /\ Len(<<>>) = 0
    BY <2>2
  <2> HIDE DEF log, one
  <2>4. \A q \in Seq(Line) : Len(q) >= 1 =>
          SubSeq(q, 1, 1) \in Seq(Line) /\ Len(SubSeq(q, 1, 1)) = 1 /\ SubSeq(q, 1, 1)[1] = q[1]
    OBVIOUS
  <2>5. \A p, q \in Seq(Line) : Len(p) = 1 /\ Len(q) = 1 /\ p[1] = q[1] => p = q
    OBVIOUS
  <2>6. SubSeq(one, 1, 1) = SubSeq(log, 1, 1)
    BY <2>1, <2>3, <2>4, <2>5
  <2>7. IsPrefix(one, log)
    BY <2>1, <2>3, <2>6 DEF IsPrefix
  <2>8. log # <<>> /\ log # one
    BY <2>1, <2>3
  <2>9. QED BY <2>7, <2>8 DEF one
<1> HIDE DEF log
<1>2. ASSUME legacy = <<>> PROVE merged = logs
  <2>1. logs # <<>> /\ Len(logs) > 0
    BY <1>2 DEF OldIn
  <2>2. ~IsPrefix(logs, <<>>)
    BY <2>1 DEF IsPrefix
  <2>3. IsPrefix(<<>>, logs)
    BY DEF IsPrefix
  <2>4. QED BY <1>2, <2>1, <2>2, <2>3, Zenon DEF mergeLegacyAndChunkLogs
<1>3. ASSUME legacy = log
      PROVE  \/ merged = log
             \/ merged = logs /\ IsPrefix(log, logs)
             \/ merged = log \o logs /\ ~IsPrefix(log, logs) /\ logs # <<"first">>
  <2>1. CASE logs = <<"first">>
    BY <1>1, <1>3, <2>1, Zenon DEF mergeLegacyAndChunkLogs
  <2>2. CASE logs # <<"first">>
    BY <1>3, <2>2, Zenon DEF mergeLegacyAndChunkLogs
  <2>3. QED BY <2>1, <2>2
<1> HIDE DEF merged
<1>4. QED BY <1>2, <1>3, Zenon DEF Old, merged, log

\* The old log's lines are in what a merge gives.
LEMMA MergeKeeps ==
  ASSUME NEW legacy \in {Legacy, <<>>}, NEW logs \in Seq(Line), legacy = <<>> => OldIn(logs)
  PROVE  LET merged == mergeLegacyAndChunkLogs(legacy, logs)
         IN  merged \in Seq(Line) /\ OldIn(merged)
<1> DEFINE merged == mergeLegacyAndChunkLogs(legacy, logs)
<1>1. /\ legacy = <<>> => merged = logs
      /\ legacy = Legacy => merged = Legacy \/ (merged = logs /\ Old(logs)) \/ merged = Legacy \o logs
  BY MergeGives
<1> HIDE DEF merged
<1>2. /\ Legacy \in Seq(Line) /\ Old(Legacy)
      /\ Legacy \o logs \in Seq(Line) /\ Old(Legacy \o logs)
  BY LegacyType, OldLogs, Zenon
<1>3. legacy = <<>> \/ legacy = Legacy
  OBVIOUS
<1>4. merged \in Seq(Line) /\ (Old(merged) \/ OldIn(merged))
  BY <1>1, <1>2, <1>3, Zenon
<1>5. merged \in Seq(Line) /\ OldIn(merged)
  BY <1>4, OldIsIn, Zenon
<1>6. QED BY <1>5 DEF merged

\* Merging an old log that was read with the rows that were read after it, all of
\* them or all but one in flight: with at most one mover, the old log is there
\* once and first, whatever happened in between.
LEMMA MergeTells ==
  ASSUME NEW legacy \in {Legacy, <<>>}, NEW logs \in Seq(Line), NEW later \in Seq(Line), NEW all, NEW moved \in {0, 1},
         legacy = <<>> => OldIn(logs), ButLast(logs, all),
         moved = 0 => all = later, moved = 1 => all = Legacy \o later, moved = 0 /\ legacy = <<>> => Old(later)
  PROVE  Told(mergeLegacyAndChunkLogs(legacy, logs), later)
<1> DEFINE merged == mergeLegacyAndChunkLogs(legacy, logs)
<1>0. /\ legacy = <<>> => merged = logs
      /\ legacy = Legacy => \/ merged = Legacy
                            \/ merged = logs /\ Old(logs)
                            \/ merged = Legacy \o logs /\ ~Old(logs) /\ logs # <<"first">>
  BY MergeGives
<1> HIDE DEF merged
<1>1. Told(Legacy, later)
  <2>1. 0 \in 0..Len(later) /\ SubSeq(later, 1, 0) = <<>>
    OBVIOUS
  <2>2. Legacy = Legacy \o SubSeq(later, 1, 0)
    BY <2>1, OldLogs, Zenon
  <2>3. QED BY <2>1, <2>2, Zenon DEF Told
<1>2. legacy = <<>> \/ legacy = Legacy
  OBVIOUS
<1>3. CASE moved = 0
  <2>1. ButLast(logs, later)
    BY <1>3
  <2>2. Old(logs) => Old(later)
    BY <2>1, OldGrows, Zenon DEF ButLast
  <2>3. Told(Legacy \o logs, later)
    <3>1. CASE logs = later
      <4>1. Len(later) \in 0..Len(later) /\ SubSeq(later, 1, Len(later)) = later
        OBVIOUS
      <4>2. QED BY <3>1, <4>1, Zenon DEF Told
    <3>2. CASE \E line \in Line : later = Append(logs, line)
      <4>1. PICK line \in Line : later = Append(logs, line)
        BY <3>2
      <4>2. /\ Len(later) = Len(logs) + 1 /\ Len(logs) \in Nat
            /\ \A k \in 1..Len(logs) : later[k] = logs[k]
        BY <4>1, AppendProperties, LenProperties
      <4>3. Len(logs) \in 0..Len(later) /\ logs = SubSeq(later, 1, Len(logs))
        BY <4>2
      <4>4. QED BY <4>3, Zenon DEF Told
    <3>3. QED BY <2>1, <3>1, <3>2, Zenon DEF ButLast
  <2>4. legacy = <<>> => Told(merged, later)
    BY <1>3, Zenon DEF Told
  <2>5. Old(logs) => Told(merged, later)
    BY <2>2, Zenon DEF Told
  <2>6. Told(merged, later)
    BY <1>0, <1>1, <1>2, <2>3, <2>4, <2>5, Zenon
  <2>7. QED BY <2>6 DEF merged
<1>4. CASE moved = 1
  <2>1. ButLast(logs, Legacy \o later)
    BY <1>4
  <2>2. logs = <<"first">> \/ \E n \in 0..Len(later) : logs = Legacy \o SubSeq(later, 1, n)
    BY <2>1, ButLastOfOld, Zenon
  <2>3. CASE logs = <<"first">>
    <3>1. ~OldIn(logs) /\ ~Old(logs)
      <4>1. Len(logs) = 1
        BY <2>3
      <4>2. ~OldIn(logs)
        BY <4>1 DEF OldIn
      <4>3. QED BY <4>2, OldIsIn, Zenon
    <3>2. merged = Legacy
      BY <1>0, <1>2, <2>3, <3>1, Zenon
    <3>3. QED BY <1>1, <3>2, Zenon DEF merged
  <2>4. CASE \E n \in 0..Len(later) : logs = Legacy \o SubSeq(later, 1, n)
    <3>1. PICK n \in 0..Len(later) : logs = Legacy \o SubSeq(later, 1, n)
      BY <2>4
    <3>2. SubSeq(later, 1, n) \in Seq(Line)
      OBVIOUS
    <3>3. Old(logs)
      BY <3>1, <3>2, OldLogs, Zenon
    <3>4. Told(logs, later)
      BY <3>1, Zenon DEF Told
    <3>5. Told(merged, later)
      BY <1>0, <1>1, <1>2, <3>3, <3>4, Zenon
    <3>6. QED BY <3>5 DEF merged
  <2>5. QED BY <2>2, <2>3, <2>4
<1>5. QED BY <1>3, <1>4

\* A reader is no writer: it sees what is committed.
LEMMA ReaderSees ==
  ASSUME MigInv, NEW i \in Row
  PROVE  Lines(i, "reader") = Shown(stored[i], {"committed"})
<1>1. stored[i] \in Seq(LogRow)
  BY DEF MigInv, MigShape
<1>2. \A k \in 1..Len(stored[i]) : stored[i][k].by \in Writer
  <2>1. \A k \in 1..Len(stored[i]) : stored[i][k] \in LogRow
    BY <1>1
  <2>2. QED BY <2>1 DEF LogRow
<1>3. "reader" \notin Writer
  BY StarterAssumption DEF Writer
<1>4. \A k \in 1..Len(stored[i]) : stored[i][k].by \in {"committed", "reader"} <=> stored[i][k].by \in {"committed"}
  BY <1>2, <1>3
<1>5. QED BY <1>1, <1>4, SameReaders DEF Lines

LEMMA ReadRowsStep ==
  ASSUME MigInv, ReadRows
  PROVE  MigInv'
<1> DEFINE i0 == view.item
           there == Lines(i0, "reader")
           all == Shown(stored[i0], Lasting)
           merged == mergeLegacyAndChunkLogs(view.legacy, there)
           legacies == {Legacy, <<>>}
<1>1. /\ column' = column /\ stored' = stored /\ fresh' = fresh /\ moves' = moves /\ late' = late
      /\ mig' = mig /\ at' = at
      /\ view.item # 0 /\ ~view.shown /\ view' = [view EXCEPT !.logs = merged, !.shown = TRUE]
  BY DEF ReadRows
<1>2. view \in [item : 0..Items, legacy : legacies, logs : Seq(Line), shown : BOOLEAN]
  BY DEF MigInv, MigShape
<1>3. i0 \in Row /\ view.legacy \in legacies
  <2> HIDE DEF legacies
  <2>1. QED BY <1>1, <1>2, ItemsAssumption DEF Row
<1>4. stored[i0] \in Seq(LogRow) /\ fresh[i0] \in Seq(Line) /\ moves[i0] \in Nat
      /\ ItemKnows(stored[i0], May(i0), column[i0], fresh[i0], moves[i0], late[i0])
  BY <1>3 DEF MigInv, MigShape, RowsKnow
<1>5. there = Shown(stored[i0], {"committed"})
  BY <1>3, ReaderSees, Zenon
<1>6. there \in Seq(Line)
  BY <1>4, <1>5, ShownType, Zenon
<1>7. view.legacy = <<>> => column[i0] = <<>>
  BY <1>1, Zenon DEF MigInv, ViewKnows
<1>8. view.legacy = <<>> => OldIn(there)
  BY <1>4, <1>5, <1>7, Zenon DEF ItemKnows
<1>9. ASSUME ~late[i0]
      PROVE  /\ ButLast(there, all)
             /\ moves[i0] = 0 => all = fresh[i0]
             /\ moves[i0] = 1 => all = Legacy \o fresh[i0]
             /\ moves[i0] = 0 /\ view.legacy = <<>> => Old(fresh[i0])
  <2>1. OrderKnown(stored[i0], May(i0), column[i0], fresh[i0], moves[i0])
    BY <1>4, <1>9, Zenon DEF ItemKnows
  <2>2. {} \in SUBSET May(i0) /\ {} \cup {"committed"} = {"committed"} /\ {} \cup Lasting = Lasting
    OBVIOUS
  <2>3. ButLast(there, all)
    BY <1>5, <2>1, <2>2, Zenon DEF OrderKnown
  <2>4. moves[i0] = 0 => all = fresh[i0]
    BY <1>4, Zenon DEF ItemKnows
  <2>5. QED BY <1>7, <2>1, <2>3, <2>4, Zenon DEF OrderKnown
<1>10. merged \in Seq(Line) /\ OldIn(merged)
  <2> HIDE DEF there, i0
  <2>1. QED BY <1>3, <1>6, <1>8, MergeKeeps
<1>11. ASSUME moves[i0] <= 1, ~late[i0] PROVE Told(merged, fresh[i0])
  <2>1. moves[i0] \in {0, 1}
    BY <1>4, <1>11
  <2> HIDE DEF there, i0, all
  <2>2. QED BY <1>3, <1>4, <1>6, <1>8, <1>9, <1>11, <2>1, MergeTells
<1> HIDE DEF merged, legacies, there, all
<1>12. /\ view' \in [item : 0..Items, legacy : legacies, logs : Seq(Line), shown : BOOLEAN]
       /\ view'.item = i0 /\ view'.shown = TRUE /\ view'.logs = merged
  BY <1>1, <1>2, <1>10
<1>13. ViewKnows'
  BY <1>1, <1>10, <1>11, <1>12, Zenon DEF ViewKnows
<1>14. QED BY <1>1, <1>12, <1>13, RequestStep DEF legacies

LEMMA MigStep == MigInv /\ [MigNext]_migVars => MigInv'
<1> SUFFICES ASSUME MigInv, [MigNext]_migVars PROVE MigInv'
  OBVIOUS
<1>1. CASE UNCHANGED migVars
  <2>1. /\ column' = column /\ stored' = stored /\ fresh' = fresh /\ moves' = moves /\ late' = late
        /\ mig' = mig /\ at' = at /\ view' = view
    BY <1>1 DEF migVars
  <2>2. view' \in [item : 0..Items, legacy : {Legacy, <<>>}, logs : Seq(Line), shown : BOOLEAN]
    BY <2>1, Zenon DEF MigInv, MigShape
  <2>3. ViewKnows'
    BY <2>1, ViewStays, Zenon DEF MigInv
  <2>4. QED BY <2>1, <2>2, <2>3, RequestStep
<1>2. CASE MigNext
  <2>1. ASSUME NEW s \in Starter, Start(s) PROVE MigInv'
    BY <2>1, StartStep
  <2>2. ASSUME NEW s \in Starter, Select(s) PROVE MigInv'
    BY <2>2, SelectStep
  <2>3. ASSUME NEW s \in Starter, CountRows(s) PROVE MigInv'
    BY <2>3, CountRowsStep
  <2>4. ASSUME NEW s \in Starter, InsertRow(s) PROVE MigInv'
    BY <2>4, InsertRowStep
  <2>5. ASSUME NEW s \in Starter, VerifyRows(s) PROVE MigInv'
    BY <2>5, VerifyRowsStep
  <2>6. ASSUME NEW s \in Starter, ClearAndCommit(s) PROVE MigInv'
    BY <2>6, ClearAndCommitStep
  <2>7. ASSUME NEW s \in Starter, BackfillFails(s) \/ Stop(s) PROVE MigInv'
    BY <2>7, RollbackStep
  <2>8. ASSUME NEW i \in Row, ReadItem(i) PROVE MigInv'
    BY <2>8, ReadItemStep
  <2>9. ASSUME NEW i \in Row, NEW line \in NewLine, AppendLine(i, line) PROVE MigInv'
    BY <2>9, AppendLineStep
  <2>10. ASSUME NEW i \in Row, CommitLine(i) PROVE MigInv'
    BY <2>10, CommitLineStep
  <2>11. CASE ReadRows
    BY <2>11, ReadRowsStep
  <2>12. CASE Respond
    BY <2>12, RespondStep
  <2>13. QED BY <1>2, <2>1, <2>2, <2>3, <2>4, <2>5, <2>6, <2>7, <2>8, <2>9, <2>10, <2>11, <2>12, Zenon DEF MigNext
<1>3. QED BY <1>1, <1>2

LEMMA MigKeepsHistory == MigInv => HistoryIsKept
<1> SUFFICES ASSUME MigInv PROVE HistoryIsKept
  OBVIOUS
<1>1. \A i \in Row : stored[i] \in Seq(LogRow) /\ fresh[i] \in Seq(Line)
                     /\ ItemKnows(stored[i], May(i), column[i], fresh[i], moves[i], late[i])
  BY DEF MigInv, MigShape, RowsKnow
<1>2. ClearedIsMoved
  <2>1. ASSUME NEW i \in Row, column[i] = <<>> PROVE Within(Legacy, Lines(i, "reader"))
    <3>1. OldIn(Lines(i, "reader"))
      BY <1>1, <2>1, ReaderSees, Zenon DEF ItemKnows
    <3>2. Lines(i, "reader") \in Seq(Line)
      BY <1>1, ReaderSees, ShownType, Zenon
    <3>3. QED BY <3>1, <3>2, InIsWithin, Zenon
  <2>2. QED BY <2>1, Zenon DEF ClearedIsMoved
<1>3. ViewIsHistory
  <2>1. SUFFICES ASSUME view.shown, ~Echoed(view.item), moves[view.item] <= 1, ~late[view.item]
                 PROVE  \E n \in 0..Len(fresh[view.item]) : view.logs = Legacy \o SubSeq(fresh[view.item], 1, n)
    BY DEF ViewIsHistory
  <2> DEFINE i0 == view.item
  <2>2. Told(view.logs, fresh[i0])
    BY <2>1, Zenon DEF MigInv, ViewKnows
  <2>3. ~Old(fresh[i0])
    <3>1. ASSUME Old(fresh[i0]) PROVE FALSE
      <4>1. fresh[i0] # <<>>
        BY <3>1, OldLogs, Zenon
      <4>2. QED BY <2>1, <3>1, <4>1, Zenon DEF Echoed, Old
    <3>2. QED BY <3>1
  <2>4. QED BY <2>2, <2>3, Zenon DEF Told
<1>4. OldLogShown
  <2>1. view.logs \in Seq(Line)
    BY DEF MigInv, MigShape
  <2>2. view.shown => OldIn(view.logs)
    BY Zenon DEF MigInv, ViewKnows
  <2>3. QED BY <2>1, <2>2, InIsWithin, Zenon DEF OldLogShown
<1>5. QED BY <1>2, <1>3, <1>4 DEF HistoryIsKept

\* An item's log survives its move to the table: when the column is empty every
\* reader finds all lines of the old log among the rows, in their order, and
\* none of them is ever missing from what a reader is shown; and with one mover
\* and no line in flight at its check, the old log is shown once and first, with
\* every later line after it - for every number of instances that start, stop,
\* fail and move at the same time, row by row, and every later attempt's lines.
THEOREM HistoryKept == MigSpec => []HistoryIsKept
<1>1. MigInit => MigInv
  BY MigInitHolds
<1>2. MigInv /\ [MigNext]_migVars => MigInv'
  BY MigStep
<1>3. MigInv => HistoryIsKept
  BY MigKeepsHistory
<1>4. QED BY <1>1, <1>2, <1>3, PTL DEF MigSpec

---------------------------------------------------------------------------
(* Sequences, one element after the other *)

\* A set of sequences that has <<>> and each of its sequences with an element
\* more has all.
LEMMA AllSequences ==
  ASSUME NEW A, NEW P \in SUBSET Seq(A), <<>> \in P, \A s \in P : \A x \in A : Append(s, x) \in P
  PROVE  P = Seq(A)
<1> DEFINE Q == {n \in Nat : \A s \in Seq(A) : Len(s) = n => s \in P}
<1>1. 0 \in Q
  <2>1. \A s \in Seq(A) : Len(s) = 0 => s = <<>>
    BY EmptySeq
  <2>2. QED BY <2>1
<1>2. ASSUME NEW n \in Q PROVE n + 1 \in Q
  <2>1. ASSUME NEW s \in Seq(A), Len(s) = n + 1 PROVE s \in P
    <3>1. s # <<>>
      BY <1>2, <2>1
    <3>2. PICK q \in Seq(A), x \in A : s = Append(q, x)
      BY <3>1, SequenceEmptyOrAppend
    <3>3. Len(q) = n
      <4>1. Len(Append(q, x)) = Len(q) + 1 /\ Len(q) \in Nat
        BY AppendProperties, LenProperties
      <4>2. QED BY <1>2, <2>1, <3>2, <4>1
    <3>4. q \in P
      BY <1>2, <3>3
    <3>5. QED BY <3>2, <3>4
  <2>2. n + 1 \in Nat
    BY <1>2
  <2>3. QED BY <2>1, <2>2
<1>3. Q = Nat
  <2> HIDE DEF Q
  <2>1. Q \in SUBSET Nat
    BY DEF Q
  <2>2. QED BY <1>1, <1>2, <2>1, AllNumbers
<1>4. \A s \in Seq(A) : Len(s) \in Nat
  OBVIOUS
<1>5. \A s \in Seq(A) : s \in P
  BY <1>3, <1>4
<1>6. QED BY <1>5

\* A value that a step makes of a sequence, element by element; the values on
\* the way.
OnTheWay(g, S, base, step, s) ==
  g \in [0..Len(s) -> S] /\ g[0] = base /\ \A n \in 1..Len(s) : g[n] = step[<<g[n - 1], s[n]>>]
Follows(f, S, base, step, s) ==
  f[0] = base /\ \A n \in 1..Len(s) : f[n - 1] \in S => f[n] = step[<<f[n - 1], s[n]>>]
FoldsTo(v, S, base, step, s) == \E g : OnTheWay(g, S, base, step, s) /\ v = g[Len(s)]

Made(f, base, N, next) == f[0] = base /\ \A n \in 1..N : f[n] = next[n][f[n - 1]]

LEMMA MadeExists ==
  ASSUME NEW S, NEW base \in S, NEW N \in Nat, NEW next \in [1..N -> [S -> S]]
  PROVE  \E f \in [0..N -> S] : Made(f, base, N, next)
BY Recursion DEF Made

LEMMA FoldExists ==
  ASSUME NEW S, NEW A, NEW base \in S, NEW step \in [S \X A -> S], NEW s \in Seq(A)
  PROVE  \E g : OnTheWay(g, S, base, step, s)
<1> DEFINE N == Len(s)
           next == [n \in 1..N |-> [x \in S |-> step[<<x, s[n]>>]]]
<1>1. N \in Nat /\ \A n \in 1..N : s[n] \in A
  OBVIOUS
<1>2. next \in [1..N -> [S -> S]] /\ \A n \in 1..N : \A x \in S : next[n][x] = step[<<x, s[n]>>]
  BY <1>1
<1> HIDE DEF next, N
<1>3. PICK g \in [0..N -> S] : Made(g, base, N, next)
  BY <1>1, <1>2, MadeExists
<1>4. g[0] = base /\ \A n \in 1..N : g[n] = next[n][g[n - 1]]
  BY <1>3 DEF Made
<1>5. \A n \in 1..N : g[n - 1] \in S
  BY <1>1, <1>3
<1>6. OnTheWay(g, S, base, step, s)
  BY <1>1, <1>2, <1>3, <1>4, <1>5 DEF OnTheWay, N
<1>7. QED BY <1>6

\* Whatever takes the same steps gets to the same values.
LEMMA FoldUnique ==
  ASSUME NEW S, NEW base, NEW step, NEW A, NEW s \in Seq(A), NEW g, OnTheWay(g, S, base, step, s),
         NEW f, Follows(f, S, base, step, s)
  PROVE  \A n \in 0..Len(s) : f[n] = g[n]
<1> DEFINE N == Len(s)
           P == {n \in Nat : n <= N => f[n] = g[n]}
<1>0. N \in Nat
  OBVIOUS
<1>1. /\ g \in [0..N -> S] /\ g[0] = base /\ \A n \in 1..N : g[n] = step[<<g[n - 1], s[n]>>]
      /\ f[0] = base /\ \A n \in 1..N : f[n - 1] \in S => f[n] = step[<<f[n - 1], s[n]>>]
  BY DEF OnTheWay, Follows
<1>2. 0 \in P
  BY <1>1
<1>3. ASSUME NEW n \in P PROVE n + 1 \in P
  <2>1. SUFFICES ASSUME n + 1 <= N PROVE f[n + 1] = g[n + 1]
    BY <1>3
  <2>2. n + 1 \in 1..N /\ (n + 1) - 1 = n /\ f[n] = g[n] /\ n \in 0..N
    BY <1>0, <1>3, <2>1
  <2>3. f[n] \in S
    BY <1>1, <2>2
  <2>4. f[n + 1] = step[<<f[n], s[n + 1]>>] /\ g[n + 1] = step[<<g[n], s[n + 1]>>]
    BY <1>1, <2>2, <2>3
  <2>5. QED BY <2>2, <2>4, Zenon
<1>4. P = Nat
  <2> HIDE DEF P
  <2>1. P \in SUBSET Nat
    BY DEF P
  <2>2. QED BY <1>2, <1>3, <2>1, AllNumbers
<1>5. QED BY <1>0, <1>4

LEMMA FoldValue ==
  ASSUME NEW S, NEW base, NEW step, NEW A, NEW s \in Seq(A), NEW v, NEW w,
         FoldsTo(v, S, base, step, s), FoldsTo(w, S, base, step, s)
  PROVE  v = w /\ v \in S
<1>1. PICK g : OnTheWay(g, S, base, step, s) /\ v = g[Len(s)]
  BY DEF FoldsTo
<1>2. PICK h : OnTheWay(h, S, base, step, s) /\ w = h[Len(s)]
  BY DEF FoldsTo
<1>3. Len(s) \in 0..Len(s)
  OBVIOUS
<1>4. h[0] = base /\ \A n \in 1..Len(s) : h[n] = step[<<h[n - 1], s[n]>>]
  BY <1>2 DEF OnTheWay
<1>5. \A n \in 0..Len(s) : h[n] = g[n]
  <2>1. s \in Seq(A) /\ OnTheWay(g, S, base, step, s)
    BY <1>1
  <2>2. Follows(h, S, base, step, s)
    BY <1>4 DEF Follows
  <2>3. ASSUME NEW n \in 0..Len(s) PROVE h[n] = g[n]
    BY <2>1, <2>2, <2>3, FoldUnique
  <2>4. QED BY <2>3
<1>6. QED BY <1>1, <1>2, <1>3, <1>5 DEF OnTheWay

\* The value of <<>>, and of a sequence with an element more.
LEMMA FoldSteps ==
  ASSUME NEW S, NEW A, NEW base \in S, NEW step \in [S \X A -> S]
  PROVE  /\ FoldsTo(base, S, base, step, <<>>)
         /\ \A s \in Seq(A) : \A x \in A, v \in S :
              FoldsTo(v, S, base, step, s) => FoldsTo(step[<<v, x>>], S, base, step, Append(s, x))
<1>1. FoldsTo(base, S, base, step, <<>>)
  <2> DEFINE none == <<>>
  <2>1. none \in Seq(A) /\ Len(none) = 0
    OBVIOUS
  <2> HIDE DEF none
  <2>2. PICK g : OnTheWay(g, S, base, step, none)
    BY <2>1, FoldExists
  <2>3. g[Len(none)] = base
    BY <2>1, <2>2 DEF OnTheWay
  <2>4. QED BY <2>2, <2>3, Zenon DEF FoldsTo, none
<1>2. ASSUME NEW s \in Seq(A), NEW x \in A, NEW v \in S, FoldsTo(v, S, base, step, s)
      PROVE  FoldsTo(step[<<v, x>>], S, base, step, Append(s, x))
  <2> DEFINE more == Append(s, x)
  <2>1. more \in Seq(A) /\ Len(more) = Len(s) + 1 /\ Len(s) \in Nat /\ more[Len(s) + 1] = x
        /\ \A n \in 1..Len(s) : more[n] = s[n]
    BY AppendProperties
  <2> HIDE DEF more
  <2>2. PICK g : OnTheWay(g, S, base, step, s) /\ v = g[Len(s)]
    BY <1>2 DEF FoldsTo
  <2>3. PICK h : OnTheWay(h, S, base, step, more)
    BY <2>1, FoldExists
  <2>4. h[0] = base /\ \A n \in 1..Len(more) : h[n] = step[<<h[n - 1], more[n]>>]
    BY <2>3 DEF OnTheWay
  <2>5. \A n \in 1..Len(s) : h[n] = step[<<h[n - 1], s[n]>>]
    BY <2>1, <2>4
  <2>6. \A n \in 0..Len(s) : h[n] = g[n]
    <3>1. s \in Seq(A) /\ OnTheWay(g, S, base, step, s)
      BY <2>2
    <3>2. Follows(h, S, base, step, s)
      BY <2>4, <2>5 DEF Follows
    <3>3. ASSUME NEW n \in 0..Len(s) PROVE h[n] = g[n]
      BY <3>1, <3>2, <3>3, FoldUnique
    <3>4. QED BY <3>3
  <2>7. h[Len(s)] = v
    BY <2>1, <2>2, <2>6
  <2>8. Len(s) + 1 \in 1..Len(more) /\ (Len(s) + 1) - 1 = Len(s)
    BY <2>1
  <2>9. h[Len(s) + 1] = step[<<v, x>>]
    BY <2>1, <2>4, <2>7, <2>8
  <2>10. QED BY <2>1, <2>3, <2>9, Zenon DEF FoldsTo, more
<1>3. QED BY <1>1, <1>2

---------------------------------------------------------------------------
(* What the writer makes of bytes and runes, one after the other *)

DecState == [text : Seq(Rune), half : BOOLEAN, bad : BOOLEAN]
DecStep == [p \in DecState \X Byte |-> Decode(p[1], p[2])]

LEMMA EmitType ==
  ASSUME NEW d \in DecState, NEW r \in Rune
  PROVE  Emit(d, r) \in DecState
<1>1. d.text \in Seq(Rune) /\ Append(d.text, r) \in Seq(Rune)
  BY DEF DecState
<1> DEFINE t == IF r = "bad" /\ d.bad THEN d.text ELSE Append(d.text, r)
<1>2. t \in Seq(Rune)
  BY <1>1
<1> HIDE DEF t
<1>3. [text |-> t, half |-> FALSE, bad |-> r = "bad"] \in DecState
  BY <1>2 DEF DecState
<1>4. QED BY <1>3 DEF Emit, t

LEMMA BeginType ==
  ASSUME NEW d \in DecState, NEW b \in Byte
  PROVE  Begin(d, b) \in DecState
<1>1. CASE b = "lead"
  BY <1>1 DEF Begin, DecState
<1>2. CASE b # "lead"
  <2>1. (IF b = "cont" THEN "bad" ELSE b) \in Rune
    BY <1>2 DEF Byte, Rune
  <2>2. Begin(d, b) = Emit(d, IF b = "cont" THEN "bad" ELSE b)
    BY <1>2 DEF Begin
  <2>3. QED BY <2>1, <2>2, EmitType
<1>3. QED BY <1>1, <1>2

LEMMA DecodeType ==
  ASSUME NEW d \in DecState, NEW b \in Byte
  PROVE  Decode(d, b) \in DecState
<1>1. "rune" \in Rune /\ "bad" \in Rune
  BY DEF Rune
<1>2. Emit(d, "rune") \in DecState /\ Emit(d, "bad") \in DecState
  BY <1>1, EmitType, Zenon
<1>3. Begin(d, b) \in DecState /\ Begin(Emit(d, "bad"), b) \in DecState
  BY <1>2, BeginType, Zenon
<1>4. QED BY <1>2, <1>3, Zenon DEF Decode

LEMMA NoTextType == NoText \in DecState /\ NoText.text = <<>> /\ NoText.half = FALSE /\ NoText.bad = FALSE
<1> DEFINE none == <<>>
<1>1. none \in Seq(Rune)
  OBVIOUS
<1> HIDE DEF none
<1>2. [text |-> none, half |-> FALSE, bad |-> FALSE] \in DecState
  BY <1>1 DEF DecState
<1>3. QED BY <1>2 DEF NoText, none

LEMMA DecodedFolds ==
  ASSUME NEW s \in Seq(Byte)
  PROVE  FoldsTo(Decoded(s), DecState, NoText, DecStep, s)
<1> DEFINE N == Len(s)
           Body(f) == [n \in 0..N |-> IF n = 0 THEN NoText ELSE Decode(f[n - 1], s[n])]
           d == CHOOSE f : f = Body(f)
<1>1. N \in Nat /\ \A n \in 1..N : s[n] \in Byte
  OBVIOUS
<1>2. DecStep \in [DecState \X Byte -> DecState] /\ \A x \in DecState, b \in Byte : DecStep[<<x, b>>] = Decode(x, b)
  BY DecodeType DEF DecStep
<1>3. PICK g : OnTheWay(g, DecState, NoText, DecStep, s)
  BY <1>2, NoTextType, FoldExists
<1>4. g \in [0..N -> DecState] /\ g[0] = NoText /\ \A n \in 1..N : g[n] = DecStep[<<g[n - 1], s[n]>>]
  BY <1>3 DEF OnTheWay
<1>5. \A n \in 1..N : g[n - 1] \in DecState
  BY <1>1, <1>4
<1>6. \A n \in 0..N : n # 0 => n \in 1..N
  BY <1>1
<1>7. g = Body(g)
  <2>1. \A n \in 1..N : g[n] = Decode(g[n - 1], s[n])
    BY <1>1, <1>2, <1>4, <1>5
  <2>2. \A n \in 0..N : g[n] = Body(g)[n]
    BY <1>4, <1>6, <2>1
  <2>3. g = [n \in 0..N |-> g[n]]
    BY <1>4
  <2>4. QED BY <2>2, <2>3
<1>8. d = Body(d)
  <2> HIDE DEF Body
  <2>1. QED BY <1>7
<1>9. Decoded(s) = d[N]
  BY DEF Decoded
<1> HIDE DEF d
<1>10. \A n \in 0..N : d[n] = IF n = 0 THEN NoText ELSE Decode(d[n - 1], s[n])
  <2> HIDE DEF N
  <2>1. \A n \in 0..N : Body(d)[n] = IF n = 0 THEN NoText ELSE Decode(d[n - 1], s[n])
    OBVIOUS
  <2> HIDE DEF Body
  <2>2. QED BY <1>8, <2>1, Zenon
<1>11. Follows(d, DecState, NoText, DecStep, s)
  <2>1. d[0] = NoText /\ \A n \in 1..N : d[n] = Decode(d[n - 1], s[n])
    BY <1>1, <1>10
  <2>2. QED BY <1>1, <1>2, <2>1 DEF Follows
<1>12. ASSUME NEW n \in 0..N PROVE d[n] = g[n]
  BY <1>3, <1>11, <1>12, FoldUnique
<1>13. N \in 0..N
  BY <1>1
<1>14. QED BY <1>3, <1>9, <1>12, <1>13 DEF FoldsTo

\* The state of the decoder after no byte and after a byte more.
LEMMA DecodedSteps ==
  /\ Decoded(<<>>) = NoText
  /\ \A s \in Seq(Byte) : Decoded(s) \in DecState
  /\ \A s \in Seq(Byte) : \A b \in Byte : Decoded(Append(s, b)) = Decode(Decoded(s), b)
<1>1. DecStep \in [DecState \X Byte -> DecState] /\ \A x \in DecState, b \in Byte : DecStep[<<x, b>>] = Decode(x, b)
  BY DecodeType DEF DecStep
<1>2. NoText \in DecState
  BY NoTextType
<1>3. ASSUME NEW s \in Seq(Byte) PROVE Decoded(s) \in DecState
  BY DecodedFolds, FoldValue
<1>4. Decoded(<<>>) = NoText
  <2> DEFINE none == <<>>
  <2>1. none \in Seq(Byte)
    OBVIOUS
  <2>2. FoldsTo(NoText, DecState, NoText, DecStep, none)
    BY <1>1, <1>2, FoldSteps
  <2> HIDE DEF none
  <2>3. Decoded(none) = NoText
    BY <2>1, <2>2, DecodedFolds, FoldValue
  <2>4. QED BY <2>3 DEF none
<1>5. ASSUME NEW s \in Seq(Byte), NEW b \in Byte PROVE Decoded(Append(s, b)) = Decode(Decoded(s), b)
  <2> DEFINE more == Append(s, b)
             next == DecStep[<<Decoded(s), b>>]
  <2>1. more \in Seq(Byte)
    OBVIOUS
  <2>2. FoldsTo(Decoded(s), DecState, NoText, DecStep, s) /\ Decoded(s) \in DecState
    BY <1>3, DecodedFolds
  <2>3. FoldsTo(next, DecState, NoText, DecStep, more)
    BY <1>1, <1>2, <2>2, FoldSteps
  <2> HIDE DEF more, next
  <2>4. Decoded(more) = next
    BY <2>1, <2>3, DecodedFolds, FoldValue
  <2>5. QED BY <1>1, <2>2, <2>4 DEF more, next
<1>6. QED BY <1>3, <1>4, <1>5

LEMMA WidthType == \A r \in Rune : Width(r) \in 1..3
BY DEF Width, Rune

WeightStep == [p \in Nat \X Rune |-> p[1] + Width(p[2])]

LEMMA WeightType == WeightStep \in [Nat \X Rune -> Nat] /\ \A x \in Nat, r \in Rune : WeightStep[<<x, r>>] = x + Width(r)
<1>1. \A r \in Rune : Width(r) \in Nat
  BY WidthType
<1>2. QED BY <1>1 DEF WeightStep

LEMMA WeightFolds ==
  ASSUME NEW s \in Seq(Rune)
  PROVE  FoldsTo(Weight(s), Nat, 0, WeightStep, s)
<1> DEFINE N == Len(s)
           Body(f) == [n \in 0..N |-> IF n = 0 THEN 0 ELSE f[n - 1] + Width(s[n])]
           d == CHOOSE f : f = Body(f)
<1>1. N \in Nat /\ \A n \in 1..N : s[n] \in Rune
  OBVIOUS
<1>2. WeightStep \in [Nat \X Rune -> Nat] /\ \A x \in Nat, b \in Rune : WeightStep[<<x, b>>] = x + Width(b)
  BY WeightType DEF WeightStep
<1>3. PICK g : OnTheWay(g, Nat, 0, WeightStep, s)
  BY <1>2, WeightType, FoldExists
<1>4. g \in [0..N -> Nat] /\ g[0] = 0 /\ \A n \in 1..N : g[n] = WeightStep[<<g[n - 1], s[n]>>]
  BY <1>3 DEF OnTheWay
<1>5. \A n \in 1..N : g[n - 1] \in Nat
  BY <1>1, <1>4
<1>6. \A n \in 0..N : n # 0 => n \in 1..N
  BY <1>1
<1>7. g = Body(g)
  <2>1. \A n \in 1..N : g[n] = g[n - 1] + Width(s[n])
    BY <1>1, <1>2, <1>4, <1>5
  <2>2. \A n \in 0..N : g[n] = Body(g)[n]
    BY <1>4, <1>6, <2>1
  <2>3. g = [n \in 0..N |-> g[n]]
    BY <1>4
  <2>4. QED BY <2>2, <2>3
<1>8. d = Body(d)
  <2> HIDE DEF Body
  <2>1. QED BY <1>7
<1>9. Weight(s) = d[N]
  BY DEF Weight
<1> HIDE DEF d
<1>10. \A n \in 0..N : d[n] = IF n = 0 THEN 0 ELSE d[n - 1] + Width(s[n])
  <2> HIDE DEF N
  <2>1. \A n \in 0..N : Body(d)[n] = IF n = 0 THEN 0 ELSE d[n - 1] + Width(s[n])
    OBVIOUS
  <2> HIDE DEF Body
  <2>2. QED BY <1>8, <2>1, Zenon
<1>11. Follows(d, Nat, 0, WeightStep, s)
  <2>1. d[0] = 0 /\ \A n \in 1..N : d[n] = d[n - 1] + Width(s[n])
    BY <1>1, <1>10
  <2>2. QED BY <1>1, <1>2, <2>1 DEF Follows
<1>12. ASSUME NEW n \in 0..N PROVE d[n] = g[n]
  BY <1>3, <1>11, <1>12, FoldUnique
<1>13. N \in 0..N
  BY <1>1
<1>14. QED BY <1>3, <1>9, <1>12, <1>13 DEF FoldsTo

\* The weight of no rune and of a rune more.
LEMMA WeightSteps ==
  /\ Weight(<<>>) = 0
  /\ \A s \in Seq(Rune) : Weight(s) \in Nat
  /\ \A s \in Seq(Rune) : \A b \in Rune : Weight(Append(s, b)) = Weight(s) + Width(b)
<1>1. WeightStep \in [Nat \X Rune -> Nat] /\ \A x \in Nat, b \in Rune : WeightStep[<<x, b>>] = x + Width(b)
  BY WeightType DEF WeightStep
<1>2. 0 \in Nat
  BY WeightType
<1>3. ASSUME NEW s \in Seq(Rune) PROVE Weight(s) \in Nat
  BY WeightFolds, FoldValue
<1>4. Weight(<<>>) = 0
  <2> DEFINE none == <<>>
  <2>1. none \in Seq(Rune)
    OBVIOUS
  <2>2. FoldsTo(0, Nat, 0, WeightStep, none)
    BY <1>1, <1>2, FoldSteps
  <2> HIDE DEF none
  <2>3. Weight(none) = 0
    BY <2>1, <2>2, WeightFolds, FoldValue
  <2>4. QED BY <2>3 DEF none
<1>5. ASSUME NEW s \in Seq(Rune), NEW b \in Rune PROVE Weight(Append(s, b)) = Weight(s) + Width(b)
  <2> DEFINE more == Append(s, b)
             next == WeightStep[<<Weight(s), b>>]
  <2>1. more \in Seq(Rune)
    OBVIOUS
  <2>2. FoldsTo(Weight(s), Nat, 0, WeightStep, s) /\ Weight(s) \in Nat
    BY <1>3, WeightFolds
  <2>3. FoldsTo(next, Nat, 0, WeightStep, more)
    BY <1>1, <1>2, <2>2, FoldSteps
  <2> HIDE DEF more, next
  <2>4. Weight(more) = next
    BY <2>1, <2>3, WeightFolds, FoldValue
  <2>5. QED BY <1>1, <2>2, <2>4 DEF more, next
<1>6. QED BY <1>3, <1>4, <1>5

\* Rows of runes, none of them empty.
Chunks == Seq(Seq(Rune) \ {<<>>})
PackStep == [p \in Chunks \X Rune |-> Pack(p[1], p[2])]

LEMMA NoChunks == <<>> \in Chunks
BY DEF Chunks

\* A rune starts a row or is added to the last, where it fits.
LEMMA PackCases ==
  ASSUME NEW p \in Chunks, NEW r \in Rune
  PROVE  \/ Pack(p, r) = Append(p, <<r>>)
         \/ \E q \in Chunks, c \in Seq(Rune) \ {<<>>} :
              p = Append(q, c) /\ Pack(p, r) = Append(q, Append(c, r)) /\ ~(Weight(c) + Width(r) > Limit)
<1> DEFINE C == Seq(Rune) \ {<<>>}
<1>1. CASE p = <<>> \/ Weight(Last(p)) + Width(r) > Limit
  BY <1>1, Zenon DEF Pack
<1>2. CASE ~(p = <<>> \/ Weight(Last(p)) + Width(r) > Limit)
  <2>0. p \in Seq(C) /\ p # <<>>
    BY <1>2 DEF Chunks
  <2> HIDE DEF C
  <2>1. PICK q \in Seq(C), c \in C : p = Append(q, c)
    BY <2>0, SequenceEmptyOrAppend
  <2>2. /\ Len(Append(q, c)) = Len(q) + 1 /\ Len(q) \in Nat /\ Append(q, c)[Len(q) + 1] = c
        /\ \A k \in 1..Len(q) : Append(q, c)[k] = q[k]
    BY AppendProperties, LenProperties
  <2>3. Last(p) = c
    BY <2>1, <2>2 DEF Last
  <2>4. Front(p) = q
    <3>1. Front(p) = SubSeq(Append(q, c), 1, Len(q))
      BY <2>1, <2>2 DEF Front
    <3>2. SubSeq(Append(q, c), 1, Len(q)) = q
      <4> DEFINE t == SubSeq(Append(q, c), 1, Len(q))
      <4>1. \A k \in 1..Len(q) : Append(q, c)[k] \in C
        BY <2>2, ElementOfSeq
      <4>2. t \in Seq(C) /\ Len(t) = Len(q) /\ \A k \in 1..Len(q) : t[k] = q[k]
        BY <2>2, <4>1
      <4> HIDE DEF t
      <4>3. t = q
        BY <4>2, SeqEqual
      <4>4. QED BY <4>3 DEF t
    <3>3. QED BY <3>1, <3>2
  <2>5. Pack(p, r) = Append(q, Append(c, r)) /\ ~(Weight(c) + Width(r) > Limit)
    BY <1>2, <2>3, <2>4, Zenon DEF Pack
  <2>6. QED BY <2>1, <2>5 DEF Chunks, C
<1>3. QED BY <1>1, <1>2

LEMMA PackType == PackStep \in [Chunks \X Rune -> Chunks] /\ \A p \in Chunks, r \in Rune : PackStep[<<p, r>>] = Pack(p, r)
<1>1. ASSUME NEW p \in Chunks, NEW r \in Rune PROVE Pack(p, r) \in Chunks
  <2> DEFINE C == Seq(Rune) \ {<<>>}
  <2>1. <<r>> \in C
    OBVIOUS
  <2>2. ASSUME NEW c \in C PROVE Append(c, r) \in C
    BY AppendProperties
  <2>3. CASE Pack(p, r) = Append(p, <<r>>)
    <3> DEFINE one == <<r>>
    <3>1. p \in Seq(C) /\ one \in C
      BY <2>1 DEF Chunks
    <3> HIDE DEF C, one
    <3>2. Append(p, one) \in Seq(C)
      BY <3>1
    <3>3. QED BY <2>3, <3>2 DEF Chunks, C, one
  <2>4. CASE \E q \in Chunks, c \in C : p = Append(q, c) /\ Pack(p, r) = Append(q, Append(c, r)) /\ ~(Weight(c) + Width(r) > Limit)
    <3>1. PICK q \in Chunks, c \in C : Pack(p, r) = Append(q, Append(c, r))
      BY <2>4
    <3>2. q \in Seq(C) /\ Append(c, r) \in C
      BY <2>2 DEF Chunks
    <3> HIDE DEF C
    <3>3. Append(q, Append(c, r)) \in Seq(C)
      BY <3>2
    <3>4. QED BY <3>1, <3>3 DEF Chunks, C
  <2>5. QED BY <2>3, <2>4, PackCases, Zenon
<1>2. QED BY <1>1 DEF PackStep

LEMMA SplitFolds ==
  ASSUME NEW s \in Seq(Rune)
  PROVE  FoldsTo(SplitArchiveLogChunks(s), Chunks, <<>>, PackStep, s)
<1> DEFINE N == Len(s)
           Body(f) == [n \in 0..N |-> IF n = 0 THEN <<>> ELSE Pack(f[n - 1], s[n])]
           d == CHOOSE f : f = Body(f)
<1>1. N \in Nat /\ \A n \in 1..N : s[n] \in Rune
  OBVIOUS
<1>2. PackStep \in [Chunks \X Rune -> Chunks] /\ \A x \in Chunks, b \in Rune : PackStep[<<x, b>>] = Pack(x, b)
  BY PackType DEF PackStep
<1>3. PICK g : OnTheWay(g, Chunks, <<>>, PackStep, s)
  BY <1>2, NoChunks, FoldExists
<1>4. g \in [0..N -> Chunks] /\ g[0] = <<>> /\ \A n \in 1..N : g[n] = PackStep[<<g[n - 1], s[n]>>]
  BY <1>3 DEF OnTheWay
<1>5. \A n \in 1..N : g[n - 1] \in Chunks
  BY <1>1, <1>4
<1>6. \A n \in 0..N : n # 0 => n \in 1..N
  BY <1>1
<1>7. g = Body(g)
  <2>1. \A n \in 1..N : g[n] = Pack(g[n - 1], s[n])
    BY <1>1, <1>2, <1>4, <1>5
  <2>2. \A n \in 0..N : g[n] = Body(g)[n]
    BY <1>4, <1>6, <2>1
  <2>3. g = [n \in 0..N |-> g[n]]
    BY <1>4
  <2>4. QED BY <2>2, <2>3
<1>8. d = Body(d)
  <2> HIDE DEF Body
  <2>1. QED BY <1>7
<1>9. SplitArchiveLogChunks(s) = d[N]
  BY DEF SplitArchiveLogChunks
<1> HIDE DEF d
<1>10. \A n \in 0..N : d[n] = IF n = 0 THEN <<>> ELSE Pack(d[n - 1], s[n])
  <2> HIDE DEF N
  <2>1. \A n \in 0..N : Body(d)[n] = IF n = 0 THEN <<>> ELSE Pack(d[n - 1], s[n])
    OBVIOUS
  <2> HIDE DEF Body
  <2>2. QED BY <1>8, <2>1, Zenon
<1>11. Follows(d, Chunks, <<>>, PackStep, s)
  <2>1. d[0] = <<>> /\ \A n \in 1..N : d[n] = Pack(d[n - 1], s[n])
    BY <1>1, <1>10
  <2>2. QED BY <1>1, <1>2, <2>1 DEF Follows
<1>12. ASSUME NEW n \in 0..N PROVE d[n] = g[n]
  BY <1>3, <1>11, <1>12, FoldUnique
<1>13. N \in 0..N
  BY <1>1
<1>14. QED BY <1>3, <1>9, <1>12, <1>13 DEF FoldsTo

\* The chunks of no rune and of a rune more.
LEMMA SplitSteps ==
  /\ SplitArchiveLogChunks(<<>>) = <<>>
  /\ \A s \in Seq(Rune) : SplitArchiveLogChunks(s) \in Chunks
  /\ \A s \in Seq(Rune) : \A b \in Rune : SplitArchiveLogChunks(Append(s, b)) = Pack(SplitArchiveLogChunks(s), b)
<1>1. PackStep \in [Chunks \X Rune -> Chunks] /\ \A x \in Chunks, b \in Rune : PackStep[<<x, b>>] = Pack(x, b)
  BY PackType DEF PackStep
<1>2. <<>> \in Chunks
  BY NoChunks
<1>3. ASSUME NEW s \in Seq(Rune) PROVE SplitArchiveLogChunks(s) \in Chunks
  BY SplitFolds, FoldValue
<1>4. SplitArchiveLogChunks(<<>>) = <<>>
  <2> DEFINE none == <<>>
  <2>1. none \in Seq(Rune)
    OBVIOUS
  <2>2. FoldsTo(<<>>, Chunks, <<>>, PackStep, none)
    BY <1>1, <1>2, FoldSteps
  <2> HIDE DEF none
  <2>3. SplitArchiveLogChunks(none) = <<>>
    BY <2>1, <2>2, SplitFolds, FoldValue
  <2>4. QED BY <2>3 DEF none
<1>5. ASSUME NEW s \in Seq(Rune), NEW b \in Rune PROVE SplitArchiveLogChunks(Append(s, b)) = Pack(SplitArchiveLogChunks(s), b)
  <2> DEFINE more == Append(s, b)
             next == PackStep[<<SplitArchiveLogChunks(s), b>>]
  <2>1. more \in Seq(Rune)
    OBVIOUS
  <2>2. FoldsTo(SplitArchiveLogChunks(s), Chunks, <<>>, PackStep, s) /\ SplitArchiveLogChunks(s) \in Chunks
    BY <1>3, SplitFolds
  <2>3. FoldsTo(next, Chunks, <<>>, PackStep, more)
    BY <1>1, <1>2, <2>2, FoldSteps
  <2> HIDE DEF more, next
  <2>4. SplitArchiveLogChunks(more) = next
    BY <2>1, <2>3, SplitFolds, FoldValue
  <2>5. QED BY <1>1, <2>2, <2>4 DEF more, next
<1>6. QED BY <1>3, <1>4, <1>5

JoinStep == [p \in Seq(Rune) \X Seq(Rune) |-> p[1] \o p[2]]

LEMMA JoinType ==
  JoinStep \in [Seq(Rune) \X Seq(Rune) -> Seq(Rune)] /\ \A x, c \in Seq(Rune) : JoinStep[<<x, c>>] = x \o c
<1>1. \A x, c \in Seq(Rune) : x \o c \in Seq(Rune)
  OBVIOUS
<1>2. QED BY <1>1 DEF JoinStep

LEMMA FlattenFolds ==
  ASSUME NEW s \in Seq(Seq(Rune))
  PROVE  FoldsTo(FlattenSeq(s), Seq(Rune), <<>>, JoinStep, s)
<1> DEFINE N == Len(s)
           T == Seq(Rune)
           none == <<>>
           Body(f) == [n \in 1..N |-> IF n = 1 THEN s[n] ELSE f[n - 1] \o s[n]]
           j == CHOOSE f : f = Body(f)
           k == [n \in 0..N |-> IF n = 0 THEN none ELSE j[n]]
<1>1. N \in Nat /\ \A n \in 1..N : s[n] \in T
  OBVIOUS
<1>2. JoinStep \in [T \X T -> T] /\ \A x, c \in T : JoinStep[<<x, c>>] = x \o c
  BY JoinType
<1>3. none \in T /\ \A c \in T : none \o c = c
  OBVIOUS
<1> HIDE DEF T
<1>4. PICK g : OnTheWay(g, T, none, JoinStep, s)
  <2>1. s \in Seq(T)
    BY DEF T
  <2> HIDE DEF none
  <2>2. QED BY <1>2, <1>3, <2>1, FoldExists
<1> HIDE DEF none
<1>5. g \in [0..N -> T] /\ g[0] = none /\ \A n \in 1..N : g[n] = JoinStep[<<g[n - 1], s[n]>>]
  BY <1>4 DEF OnTheWay
<1>6. \A n \in 1..N : g[n - 1] \in T /\ g[n] = g[n - 1] \o s[n]
  <2>1. ASSUME NEW n \in 1..N PROVE g[n - 1] \in T
    <3>1. n - 1 \in 0..N
      BY <1>1
    <3>2. g \in [0..N -> T]
      BY <1>5
    <3>3. QED BY <3>1, <3>2, Zenon
  <2>2. QED BY <1>1, <1>2, <1>5, <2>1, Zenon
<1>7. \A n \in 1..N : g[n] = IF n = 1 THEN s[n] ELSE g[n - 1] \o s[n]
  <2>1. ASSUME NEW n \in 1..N, n = 1 PROVE g[n] = s[n]
    <3>1. g[n - 1] = none
      BY <1>5, <2>1
    <3>2. QED BY <1>1, <1>3, <1>6, <3>1, Zenon
  <2>2. QED BY <1>6, <2>1
<1>8. \E f : f = Body(f)
  <2> DEFINE h == [n \in 1..N |-> g[n]]
  <2>1. \A n \in 1..N : n # 1 => n - 1 \in 1..N
    BY <1>1
  <2>2. \A n \in 1..N : h[n] = Body(h)[n]
    BY <1>7, <2>1
  <2>3. h = Body(h)
    BY <2>2
  <2> HIDE DEF h, Body
  <2>4. QED BY <2>3
<1>9. j = Body(j)
  <2> HIDE DEF Body
  <2>1. QED BY <1>8
<1>10. FlattenSeq(s) = IF N = 0 THEN s ELSE j[N]
  BY DEF FlattenSeq
<1> HIDE DEF j
<1>11. \A n \in 1..N : j[n] = IF n = 1 THEN s[n] ELSE j[n - 1] \o s[n]
  <2> HIDE DEF N
  <2>1. \A n \in 1..N : Body(j)[n] = IF n = 1 THEN s[n] ELSE j[n - 1] \o s[n]
    OBVIOUS
  <2> HIDE DEF Body
  <2>2. QED BY <1>9, <2>1, Zenon
<1>12. k[0] = none /\ \A n \in 1..N : k[n] = j[n] /\ k[n - 1] = IF n = 1 THEN none ELSE j[n - 1]
  BY <1>1
<1> HIDE DEF k
<1>13. Follows(k, T, none, JoinStep, s)
  <2>1. ASSUME NEW n \in 1..N, k[n - 1] \in T PROVE k[n] = JoinStep[<<k[n - 1], s[n]>>]
    <3>1. k[n] = k[n - 1] \o s[n]
      BY <1>1, <1>3, <1>11, <1>12
    <3>2. QED BY <1>1, <1>2, <2>1, <3>1
  <2>2. QED BY <1>12, <2>1 DEF Follows
<1>14. ASSUME NEW n \in 0..N PROVE k[n] = g[n]
  <2>1. s \in Seq(T)
    BY DEF T
  <2>2. QED BY <1>4, <1>13, <1>14, <2>1, FoldUnique
<1>15. FlattenSeq(s) = g[N]
  <2>1. CASE N = 0
    <3>1. s = <<>>
      BY <2>1
    <3>2. QED BY <1>5, <1>10, <2>1, <3>1 DEF none
  <2>2. CASE N # 0
    BY <1>1, <1>10, <1>12, <1>14, <2>2
  <2>3. QED BY <2>1, <2>2
<1>16. QED BY <1>4, <1>15, Zenon DEF FoldsTo, T, none

\* What no rows hold together, and a row more.
LEMMA FlattenSteps ==
  /\ FlattenSeq(<<>>) = <<>>
  /\ \A s \in Seq(Seq(Rune)) : FlattenSeq(s) \in Seq(Rune)
  /\ \A s \in Seq(Seq(Rune)) : \A c \in Seq(Rune) : FlattenSeq(Append(s, c)) = FlattenSeq(s) \o c
<1>1. FlattenSeq(<<>>) = <<>>
  BY DEF FlattenSeq
<1>2. ASSUME NEW s \in Seq(Seq(Rune)) PROVE FlattenSeq(s) \in Seq(Rune)
  BY FlattenFolds, FoldValue
<1>3. ASSUME NEW s \in Seq(Seq(Rune)), NEW c \in Seq(Rune)
      PROVE  FlattenSeq(Append(s, c)) = FlattenSeq(s) \o c
  <2> DEFINE T == Seq(Rune)
             none == <<>>
             more == Append(s, c)
             next == JoinStep[<<FlattenSeq(s), c>>]
  <2>1. s \in Seq(T) /\ more \in Seq(T) /\ none \in T /\ c \in T
    OBVIOUS
  <2>2. FoldsTo(FlattenSeq(s), T, none, JoinStep, s) /\ FlattenSeq(s) \in T
    BY <1>2, FlattenFolds
  <2>3. FoldsTo(FlattenSeq(more), T, none, JoinStep, more)
    <3> HIDE DEF more
    <3>1. QED BY <2>1, FlattenFolds
  <2>4. JoinStep \in [T \X T -> T] /\ \A x, d \in T : JoinStep[<<x, d>>] = x \o d
    BY JoinType
  <2> HIDE DEF T, none
  <2>5. FoldsTo(next, T, none, JoinStep, more)
    BY <2>1, <2>2, <2>4, FoldSteps
  <2> HIDE DEF more, next
  <2>6. FlattenSeq(more) = next
    BY <2>1, <2>3, <2>5, FoldValue
  <2>7. QED BY <2>1, <2>2, <2>4, <2>6 DEF more, next
<1>4. QED BY <1>1, <1>2, <1>3

---------------------------------------------------------------------------
(* The rows of a text hold the text, and fit *)

LEMMA ChunksAreSequences ==
  ASSUME NEW p \in Chunks
  PROVE  p \in Seq(Seq(Rune))
<1> DEFINE C == Seq(Rune) \ {<<>>}
           T == Seq(Rune)
<1>1. C \subseteq T /\ p \in Seq(C)
  BY DEF Chunks
<1> HIDE DEF C, T
<1>2. p \in Seq(T)
  BY <1>1, SeqMonotonic
<1>3. QED BY <1>2 DEF T

\* Three texts may be joined in either order.
LEMMA JoinRunes == \A a, b, c \in Seq(Rune) : (a \o b) \o c = a \o (b \o c)
BY ConcatAssociative

LEMMA FlattenConcat ==
  ASSUME NEW a \in Seq(Seq(Rune)), NEW b \in Seq(Seq(Rune))
  PROVE  FlattenSeq(a \o b) = FlattenSeq(a) \o FlattenSeq(b)
<1> DEFINE T == Seq(Rune)
           P == {s \in Seq(T) : FlattenSeq(a \o s) = FlattenSeq(a) \o FlattenSeq(s)}
<1>1. a \in Seq(T) /\ b \in Seq(T)
  OBVIOUS
<1>2. FlattenSeq(a) \in T
  BY FlattenSteps
<1>3. <<>> \in P
  <2>1. a \o <<>> = a /\ FlattenSeq(a) \o <<>> = FlattenSeq(a)
    BY <1>2
  <2>2. FlattenSeq(<<>>) = <<>> /\ <<>> \in Seq(T)
    BY FlattenSteps
  <2>3. QED BY <2>1, <2>2
<1>4. ASSUME NEW s \in P, NEW c \in T PROVE Append(s, c) \in P
  <2>0. s \in Seq(T) /\ FlattenSeq(a \o s) = FlattenSeq(a) \o FlattenSeq(s)
    BY <1>4
  <2> HIDE DEF P
  <2>1. Append(s, c) \in Seq(T) /\ a \o s \in Seq(T) /\ a \o Append(s, c) = Append(a \o s, c)
    <3> HIDE DEF T
    <3>1. QED BY <1>1, <2>0
  <2>2. FlattenSeq(a \o Append(s, c)) = FlattenSeq(a \o s) \o c
    BY <2>1, FlattenSteps, Zenon
  <2>3. FlattenSeq(Append(s, c)) = FlattenSeq(s) \o c /\ FlattenSeq(s) \in T
    BY <2>0, FlattenSteps, Zenon
  <2>4. (FlattenSeq(a) \o FlattenSeq(s)) \o c = FlattenSeq(a) \o (FlattenSeq(s) \o c)
    BY <1>2, <2>3, JoinRunes, Zenon
  <2>5. FlattenSeq(a \o Append(s, c)) = FlattenSeq(a) \o FlattenSeq(Append(s, c))
    BY <2>0, <2>2, <2>3, <2>4, Zenon
  <2>6. QED BY <2>1, <2>5 DEF P
<1>5. P = Seq(T)
  <2> HIDE DEF P, T
  <2>1. P \in SUBSET Seq(T)
    BY DEF P
  <2>2. QED BY <1>3, <1>4, <2>1, AllSequences
<1>6. QED BY <1>1, <1>5

\* No rune is lost, moved or doubled between the rows.
LEMMA SplitIsText ==
  ASSUME NEW text \in Seq(Rune)
  PROVE  SplitArchiveLogChunks(text) \in Chunks /\ FlattenSeq(SplitArchiveLogChunks(text)) = text
<1> DEFINE P == {t \in Seq(Rune) : FlattenSeq(SplitArchiveLogChunks(t)) = t}
<1>1. <<>> \in P
  BY SplitSteps, FlattenSteps
<1>2. ASSUME NEW t \in P, NEW r \in Rune PROVE Append(t, r) \in P
  <2> DEFINE p == SplitArchiveLogChunks(t)
  <2>1. t \in Seq(Rune) /\ FlattenSeq(p) = t /\ Append(t, r) \in Seq(Rune)
    BY <1>2
  <2>2. p \in Chunks /\ SplitArchiveLogChunks(Append(t, r)) = Pack(p, r)
    BY <2>1, SplitSteps, Zenon
  <2> HIDE DEF p, P
  <2>3. FlattenSeq(Pack(p, r)) = Append(t, r)
    <3>1. CASE Pack(p, r) = Append(p, <<r>>)
      <4>1. p \in Seq(Seq(Rune)) /\ <<r>> \in Seq(Rune)
        BY <2>2, ChunksAreSequences
      <4>2. FlattenSeq(Append(p, <<r>>)) = t \o <<r>>
        BY <2>1, <4>1, FlattenSteps, Zenon
      <4>3. t \o <<r>> = Append(t, r)
        BY <2>1, AppendIsConcat
      <4>4. QED BY <3>1, <4>2, <4>3, Zenon
    <3>2. CASE \E q \in Chunks, c \in Seq(Rune) \ {<<>>} : p = Append(q, c) /\ Pack(p, r) = Append(q, Append(c, r))
      <4>1. PICK q \in Chunks, c \in Seq(Rune) \ {<<>>} : p = Append(q, c) /\ Pack(p, r) = Append(q, Append(c, r))
        BY <3>2
      <4>2. q \in Seq(Seq(Rune)) /\ c \in Seq(Rune) /\ Append(c, r) \in Seq(Rune)
        BY ChunksAreSequences
      <4>3. FlattenSeq(q) \in Seq(Rune) /\ t = FlattenSeq(q) \o c
        BY <2>1, <4>1, <4>2, FlattenSteps, Zenon
      <4>4. FlattenSeq(Pack(p, r)) = FlattenSeq(q) \o Append(c, r)
        BY <4>1, <4>2, FlattenSteps, Zenon
      <4> DEFINE f == FlattenSeq(q)
      <4> HIDE DEF f
      <4>5. f \in Seq(Rune)
        BY <4>3 DEF f
      <4>6. f \o Append(c, r) = Append(f \o c, r)
        BY <4>2, <4>5
      <4>7. QED BY <4>3, <4>4, <4>6, Zenon DEF f
    <3>3. \/ Pack(p, r) = Append(p, <<r>>)
          \/ \E q \in Chunks, c \in Seq(Rune) \ {<<>>} :
               p = Append(q, c) /\ Pack(p, r) = Append(q, Append(c, r)) /\ ~(Weight(c) + Width(r) > Limit)
      BY <2>2, PackCases
    <3>4. QED BY <3>1, <3>2, <3>3, Zenon
  <2>4. FlattenSeq(SplitArchiveLogChunks(Append(t, r))) = Append(t, r)
    BY <2>2, <2>3, Zenon
  <2>5. QED BY <2>1, <2>4 DEF P
<1>3. P = Seq(Rune)
  <2> HIDE DEF P
  <2>1. P \in SUBSET Seq(Rune)
    BY DEF P
  <2>2. QED BY <1>1, <1>2, <2>1, AllSequences
<1>4. SplitArchiveLogChunks(text) \in Chunks
  BY SplitSteps
<1>5. QED BY <1>3, <1>4

Fit(p) == \A k \in 1..Len(p) : Weight(p[k]) <= Limit

LEMMA FitSteps ==
  ASSUME NEW q \in Chunks, NEW c \in Seq(Rune) \ {<<>>}
  PROVE  Fit(Append(q, c)) <=> Fit(q) /\ Weight(c) <= Limit
<1> DEFINE C == Seq(Rune) \ {<<>>}
           p == Append(q, c)
<1>1. q \in Seq(C) /\ c \in C
  BY DEF Chunks
<1> HIDE DEF C
<1>2. Len(p) = Len(q) + 1 /\ Len(q) \in Nat /\ p[Len(q) + 1] = c /\ \A k \in 1..Len(q) : p[k] = q[k]
  BY <1>1, AppendProperties, LenProperties
<1> HIDE DEF p
<1>3. \A k \in 1..Len(p) : k \in 1..Len(q) \/ k = Len(q) + 1
  BY <1>2
<1>4. Len(q) + 1 \in 1..Len(p) /\ \A k \in 1..Len(q) : k \in 1..Len(p)
  BY <1>2
<1>5. Fit(p) <=> Fit(q) /\ Weight(c) <= Limit
  BY <1>2, <1>3, <1>4, Zenon DEF Fit
<1>6. QED BY <1>5 DEF p

LEMMA FitConcat ==
  ASSUME NEW a \in Chunks, NEW b \in Chunks, Fit(a), Fit(b)
  PROVE  a \o b \in Chunks /\ Fit(a \o b)
<1> DEFINE C == Seq(Rune) \ {<<>>}
<1>1. a \in Seq(C) /\ b \in Seq(C)
  BY DEF Chunks
<1> HIDE DEF C
<1>2. /\ a \o b \in Seq(C) /\ Len(a \o b) = Len(a) + Len(b) /\ Len(a) \in Nat /\ Len(b) \in Nat
      /\ \A k \in 1..Len(a) + Len(b) : (a \o b)[k] = IF k <= Len(a) THEN a[k] ELSE b[k - Len(a)]
  BY <1>1, ConcatProperties, LenProperties
<1>3. ASSUME NEW k \in 1..Len(a \o b) PROVE Weight((a \o b)[k]) <= Limit
  <2>1. CASE k <= Len(a)
    <3>1. k \in 1..Len(a) /\ (a \o b)[k] = a[k]
      BY <1>2, <2>1
    <3>2. QED BY <3>1, Zenon DEF Fit
  <2>2. CASE ~(k <= Len(a))
    <3>1. k - Len(a) \in 1..Len(b) /\ (a \o b)[k] = b[k - Len(a)]
      BY <1>2, <2>2
    <3>2. QED BY <3>1, Zenon DEF Fit
  <2>3. QED BY <2>1, <2>2
<1>4. QED BY <1>2, <1>3 DEF Fit, Chunks, C

\* A row is closed before it is too long, and a rune alone is short enough.
LEMMA SplitFits ==
  ASSUME NEW text \in Seq(Rune)
  PROVE  Fit(SplitArchiveLogChunks(text))
<1> DEFINE P == {t \in Seq(Rune) : Fit(SplitArchiveLogChunks(t))}
<1>1. <<>> \in P
  <2>1. Len(<<>>) = 0 /\ <<>> \in Seq(Rune)
    OBVIOUS
  <2>2. Fit(<<>>)
    BY <2>1 DEF Fit
  <2>3. SplitArchiveLogChunks(<<>>) = <<>>
    BY SplitSteps, Zenon
  <2>4. QED BY <2>1, <2>2, <2>3
<1>2. ASSUME NEW t \in P, NEW r \in Rune PROVE Append(t, r) \in P
  <2> DEFINE p == SplitArchiveLogChunks(t)
  <2>1. t \in Seq(Rune) /\ Fit(p) /\ Append(t, r) \in Seq(Rune)
    BY <1>2
  <2>2. p \in Chunks /\ SplitArchiveLogChunks(Append(t, r)) = Pack(p, r)
    BY <2>1, SplitSteps, Zenon
  <2> HIDE DEF p, P
  <2>3. Fit(Pack(p, r))
    <3>1. CASE Pack(p, r) = Append(p, <<r>>)
      <4>1. <<r>> \in Seq(Rune) \ {<<>>} /\ <<r>> = Append(<<>>, r) /\ <<>> \in Seq(Rune)
        OBVIOUS
      <4>2. Weight(<<r>>) = 0 + Width(r)
        BY <4>1, WeightSteps, Zenon
      <4>3. Weight(<<r>>) <= Limit
        BY <4>2, WidthType, LimitAssumption
      <4>4. Fit(Append(p, <<r>>)) <=> Fit(p) /\ Weight(<<r>>) <= Limit
        BY <2>2, <4>1, FitSteps, Zenon
      <4>5. QED BY <2>1, <3>1, <4>3, <4>4, Zenon
    <3>2. CASE \E q \in Chunks, c \in Seq(Rune) \ {<<>>} :
                 p = Append(q, c) /\ Pack(p, r) = Append(q, Append(c, r)) /\ ~(Weight(c) + Width(r) > Limit)
      <4>1. PICK q \in Chunks, c \in Seq(Rune) \ {<<>>} :
                 p = Append(q, c) /\ Pack(p, r) = Append(q, Append(c, r)) /\ ~(Weight(c) + Width(r) > Limit)
        BY <3>2
      <4>2. Append(c, r) \in Seq(Rune) \ {<<>>} /\ c \in Seq(Rune)
        BY AppendProperties
      <4>3. Weight(Append(c, r)) = Weight(c) + Width(r) /\ Weight(c) \in Nat
        BY <4>2, WeightSteps, Zenon
      <4>4. Weight(Append(c, r)) <= Limit
        <5> DEFINE w == Weight(c)
                   v == Width(r)
                   both == Weight(Append(c, r))
        <5>1. both = w + v /\ w \in Nat /\ v \in 1..3 /\ ~(w + v > Limit)
          BY <4>1, <4>3, WidthType, Zenon
        <5> HIDE DEF w, v, both
        <5>2. both <= Limit
          BY <5>1, LimitAssumption
        <5>3. QED BY <5>2 DEF both
      <4>5. Fit(q)
        BY <2>1, <4>1, FitSteps
      <4>6. Fit(Append(q, Append(c, r)))
        BY <4>2, <4>4, <4>5, FitSteps
      <4>7. QED BY <4>1, <4>6, Zenon
    <3>3. \/ Pack(p, r) = Append(p, <<r>>)
          \/ \E q \in Chunks, c \in Seq(Rune) \ {<<>>} :
               p = Append(q, c) /\ Pack(p, r) = Append(q, Append(c, r)) /\ ~(Weight(c) + Width(r) > Limit)
      BY <2>2, PackCases
    <3>4. QED BY <3>1, <3>2, <3>3, Zenon
  <2>4. QED BY <2>1, <2>2, <2>3, Zenon DEF P
<1>3. P = Seq(Rune)
  <2> HIDE DEF P
  <2>1. P \in SUBSET Seq(Rune)
    BY DEF P
  <2>2. QED BY <1>1, <1>2, <2>1, AllSequences
<1>4. QED BY <1>3

---------------------------------------------------------------------------
(* Cutting the output *)

HasBad(bytes) == Contains(Decoded(bytes).text, "bad")

\* After what was read, the decoder goes on from d as it would from the start.
GoesOn(d, e, then) == d = [text |-> then.text \o e.text, half |-> e.half, bad |-> e.bad]

LEMMA EmitGoesOn ==
  ASSUME NEW d \in DecState, NEW e \in DecState, NEW then \in DecState, NEW r \in Rune, GoesOn(d, e, then)
  PROVE  GoesOn(Emit(d, r), Emit(e, r), then)
<1>1. then.text \in Seq(Rune) /\ e.text \in Seq(Rune)
  BY DEF DecState
<1>2. d.text = then.text \o e.text /\ d.half = e.half /\ d.bad = e.bad
  BY DEF GoesOn
<1>3. Append(then.text \o e.text, r) = then.text \o Append(e.text, r)
  <2>1. \A p, q \in Seq(Rune) : Append(p \o q, r) = p \o Append(q, r)
    OBVIOUS
  <2>2. QED BY <1>1, <2>1, Zenon
<1>4. (IF r = "bad" /\ d.bad THEN d.text ELSE Append(d.text, r))
        = then.text \o (IF r = "bad" /\ e.bad THEN e.text ELSE Append(e.text, r))
  BY <1>2, <1>3, Zenon
<1>5. QED BY <1>4 DEF GoesOn, Emit

LEMMA DecodeGoesOn ==
  ASSUME NEW d \in DecState, NEW e \in DecState, NEW then \in DecState, NEW b \in Byte, GoesOn(d, e, then)
  PROVE  GoesOn(Decode(d, b), Decode(e, b), then)
<1>1. \A x, y \in DecState : GoesOn(x, y, then) => GoesOn(Begin(x, b), Begin(y, b), then)
  <2>1. SUFFICES ASSUME NEW x \in DecState, NEW y \in DecState, GoesOn(x, y, then)
                 PROVE  GoesOn(Begin(x, b), Begin(y, b), then)
    OBVIOUS
  <2>2. CASE b = "lead"
    <3>1. /\ Begin(x, b) = [text |-> x.text, half |-> TRUE, bad |-> x.bad]
          /\ Begin(y, b) = [text |-> y.text, half |-> TRUE, bad |-> y.bad]
      BY <2>2 DEF Begin
    <3>2. x.text = then.text \o y.text /\ x.bad = y.bad
      BY <2>1 DEF GoesOn
    <3> DEFINE e2 == [text |-> y.text, half |-> TRUE, bad |-> y.bad]
    <3>4. e2.text = y.text /\ e2.half = TRUE /\ e2.bad = y.bad
      OBVIOUS
    <3> HIDE DEF e2
    <3>5. GoesOn([text |-> x.text, half |-> TRUE, bad |-> x.bad], e2, then)
      BY <3>2, <3>4, Zenon DEF GoesOn
    <3>6. QED BY <3>1, <3>5, Zenon DEF e2
  <2>3. CASE b # "lead"
    <3> DEFINE r == IF b = "cont" THEN "bad" ELSE b
    <3>1. r \in Rune /\ Begin(x, b) = Emit(x, r) /\ Begin(y, b) = Emit(y, r)
      BY <2>3 DEF Begin, Byte, Rune
    <3> HIDE DEF r
    <3>2. QED BY <2>1, <3>1, EmitGoesOn
  <2>4. QED BY <2>2, <2>3
<1>2. d.half = e.half
  BY DEF GoesOn
<1>3. "rune" \in Rune /\ "bad" \in Rune
  BY DEF Rune
<1>4. GoesOn(Emit(d, "rune"), Emit(e, "rune"), then)
  BY <1>3, EmitGoesOn
<1>5. /\ GoesOn(Emit(d, "bad"), Emit(e, "bad"), then)
      /\ Emit(d, "bad") \in DecState /\ Emit(e, "bad") \in DecState
  BY <1>3, EmitGoesOn, EmitType
<1>6. GoesOn(Begin(d, b), Begin(e, b), then)
  BY <1>1
<1>7. GoesOn(Begin(Emit(d, "bad"), b), Begin(Emit(e, "bad"), b), then)
  BY <1>1, <1>5
<1>8. QED BY <1>2, <1>4, <1>6, <1>7, Zenon DEF Decode

\* What is read between two runes, with nothing invalid right before it, reads
\* as it does on its own.
LEMMA DecodedOn ==
  ASSUME NEW a \in Seq(Byte), NEW b \in Seq(Byte), Decoded(a).half = FALSE, Decoded(a).bad = FALSE
  PROVE  GoesOn(Decoded(a \o b), Decoded(b), Decoded(a))
<1> DEFINE P == {s \in Seq(Byte) : GoesOn(Decoded(a \o s), Decoded(s), Decoded(a))}
<1>1. <<>> \in P
  <2>1. a \o <<>> = a /\ <<>> \in Seq(Byte)
    OBVIOUS
  <2>2. Decoded(<<>>) = NoText
    BY DecodedSteps, Zenon
  <2>3. Decoded(a) \in DecState
    BY DecodedSteps
  <2>4. Decoded(a).text \in Seq(Rune) /\ Decoded(a) = [text |-> Decoded(a).text, half |-> FALSE, bad |-> FALSE]
    BY <2>3 DEF DecState
  <2>5. Decoded(a).text \o <<>> = Decoded(a).text
    BY <2>4
  <2>6. GoesOn(Decoded(a), NoText, Decoded(a))
    BY <2>4, <2>5, NoTextType, Zenon DEF GoesOn
  <2>7. GoesOn(Decoded(a \o <<>>), Decoded(<<>>), Decoded(a))
    BY <2>1, <2>2, <2>6, Zenon
  <2>8. QED BY <2>1, <2>7
<1>2. ASSUME NEW s \in P, NEW x \in Byte PROVE Append(s, x) \in P
  <2>1. s \in Seq(Byte) /\ GoesOn(Decoded(a \o s), Decoded(s), Decoded(a))
    BY <1>2
  <2> HIDE DEF P
  <2>2. a \o s \in Seq(Byte) /\ Append(s, x) \in Seq(Byte) /\ a \o Append(s, x) = Append(a \o s, x)
    BY <2>1
  <2>3. Decoded(a \o Append(s, x)) = Decode(Decoded(a \o s), x) /\ Decoded(Append(s, x)) = Decode(Decoded(s), x)
    BY <2>1, <2>2, DecodedSteps, Zenon
  <2>4. Decoded(a) \in DecState /\ Decoded(s) \in DecState /\ Decoded(a \o s) \in DecState
    BY <2>1, <2>2, DecodedSteps, Zenon
  <2>5. GoesOn(Decode(Decoded(a \o s), x), Decode(Decoded(s), x), Decoded(a))
    BY <2>1, <2>4, DecodeGoesOn
  <2>6. GoesOn(Decoded(a \o Append(s, x)), Decoded(Append(s, x)), Decoded(a))
    BY <2>3, <2>5, Zenon
  <2>7. QED BY <2>2, <2>6 DEF P
<1>3. P = Seq(Byte)
  <2> HIDE DEF P
  <2>1. P \in SUBSET Seq(Byte)
    BY DEF P
  <2>2. QED BY <1>1, <1>2, <2>1, AllSequences
<1>4. QED BY <1>3

\* An invalid byte is in the text for ever.
LEMMA EmitKeeps ==
  ASSUME NEW d \in DecState, NEW r \in Rune
  PROVE  /\ Contains(d.text, "bad") => Contains(Emit(d, r).text, "bad")
         /\ Emit(d, r).half = FALSE
         /\ r = "bad" /\ (d.bad => Contains(d.text, "bad")) => Contains(Emit(d, r).text, "bad")
         /\ Emit(d, r).bad => r = "bad"
<1> DEFINE q == d.text
<1>1. q \in Seq(Rune)
  BY DEF DecState
<1>2. Emit(d, r).text = (IF r = "bad" /\ d.bad THEN d.text ELSE Append(d.text, r)) /\ Emit(d, r).half = FALSE
      /\ (Emit(d, r).bad <=> r = "bad")
  BY DEF Emit
<1> HIDE DEF q
<1>3. Len(Append(q, r)) = Len(q) + 1 /\ Len(q) \in Nat /\ Append(q, r)[Len(q) + 1] = r
      /\ \A k \in 1..Len(q) : Append(q, r)[k] = q[k]
  BY <1>1, AppendProperties, LenProperties
<1>4. Contains(q, "bad") => Contains(Append(q, r), "bad")
  <2>1. \A k \in 1..Len(q) : k \in 1..Len(Append(q, r))
    BY <1>3
  <2>2. QED BY <1>3, <2>1, Zenon DEF Contains
<1>5. r = "bad" => Contains(Append(q, r), "bad")
  <2>1. Len(q) + 1 \in 1..Len(Append(q, r))
    BY <1>3
  <2>2. QED BY <1>3, <2>1, Zenon DEF Contains
<1>6. QED BY <1>2, <1>4, <1>5, Zenon DEF q

\* The last thing read was invalid only if the text says so.
Honest(d) == d.bad => Contains(d.text, "bad")

LEMMA DecodeKeeps ==
  ASSUME NEW d \in DecState, NEW b \in Byte, Honest(d)
  PROVE  /\ Honest(Decode(d, b))
         /\ Contains(d.text, "bad") => Contains(Decode(d, b).text, "bad")
         /\ b = "nl" => Decode(d, b).half = FALSE
         /\ ~d.half /\ b = "cont" => Contains(Decode(d, b).text, "bad")
         /\ d.half /\ b # "cont" => Contains(Decode(d, b).text, "bad")
         /\ ~d.half /\ b # "lead" => Decode(d, b).half = FALSE
<1>1. "rune" \in Rune /\ "bad" \in Rune /\ "rune" # "bad"
  BY DEF Rune
<1>2. \A x \in DecState : Honest(x) => /\ Honest(Begin(x, b))
                                       /\ Contains(x.text, "bad") => Contains(Begin(x, b).text, "bad")
                                       /\ b # "lead" => Begin(x, b).half = FALSE
                                       /\ b = "cont" => Contains(Begin(x, b).text, "bad")
  <2>1. SUFFICES ASSUME NEW x \in DecState, Honest(x)
                 PROVE  /\ Honest(Begin(x, b))
                        /\ Contains(x.text, "bad") => Contains(Begin(x, b).text, "bad")
                        /\ b # "lead" => Begin(x, b).half = FALSE
                        /\ b = "cont" => Contains(Begin(x, b).text, "bad")
    OBVIOUS
  <2>2. CASE b = "lead"
    <3>1. Begin(x, b).text = x.text /\ Begin(x, b).bad = x.bad
      BY <2>2 DEF Begin, DecState
    <3>2. QED BY <2>1, <2>2, <3>1 DEF Honest
  <2>3. CASE b # "lead"
    <3> DEFINE r == IF b = "cont" THEN "bad" ELSE b
    <3>1. r \in Rune /\ Begin(x, b) = Emit(x, r) /\ (b = "cont" => r = "bad")
      BY <2>3 DEF Begin, Byte, Rune
    <3> HIDE DEF r
    <3>2. /\ Contains(x.text, "bad") => Contains(Emit(x, r).text, "bad")
          /\ Emit(x, r).half = FALSE
          /\ r = "bad" => Contains(Emit(x, r).text, "bad")
          /\ Emit(x, r).bad => r = "bad"
      BY <2>1, <3>1, EmitKeeps DEF Honest
    <3>3. QED BY <3>1, <3>2, Zenon DEF Honest
  <2>4. QED BY <2>2, <2>3
<1>3. CASE ~d.half
  <2>1. Decode(d, b) = Begin(d, b)
    BY <1>3 DEF Decode
  <2>2. b = "nl" => b # "lead"
    OBVIOUS
  <2>3. QED BY <1>2, <1>3, <2>1, <2>2, Zenon
<1>4. CASE d.half /\ b = "cont"
  <2>1. Decode(d, b) = Emit(d, "rune")
    BY <1>4 DEF Decode
  <2>2. /\ Contains(d.text, "bad") => Contains(Emit(d, "rune").text, "bad")
        /\ Emit(d, "rune").bad => FALSE
    BY <1>1, EmitKeeps
  <2>3. b # "nl"
    BY <1>4
  <2>4. QED BY <1>4, <2>1, <2>2, <2>3, Zenon DEF Honest
<1>5. CASE d.half /\ b # "cont"
  <2> DEFINE x == Emit(d, "bad")
  <2>1. Decode(d, b) = Begin(x, b) /\ x \in DecState
    BY <1>1, <1>5, EmitType DEF Decode
  <2>2. Contains(x.text, "bad")
    BY <1>1, EmitKeeps DEF Honest
  <2> HIDE DEF x
  <2>3. Honest(x)
    BY <2>2 DEF Honest
  <2>4. b = "nl" => b # "lead"
    OBVIOUS
  <2>5. QED BY <1>2, <1>5, <2>1, <2>2, <2>3, <2>4, Zenon
<1>6. QED BY <1>3, <1>4, <1>5

LEMMA DecodedHonest ==
  ASSUME NEW a \in Seq(Byte)
  PROVE  Honest(Decoded(a))
<1> DEFINE P == {s \in Seq(Byte) : Honest(Decoded(s))}
<1>1. <<>> \in P
  <2>1. Honest(NoText) /\ <<>> \in Seq(Byte)
    BY NoTextType DEF Honest
  <2>2. Decoded(<<>>) = NoText
    BY DecodedSteps, Zenon
  <2>3. QED BY <2>1, <2>2
<1>2. ASSUME NEW s \in P, NEW x \in Byte PROVE Append(s, x) \in P
  <2>1. s \in Seq(Byte) /\ Honest(Decoded(s)) /\ Append(s, x) \in Seq(Byte)
    BY <1>2
  <2> HIDE DEF P
  <2>2. Decoded(Append(s, x)) = Decode(Decoded(s), x) /\ Decoded(s) \in DecState
    BY <2>1, DecodedSteps, Zenon
  <2>3. Honest(Decode(Decoded(s), x))
    BY <2>1, <2>2, DecodeKeeps
  <2>4. QED BY <2>1, <2>2, <2>3, Zenon DEF P
<1>3. P = Seq(Byte)
  <2> HIDE DEF P
  <2>1. P \in SUBSET Seq(Byte)
    BY DEF P
  <2>2. QED BY <1>1, <1>2, <2>1, AllSequences
<1>4. QED BY <1>3

LEMMA BadStays ==
  ASSUME NEW a \in Seq(Byte), NEW b \in Seq(Byte), HasBad(a)
  PROVE  HasBad(a \o b)
<1> DEFINE P == {s \in Seq(Byte) : HasBad(a \o s)}
<1>1. <<>> \in P
  <2>1. a \o <<>> = a /\ <<>> \in Seq(Byte)
    OBVIOUS
  <2>2. QED BY <2>1
<1>2. ASSUME NEW s \in P, NEW x \in Byte PROVE Append(s, x) \in P
  <2>1. s \in Seq(Byte) /\ HasBad(a \o s)
    BY <1>2
  <2> HIDE DEF P
  <2>2. a \o s \in Seq(Byte) /\ Append(s, x) \in Seq(Byte) /\ a \o Append(s, x) = Append(a \o s, x)
    BY <2>1
  <2>3. Decoded(a \o Append(s, x)) = Decode(Decoded(a \o s), x) /\ Decoded(a \o s) \in DecState
        /\ Honest(Decoded(a \o s))
    BY <2>2, DecodedSteps, DecodedHonest, Zenon
  <2>4. Contains(Decode(Decoded(a \o s), x).text, "bad")
    BY <2>1, <2>3, DecodeKeeps DEF HasBad
  <2>5. QED BY <2>2, <2>3, <2>4, Zenon DEF P, HasBad
<1>3. P = Seq(Byte)
  <2> HIDE DEF P
  <2>1. P \in SUBSET Seq(Byte)
    BY DEF P
  <2>2. QED BY <1>1, <1>2, <2>1, AllSequences
<1>4. QED BY <1>3

LEMMA ValidIs ==
  ASSUME NEW a \in Seq(Byte)
  PROVE  /\ ValidUTF8(a) <=> ~HasBad(a) /\ Decoded(a).half = FALSE
         /\ Decoded(a).half = FALSE => Text(a) = Decoded(a).text
         /\ Text(a) \in Seq(Rune)
<1> DEFINE d == Decoded(a)
<1>1. d \in DecState /\ Honest(d)
  BY DecodedSteps, DecodedHonest
<1>2. d.half \in BOOLEAN /\ d.text \in Seq(Rune)
  BY <1>1 DEF DecState
<1>3. "bad" \in Rune
  BY DEF Rune
<1>4. Text(a) = IF d.half THEN Emit(d, "bad").text ELSE d.text
  BY DEF Text
<1> HIDE DEF d
<1>5. Emit(d, "bad") \in DecState /\ Contains(Emit(d, "bad").text, "bad")
  BY <1>1, <1>3, EmitType, EmitKeeps DEF Honest
<1>6. Emit(d, "bad").text \in Seq(Rune)
  BY <1>5 DEF DecState
<1>7. CASE d.half = FALSE
  BY <1>2, <1>4, <1>7 DEF ValidUTF8, HasBad, d
<1>8. CASE d.half = TRUE
  BY <1>4, <1>5, <1>6, <1>8 DEF ValidUTF8, HasBad, d
<1>9. QED BY <1>2, <1>7, <1>8

LEMMA Least ==
  ASSUME NEW I \in SUBSET Nat, I # {}
  PROVE  \E m \in I : \A k \in I : m <= k
<1> DEFINE P == {n \in Nat : \A k \in I : n <= k}
<1>1. SUFFICES ASSUME ~ \E m \in I : \A k \in I : m <= k PROVE FALSE
  OBVIOUS
<1>2. 0 \in P
  OBVIOUS
<1>3. ASSUME NEW n \in P PROVE n + 1 \in P
  <2>1. n \in Nat /\ \A k \in I : n <= k
    OBVIOUS
  <2>2. n \notin I
    BY <1>1, <2>1, Zenon
  <2>3. \A k \in I : n + 1 <= k
    BY <2>1, <2>2
  <2>4. QED BY <2>1, <2>3
<1>4. P = Nat
  <2>1. P \in SUBSET Nat
    OBVIOUS
  <2> HIDE DEF P
  <2>2. QED BY <1>2, <1>3, <2>1, AllNumbers
<1>5. PICK k \in I : TRUE
  OBVIOUS
<1>6. k + 1 \in P
  <2> HIDE DEF P
  <2>1. k + 1 \in Nat
    BY <1>5
  <2>2. QED BY <1>4, <2>1, Zenon
<1>7. QED BY <1>5, <1>6

LEMMA Greatest ==
  ASSUME NEW N \in Nat, NEW I \in SUBSET (1..N), I # {}
  PROVE  \E m \in I : \A k \in I : k <= m
<1> DEFINE J == {N - k : k \in I}
<1>0. \A k \in I : k \in Nat /\ k <= N
  OBVIOUS
<1>1. J \in SUBSET Nat /\ J # {}
  <2>1. \A k \in I : N - k \in Nat
    BY <1>0
  <2>2. \A j \in J : j \in Nat
    BY <2>1
  <2>3. PICK k \in I : TRUE
    OBVIOUS
  <2>4. N - k \in J
    BY <2>3
  <2>5. QED BY <2>2, <2>4
<1>2. PICK j \in J : \A i \in J : j <= i
  <2> HIDE DEF J
  <2>1. QED BY <1>1, Least
<1>3. PICK m \in I : j = N - m
  OBVIOUS
<1>4. \A k \in I : N - m <= N - k
  BY <1>2, <1>3
<1>5. QED BY <1>0, <1>4

LEMMA FirstNewline ==
  ASSUME NEW b \in Seq(Byte)
  PROVE  LET n == SelectInSeq(b, LAMBDA c : c = "nl")
         IN  /\ n \in 0..Len(b)
             /\ n = 0 => ~Contains(b, "nl")
             /\ n # 0 => b[n] = "nl"
<1> DEFINE I == {i \in 1..Len(b) : b[i] = "nl"}
           n == SelectInSeq(b, LAMBDA c : c = "nl")
<1>0. Len(b) \in Nat
  OBVIOUS
<1>1. n = IF I # {} THEN Min(I) ELSE 0
  BY DEF SelectInSeq
<1>2. CASE I = {}
  <2>1. n = 0
    BY <1>1, <1>2
  <2>2. ~Contains(b, "nl")
    BY <1>2 DEF Contains
  <2>3. QED BY <1>0, <2>1, <2>2
<1>3. CASE I # {}
  <2>1. I \in SUBSET Nat
    OBVIOUS
  <2>2. n = CHOOSE x \in I : \A y \in I : x =< y
    BY <1>1, <1>3 DEF Min
  <2>3. \A x \in I : x \in 1..Len(b) /\ b[x] = "nl"
    OBVIOUS
  <2> HIDE DEF I, n
  <2>4. \E x \in I : \A y \in I : x <= y
    BY <1>3, <2>1, Least
  <2>5. n \in I
    BY <2>2, <2>4
  <2>6. n \in 1..Len(b) /\ b[n] = "nl"
    BY <2>3, <2>5
  <2>7. n \in 0..Len(b) /\ n # 0
    BY <1>0, <2>6
  <2>8. QED BY <2>6, <2>7 DEF n
<1>4. QED BY <1>2, <1>3

\* A prefix that can be read on its own, or holds an invalid byte.
Whole(bytes) == HasBad(bytes) \/ Decoded(bytes).half = FALSE

LEMMA WholeByte ==
  ASSUME NEW s \in Seq(Byte), NEW b \in Byte
  PROVE  /\ Append(s, b) \in Seq(Byte)
         /\ b = "nl" => Whole(Append(s, b))
         /\ Decoded(s).half = TRUE => Whole(Append(s, b))
         /\ HasBad(s) => HasBad(Append(s, b))
<1> DEFINE d == Decoded(s)
<1>1. d \in DecState /\ Honest(d) /\ Decoded(Append(s, b)) = Decode(d, b)
  BY DecodedSteps, DecodedHonest
<1> HIDE DEF d
<1>2. /\ Contains(d.text, "bad") => Contains(Decode(d, b).text, "bad")
      /\ b = "nl" => Decode(d, b).half = FALSE
      /\ d.half /\ b # "cont" => Contains(Decode(d, b).text, "bad")
  BY <1>1, DecodeKeeps
<1>3. d.half = TRUE /\ b = "cont" => Decode(d, b).half = FALSE
  <2>1. "rune" \in Rune
    BY DEF Rune
  <2>2. Emit(d, "rune").half = FALSE
    BY <1>1, <2>1, EmitKeeps
  <2>3. QED BY <2>2, Zenon DEF Decode
<1>4. Append(s, b) \in Seq(Byte)
  OBVIOUS
<1>5. Whole(Append(s, b)) <=> Contains(Decode(d, b).text, "bad") \/ Decode(d, b).half = FALSE
  BY <1>1 DEF Whole, HasBad
<1>6. HasBad(s) <=> Contains(d.text, "bad")
  BY DEF HasBad, d
<1>7. HasBad(Append(s, b)) <=> Contains(Decode(d, b).text, "bad")
  BY <1>1 DEF HasBad
<1>8. d = Decoded(s)
  BY Zenon DEF d
<1>9. QED BY <1>2, <1>3, <1>4, <1>5, <1>6, <1>7, <1>8, Zenon

LEMMA PrefixIs ==
  ASSUME NEW b \in Seq(Byte), NEW m \in 1..Len(b)
  PROVE  /\ SubSeq(b, 1, m) \in Seq(Byte) /\ SubSeq(b, m + 1, Len(b)) \in Seq(Byte)
         /\ SubSeq(b, 1, m) \o SubSeq(b, m + 1, Len(b)) = b
         /\ SubSeq(b, 1, m - 1) \in Seq(Byte)
         /\ SubSeq(b, 1, m) = Append(SubSeq(b, 1, m - 1), b[m])
         /\ Len(SubSeq(b, 1, m)) = m
         /\ \A k \in 1..m : SubSeq(b, 1, m) = SubSeq(b, 1, k) \o SubSeq(b, k + 1, m)
                            /\ SubSeq(b, k + 1, m) \in Seq(Byte)
<1>1. /\ Len(b) \in Nat /\ m \in Int /\ 1 \in 1..Len(b) + 1 /\ m \in 1 - 1..Len(b) /\ Len(b) \in m..Len(b)
      /\ \A i \in 1..Len(b) : b[i] \in Byte
  OBVIOUS
<1>2. SubSeq(b, 1, m) \in Seq(Byte) /\ SubSeq(b, m + 1, Len(b)) \in Seq(Byte) /\ SubSeq(b, 1, m - 1) \in Seq(Byte)
  BY <1>1
<1>3. SubSeq(b, 1, m) \o SubSeq(b, m + 1, Len(b)) = SubSeq(b, 1, Len(b))
  BY <1>1, ConcatAdjacentSubSeq
<1>4. SubSeq(b, 1, Len(b)) = b
  BY SubSeqFull
<1>5. SubSeq(b, 1, m) = Append(SubSeq(b, 1, m - 1), b[m])
  BY <1>1
<1>6. Len(SubSeq(b, 1, m)) = m
  BY <1>1
<1>7. ASSUME NEW k \in 1..m
      PROVE  SubSeq(b, 1, m) = SubSeq(b, 1, k) \o SubSeq(b, k + 1, m) /\ SubSeq(b, k + 1, m) \in Seq(Byte)
  <2>1. k \in 1 - 1..Len(b) /\ m \in k..Len(b)
    BY <1>1
  <2>2. SubSeq(b, 1, m) = SubSeq(b, 1, k) \o SubSeq(b, k + 1, m)
    BY <1>1, <2>1, ConcatAdjacentSubSeq
  <2>3. SubSeq(b, k + 1, m) \in Seq(Byte)
    BY <1>1
  <2>4. QED BY <2>2, <2>3
<1>8. QED BY <1>2, <1>3, <1>4, <1>5, <1>6, <1>7

\* Where the writer cuts: behind a line, between two runes, or behind bytes
\* that are no UTF-8; only the last flush may cut a rune short, at the end.
LEMMA CutIsSafe ==
  ASSUME NEW b \in Seq(Byte), NEW force \in BOOLEAN
  PROVE  /\ nextFlushLen(b, force) \in 0..Len(b)
         /\ nextFlushLen(b, force) = 0 => b = <<>> \/ (Len(b) < Limit /\ ~force /\ ~Contains(b, "nl"))
         /\ nextFlushLen(b, force) # 0 => \/ Whole(SubSeq(b, 1, nextFlushLen(b, force)))
                                          \/ force /\ nextFlushLen(b, force) = Len(b)
<1> DEFINE nl == SelectInSeq(b, LAMBDA c : c = "nl")
           M == Shorter(Len(b), Limit)
           whole == {n \in 1..M : ValidUTF8(SubSeq(b, 1, n))}
           n == nextFlushLen(b, force)
<1>1. Len(b) \in Nat /\ nl \in 0..Len(b) /\ (nl = 0 => ~Contains(b, "nl")) /\ (nl # 0 => b[nl] = "nl")
  BY FirstNewline
<1>2. n = IF nl \in 1..Limit THEN nl
          ELSE IF b = <<>> \/ (Len(b) < Limit /\ ~force) THEN 0
          ELSE validUTF8PrefixLen(b, M, force)
  BY DEF nextFlushLen
<1>3. validUTF8PrefixLen(b, M, force) =
        IF whole # {} THEN CHOOSE k \in whole : \A m \in whole : m <= k
        ELSE IF force \/ Len(b) >= Limit THEN M ELSE 0
  BY DEF validUTF8PrefixLen
<1>4. M \in Nat /\ M <= Len(b) /\ M <= Limit /\ (M = Len(b) \/ M = Limit) /\ Limit \in Nat /\ Limit >= 3
  BY <1>1, LimitAssumption DEF Shorter
<1>5. ASSUME NEW m \in 1..Len(b) PROVE m \in 0..Len(b) /\ m # 0
  BY <1>1
<1> HIDE DEF nl, M, n
<1>6. CASE nl \in 1..Limit
  <2>1. n = nl
    BY <1>2, <1>6
  <2>2. nl \in 1..Len(b) /\ b[nl] = "nl"
    BY <1>1, <1>4, <1>6
  <2>3. SubSeq(b, 1, nl - 1) \in Seq(Byte) /\ SubSeq(b, 1, nl) = Append(SubSeq(b, 1, nl - 1), b[nl])
    BY <2>2, PrefixIs
  <2>4. "nl" \in Byte
    BY DEF Byte
  <2>5. Whole(SubSeq(b, 1, nl))
    BY <2>2, <2>3, <2>4, WholeByte
  <2>6. QED BY <1>5, <2>1, <2>2, <2>5, Zenon DEF n
<1>7. CASE nl \notin 1..Limit /\ (b = <<>> \/ (Len(b) < Limit /\ ~force))
  <2>1. n = 0
    BY <1>2, <1>7
  <2>2. Len(b) < Limit => nl = 0
    BY <1>1, <1>4, <1>7
  <2>3. 0 \in 0..Len(b)
    BY <1>1
  <2>4. QED BY <1>1, <1>7, <2>1, <2>2, <2>3 DEF n
<1>8. CASE nl \notin 1..Limit /\ ~(b = <<>> \/ (Len(b) < Limit /\ ~force))
  <2>1. n = validUTF8PrefixLen(b, M, force)
    BY <1>2, <1>8
  <2>2. Len(b) # 0
    BY <1>8, EmptySeq
  <2>3. M \in 1..Len(b)
    BY <1>1, <1>4, <2>2
  <2>4. CASE whole # {}
    <3>1. \A k \in whole : k \in 1..M /\ ValidUTF8(SubSeq(b, 1, k))
      OBVIOUS
    <3>2. whole \in SUBSET (1..M)
      OBVIOUS
    <3>3. n = CHOOSE k \in whole : \A m \in whole : m <= k
      BY <1>3, <2>1, <2>4
    <3> HIDE DEF whole
    <3>4. \E k \in whole : \A m \in whole : m <= k
      BY <1>4, <2>4, <3>2, Greatest
    <3>5. n \in whole
      BY <3>3, <3>4
    <3>6. n \in 1..M /\ ValidUTF8(SubSeq(b, 1, n))
      BY <3>1, <3>5
    <3>7. n \in 1..Len(b)
      BY <1>1, <1>4, <3>6
    <3>8. Whole(SubSeq(b, 1, n))
      BY <3>6, <3>7, PrefixIs, ValidIs DEF Whole
    <3>9. QED BY <1>5, <3>7, <3>8, Zenon DEF n
  <2>5. CASE whole = {}
    <3>1. n = M
      BY <1>1, <1>3, <1>4, <1>8, <2>1, <2>5
    <3>2. ASSUME NEW k \in 1..M PROVE HasBad(SubSeq(b, 1, k)) \/ Decoded(SubSeq(b, 1, k)).half = TRUE
      <4>1. ~ValidUTF8(SubSeq(b, 1, k))
        BY <2>5, <3>2
      <4>2. k \in 1..Len(b)
        BY <1>1, <1>4, <3>2
      <4>3. SubSeq(b, 1, k) \in Seq(Byte)
        BY <4>2, PrefixIs
      <4>4. Decoded(SubSeq(b, 1, k)).half \in BOOLEAN
        BY <4>3, DecodedSteps DEF DecState
      <4>5. QED BY <4>1, <4>3, <4>4, ValidIs
    <3> HIDE DEF whole
    <3>3. ASSUME NEW k \in 1..M, HasBad(SubSeq(b, 1, k)) PROVE Whole(SubSeq(b, 1, M))
      <4>1. k \in 1..Len(b)
        BY <1>1, <1>4, <3>3
      <4>2. SubSeq(b, 1, k) \in Seq(Byte)
        BY <4>1, PrefixIs
      <4>3. SubSeq(b, 1, M) = SubSeq(b, 1, k) \o SubSeq(b, k + 1, M) /\ SubSeq(b, k + 1, M) \in Seq(Byte)
        BY <2>3, PrefixIs
      <4>4. HasBad(SubSeq(b, 1, k) \o SubSeq(b, k + 1, M))
        BY <3>3, <4>2, <4>3, BadStays
      <4>5. QED BY <4>3, <4>4, Zenon DEF Whole
    <3>4. 1 \in 1..M /\ 1 \in 1..Len(b)
      BY <1>1, <2>3
    <3>5. CASE M = 1
      <4> DEFINE l == Len(b)
      <4>0. l \in Nat /\ (M = l \/ M = Limit) /\ Limit \in Nat /\ Limit >= 3
        BY <1>1, <1>4, Zenon
      <4> HIDE DEF l
      <4>1. M = l /\ l < Limit
        BY <3>5, <4>0
      <4>2. M = Len(b) /\ force
        BY <1>8, <4>1, Zenon DEF l
      <4>3. QED BY <1>5, <2>3, <3>1, <4>2 DEF n
    <3>6. CASE M # 1
      <4>1. 2 \in 1..M /\ 2 \in 1..Len(b) /\ 2 - 1 = 1 /\ b[2] \in Byte
        BY <1>1, <1>4, <2>3, <3>6
      <4>2. SubSeq(b, 1, 1) \in Seq(Byte)
        BY <3>4, PrefixIs
      <4>3. SubSeq(b, 1, 2) = Append(SubSeq(b, 1, 2 - 1), b[2])
        BY <4>1, PrefixIs
      <4>4. SubSeq(b, 1, 2) = Append(SubSeq(b, 1, 1), b[2])
        BY <4>1, <4>3
      <4>5. HasBad(SubSeq(b, 1, 1)) \/ Whole(SubSeq(b, 1, 2))
        BY <3>2, <3>4, <4>1, <4>2, <4>4, WholeByte
      <4>6. HasBad(SubSeq(b, 1, 2)) \/ Decoded(SubSeq(b, 1, 2)).half = TRUE
        BY <3>2, <4>1
      <4>7. HasBad(SubSeq(b, 1, 1)) \/ HasBad(SubSeq(b, 1, 2))
        BY <4>5, <4>6 DEF Whole
      <4>8. Whole(SubSeq(b, 1, M))
        BY <3>3, <3>4, <4>1, <4>7
      <4>9. QED BY <1>5, <2>3, <3>1, <4>8, Zenon DEF n
    <3>7. QED BY <3>5, <3>6
  <2>6. QED BY <2>4, <2>5
<1>9. QED BY <1>6, <1>7, <1>8, Zenon

\* What an insert adds to the rows is what the decoder reads next.
LEMMA InsertTells ==
  ASSUME NEW a \in Seq(Byte), NEW piece \in Seq(Byte), NEW rows \in Chunks,
         Decoded(a).half = FALSE, ~HasBad(a), FlattenSeq(rows) = Decoded(a).text
  PROVE  /\ HasBad(piece) => HasBad(a \o piece)
         /\ Decoded(a \o piece).half = Decoded(piece).half
         /\ Decoded(piece).half = FALSE =>
              FlattenSeq(rows \o SplitArchiveLogChunks(Text(piece))) = Decoded(a \o piece).text
<1>1. Decoded(a) \in DecState /\ Decoded(piece) \in DecState /\ Honest(Decoded(a))
  BY DecodedSteps, DecodedHonest
<1>2. Decoded(a).bad = FALSE
  BY <1>1 DEF Honest, HasBad, DecState
<1>3. GoesOn(Decoded(a \o piece), Decoded(piece), Decoded(a))
  BY <1>2, DecodedOn
<1>4. /\ Decoded(a \o piece).text = Decoded(a).text \o Decoded(piece).text
      /\ Decoded(a \o piece).half = Decoded(piece).half
  <2> DEFINE t == Decoded(a).text \o Decoded(piece).text
             h == Decoded(piece).half
             m == Decoded(piece).bad
  <2>1. Decoded(a \o piece) = [text |-> t, half |-> h, bad |-> m]
    BY <1>3 DEF GoesOn
  <2> HIDE DEF t, h, m
  <2>2. Decoded(a \o piece).text = t /\ Decoded(a \o piece).half = h
    BY <2>1
  <2>3. QED BY <2>2 DEF t, h
<1>5. Decoded(a).text \in Seq(Rune) /\ Decoded(piece).text \in Seq(Rune)
  BY <1>1 DEF DecState
<1>6. HasBad(piece) => HasBad(a \o piece)
  <2> DEFINE s == Decoded(a).text
             t == Decoded(piece).text
  <2>1. s \in Seq(Rune) /\ t \in Seq(Rune)
    BY <1>5
  <2> HIDE DEF s, t
  <2>2. \A i \in 1..Len(t) : Len(s) + i \in 1..Len(s \o t) /\ (s \o t)[Len(s) + i] = t[i]
    BY <2>1
  <2>3. Contains(t, "bad") => Contains(s \o t, "bad")
    BY <2>2, Zenon DEF Contains
  <2>4. QED BY <1>4, <2>3 DEF HasBad, s, t
<1>7. ASSUME Decoded(piece).half = FALSE
      PROVE  FlattenSeq(rows \o SplitArchiveLogChunks(Text(piece))) = Decoded(a \o piece).text
  <2>1. Text(piece) = Decoded(piece).text /\ Text(piece) \in Seq(Rune)
    BY <1>7, ValidIs
  <2>2. SplitArchiveLogChunks(Text(piece)) \in Chunks /\ FlattenSeq(SplitArchiveLogChunks(Text(piece))) = Text(piece)
    BY <2>1, SplitIsText
  <2>3. rows \in Seq(Seq(Rune)) /\ SplitArchiveLogChunks(Text(piece)) \in Seq(Seq(Rune))
    BY <2>2, ChunksAreSequences
  <2>4. FlattenSeq(rows \o SplitArchiveLogChunks(Text(piece)))
          = FlattenSeq(rows) \o FlattenSeq(SplitArchiveLogChunks(Text(piece)))
    BY <2>3, FlattenConcat
  <2>5. QED BY <1>4, <2>1, <2>2, <2>4, Zenon
<1>8. QED BY <1>4, <1>6, <1>7

LEMMA InsertFits ==
  ASSUME NEW piece \in Seq(Byte), NEW rows \in Chunks, Fit(rows)
  PROVE  /\ rows \o SplitArchiveLogChunks(Text(piece)) \in Chunks
         /\ Fit(rows \o SplitArchiveLogChunks(Text(piece)))
<1>1. Text(piece) \in Seq(Rune)
  BY ValidIs
<1>2. SplitArchiveLogChunks(Text(piece)) \in Chunks /\ Fit(SplitArchiveLogChunks(Text(piece)))
  BY <1>1, SplitIsText, SplitFits
<1>3. QED BY <1>2, FitConcat

---------------------------------------------------------------------------
(* The invariant of the writer *)

Phase == {"idle", "writing", "flushing", "done"}
LogTypes ==
  /\ said \in Seq(Byte) /\ buffer \in Seq(Byte) /\ chunks \in Chunks
  /\ logPc \in Phase /\ stuck \in BOOLEAN /\ unsure \in BOOLEAN

\* The output is what went into rows and what is in the buffer. The rows hold
\* the first part rune for rune, unless it has an invalid byte, or ends in the
\* middle of a rune, which only the last flush brings about.
AsWritten(a) ==
  /\ said = a \o buffer
  /\ \/ HasBad(a)
     \/ Decoded(a).half = FALSE /\ FlattenSeq(chunks) = Decoded(a).text
     \/ Decoded(a).half = TRUE /\ buffer = <<>> /\ logPc \in {"flushing", "done"}
RowsTell == ~unsure => \E a \in Seq(Byte) : AsWritten(a)

LogInv == LogTypes /\ Fit(chunks) /\ RowsTell /\ LogIsLive

LEMMA DueIs ==
  ASSUME LogTypes
  PROVE  /\ Due \in 0..Len(buffer)
         /\ Due = 0 => buffer = <<>> \/ (Len(buffer) < Limit /\ logPc # "flushing" /\ ~Contains(buffer, "nl"))
         /\ Due # 0 => \/ Whole(SubSeq(buffer, 1, Due))
                       \/ logPc = "flushing" /\ Due = Len(buffer)
<1>1. buffer \in Seq(Byte) /\ (logPc = "flushing") \in BOOLEAN
  BY DEF LogTypes
<1>2. QED BY <1>1, CutIsSafe DEF Due

LEMMA LogInitHolds == LogInit => LogInv
<1> SUFFICES ASSUME LogInit PROVE LogInv
  OBVIOUS
<1>1. said = <<>> /\ buffer = <<>> /\ chunks = <<>> /\ logPc = "idle" /\ stuck = FALSE /\ unsure = FALSE
  BY DEF LogInit
<1>2. <<>> \in Chunks /\ Fit(<<>>)
  BY DEF Chunks, Fit
<1>3. LogTypes
  <2>1. "idle" \in Phase
    BY DEF Phase
  <2>2. <<>> \in Seq(Byte)
    OBVIOUS
  <2>3. QED BY <1>1, <1>2, <2>1, <2>2 DEF LogTypes
<1>4. RowsTell
  <2>1. Decoded(<<>>) = NoText /\ NoText.half = FALSE /\ NoText.text = <<>>
    BY DecodedSteps, NoTextType, Zenon
  <2>2. FlattenSeq(<<>>) = <<>>
    BY FlattenSteps, Zenon
  <2>3. <<>> \in Seq(Byte) /\ <<>> = <<>> \o <<>>
    OBVIOUS
  <2>4. AsWritten(<<>>)
    BY <1>1, <2>1, <2>2, <2>3, Zenon DEF AsWritten
  <2>5. QED BY <2>3, <2>4 DEF RowsTell
<1>5. LogIsLive
  <2>1. Len(buffer) = 0 /\ ~Contains(buffer, "nl")
    BY <1>1 DEF Contains
  <2>2. QED BY <1>1, <2>1, LimitAssumption DEF LogIsLive
<1>6. QED BY <1>1, <1>2, <1>3, <1>4, <1>5, Zenon DEF LogInv

\* Three pieces of output may be joined in either order.
LEMMA JoinBytes == \A a, b, c \in Seq(Byte) : (a \o b) \o c = a \o (b \o c)
BY ConcatAssociative

LEMMA WriteLogStep == ASSUME LogInv, NEW p \in Output, WriteLog(p) PROVE LogInv'
<1>1. LogTypes /\ Fit(chunks) /\ RowsTell
  BY DEF LogInv
<1>2. p \in Seq(Byte)
  BY OutputAssumption
<1>3. /\ logPc = "idle" /\ said' = said \o p /\ buffer' = buffer \o p
      /\ logPc' = "writing" /\ stuck' = FALSE /\ chunks' = chunks /\ unsure' = unsure
  BY DEF WriteLog
<1>4. said \in Seq(Byte) /\ buffer \in Seq(Byte) /\ chunks \in Chunks /\ unsure \in BOOLEAN
  BY <1>1 DEF LogTypes
<1>5. LogTypes'
  <2>1. said' \in Seq(Byte) /\ buffer' \in Seq(Byte)
    BY <1>2, <1>3, <1>4
  <2>2. logPc' \in Phase
    BY <1>3 DEF Phase
  <2>3. QED BY <1>3, <1>4, <2>1, <2>2 DEF LogTypes
<1>6. RowsTell'
  <2>1. ASSUME NEW a \in Seq(Byte), AsWritten(a) PROVE AsWritten(a)'
    <3>1. said = a \o buffer /\ (HasBad(a) \/ (Decoded(a).half = FALSE /\ FlattenSeq(chunks) = Decoded(a).text))
      <4>1. logPc \notin {"flushing", "done"}
        BY <1>3
      <4>2. QED BY <2>1, <4>1, Zenon DEF AsWritten
    <3>2. said' = a \o buffer'
      <4>1. (a \o buffer) \o p = a \o (buffer \o p)
        BY <1>2, <1>4, JoinBytes, Zenon
      <4>2. QED BY <1>3, <3>1, <4>1, Zenon
    <3>3. QED BY <1>3, <3>1, <3>2, Zenon DEF AsWritten
  <2>2. QED BY <1>1, <1>3, <2>1 DEF RowsTell
<1>7. LogIsLive'
  BY <1>3 DEF LogIsLive
<1>8. QED BY <1>1, <1>3, <1>5, <1>6, <1>7 DEF LogInv

\* The rows and the buffer after the rows of the prefix were inserted.
LEMMA PrefixMoves ==
  ASSUME LogTypes, Fit(chunks), RowsTell, Due > 0,
         chunks' = chunks \o SplitArchiveLogChunks(Text(SubSeq(buffer, 1, Due)))
  PROVE  /\ chunks' \in Chunks /\ Fit(chunks')
         /\ SubSeq(buffer, Due + 1, Len(buffer)) \in Seq(Byte)
         /\ said' = said /\ logPc' = logPc /\ unsure' = unsure
            /\ buffer' = SubSeq(buffer, Due + 1, Len(buffer)) => RowsTell'
<1> DEFINE piece == SubSeq(buffer, 1, Due)
           rest == SubSeq(buffer, Due + 1, Len(buffer))
<1>1. said \in Seq(Byte) /\ buffer \in Seq(Byte) /\ chunks \in Chunks /\ unsure \in BOOLEAN
  BY DEF LogTypes
<1>2. /\ Due \in 0..Len(buffer) /\ Due # 0
      /\ \/ Whole(piece)
         \/ logPc = "flushing" /\ Due = Len(buffer)
  BY DueIs
<1>3. Len(buffer) \in Nat
  BY <1>1
<1>4. Due \in 1..Len(buffer)
  BY <1>2, <1>3
<1>5. piece \in Seq(Byte) /\ rest \in Seq(Byte) /\ piece \o rest = buffer
  BY <1>1, <1>4, PrefixIs
<1>6. Due = Len(buffer) => rest = <<>>
  <2>1. Due = Len(buffer) => Due + 1 > Len(buffer) /\ Due + 1 \in Int /\ Len(buffer) \in Int
    BY <1>3
  <2>2. QED BY <2>1, SubSeqEmpty
<1> HIDE DEF piece, rest
<1>7. PICK p \in Seq(Byte) : p = piece
  BY <1>5
<1>8. chunks' = chunks \o SplitArchiveLogChunks(Text(p))
  BY <1>7 DEF piece
<1>9. chunks' \in Chunks /\ Fit(chunks')
  BY <1>1, <1>8, InsertFits
<1>10. ASSUME said' = said, logPc' = logPc, unsure' = unsure, buffer' = rest PROVE RowsTell'
  <2>1. ASSUME NEW a \in Seq(Byte), AsWritten(a) PROVE AsWritten(a \o p)'
    <3>1. said = a \o buffer
      BY <2>1 DEF AsWritten
    <3>2. said' = (a \o p) \o buffer'
      <4>1. (a \o p) \o rest = a \o (p \o rest)
        BY <1>5, JoinBytes, Zenon
      <4>2. QED BY <1>5, <1>7, <1>10, <3>1, <4>1, Zenon
    <3>3. CASE HasBad(a)
      <4>1. HasBad(a \o p)
        BY <3>3, BadStays
      <4>2. QED BY <3>2, <4>1, Zenon DEF AsWritten
    <3>4. CASE ~HasBad(a) /\ Decoded(a).half = FALSE /\ FlattenSeq(chunks) = Decoded(a).text
      <4>1. /\ HasBad(p) => HasBad(a \o p)
            /\ Decoded(a \o p).half = Decoded(p).half
            /\ Decoded(p).half = FALSE =>
                 FlattenSeq(chunks \o SplitArchiveLogChunks(Text(p))) = Decoded(a \o p).text
        BY <1>1, <3>4, InsertTells
      <4>2. CASE HasBad(p)
        BY <3>2, <4>1, <4>2, Zenon DEF AsWritten
      <4>3. CASE Decoded(p).half = FALSE
        BY <1>8, <3>2, <4>1, <4>3, Zenon DEF AsWritten
      <4>4. CASE Decoded(p).half # FALSE /\ logPc = "flushing" /\ Due = Len(buffer)
        <5>1. Decoded(p).half = TRUE
          BY <4>4, DecodedSteps DEF DecState
        <5>2. buffer' = <<>>
          BY <1>6, <1>10, <4>4
        <5>3. logPc' \in {"flushing", "done"}
          BY <1>10, <4>4
        <5>4. QED BY <3>2, <4>1, <5>1, <5>2, <5>3, Zenon DEF AsWritten
      <4>5. QED BY <1>2, <1>7, <4>2, <4>3, <4>4, Zenon DEF Whole
    <3>5. CASE buffer = <<>>
      <4>1. Len(buffer) = 0
        BY <3>5
      <4>2. QED BY <1>2, <1>4, <4>1
    <3>6. QED BY <2>1, <3>3, <3>4, <3>5, Zenon DEF AsWritten
  <2>2. \A a \in Seq(Byte) : a \o p \in Seq(Byte)
    OBVIOUS
  <2>3. QED BY <1>10, <2>1, <2>2, Zenon DEF RowsTell
<1>11. QED BY <1>5, <1>9, <1>10 DEF rest

LEMMA InsertPrefixStep == ASSUME LogInv, InsertPrefix PROVE LogInv'
<1>1. LogTypes /\ Fit(chunks) /\ RowsTell
  BY DEF LogInv
<1>2. /\ logPc \in {"writing", "flushing"} /\ Due > 0
      /\ chunks' = chunks \o SplitArchiveLogChunks(Text(SubSeq(buffer, 1, Due)))
      /\ buffer' = SubSeq(buffer, Due + 1, Len(buffer))
      /\ said' = said /\ logPc' = logPc /\ stuck' = stuck /\ unsure' = unsure
  BY DEF InsertPrefix
<1>3. chunks' \in Chunks /\ Fit(chunks') /\ buffer' \in Seq(Byte) /\ RowsTell'
  BY <1>1, <1>2, PrefixMoves
<1>4. LogTypes'
  BY <1>1, <1>2, <1>3 DEF LogTypes
<1>5. LogIsLive'
  <2>1. logPc' # "idle" /\ logPc' # "done"
    BY <1>2
  <2>2. QED BY <2>1 DEF LogIsLive
<1>6. QED BY <1>3, <1>4, <1>5 DEF LogInv

LEMMA InsertFailsStep == ASSUME LogInv, InsertFails PROVE LogInv'
<1>1. LogTypes /\ Fit(chunks) /\ RowsTell
  BY DEF LogInv
<1>2. /\ logPc \in {"writing", "flushing"} /\ Due > 0
      /\ logPc' = IF logPc = "writing" THEN "idle" ELSE "done"
      /\ stuck' = TRUE /\ said' = said /\ buffer' = buffer
      /\ \/ chunks' = chunks /\ unsure' = unsure
         \/ chunks' = chunks \o SplitArchiveLogChunks(Text(SubSeq(buffer, 1, Due))) /\ unsure' = TRUE
  BY DEF InsertFails
<1>3. said \in Seq(Byte) /\ buffer \in Seq(Byte) /\ chunks \in Chunks /\ unsure \in BOOLEAN
  BY <1>1 DEF LogTypes
<1>4. chunks' \in Chunks /\ Fit(chunks')
  BY <1>1, <1>2, <1>3, PrefixMoves
<1>5. logPc' \in {"idle", "done"} /\ (logPc = "flushing" => logPc' = "done") /\ unsure' \in BOOLEAN
  BY <1>2, <1>3
<1>6. LogTypes'
  <2>1. logPc' \in Phase
    BY <1>5 DEF Phase
  <2>2. QED BY <1>2, <1>3, <1>4, <1>5, <2>1 DEF LogTypes
<1>7. RowsTell'
  <2>1. CASE unsure' = TRUE
    BY <2>1 DEF RowsTell
  <2>2. CASE chunks' = chunks /\ unsure' = unsure
    <3>1. logPc \in {"flushing", "done"} => logPc' \in {"flushing", "done"}
      BY <1>2, <1>5
    <3>2. ASSUME NEW a \in Seq(Byte), AsWritten(a) PROVE AsWritten(a)'
      BY <1>2, <2>2, <3>1, <3>2, Zenon DEF AsWritten
    <3>3. QED BY <1>1, <2>2, <3>2, Zenon DEF RowsTell
  <2>3. QED BY <1>2, <2>1, <2>2
<1>8. LogIsLive'
  BY <1>2 DEF LogIsLive
<1>9. QED BY <1>4, <1>6, <1>7, <1>8 DEF LogInv

LEMMA LoopEndsStep == ASSUME LogInv, LoopEnds PROVE LogInv'
<1>1. LogTypes /\ Fit(chunks) /\ RowsTell
  BY DEF LogInv
<1>2. /\ logPc \in {"writing", "flushing"} /\ Due = 0
      /\ logPc' = IF logPc = "writing" THEN "idle" ELSE "done"
      /\ said' = said /\ buffer' = buffer /\ chunks' = chunks /\ stuck' = stuck /\ unsure' = unsure
  BY DEF LoopEnds
<1>3. buffer = <<>> \/ (Len(buffer) < Limit /\ logPc # "flushing" /\ ~Contains(buffer, "nl"))
  BY <1>1, <1>2, DueIs
<1>4. logPc' \in {"idle", "done"} /\ (logPc = "flushing" => logPc' = "done") /\ (logPc' = "done" => logPc = "flushing")
  BY <1>2
<1>5. LogTypes'
  <2>1. logPc' \in Phase
    BY <1>4 DEF Phase
  <2>2. QED BY <1>1, <1>2, <2>1 DEF LogTypes
<1>6. RowsTell'
  <2>1. logPc \in {"flushing", "done"} => logPc' \in {"flushing", "done"}
    BY <1>2, <1>4
  <2>2. ASSUME NEW a \in Seq(Byte), AsWritten(a) PROVE AsWritten(a)'
    BY <1>2, <2>1, <2>2, Zenon DEF AsWritten
  <2>3. QED BY <1>1, <1>2, <2>2, Zenon DEF RowsTell
<1>7. LogIsLive'
  <2>1. buffer = <<>> => Len(buffer) < Limit /\ ~Contains(buffer, "nl")
    BY LimitAssumption DEF Contains
  <2>2. (Len(buffer) < Limit /\ ~Contains(buffer, "nl")) \/ logPc = "flushing"
    BY <1>3, <2>1, Zenon
  <2>3. logPc' = "done" => buffer = <<>>
    BY <1>3, <1>4
  <2>4. logPc' = "idle" => Len(buffer) < Limit /\ ~Contains(buffer, "nl")
    <3>1. logPc' = "idle" => logPc # "flushing"
      BY <1>4
    <3>2. QED BY <1>3, <2>1, <3>1, Zenon
  <2>5. QED BY <1>2, <2>3, <2>4, Zenon DEF LogIsLive
<1>8. QED BY <1>1, <1>2, <1>5, <1>6, <1>7 DEF LogInv

LEMMA LogStep == LogInv /\ [LogNext]_logVars => LogInv'
<1> SUFFICES ASSUME LogInv, [LogNext]_logVars PROVE LogInv'
  OBVIOUS
<1>1. ASSUME NEW p \in Output, WriteLog(p) PROVE LogInv'
  BY <1>1, WriteLogStep
<1>2. CASE FlushLog
  <2>1. LogTypes /\ Fit(chunks) /\ RowsTell
    BY DEF LogInv
  <2>2. /\ logPc = "idle" /\ logPc' = "flushing" /\ stuck' = FALSE
        /\ said' = said /\ buffer' = buffer /\ chunks' = chunks /\ unsure' = unsure
    BY <1>2 DEF FlushLog
  <2>3. LogTypes'
    BY <2>1, <2>2 DEF LogTypes, Phase
  <2>4. ASSUME NEW a \in Seq(Byte), AsWritten(a) PROVE AsWritten(a)'
    <3>1. logPc \notin {"flushing", "done"}
      BY <2>2
    <3>2. QED BY <2>2, <2>4, <3>1, Zenon DEF AsWritten
  <2>5. RowsTell'
    BY <2>1, <2>2, <2>4, Zenon DEF RowsTell
  <2>6. LogIsLive'
    BY <2>2 DEF LogIsLive
  <2>7. QED BY <2>1, <2>2, <2>3, <2>5, <2>6 DEF LogInv
<1>3. CASE InsertPrefix
  BY <1>3, InsertPrefixStep
<1>4. CASE InsertFails
  BY <1>4, InsertFailsStep
<1>5. CASE LoopEnds
  BY <1>5, LoopEndsStep
<1>6. CASE UNCHANGED logVars
  <2>1. said' = said /\ buffer' = buffer /\ chunks' = chunks /\ logPc' = logPc /\ stuck' = stuck /\ unsure' = unsure
    BY <1>6 DEF logVars
  <2>2. LogTypes /\ Fit(chunks) /\ RowsTell /\ LogIsLive
    BY DEF LogInv
  <2>3. LogTypes' /\ Fit(chunks')
    BY <2>1, <2>2, Zenon DEF LogTypes
  <2>4. RowsTell'
    BY <2>1, <2>2, Zenon DEF RowsTell, AsWritten
  <2>5. LogIsLive'
    BY <2>1, <2>2, Zenon DEF LogIsLive
  <2>6. QED BY <2>3, <2>4, <2>5 DEF LogInv
<1>7. QED BY <1>1, <1>2, <1>3, <1>4, <1>5, <1>6 DEF LogNext

LEMMA LogInvKeeps == LogInv => LogIsKept
<1> SUFFICES ASSUME LogInv PROVE LogIsKept
  OBVIOUS
<1>1. LogTypes /\ Fit(chunks) /\ RowsTell /\ LogIsLive
  BY DEF LogInv
<1>2. buffer \in Seq(Byte) /\ chunks \in Chunks
  BY <1>1 DEF LogTypes
<1>3. LogIsExact
  <2>1. SUFFICES ASSUME ~unsure
                 PROVE  \E n \in 0..Len(said) :
                          /\ buffer = SubSeq(said, n + 1, Len(said))
                          /\ ValidUTF8(SubSeq(said, 1, n)) => FlattenSeq(chunks) = Text(SubSeq(said, 1, n))
    BY DEF LogIsExact
  <2>2. PICK a \in Seq(Byte) : AsWritten(a)
    BY <1>1, <2>1 DEF RowsTell
  <2>3. /\ said = a \o buffer
        /\ HasBad(a) \/ (Decoded(a).half = FALSE /\ FlattenSeq(chunks) = Decoded(a).text) \/ Decoded(a).half = TRUE
    BY <2>2, Zenon DEF AsWritten
  <2>4. Len(a) \in 0..Len(a \o buffer)
    BY <1>2
  <2>5. buffer = SubSeq(a \o buffer, Len(a) + 1, Len(a \o buffer))
    BY <1>2
  <2>6. a = SubSeq(a \o buffer, 1, Len(a))
    BY <1>2
  <2>7. ValidUTF8(a) => FlattenSeq(chunks) = Text(a)
    <3>1. ValidUTF8(a) => ~HasBad(a) /\ Decoded(a).half = FALSE /\ Text(a) = Decoded(a).text
      BY ValidIs
    <3>2. QED BY <2>3, <3>1
  <2>8. QED BY <2>3, <2>4, <2>5, <2>6, <2>7, Zenon
<1>4. ChunksFit
  <2>1. DOMAIN chunks = 1..Len(chunks)
    BY <1>2 DEF Chunks
  <2>2. QED BY <1>1, <2>1 DEF ChunksFit, Fit
<1>5. QED BY <1>1, <1>3, <1>4 DEF LogIsKept

\* db_log_writer.go: for every limit on a row, every split of the output into
\* writes and every pattern of failed and repeated inserts, the table and the
\* buffer together are the output, rune for rune; no row is too long; and a
\* complete line does not wait.
THEOREM LogKept == LogSpec => []LogIsKept
<1>1. LogInit => LogInv
  BY LogInitHolds
<1>2. LogInv /\ [LogNext]_logVars => LogInv'
  BY LogStep
<1>3. LogInv => LogIsKept
  BY LogInvKeeps
<1>4. QED BY <1>1, <1>2, <1>3, PTL DEF LogSpec
=============================================================================
