-------------------------- MODULE MessageListProofs -------------------------
(***************************************************************************)
(* Theorems about MessageList, for any heights of the rows and any limits: *)
(* the rows are those of the history, the place of the list is one that    *)
(* they allow, and a message that arrives leaves a reader where he was.    *)
(*                                                                         *)
(* The last needs that the heights of rows add up.  The height of rows is  *)
(* a fold, so this is by induction: of the numbers for which a statement   *)
(* fails, if there are any, one is the least (LeastNumber, from the order  *)
(* of the finite sets of numbers, which is well-founded), and the          *)
(* statement holds of the one before it.                                   *)
(***************************************************************************)
EXTENDS MessageList, FiniteSetTheorems, TLAPS

(* A set of numbers has a least one, if it has any.                        *)
LEMMA LeastNumber ==
  ASSUME NEW T \in SUBSET Nat, T # {}
  PROVE  \E n \in T : \A m \in T : n <= m
<1> DEFINE R == StrictSubsetOrdering(Nat)
           F == FiniteSubsetsOf(Nat)
           U == {1..n : n \in T}
<1>1. IsWellFoundedOn(R, F)
  BY FS_StrictSubsetOrderingWellFounded
<1>2. \A n \in T : 1..n \in F
  BY FS_Interval DEF FiniteSubsetsOf
<1>3. U \subseteq F /\ U # {}
  BY <1>2
<1>4. \E x \in U : \A y \in U : <<y, x>> \notin R
  <2> HIDE DEF R, F, U
  <2> QED
    BY <1>1, <1>3, WFMin
<1>5. PICK n \in T : \A m \in T : <<1..m, 1..n>> \notin R
  BY <1>4
<1>6. ASSUME NEW m \in T, m < n
      PROVE  <<1..m, 1..n>> \in R
  <2>1. 1..m \subseteq 1..n /\ n \in 1..n /\ n \notin 1..m
    BY <1>6
  <2>2. 1..m \in SUBSET Nat /\ 1..n \in SUBSET Nat
    OBVIOUS
  <2> QED
    BY <2>1, <2>2 DEF StrictSubsetOrdering
<1> HIDE DEF R
<1>7. \A m \in T : ~(m < n)
  BY <1>5, <1>6
<1> QED
  BY <1>7

(* The Max by which a fold takes its next element is the greatest one.     *)
LEMMA MaxIsGreatest ==
  ASSUME NEW n \in Nat, NEW s \in SUBSET (1..n), s # {}
  PROVE  Max(s) \in s /\ \A y \in s : y <= Max(s)
<1> DEFINE T == {n - x : x \in s}
<1>1. T \in SUBSET Nat /\ T # {}
  <2>1. \A x \in s : n - x \in Nat
    OBVIOUS
  <2> QED
    BY <2>1
<1>2. PICK m \in T : \A k \in T : m <= k
  BY <1>1, LeastNumber
<1>3. PICK x \in s : m = n - x
  BY <1>2
<1>4. \A y \in s : y <= x
  <2> TAKE y \in s
  <2>1. n - x <= n - y
    BY <1>2, <1>3
  <2> QED
    BY <2>1
<1>5. \E z \in s : \A y \in s : z >= y
  BY <1>4
<1> QED
  BY <1>5 DEF Max
-----------------------------------------------------------------------------
(* The height of rows.  A fold is a recursive function over the subsets of *)
(* the places 1..n, that is, one solution f of an equation.                *)

Folded(rows, f, s) ==
  IF s = {} THEN 0 ELSE f[s \ {Max(s)}] + Height[rows[Max(s)].id]

Folding(rows, n, f) == f = [s \in SUBSET (1..n) |-> Folded(rows, f, s)]

SameUpTo(k, rows, others) == \A i \in 1..k : rows[i] = others[i]

(* Two solutions agree on the places at which the rows do.                 *)
LEMMA FoldingsAgree ==
  ASSUME NEW rows, NEW others, NEW n \in Nat, NEW m \in Nat, NEW k \in Nat,
         k <= n, k <= m, SameUpTo(k, rows, others),
         NEW f, Folding(rows, n, f), NEW g, Folding(others, m, g)
  PROVE  \A s \in SUBSET (1..k) : f[s] = g[s]
<1> DEFINE Bad == {s \in SUBSET (1..k) : f[s] # g[s]}
           T == {Max(s) : s \in Bad}
<1>1. \A s \in SUBSET (1..k) : f[s] = Folded(rows, f, s) /\ g[s] = Folded(others, g, s)
  <2>1. SUBSET (1..k) \subseteq SUBSET (1..n) /\ SUBSET (1..k) \subseteq SUBSET (1..m)
    OBVIOUS
  <2> QED
    BY <2>1 DEF Folding
<1>2. {} \notin Bad
  BY <1>1 DEF Folded
<1> SUFFICES ASSUME Bad # {} PROVE FALSE
  OBVIOUS
<1>3. \A s \in Bad : s # {} /\ Max(s) \in s /\ (\A y \in s : y <= Max(s)) /\ Max(s) \in 1..k
  BY <1>2, MaxIsGreatest
<1>4. T \in SUBSET Nat /\ T # {}
  BY <1>3
<1>5. PICK s \in Bad : \A t \in Bad : Max(s) <= Max(t)
  <2>1. PICK a \in T : \A b \in T : a <= b
    <3> HIDE DEF T
    <3> QED
      BY <1>4, LeastNumber
  <2> HIDE DEF Bad
  <2>2. PICK s \in Bad : a = Max(s)
    OBVIOUS
  <2> QED
    BY <2>1, <2>2
<1> DEFINE x == Max(s)
           t == s \ {x}
<1>6. x \in 1..k /\ x \in s /\ t \in SUBSET (1..k) /\ \A y \in s : y <= x
  BY <1>3
<1>7. t \notin Bad
  <2> SUFFICES ASSUME t \in Bad PROVE FALSE
    OBVIOUS
  <2>1. Max(t) \in t /\ Max(t) \in Nat
    BY <1>3
  <2>2. x <= Max(t)
    BY <1>5
  <2> HIDE DEF Bad
  <2> QED
    BY <2>1, <2>2, <1>6
<1>8. f[t] = g[t]
  BY <1>6, <1>7
<1>9. f[s] = f[t] + Height[rows[x].id] /\ g[s] = g[t] + Height[others[x].id]
  BY <1>1, <1>3 DEF Folded
<1>10. rows[x] = others[x]
  BY <1>6 DEF SameUpTo
<1>11. f[s] # g[s]
  OBVIOUS
<1> HIDE DEF t, x, Bad
<1> QED
  BY <1>8, <1>9, <1>10, <1>11

(* There is a solution, and its values are numbers.                        *)
LEMMA FoldingExists ==
  ASSUME NEW rows \in Seq(Rows)
  PROVE  \E f \in [SUBSET (1..Len(rows)) -> Nat] : Folding(rows, Len(rows), f)
<1> DEFINE Has(n) == \E f \in [SUBSET (1..n) -> Nat] : Folding(rows, n, f)
           T == {n \in 0..Len(rows) : ~Has(n)}
<1>1. Len(rows) \in Nat /\ \A i \in 1..Len(rows) : Height[rows[i].id] \in Nat
  <2>1. \A i \in 1..Len(rows) : rows[i] \in Rows
    OBVIOUS
  <2>2. \A r \in Rows : Height[r.id] \in Nat
    BY ListAssumption DEF Rows
  <2> QED
    BY <2>1, <2>2
<1> SUFFICES Has(Len(rows))
  OBVIOUS
<1> SUFFICES ASSUME T # {} PROVE FALSE
  <2> HIDE DEF Has
  <2> QED
    BY <1>1
<1>2. PICK n \in T : \A m \in T : n <= m
  <2> T \in SUBSET Nat
    BY <1>1
  <2> HIDE DEF T
  <2> QED
    BY LeastNumber
<1>3. Has(0)
  <2> DEFINE f == [s \in SUBSET (1..0) |-> 0]
  <2>1. \A s \in SUBSET (1..0) : s = {}
    OBVIOUS
  <2>2. f \in [SUBSET (1..0) -> Nat]
    OBVIOUS
  <2>3. \A s \in SUBSET (1..0) : Folded(rows, f, s) = 0
    BY <2>1 DEF Folded
  <2>4. f = [s \in SUBSET (1..0) |-> Folded(rows, f, s)]
    BY <2>3
  <2> HIDE DEF f
  <2> QED
    BY <2>2, <2>4 DEF Folding
<1>4. n \in 1..Len(rows) /\ n - 1 \in 0..Len(rows) /\ n - 1 \notin T
  <2>1. n \in 0..Len(rows) /\ ~Has(n)
    BY <1>2
  <2>2. n # 0
    <3> HIDE DEF Has
    <3> QED
      BY <1>3, <2>1
  <2>3. ~(n <= n - 1)
    BY <2>1, <1>1
  <2> HIDE DEF T, Has
  <2> QED
    BY <2>1, <2>2, <2>3, <1>2, <1>1
<1>5. PICK f \in [SUBSET (1..(n - 1)) -> Nat] : Folding(rows, n - 1, f)
  BY <1>4
<1> DEFINE h == Height[rows[n].id]
           g == [s \in SUBSET (1..n) |-> IF n \in s THEN f[s \ {n}] + h ELSE f[s]]
<1>6. h \in Nat
  BY <1>1, <1>4
<1>7. \A s \in SUBSET (1..n) : /\ s \ {n} \in SUBSET (1..(n - 1))
                              /\ n \notin s => s \in SUBSET (1..(n - 1))
  BY <1>4
<1>8. g \in [SUBSET (1..n) -> Nat]
  <2> HIDE DEF h
  <2> QED
    BY <1>6, <1>7
<1>9. \A s \in SUBSET (1..(n - 1)) : s \in SUBSET (1..n) /\ n \notin s /\ g[s] = f[s]
  BY <1>4
<1>10. ASSUME NEW s \in SUBSET (1..n)
       PROVE  g[s] = Folded(rows, g, s)
  <2>1. CASE s = {}
    <3>1. f[{}] = 0 /\ g[{}] = f[{}]
      BY <1>5, <1>9 DEF Folding, Folded
    <3> HIDE DEF g
    <3> QED
      BY <2>1, <3>1 DEF Folded
  <2>2. CASE n \in s
    <3>1. n \in Nat /\ s # {}
      BY <2>2, <1>4, <1>1
    <3>2. Max(s) = n
      <4>1. Max(s) \in s /\ \A y \in s : y <= Max(s)
        BY <3>1, MaxIsGreatest
      <4>2. Max(s) \in 1..n /\ n <= Max(s)
        BY <4>1, <2>2
      <4> QED
        BY <3>1, <4>2
    <3>3. g[s] = f[s \ {n}] + h /\ g[s \ {n}] = f[s \ {n}]
      BY <2>2, <1>7, <1>9
    <3> HIDE DEF g
    <3> QED
      BY <3>2, <3>3, <2>2 DEF Folded
  <2>3. CASE s # {} /\ n \notin s
    <3>1. s \in SUBSET (1..(n - 1)) /\ n - 1 \in Nat
      BY <2>3, <1>7, <1>4
    <3>2. f[s] = f[s \ {Max(s)}] + Height[rows[Max(s)].id]
      BY <3>1, <2>3, <1>5 DEF Folding, Folded
    <3>3. s \ {Max(s)} \in SUBSET (1..(n - 1))
      BY <3>1
    <3>4. g[s] = f[s] /\ g[s \ {Max(s)}] = f[s \ {Max(s)}]
      BY <3>1, <3>3, <1>9
    <3> HIDE DEF g
    <3> QED
      BY <3>2, <3>4, <2>3 DEF Folded
  <2> QED
    BY <2>1, <2>2, <2>3
<1>11. g = [s \in SUBSET (1..n) |-> Folded(rows, g, s)]
  <2>1. g = [s \in SUBSET (1..n) |-> g[s]]
    OBVIOUS
  <2> HIDE DEF g
  <2> QED
    BY <2>1, <1>10
<1>12. Has(n)
  <2> HIDE DEF g
  <2> QED
    BY <1>8, <1>11 DEF Folding
<1> QED
  BY <1>12, <1>2

(* So the height of rows is the value of any solution.                     *)
LEMMA ExtentIsFolding ==
  ASSUME NEW rows \in Seq(Rows),
         NEW f, Folding(rows, Len(rows), f)
  PROVE  Extent(rows) = f[1..Len(rows)]
<1> DEFINE S == DOMAIN rows
           h == CHOOSE it : it = [s \in SUBSET S |-> Folded(rows, it, s)]
<1>1. S = 1..Len(rows) /\ Len(rows) \in Nat
  OBVIOUS
<1>2. Extent(rows) = LET iter[s \in SUBSET S] ==
                          IF s = {} THEN 0
                          ELSE LET x == Max(s)
                               IN  iter[s \ {x}] + Height[rows[x].id]
                     IN  iter[S]
  BY DEF Extent, FoldLeft, MapThenFoldSet
<1>3. Extent(rows) = h[S]
  BY <1>2 DEF Folded
<1>4. f = [s \in SUBSET S |-> Folded(rows, f, s)]
  BY <1>1 DEF Folding
<1>5. h = [s \in SUBSET S |-> Folded(rows, h, s)]
  BY <1>4
<1>6. Folding(rows, Len(rows), h)
  <2> HIDE DEF h
  <2> QED
    BY <1>5, <1>1 DEF Folding
<1>7. h[S] = f[S]
  <2> HIDE DEF h
  <2>1. \A s \in SUBSET (1..Len(rows)) : h[s] = f[s]
    <3> DEFINE n == Len(rows)
    <3>1. n \in Nat /\ n <= n /\ SameUpTo(n, rows, rows)
      BY <1>1 DEF SameUpTo
    <3>2. Folding(rows, n, h) /\ Folding(rows, n, f)
      BY <1>6
    <3> HIDE DEF n, S
    <3>3. \A s \in SUBSET (1..n) : h[s] = f[s]
      BY <3>1, <3>2, FoldingsAgree
    <3> QED
      BY <3>3 DEF n
  <2> QED
    BY <2>1, <1>1
<1> HIDE DEF h
<1> QED
  BY <1>3, <1>7, <1>1

(* A height is a number, and that of no rows is 0.                         *)
LEMMA ExtentIsNumber ==
  ASSUME NEW rows \in Seq(Rows)
  PROVE  Extent(rows) \in Nat
<1>1. PICK f \in [SUBSET (1..Len(rows)) -> Nat] : Folding(rows, Len(rows), f)
  BY FoldingExists
<1>2. Extent(rows) = f[1..Len(rows)]
  BY <1>1, ExtentIsFolding
<1> QED
  BY <1>1, <1>2

LEMMA ExtentOfNone == Extent(<<>>) = 0
<1> DEFINE none == <<>>
<1>1. none \in Seq(Rows) /\ Len(none) = 0
  OBVIOUS
<1>2. PICK f : Folding(none, Len(none), f)
  BY <1>1, FoldingExists
<1>3. Extent(none) = f[1..Len(none)]
  BY <1>1, <1>2, ExtentIsFolding
<1>4. 1..Len(none) = {}
  BY <1>1
<1>5. f[{}] = 0
  BY <1>2, <1>4 DEF Folding, Folded
<1> QED
  BY <1>3, <1>4, <1>5

(* One more row adds its height.                                           *)
LEMMA ExtentOfOneMore ==
  ASSUME NEW rows \in Seq(Rows), NEW row \in Rows
  PROVE  Extent(Append(rows, row)) = Extent(rows) + Height[row.id]
<1> DEFINE more == Append(rows, row)
           n == Len(rows)
<1>1. /\ more \in Seq(Rows) /\ n \in Nat /\ Len(more) = n + 1
      /\ more[n + 1] = row /\ \A i \in 1..n : more[i] = rows[i]
  OBVIOUS
<1>2. PICK f : Folding(rows, n, f)
  BY FoldingExists
<1>3. PICK g : Folding(more, n + 1, g)
  BY <1>1, FoldingExists
<1>4. Extent(rows) = f[1..n] /\ Extent(more) = g[1..(n + 1)]
  <2> HIDE DEF more
  <2> QED
    BY <1>1, <1>2, <1>3, ExtentIsFolding
<1>5. g[1..n] = f[1..n]
  <2> DEFINE m == n + 1
  <2>1. n \in Nat /\ m \in Nat /\ n <= m /\ n <= n /\ SameUpTo(n, more, rows)
    BY <1>1 DEF SameUpTo
  <2>2. Folding(more, m, g) /\ Folding(rows, n, f)
    BY <1>2, <1>3
  <2> HIDE DEF more, n, m
  <2>3. \A s \in SUBSET (1..n) : g[s] = f[s]
    BY <2>1, <2>2, FoldingsAgree
  <2> QED
    BY <2>3
<1>6. Max(1..(n + 1)) = n + 1
  <2>1. n + 1 \in 1..(n + 1) /\ n + 1 \in Nat
    BY <1>1
  <2>2. Max(1..(n + 1)) \in 1..(n + 1) /\ n + 1 <= Max(1..(n + 1))
    BY <2>1, MaxIsGreatest
  <2> QED
    BY <2>2, <1>1
<1>7. (1..(n + 1)) \ {n + 1} = 1..n /\ 1..(n + 1) # {}
  BY <1>1
<1>8. g[1..(n + 1)] = g[1..n] + Height[row.id]
  <2>1. g[1..(n + 1)] = Folded(more, g, 1..(n + 1))
    BY <1>3 DEF Folding
  <2> HIDE DEF more
  <2> QED
    BY <2>1, <1>6, <1>7, <1>1 DEF Folded
<1>9. Extent(more) = Extent(rows) + Height[row.id]
  <2> HIDE DEF more
  <2> QED
    BY <1>4, <1>5, <1>8
<1> QED
  BY <1>9

(* Rows above others: their heights add up.                                *)
LEMMA ExtentAdds ==
  ASSUME NEW above \in Seq(Rows), NEW below \in Seq(Rows)
  PROVE  Extent(above \o below) = Extent(above) + Extent(below)
<1> DEFINE First(k) == SubSeq(below, 1, k)
           Adds(k) == Extent(above \o First(k)) = Extent(above) + Extent(First(k))
           T == {k \in 0..Len(below) : ~Adds(k)}
<1>1. Len(below) \in Nat /\ First(Len(below)) = below
  OBVIOUS
<1> SUFFICES Adds(Len(below))
  BY <1>1
<1> SUFFICES ASSUME T # {} PROVE FALSE
  <2> HIDE DEF Adds
  <2> QED
    BY <1>1
<1>2. PICK k \in T : \A m \in T : k <= m
  <2> T \in SUBSET Nat
    BY <1>1
  <2> HIDE DEF T
  <2> QED
    BY LeastNumber
<1>3. k \in 0..Len(below) /\ ~Adds(k)
  BY <1>2
<1>4. k # 0
  <2>1. First(0) = <<>> /\ above \o First(0) = above
    OBVIOUS
  <2>2. Extent(above) \in Nat
    BY ExtentIsNumber
  <2>3. Extent(First(0)) = 0
    BY <2>1, ExtentOfNone, Zenon
  <2>4. Extent(above \o First(0)) = Extent(above)
    BY <2>1
  <2>5. Adds(0)
    <3> HIDE DEF First
    <3> QED
      BY <2>2, <2>3, <2>4
  <2> HIDE DEF Adds
  <2> QED
    BY <2>5, <1>3
<1>5. Adds(k - 1)
  <2>1. k - 1 \in 0..Len(below) /\ ~(k <= k - 1)
    BY <1>3, <1>4, <1>1
  <2> HIDE DEF Adds
  <2> QED
    BY <2>1, <1>2
<1> DEFINE row == below[k]
<1>6. /\ First(k - 1) \in Seq(Rows) /\ row \in Rows
      /\ First(k) = Append(First(k - 1), row)
  BY <1>3, <1>4, <1>1
<1>7. /\ above \o First(k - 1) \in Seq(Rows)
      /\ above \o First(k) = Append(above \o First(k - 1), row)
  <2> HIDE DEF First, row
  <2> QED
    BY <1>6
<1>8. Extent(First(k)) = Extent(First(k - 1)) + Height[row.id]
  <2> HIDE DEF First, row
  <2> QED
    BY <1>6, ExtentOfOneMore
<1>9. Extent(above \o First(k)) = Extent(above \o First(k - 1)) + Height[row.id]
  <2> HIDE DEF First, row
  <2> QED
    BY <1>6, <1>7, ExtentOfOneMore
<1>10. Extent(above) \in Nat /\ Extent(First(k - 1)) \in Nat /\ Height[row.id] \in Nat
  <2> HIDE DEF First, row
  <2> QED
    BY <1>6, ExtentIsNumber, ListAssumption DEF Rows
<1>11. Adds(k)
  <2> HIDE DEF First, row
  <2> QED
    BY <1>5, <1>8, <1>9, <1>10
<1> QED
  BY <1>11, <1>3
-----------------------------------------------------------------------------
(* The place of the list.                                                  *)

(* A list of these rows, in a place that the rows allow.                   *)
Lists(rows) == [rows : {rows}, top : 0..MaxScroll(rows),
                goal : 0..MaxScroll(rows) \cup {NoTarget}, follow : BOOLEAN]

(* MaxScroll by cases, and what the functions that scroll make of a list.  *)
LEMMA MaxScrollIs ==
  ASSUME NEW rows \in Seq(Rows)
  PROVE  /\ MaxScroll(rows) \in Nat /\ MaxScroll(rows) <= Extent(rows)
         /\ MaxScroll(rows) = IF Extent(rows) < Window THEN 0 ELSE Extent(rows) - Window
<1>1. Extent(rows) \in Nat /\ Window \in Nat
  BY ExtentIsNumber, ListAssumption
<1> QED
  BY <1>1 DEF MaxScroll, Clamp, Least

LEMMA ScrolledToIs ==
  ASSUME NEW rows \in Seq(Rows), NEW n \in Int
  PROVE  /\ ScrolledTo(rows, n) \in Lists(rows)
         /\ ScrolledTo(rows, n).top = Clamp(n, MaxScroll(rows))
<1> DEFINE top == Clamp(n, MaxScroll(rows))
<1>1. top \in 0..MaxScroll(rows)
  BY MaxScrollIs DEF Clamp, Least
<1>2. Near(rows, top) \in BOOLEAN
  BY DEF Near
<1>3. ScrolledTo(rows, n) =
        [rows |-> rows, top |-> top, goal |-> NoTarget, follow |-> Near(rows, top)]
  BY DEF ScrolledTo, List
<1> HIDE DEF top
<1> QED
  BY <1>1, <1>2, <1>3 DEF Lists, top

LEMMA AnimatedToIs ==
  ASSUME NEW rows \in Seq(Rows), NEW l \in Lists(rows), NEW n \in Int
  PROVE  AnimatedTo(l, n) \in Lists(rows) /\ AnimatedTo(l, n).top = l.top
<1> DEFINE goal == Clamp(n, MaxScroll(rows))
<1>1. goal \in 0..MaxScroll(rows)
  BY MaxScrollIs DEF Clamp, Least
<1>2. l.rows = rows
  BY DEF Lists
<1>3. AnimatedTo(l, n) \in {l, [l EXCEPT !.goal = goal]}
  BY <1>2 DEF AnimatedTo
<1> HIDE DEF goal
<1>4. [l EXCEPT !.goal = goal] \in Lists(rows) /\ [l EXCEPT !.goal = goal].top = l.top
  BY <1>1 DEF Lists
<1> QED
  BY <1>3, <1>4

LEMMA ToBottomIs ==
  ASSUME NEW rows \in Seq(Rows),
         NEW l \in [rows : {rows}, top : Nat, goal : Int, follow : BOOLEAN]
  PROVE  /\ ToBottom(l) \in Lists(rows)
         /\ ToBottom(l).top = Least(l.top, MaxScroll(rows))
<1> DEFINE end == MaxScroll(rows)
           k == List(rows, Least(l.top, end), l.goal, TRUE)
<1>1. end \in Nat /\ Least(l.top, end) \in 0..end
  BY MaxScrollIs DEF Least
<1>2. Clamp(end, end) = end
  BY <1>1 DEF Clamp, Least
<1>3. ToBottom(l) = AnimatedTo(k, end)
  BY DEF ToBottom
<1>4. /\ k.rows = rows /\ k.top = Least(l.top, end) /\ k.goal = l.goal
      /\ k = [rows |-> rows, top |-> Least(l.top, end), goal |-> l.goal, follow |-> TRUE]
  BY DEF List
<1>5. ToBottom(l) = IF l.goal = NoTarget /\ end = Least(l.top, end) THEN k
                    ELSE [k EXCEPT !.goal = end]
  <2> HIDE DEF k
  <2>1. MaxScroll(k.rows) = end
    BY <1>4
  <2> QED
    BY <1>2, <1>3, <1>4, <2>1 DEF AnimatedTo
<1>6. CASE l.goal = NoTarget /\ end = Least(l.top, end)
  <2> HIDE DEF end, k
  <2>1. k \in [rows : {rows}, top : 0..end, goal : {NoTarget}, follow : BOOLEAN]
    BY <1>6, <1>1, <1>4
  <2> QED
    BY <2>1, <1>4, <1>5, <1>6 DEF Lists, end
<1>7. CASE ~(l.goal = NoTarget /\ end = Least(l.top, end))
  <2> HIDE DEF end, k
  <2>1. k \in [rows : {rows}, top : 0..end, goal : Int, follow : BOOLEAN]
    BY <1>1, <1>4
  <2>2. /\ [k EXCEPT !.goal = end] \in [rows : {rows}, top : 0..end, goal : {end}, follow : BOOLEAN]
        /\ [k EXCEPT !.goal = end].top = k.top
    BY <2>1
  <2>3. end \in 0..end
    BY <1>1
  <2> QED
    BY <2>2, <2>3, <1>4, <1>5, <1>7 DEF Lists, end
<1> QED
  BY <1>6, <1>7

LEMMA RebuiltIs ==
  ASSUME NEW ms \in Seq(Rows)
  PROVE  Rebuilt(ms) \in Lists(ms)
BY MaxScrollIs, ScrolledToIs DEF Rebuilt

(* Rows that come below leave a place allowed.                             *)
LEMMA RowsBelow ==
  ASSUME NEW rows \in Seq(Rows), NEW row \in Rows, NEW l \in Lists(rows)
  PROVE  /\ [l EXCEPT !.rows = Append(rows, row)] \in Lists(Append(rows, row))
         /\ [l EXCEPT !.rows = Append(rows, row)].top = l.top
<1> DEFINE more == Append(rows, row)
<1>1. more \in Seq(Rows)
  OBVIOUS
<1>2. Extent(more) = Extent(rows) + Height[row.id] /\ Height[row.id] \in Nat
  BY ExtentOfOneMore, ListAssumption DEF Rows
<1> HIDE DEF more
<1>3. Extent(rows) \in Nat /\ Window \in Nat
  BY ExtentIsNumber, ListAssumption
<1>4. MaxScroll(rows) \in Nat /\ MaxScroll(more) \in Nat /\ MaxScroll(rows) <= MaxScroll(more)
  BY <1>1, <1>2, <1>3, MaxScrollIs
<1>5. 0..MaxScroll(rows) \subseteq 0..MaxScroll(more)
  BY <1>4
<1>6. [l EXCEPT !.rows = more] \in Lists(more) /\ [l EXCEPT !.rows = more].top = l.top
  BY <1>5 DEF Lists
<1> QED
  BY <1>6 DEF more
-----------------------------------------------------------------------------
(* The history, and the rows against it.                                   *)

(* The messages that are kept are the last ones, by their numbers.         *)
Numbered(ms, last) == \A i \in 1..Len(ms) : ms[i].id = last - Len(ms) + i

(* What appendMessage() keeps of the history.                              *)
Base == IF Len(messages) >= HistoryLimit THEN Tail(messages) ELSE messages

HistoryOK ==
  /\ lastId \in 0..LastId /\ messages \in Seq(Rows) /\ Len(messages) <= HistoryLimit
  /\ Numbered(messages, lastId)

(* The invariant: the list has the rows of the history, in a place that    *)
(* they allow.                                                             *)
ListInv == HistoryOK /\ list \in Lists(messages)

(* Appending the message with the next number keeps the numbering.         *)
LEMMA NumberedAppend ==
  ASSUME NEW base \in Seq(Rows), NEW last \in Nat, Numbered(base, last),
         NEW row \in Rows, row.id = last + 1
  PROVE  Numbered(Append(base, row), last + 1)
<1> DEFINE ms == Append(base, row)
<1>1. Len(base) \in Nat /\ Len(ms) = Len(base) + 1 /\ ms[Len(base) + 1] = row
  OBVIOUS
<1>2. \A i \in 1..Len(base) : ms[i] = base[i] /\ base[i].id = last - Len(base) + i
  BY DEF Numbered
<1> HIDE DEF ms
<1>3. ASSUME NEW i \in 1..Len(ms)
      PROVE  ms[i].id = last + 1 - Len(ms) + i
  <2>1. CASE i = Len(base) + 1
    BY <1>1, <2>1
  <2>2. CASE i \in 1..Len(base)
    <3>1. ms[i].id = last - Len(base) + i
      BY <1>2, <2>2
    <3> QED
      BY <1>1, <2>2, <3>1
  <2> QED
    BY <1>1, <2>1, <2>2
<1> QED
  BY <1>3 DEF Numbered, ms

(* What is known of a history with one message more.                       *)
LEMMA BaseIs ==
  ASSUME HistoryOK, NEW row \in Rows, row.id = lastId + 1
  PROVE  /\ Base \in Seq(Rows) /\ Append(Base, row) \in Seq(Rows)
         /\ Len(Base) < HistoryLimit /\ Len(Base) <= Len(messages)
         /\ Len(messages) - Len(Base) \in {0, 1}
         /\ \A i \in 1..Len(Base) : Base[i] = messages[i + (Len(messages) - Len(Base))]
         /\ Len(messages) - Len(Base) = 0 => Base = messages
         /\ Len(messages) - Len(Base) = 1 => Base = Tail(messages) /\ messages # <<>>
         /\ Numbered(Append(Base, row), lastId + 1)
<1>1. Len(messages) \in Nat /\ HistoryLimit \in Nat \ {0} /\ lastId \in Nat
  BY ListAssumption DEF HistoryOK
<1>2. CASE Len(messages) >= HistoryLimit
  <2>1. messages # <<>> /\ Base = Tail(messages) /\ Len(messages) = HistoryLimit
    BY <1>1, <1>2 DEF HistoryOK, Base
  <2>2. /\ Base \in Seq(Rows) /\ Len(Base) = Len(messages) - 1
        /\ \A i \in 1..Len(Base) : Base[i] = messages[i + 1]
    BY <2>1 DEF HistoryOK
  <2>3. Numbered(Base, lastId)
    <3>1. \A i \in 1..Len(messages) : messages[i].id = lastId - Len(messages) + i
      BY DEF HistoryOK, Numbered
    <3>2. ASSUME NEW i \in 1..Len(Base)
          PROVE  Base[i].id = lastId - Len(Base) + i
      <4>1. i + 1 \in 1..Len(messages) /\ Base[i] = messages[i + 1]
        BY <1>1, <2>2
      <4>2. Base[i].id = lastId - Len(messages) + (i + 1)
        BY <4>1, <3>1
      <4> QED
        BY <1>1, <2>2, <4>2
    <3> QED
      BY <3>2 DEF Numbered
  <2>4. Numbered(Append(Base, row), lastId + 1)
    BY <1>1, <2>2, <2>3, NumberedAppend
  <2> QED
    BY <1>1, <2>1, <2>2, <2>4
<1>3. CASE Len(messages) < HistoryLimit
  <2>1. Base = messages /\ Base \in Seq(Rows)
    BY <1>1, <1>3 DEF HistoryOK, Base
  <2>2. Numbered(Base, lastId)
    BY <2>1 DEF HistoryOK
  <2>3. Numbered(Append(Base, row), lastId + 1)
    BY <1>1, <2>1, <2>2, NumberedAppend
  <2> QED
    BY <1>1, <1>3, <2>1, <2>3
<1> QED
  BY <1>1, <1>2, <1>3

(* The rows that stay are found by the number of the first message.        *)
LEMMA KeptIsBase ==
  ASSUME HistoryOK, NEW row \in Rows, row.id = lastId + 1
  PROVE  Kept(messages, Append(Base, row)) = Base
<1> DEFINE ms == Append(Base, row)
           k == Len(messages) - Len(Base) + 1
           found == {i \in DOMAIN messages : messages[i].id = ms[1].id}
<1>1. /\ Len(messages) \in Nat /\ Len(Base) \in Nat /\ lastId \in Nat
      /\ messages \in Seq(Rows) /\ DOMAIN messages = 1..Len(messages)
      /\ Base \in Seq(Rows) /\ Len(ms) = Len(Base) + 1
  BY BaseIs DEF HistoryOK
<1>2. ms[1].id = lastId + 1 - Len(ms) + 1
  <2>1. 1 \in 1..Len(ms)
    BY <1>1
  <2>2. Numbered(ms, lastId + 1)
    BY BaseIs
  <2> HIDE DEF ms
  <2> QED
    BY <1>1, <2>1, <2>2 DEF Numbered
<1>3. \A i \in 1..Len(messages) : messages[i].id = ms[1].id <=> i = k
  <2>1. \A i \in 1..Len(messages) : messages[i].id = lastId - Len(messages) + i
    BY DEF HistoryOK, Numbered
  <2> HIDE DEF ms
  <2> QED
    BY <1>1, <1>2, <2>1
<1>4. k \in {1, 2}
  BY BaseIs
<1>5. CASE Base = <<>> /\ found = {}
  BY <1>5 DEF Kept
<1>6. CASE found # {}
  <2>1. found = {k} /\ k \in 1..Len(messages)
    <3> HIDE DEF ms, k
    <3> QED
      BY <1>1, <1>3, <1>6
  <2>2. Min({k}) = k
    BY <1>4 DEF Min
  <2>3. Kept(messages, ms) = SubSeq(messages, k, Len(messages))
    <3> HIDE DEF ms, k
    <3> QED
      BY <1>6, <2>1, <2>2 DEF Kept
  <2>4. SubSeq(messages, k, Len(messages)) = Base
    <3>1. \A i \in 1..Len(Base) : Base[i] = messages[i + k - 1]
      <4>1. \A i \in 1..Len(Base) : Base[i] = messages[i + (Len(messages) - Len(Base))]
        BY BaseIs
      <4>2. \A i \in 1..Len(Base) : i + k - 1 = i + (Len(messages) - Len(Base))
        BY <1>1
      <4> QED
        BY <4>1, <4>2
    <3> HIDE DEF ms
    <3> QED
      BY <1>1, <1>4, <3>1
  <2> QED
    BY <2>3, <2>4
<1>7. CASE Base # <<>> /\ found = {}
  <2>1. k \in 1..Len(messages)
    BY <1>1, <1>4, <1>7
  <2>2. k \in found
    <3> HIDE DEF ms, k
    <3> QED
      BY <2>1, <1>3, <1>1
  <2> QED
    BY <2>2, <1>7
<1> QED
  BY <1>5, <1>6, <1>7 DEF Kept
-----------------------------------------------------------------------------
(* A part of length one.                                                   *)
LEMMA SubSeqOfOne ==
  ASSUME NEW S, NEW q \in Seq(S), NEW i \in 1..Len(q)
  PROVE  SubSeq(q, i, i) = <<q[i]>>
<1> DEFINE one == SubSeq(q, i, i)
<1>1. one \in Seq(S) /\ Len(one) = 1 /\ one[1] = q[i]
  OBVIOUS
<1> HIDE DEF one
<1>2. one = <<one[1]>>
  BY <1>1
<1> QED
  BY <1>1, <1>2 DEF one

(* setMessages() with a history that has one message more: rebuilt (only a *)
(* history of one message is), followed to its end, or grown in its place. *)
LEMMA SetAppended ==
  ASSUME ListInv, NEW row \in Rows, row.id = lastId + 1
  PROVE  LET ms == Append(Base, row) IN
         /\ SetMessages(list, ms) \in Lists(ms)
         /\ HistoryLimit > 1 /\ ~list.follow =>
              SetMessages(list, ms).top
                = Clamp(list.top - Extent(Gone(list.rows, ms)), list.top)
<1> DEFINE ms == Append(Base, row)
           n == Len(messages)
           b == Len(Base)
           gone == Extent(Gone(list.rows, ms))
           Kept1 == Kept(list.rows, ms)
           Result == SetMessages(list, ms)
<1>1. /\ messages \in Seq(Rows) /\ n \in Nat /\ b \in Nat /\ lastId \in Nat
      /\ Base \in Seq(Rows) /\ ms \in Seq(Rows)
      /\ Len(ms) = b + 1 /\ b < HistoryLimit /\ b <= n /\ n - b \in {0, 1}
      /\ HistoryLimit \in Nat
  BY BaseIs, ListAssumption DEF ListInv, HistoryOK
<1>2. list \in Lists(messages) /\ list.rows = messages
  BY DEF ListInv, Lists
<1>3. Kept1 = Base
  BY <1>2, KeptIsBase DEF ListInv
<1>4. ~SameIds(messages, ms)
  <2> SUFFICES ASSUME SameIds(messages, ms) PROVE FALSE
    OBVIOUS
  <2>1. n = b + 1 /\ DOMAIN messages = 1..n /\ 1 \in 1..n
    BY <1>1 DEF SameIds
  <2>2. messages[1].id = ms[1].id
    BY <2>1 DEF SameIds
  <2>3. messages[1].id = lastId - n + 1
    BY <2>1 DEF ListInv, HistoryOK, Numbered
  <2>4. Numbered(ms, lastId + 1)
    BY BaseIs DEF ListInv
  <2>5. ms[1].id = lastId + 1 - Len(ms) + 1
    <3> HIDE DEF ms
    <3> QED
      BY <2>1, <2>4, <1>1 DEF Numbered
  <2>6. Len(ms) = b + 1
    BY <1>1
  <2>7. lastId - n + 1 # lastId + 1 - (b + 1) + 1
    BY <1>1, <2>1
  <2> HIDE DEF ms, n, b
  <2> QED
    BY <2>2, <2>3, <2>5, <2>6, <2>7
<1>5. Grown(Base, ms) = ms
  <2>1. ms[b + 1] = row
    BY <1>1
  <2>2. Len(ms) = b + 1 /\ ms \in Seq(Rows)
    BY <1>1
  <2>3. SubSeq(ms, b + 1, Len(ms)) = <<row>>
    <3>1. b + 1 \in 1..Len(ms)
      BY <1>1, <2>2
    <3> HIDE DEF ms, b
    <3> QED
      BY <2>1, <2>2, <3>1, SubSeqOfOne
  <2>4. Base \o <<row>> = ms
    BY <1>1
  <2> QED
    BY <2>3, <2>4 DEF Grown
<1>6. Incremental(messages, ms) <=> messages = <<>> \/ Base # <<>>
  <2>1. \A i \in 1..b : Base[i].id = ms[i].id
    BY <1>1
  <2>2. DOMAIN Base = 1..b
    BY <1>1
  <2> HIDE DEF ms
  <2> QED
    BY <1>1, <1>2, <1>3, <2>1, <2>2 DEF Incremental
<1>7. Gone(messages, ms) = SubSeq(messages, 1, n - b)
  <2> HIDE DEF ms
  <2> QED
    BY <1>2, <1>3 DEF Gone
<1>8. CASE ~(messages = <<>> \/ Base # <<>>)
  <2>1. Result = Rebuilt(ms)
    <3> HIDE DEF ms
    <3> QED
      BY <1>2, <1>4, <1>6, <1>8 DEF SetMessages
  <2>2. Result \in Lists(ms)
    <3> HIDE DEF ms, Result
    <3> QED
      BY <2>1, <1>1, RebuiltIs
  <2>3. HistoryLimit <= 1
    <3>1. messages # <<>> /\ Base = <<>>
      BY <1>8
    <3>2. b = 0 /\ n # 0
      BY <1>1, <3>1
    <3>3. n = 1
      BY <1>1, <3>2
    <3>4. Base # messages
      BY <3>1
    <3>5. n >= HistoryLimit
      BY <3>4 DEF Base
    <3> QED
      BY <3>3, <3>5
  <2> QED
    BY <1>1, <2>2, <2>3
<1>9. CASE (messages = <<>> \/ Base # <<>>) /\ (messages = <<>> \/ list.follow)
  <2>1. Result = ToBottom([list EXCEPT !.rows = ms])
    <3>1. Result = Following(list, ms)
      <4> HIDE DEF ms
      <4> QED
        BY <1>2, <1>4, <1>6, <1>9 DEF SetMessages
    <3>2. Following(list, ms) = ToBottom([list EXCEPT !.rows = ms])
      <4> HIDE DEF ms
      <4> QED
        BY <1>3, <1>5 DEF Following
    <3> QED
      BY <3>1, <3>2
  <2>2. /\ [list EXCEPT !.rows = ms] \in [rows : {ms}, top : Nat, goal : Int, follow : BOOLEAN]
        /\ [list EXCEPT !.rows = ms].top = list.top
    <3>1. MaxScroll(messages) \in Nat
      BY <1>1, MaxScrollIs
    <3>2. 0..MaxScroll(messages) \subseteq Nat
      BY <3>1
    <3>3. 0..MaxScroll(messages) \cup {NoTarget} \subseteq Int
      BY <3>1 DEF NoTarget
    <3> HIDE DEF ms
    <3> QED
      BY <1>2, <3>2, <3>3 DEF Lists
  <2>3. Result \in Lists(ms) /\ Result.top = Least(list.top, MaxScroll(ms))
    <3> HIDE DEF ms, Result
    <3> QED
      BY <2>1, <2>2, <1>1, ToBottomIs
  <2>4. ASSUME ~list.follow
        PROVE  Result.top = Clamp(list.top - gone, list.top)
    <3>1. messages = <<>> /\ n = 0 /\ b = 0
      BY <2>4, <1>9, <1>1
    <3>2. MaxScroll(messages) = 0
      <4>1. Extent(messages) = 0
        BY <3>1, ExtentOfNone
      <4> QED
        BY <4>1, <1>1, MaxScrollIs, ListAssumption
    <3>3. list.top = 0
      BY <3>2, <1>2 DEF Lists
    <3>4. gone = 0
      <4>1. SubSeq(messages, 1, 0) = <<>>
        BY <1>1
      <4>2. n - b = 0
        BY <3>1
      <4> HIDE DEF n, b, ms
      <4>3. Gone(messages, ms) = <<>>
        BY <1>7, <4>1, <4>2
      <4> QED
        BY <1>2, <4>3, ExtentOfNone
    <3>5. MaxScroll(ms) \in Nat
      BY <1>1, MaxScrollIs
    <3> HIDE DEF ms, Result, gone
    <3> QED
      BY <2>3, <3>3, <3>4, <3>5 DEF Least, Clamp
  <2> QED
    BY <2>3, <2>4
<1>10. CASE messages # <<>> /\ Base # <<>> /\ ~list.follow
  <2> DEFINE kept == IF gone > 0 THEN ScrolledTo(Base, list.top - gone) ELSE list
  <2>1. Result = [kept EXCEPT !.rows = Grown(@, ms)]
    <3>1. Result = Shifted(list, ms)
      <4> HIDE DEF ms
      <4> QED
        BY <1>2, <1>4, <1>6, <1>10 DEF SetMessages
    <3>2. Shifted(list, ms) = [kept EXCEPT !.rows = Grown(@, ms)]
      <4> HIDE DEF ms
      <4> QED
        BY <1>3 DEF Shifted
    <3> QED
      BY <3>1, <3>2
  <2>2. list.top \in Nat /\ list.top <= MaxScroll(messages)
    <3>1. MaxScroll(messages) \in Nat /\ list.top \in 0..MaxScroll(messages)
      BY <1>1, <1>2, MaxScrollIs DEF Lists
    <3> QED
      BY <3>1
  <2>3. /\ kept \in Lists(Base)
        /\ kept.top = Clamp(list.top - gone, list.top)
    <3>1. CASE n = b
      <4>1. Base = messages
        BY <3>1, <1>1, BaseIs DEF ListInv
      <4>2. gone = 0
        <5>1. SubSeq(messages, 1, 0) = <<>> /\ n - b = 0
          BY <1>1, <3>1
        <5> HIDE DEF n, b, ms
        <5>2. Gone(messages, ms) = <<>>
          BY <1>7, <5>1
        <5> QED
          BY <1>2, <5>2, ExtentOfNone
      <4> HIDE DEF gone
      <4>3. kept = list
        BY <4>2
      <4> QED
        BY <4>1, <4>2, <4>3, <1>2, <2>2 DEF Clamp, Least
    <3>2. CASE n = b + 1
      <4>1. Base = Tail(messages)
        BY <3>2, <1>1, BaseIs DEF ListInv
      <4> DEFINE above == <<messages[1]>>
      <4>2. above \in Seq(Rows) /\ messages = above \o Base /\ messages[1] \in Rows
        <5>1. 1 \in 1..n /\ messages[1] \in Rows
          BY <1>1, <3>2
        <5> QED
          BY <5>1, <4>1, <1>1
      <4>3. gone = Extent(above)
        <5>1. SubSeq(messages, 1, 1) = above /\ n - b = 1
          <6>1. 1 \in 1..Len(messages) /\ n - b = 1
            BY <1>1, <3>2
          <6> QED
            BY <1>1, <6>1, SubSeqOfOne
        <5> HIDE DEF n, b, ms, above
        <5>2. Gone(messages, ms) = above
          BY <1>7, <5>1
        <5> QED
          BY <1>2, <5>2
      <4>4. Extent(above) = Height[messages[1].id]
        <5> DEFINE none == <<>>
        <5>1. none \in Seq(Rows) /\ above = Append(none, messages[1])
          OBVIOUS
        <5>2. Extent(none) = 0
          BY ExtentOfNone
        <5>3. Height[messages[1].id] \in Nat
          BY <4>2, ListAssumption DEF Rows
        <5> HIDE DEF none, above
        <5>4. Extent(above) = Extent(none) + Height[messages[1].id]
          BY <5>1, <4>2, ExtentOfOneMore
        <5> QED
          BY <5>2, <5>3, <5>4
      <4>5. gone \in Nat /\ gone > 0
        <5>1. Height[messages[1].id] \in Nat \ {0}
          BY <4>2, ListAssumption DEF Rows
        <5> HIDE DEF gone
        <5> QED
          BY <4>3, <4>4, <5>1
      <4>6. Extent(messages) = gone + Extent(Base)
        <5> HIDE DEF above, gone
        <5> QED
          BY <4>2, <4>3, <1>1, ExtentAdds
      <4> HIDE DEF gone
      <4>7. kept = ScrolledTo(Base, list.top - gone)
        BY <4>5
      <4>8. list.top - gone \in Int
        BY <4>5, <2>2
      <4>9. kept \in Lists(Base) /\ kept.top = Clamp(list.top - gone, MaxScroll(Base))
        <5> HIDE DEF kept
        <5> QED
          BY <4>7, <4>8, <1>1, ScrolledToIs
      <4>10. Clamp(list.top - gone, MaxScroll(Base)) = Clamp(list.top - gone, list.top)
        <5>1. /\ MaxScroll(messages) = IF Extent(messages) < Window THEN 0
                                       ELSE Extent(messages) - Window
              /\ MaxScroll(Base) = IF Extent(Base) < Window THEN 0
                                   ELSE Extent(Base) - Window
          BY <1>1, MaxScrollIs
        <5>2. Extent(Base) \in Nat /\ Window \in Nat
          BY <1>1, ExtentIsNumber, ListAssumption
        <5> QED
          BY <5>1, <5>2, <4>5, <4>6, <2>2 DEF Clamp, Least
      <4> QED
        BY <4>9, <4>10
    <3> QED
      BY <1>1, <3>1, <3>2
  <2>4. kept.rows = Base
    <3> HIDE DEF kept
    <3> QED
      BY <2>3 DEF Lists
  <2>5. Result = [kept EXCEPT !.rows = ms]
    <3> HIDE DEF kept, ms, Result
    <3> QED
      BY <2>1, <2>4, <1>5
  <2>6. Result \in Lists(ms) /\ Result.top = kept.top
    <3> HIDE DEF kept, Result
    <3> QED
      BY <2>3, <2>5, <1>1, RowsBelow
  <2> HIDE DEF kept
  <2> QED
    BY <2>3, <2>6
<1> QED
  BY <1>8, <1>9, <1>10

(* setMessages() with a history of the same numbers.                       *)
LEMMA SetUpdated ==
  ASSUME ListInv, NEW ms \in Seq(Rows), Len(ms) = Len(messages),
         \A i \in 1..Len(ms) : ms[i].id = messages[i].id
  PROVE  SetMessages(list, ms) \in Lists(ms)
<1>1. list \in Lists(messages) /\ list.rows = messages /\ messages \in Seq(Rows)
  BY DEF ListInv, Lists, HistoryOK
<1>2. SameIds(list.rows, ms)
  BY <1>1 DEF SameIds
<1>3. CASE AllMatch(list.rows, ms)
  <2>1. \A i \in 1..Len(messages) : messages[i] = ms[i]
    BY <1>1, <1>3 DEF AllMatch, Matches
  <2>2. messages = ms
    BY <2>1, <1>1
  <2>3. SetMessages(list, ms) = list
    BY <1>2, <1>3 DEF SetMessages
  <2> QED
    BY <1>1, <2>2, <2>3
<1>4. CASE ~AllMatch(list.rows, ms)
  <2>1. SetMessages(list, ms) = Rebuilt(ms)
    BY <1>2, <1>4 DEF SetMessages
  <2> QED
    BY <2>1, RebuiltIs
<1> QED
  BY <1>3, <1>4
-----------------------------------------------------------------------------
(* The steps.                                                              *)
LEMMA InitList ==
  ASSUME Init
  PROVE  ListInv
<1> DEFINE none == <<>>
<1>1. none \in Seq(Rows) /\ Len(none) = 0
  OBVIOUS
<1>2. messages = none /\ lastId = 0 /\ list = Rebuilt(none)
  BY DEF Init
<1>3. HistoryOK
  BY <1>1, <1>2, ListAssumption DEF HistoryOK, Numbered
<1>4. Rebuilt(none) \in Lists(none)
  <2> HIDE DEF none
  <2> QED
    BY <1>1, RebuiltIs
<1> HIDE DEF none
<1> QED
  BY <1>2, <1>3, <1>4 DEF ListInv

(* appendMessage() keeps the numbering and the limit of the history.       *)
LEMMA AppendKeepsHistory ==
  ASSUME ListInv, NEW pending \in BOOLEAN, AppendMessage(pending)
  PROVE  \E row \in Rows : /\ row.id = lastId + 1 /\ messages' = Append(Base, row)
                           /\ messages' \in Seq(Rows) /\ HistoryOK'
<1> DEFINE row == Message(lastId', pending, FALSE)
<1>1. HistoryOK /\ lastId \in 0..LastId /\ lastId' = lastId + 1 /\ lastId < LastId
      /\ LastId \in Nat
  BY ListAssumption DEF ListInv, HistoryOK, AppendMessage
<1>2. row \in Rows /\ row.id = lastId + 1
  BY <1>1 DEF Rows, Message
<1>3. messages' = Append(Base, row)
  BY DEF AppendMessage, Base
<1> HIDE DEF row
<1>4. /\ Append(Base, row) \in Seq(Rows) /\ Base \in Seq(Rows)
      /\ Len(Base) < HistoryLimit /\ HistoryLimit \in Nat
      /\ Numbered(Append(Base, row), lastId + 1)
  BY <1>1, <1>2, BaseIs, ListAssumption
<1>5. Len(messages') <= HistoryLimit
  BY <1>3, <1>4
<1>6. Numbered(messages', lastId')
  BY <1>1, <1>3, <1>4
<1>7. HistoryOK'
  BY <1>1, <1>3, <1>4, <1>5, <1>6 DEF HistoryOK, Numbered
<1> QED
  BY <1>2, <1>3, <1>4, <1>7

LEMMA ReceiveStep ==
  ASSUME ListInv, Receive
  PROVE  ListInv'
<1>1. PICK row \in Rows : /\ row.id = lastId + 1 /\ messages' = Append(Base, row)
                         /\ messages' \in Seq(Rows) /\ HistoryOK'
  BY AppendKeepsHistory DEF Receive
<1>2. list' = SetMessages(list, messages')
  BY DEF Receive
<1>3. SetMessages(list, messages') \in Lists(messages')
  BY <1>1, SetAppended
<1> QED
  BY <1>1, <1>2, <1>3 DEF ListInv, Lists

LEMMA SendStep ==
  ASSUME ListInv, Send
  PROVE  ListInv'
<1>1. PICK row \in Rows : /\ row.id = lastId + 1 /\ messages' = Append(Base, row)
                         /\ messages' \in Seq(Rows) /\ HistoryOK'
  BY AppendKeepsHistory DEF Send
<1> DEFINE l == SetMessages(list, messages')
<1>2. list' = ToBottom(l)
  BY DEF Send
<1>3. l \in Lists(messages')
  BY <1>1, SetAppended
<1>4. MaxScroll(messages') \in Nat
  BY <1>1, MaxScrollIs
<1> HIDE DEF l
<1>5. l \in [rows : {messages'}, top : Nat, goal : Int, follow : BOOLEAN]
  <2>1. 0..MaxScroll(messages') \subseteq Nat /\ 0..MaxScroll(messages') \cup {NoTarget} \subseteq Int
    BY <1>4 DEF NoTarget
  <2> QED
    BY <1>3, <2>1 DEF Lists
<1>6. ToBottom(l) \in Lists(messages')
  BY <1>1, <1>5, ToBottomIs
<1> QED
  BY <1>1, <1>2, <1>6 DEF ListInv, Lists

LEMMA ConcludeStep ==
  ASSUME ListInv, NEW i \in DOMAIN messages, NEW failed \in BOOLEAN, Conclude(i, failed)
  PROVE  ListInv'
<1> DEFINE ms == [messages EXCEPT ![i].pending = FALSE, ![i].failed = failed]
<1>1. /\ messages \in Seq(Rows) /\ i \in 1..Len(messages)
      /\ lastId' = lastId /\ messages' = ms /\ list' = SetMessages(list, ms)
  BY DEF ListInv, HistoryOK, Conclude
<1>2. \A r \in Rows : /\ [r EXCEPT !.pending = FALSE, !.failed = failed] \in Rows
                      /\ [r EXCEPT !.pending = FALSE, !.failed = failed].id = r.id
  BY DEF Rows
<1>3. ms = [messages EXCEPT ![i] = [messages[i] EXCEPT !.pending = FALSE, !.failed = failed]]
  BY <1>1
<1>4. messages[i] \in Rows
  BY <1>1
<1> HIDE DEF ms
<1>5. /\ ms \in Seq(Rows) /\ Len(ms) = Len(messages)
      /\ \A j \in 1..Len(ms) : ms[j].id = messages[j].id
  <2> DEFINE r == [messages[i] EXCEPT !.pending = FALSE, !.failed = failed]
  <2>1. r \in Rows /\ r.id = messages[i].id
    BY <1>2, <1>4
  <2>2. ms = [messages EXCEPT ![i] = r]
    BY <1>3
  <2> HIDE DEF r
  <2>3. /\ ms \in Seq(Rows) /\ Len(ms) = Len(messages)
        /\ \A j \in 1..Len(ms) : ms[j] = IF j = i THEN r ELSE messages[j]
    BY <1>1, <2>1, <2>2
  <2> QED
    BY <2>1, <2>3
<1>6. SetMessages(list, ms) \in Lists(ms)
  BY <1>5, SetUpdated
<1>7. HistoryOK'
  BY <1>1, <1>5 DEF ListInv, HistoryOK, Numbered
<1> QED
  BY <1>1, <1>6, <1>7 DEF ListInv, Lists

LEMMA ScrollStepIs ==
  ASSUME ListInv, NEW amount \in {ScrollStep, -ScrollStep}, ScrollBy(amount)
  PROVE  ListInv'
<1> DEFINE from == IF list.goal # NoTarget THEN list.goal ELSE list.top
           max == MaxScroll(list.rows)
           goal == Clamp(from - amount, max)
           near == max - goal <= FollowDistance
           l == [list EXCEPT !.follow = near]
<1>1. /\ messages \in Seq(Rows) /\ list \in Lists(messages) /\ list.rows = messages
      /\ messages' = messages /\ lastId' = lastId /\ HistoryOK
      /\ list' = AnimatedTo(l, goal)
  BY DEF ListInv, HistoryOK, Lists, ScrollBy
<1>2. max \in Nat /\ max = MaxScroll(messages)
  BY <1>1, MaxScrollIs
<1>3. list.goal \in 0..max \cup {NoTarget} /\ list.top \in 0..max
  BY <1>1, <1>2 DEF Lists
<1> HIDE DEF max
<1>4. from \in Int
  BY <1>2, <1>3
<1>5. goal \in Int
  BY <1>2, <1>4, ListAssumption DEF Clamp, Least
<1> HIDE DEF goal
<1>6. l \in Lists(messages)
  <2>1. near \in BOOLEAN
    OBVIOUS
  <2> HIDE DEF near
  <2> QED
    BY <1>1, <2>1 DEF Lists
<1> HIDE DEF l
<1>7. AnimatedTo(l, goal) \in Lists(messages)
  BY <1>1, <1>5, <1>6, AnimatedToIs
<1>8. HistoryOK'
  BY <1>1 DEF HistoryOK, Numbered
<1> QED
  BY <1>1, <1>7, <1>8 DEF ListInv, Lists

LEMMA AnimateStep ==
  ASSUME ListInv, Animate
  PROVE  ListInv'
<1>1. /\ messages \in Seq(Rows) /\ list \in Lists(messages) /\ list.rows = messages
      /\ messages' = messages /\ lastId' = lastId /\ HistoryOK
  BY DEF ListInv, HistoryOK, Lists, Animate
<1>2. HistoryOK'
  BY <1>1 DEF HistoryOK, Numbered
<1>3. CASE \E top \in 0..MaxScroll(list.rows) : list' = [list EXCEPT !.top = top]
  <2>1. list' \in Lists(messages)
    BY <1>1, <1>3 DEF Lists
  <2> QED
    BY <1>1, <1>2, <2>1 DEF ListInv, Lists
<1>4. CASE list' = ScrolledTo(list.rows, list.goal)
  <2>1. list.goal \in Int
    <3>1. MaxScroll(messages) \in Nat
      BY <1>1, MaxScrollIs
    <3>2. list.goal \in 0..MaxScroll(messages) \cup {NoTarget}
      BY <1>1 DEF Lists
    <3> QED
      BY <3>1, <3>2 DEF NoTarget
  <2>2. list' \in Lists(messages)
    BY <1>1, <1>4, <2>1, ScrolledToIs
  <2> QED
    BY <1>1, <1>2, <2>2 DEF ListInv, Lists
<1> QED
  BY <1>3, <1>4 DEF Animate

LEMMA ListStep ==
  ASSUME ListInv, [Next]_vars
  PROVE  ListInv'
<1>1. CASE Receive
  BY <1>1, ReceiveStep
<1>2. CASE Send
  BY <1>2, SendStep
<1>3. CASE \E i \in DOMAIN messages, failed \in BOOLEAN : Conclude(i, failed)
  BY <1>3, ConcludeStep
<1>4. CASE \E amount \in {ScrollStep, -ScrollStep} : ScrollBy(amount)
  BY <1>4, ScrollStepIs
<1>5. CASE Animate
  BY <1>5, AnimateStep
<1>6. CASE UNCHANGED vars
  BY <1>6 DEF vars, ListInv, HistoryOK, Numbered, Lists
<1> QED
  BY <1>1, <1>2, <1>3, <1>4, <1>5, <1>6 DEF Next

(* The rows are those of the history, which is numbered without a gap, and *)
(* the place of the list and the end of its animation are places that the  *)
(* rows allow (setMessages(), scrollBy(), tick()).                         *)
THEOREM ListInvariant == Spec => []ListInv
<1>1. Init => ListInv
  BY InitList
<1>2. ListInv /\ [Next]_vars => ListInv'
  BY ListStep
<1> QED
  BY <1>1, <1>2, PTL DEF Spec

(* Whatever way setMessages() took from one history to the next, the list  *)
(* shows the messages, in order, each with its own status.                 *)
THEOREM RowsAlwaysShowHistory == Spec => []RowsShowHistory
<1>1. ListInv => RowsShowHistory
  BY DEF ListInv, Lists, RowsShowHistory
<1> QED
  BY <1>1, ListInvariant, PTL

(* The list has its type, and is never scrolled beyond its rows.           *)
THEOREM ListTypeCorrect == Spec => []ListTypeOK
<1>1. ASSUME ListInv PROVE ListTypeOK
  <2>1. messages \in Seq(Rows) /\ list \in Lists(messages) /\ list.rows = messages
    BY <1>1 DEF ListInv, HistoryOK, Lists
  <2>2. /\ MaxScroll(messages) \in Nat /\ Extent(messages) \in Nat
        /\ MaxScroll(messages) <= Extent(messages)
    BY <2>1, MaxScrollIs, ExtentIsNumber
  <2>3. /\ list.top \in 0..MaxScroll(messages) /\ list.follow \in BOOLEAN
        /\ list.goal \in 0..MaxScroll(messages) \cup {NoTarget}
    BY <2>1 DEF Lists
  <2>4. list.goal \in 0..Extent(messages) \cup {NoTarget}
    BY <2>2, <2>3
  <2> QED
    BY <1>1, <2>1, <2>3, <2>4 DEF ListTypeOK, ListInv, HistoryOK
<1>2. ListInv => ListTypeOK
  BY <1>1
<1> QED
  BY <1>2, ListInvariant, PTL

(* A message that arrives moves none of the rows that a reader who has     *)
(* scrolled away sees, unless the one being read goes.  A history of one   *)
(* message has no row that stays; the program keeps 64.                    *)
THEOREM ReaderAlwaysKeepsPlace ==
  ASSUME HistoryLimit > 1
  PROVE  Spec => ReaderKeepsPlace
<1> DEFINE Keeps == Receive /\ ~list.follow /\ list.goal = NoTarget =>
             list'.top = Clamp(list.top - Extent(Gone(list.rows, messages')), list.top)
<1>1. ASSUME ListInv PROVE Keeps
  <2> SUFFICES ASSUME Receive, ~list.follow
               PROVE  list'.top
                        = Clamp(list.top - Extent(Gone(list.rows, messages')), list.top)
    OBVIOUS
  <2>1. PICK row \in Rows : row.id = lastId + 1 /\ messages' = Append(Base, row)
    BY <1>1, AppendKeepsHistory DEF Receive
  <2>2. list' = SetMessages(list, messages')
    BY DEF Receive
  <2>3. SetMessages(list, messages').top
          = Clamp(list.top - Extent(Gone(list.rows, messages')), list.top)
    BY <1>1, <2>1, SetAppended
  <2> QED
    BY <2>2, <2>3
<1>2. ListInv => [Keeps]_vars
  BY <1>1
<1> QED
  BY <1>2, ListInvariant, PTL DEF ReaderKeepsPlace
=============================================================================
