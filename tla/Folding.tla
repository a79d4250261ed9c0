------------------------------ MODULE Folding ------------------------------
(* What a fold over a sequence computes: the steps from its first element to *)
(* its last. FoldLeft of the community modules is a recursive function on    *)
(* sets of positions; here it is shown that the function exists, for any Op, *)
(* and that it passes through the results for the first 1, 2, ... elements.  *)
(* Where the order of the elements makes no difference to Op, it makes none  *)
(* to the result. A module with a fold has an instance of this one with its  *)
(* own Op, and with what Is of all that is folded; the last two arguments of *)
(* Op are what the fold's LAMBDA takes from around it.                       *)
EXTENDS Integers, FiniteSetTheorems, TLAPS

CONSTANTS Op(_, _, _, _), Is(_)

Highest(s) == CHOOSE x \in s : \A y \in s : x >= y
\* The value for the positions s, given those for fewer.
Value(g, s, base, seq, c, d) ==
  IF s = {} THEN base ELSE Op(g[s \ {Highest(s)}], seq[Highest(s)], c, d)
IsFold(g, base, seq, n, c, d) == g = [s \in SUBSET (1 .. n) |-> Value(g, s, base, seq, c, d)]
Folded(base, seq, n, c, d) == (CHOOSE g : IsFold(g, base, seq, n, c, d))[1 .. n]

-----------------------------------------------------------------------------
\* Induction over the numbers, as a set, since no induction theorem of the
\* library can be instantiated: the members of 0 .. n that are missing would
\* have a predecessor each.
THEOREM Induction ==
  ASSUME NEW S, 0 \in S, \A n \in Nat : n \in S => n + 1 \in S
  PROVE  Nat \subseteq S
<1> SUFFICES ASSUME NEW n \in Nat, n \notin S PROVE FALSE
  OBVIOUS
<1> DEFINE T == {m \in 0 .. n : m \notin S}
           f == [m \in T |-> m - 1]
<1>1. IsFiniteSet(0 .. n)
  BY FS_Interval
<1>2. IsFiniteSet(T)
  BY <1>1, FS_Subset
<1>3. \A m \in T : m - 1 \in T
  <2> SUFFICES ASSUME NEW m \in T PROVE m - 1 \in T
    OBVIOUS
  <2>1. m \in 0 .. n /\ m \notin S /\ m # 0
    OBVIOUS
  <2>2. m - 1 \in 0 .. n /\ m - 1 \in Nat /\ (m - 1) + 1 = m
    BY <2>1
  <2>. QED
    BY <2>1, <2>2
<1>4. f \in Injection(T, T)
  BY <1>3 DEF Injection, IsInjective
<1>5. f \in Surjection(T, T)
  BY <1>2, <1>4, FS_Injection
<1>6. n \in T
  OBVIOUS
<1>7. PICK m \in T : f[m] = n
  BY <1>5, <1>6 DEF Surjection
<1>8. m \in 0 .. n /\ m - 1 = n
  BY <1>7
<1>. QED
  BY <1>8

\* Every set of natural numbers that is not empty has a least element.
THEOREM LeastExists ==
  ASSUME NEW T \in SUBSET Nat, T # {}
  PROVE  \E m \in T : \A x \in T : m <= x
<1> SUFFICES ASSUME \A m \in T : \E x \in T : ~(m <= x)
             PROVE  FALSE
  OBVIOUS
<1> DEFINE below == {n \in Nat : \A x \in T : n < x}
<1>1. 0 \in below
  <2> SUFFICES ASSUME NEW x \in T PROVE 0 < x
    OBVIOUS
  <2>1. PICK y \in T : ~(x <= y)
    OBVIOUS
  <2>2. x \in Nat /\ y \in Nat
    OBVIOUS
  <2>. QED
    BY <2>1, <2>2
<1>2. ASSUME NEW n \in Nat, n \in below
      PROVE  n + 1 \in below
  <2> SUFFICES ASSUME NEW x \in T PROVE n + 1 < x
    OBVIOUS
  <2>1. PICK y \in T : ~(x <= y)
    OBVIOUS
  <2>2. x \in Nat /\ y \in Nat /\ n < y
    BY <1>2
  <2>. QED
    BY <2>1, <2>2
<1>3. PICK t \in T : TRUE
  OBVIOUS
<1>4. t \in below
  <2> HIDE DEF below
  <2>. QED
    BY <1>1, <1>2, Induction
<1>5. t < t /\ t \in Nat
  BY <1>4
<1>. QED
  BY <1>5

\* A set of positions has a highest one.
THEOREM HighestExists ==
  ASSUME NEW n \in Nat, NEW s \in SUBSET (1 .. n), s # {}
  PROVE  Highest(s) \in s /\ \A y \in s : Highest(s) >= y
<1> DEFINE S == {k \in Nat : \A t \in SUBSET (1 .. k) : t # {} => \E x \in t : \A y \in t : x >= y}
<1>1. 0 \in S
  <2>1. 1 .. 0 = {}
    OBVIOUS
  <2>. QED
    BY <2>1
<1>2. ASSUME NEW k \in Nat, k \in S PROVE k + 1 \in S
  <2> SUFFICES ASSUME NEW t \in SUBSET (1 .. (k + 1)), t # {} PROVE \E x \in t : \A y \in t : x >= y
    OBVIOUS
  <2>1. CASE k + 1 \in t
    BY <2>1
  <2>2. CASE k + 1 \notin t
    <3>1. t \in SUBSET (1 .. k)
      BY <2>2
    <3>. QED
      BY <3>1, <1>2
  <2>. QED
    BY <2>1, <2>2
<1>3. n \in S
  <2> HIDE DEF S
  <2>. QED
    BY <1>1, <1>2, Induction
<1>4. \E x \in s : \A y \in s : x >= y
  BY <1>3
<1>. QED
  BY <1>4 DEF Highest

THEOREM HighestOfFirst ==
  ASSUME NEW k \in Nat, k # 0
  PROVE  Highest(1 .. k) = k /\ (1 .. k) \ {Highest(1 .. k)} = 1 .. (k - 1)
<1>1. k \in 1 .. k /\ 1 .. k \in SUBSET (1 .. k) /\ 1 .. k # {}
  OBVIOUS
<1>2. Highest(1 .. k) \in 1 .. k /\ \A y \in 1 .. k : Highest(1 .. k) >= y
  BY <1>1, HighestExists
<1>3. Highest(1 .. k) = k
  BY <1>1, <1>2
<1>4. (1 .. k) \ {k} = 1 .. (k - 1)
  OBVIOUS
<1>. QED
  BY <1>3, <1>4

-----------------------------------------------------------------------------
\* The recursive function exists, for the positions up to any one.
THEOREM FoldExists ==
  ASSUME NEW base, NEW seq, NEW c, NEW d, NEW n \in Nat
  PROVE  \E g : IsFold(g, base, seq, n, c, d)
<1> DEFINE V(g, s) == Value(g, s, base, seq, c, d)
           S == {k \in Nat : \E g : g = [s \in SUBSET (1 .. k) |-> V(g, s)]}
<1>1. 0 \in S
  <2> DEFINE g == [s \in SUBSET (1 .. 0) |-> base]
  <2>1. \A s \in SUBSET (1 .. 0) : V(g, s) = base
    BY DEF Value
  <2> HIDE DEF V
  <2>2. g = [s \in SUBSET (1 .. 0) |-> V(g, s)]
    BY <2>1
  <2>. QED
    BY <2>2
<1>2. ASSUME NEW k \in Nat, k \in S PROVE k + 1 \in S
  <2>1. PICK g : g = [s \in SUBSET (1 .. k) |-> V(g, s)]
    BY <1>2
  <2> DEFINE W(s) == IF k + 1 \in s THEN Op(g[s \ {k + 1}], seq[k + 1], c, d) ELSE g[s]
             h == [s \in SUBSET (1 .. (k + 1)) |-> W(s)]
  <2>2. ASSUME NEW s \in SUBSET (1 .. (k + 1)) PROVE W(s) = V(h, s)
    <3>0. k + 1 \in Nat /\ (s # {} => Highest(s) \in s /\ \A y \in s : Highest(s) >= y)
      <4>1. k + 1 \in Nat
        OBVIOUS
      <4> HIDE DEF V, W, h
      <4>. QED
        BY <4>1, HighestExists
    <3>1. CASE s = {}
      <4>1. V(h, s) = base /\ V(g, s) = base
        BY <3>1 DEF Value
      <4>2. s \in SUBSET (1 .. k)
        BY <3>1
      <4> HIDE DEF V
      <4>3. g[s] = V(g, s)
        BY <2>1, <4>2
      <4>. QED
        BY <3>1, <4>1, <4>3
    <3>2. CASE s # {} /\ k + 1 \in s
      <4>1. Highest(s) \in s /\ \A y \in s : Highest(s) >= y
        BY <3>0, <3>2
      <4>2. Highest(s) = k + 1
        <5>1. Highest(s) \in 1 .. (k + 1) /\ Highest(s) >= k + 1
          BY <3>2, <4>1
        <5>. QED
          BY <5>1
      <4>3. s \ {k + 1} \in SUBSET (1 .. k) /\ s \ {k + 1} \in SUBSET (1 .. (k + 1))
        OBVIOUS
      <4>4. h[s \ {k + 1}] = g[s \ {k + 1}]
        BY <4>3
      <4>5. V(h, s) = Op(h[s \ {k + 1}], seq[k + 1], c, d)
        BY <3>2, <4>2 DEF Value
      <4> HIDE DEF V, h
      <4>. QED
        BY <3>2, <4>4, <4>5
    <3>3. CASE s # {} /\ k + 1 \notin s
      <4>1. s \in SUBSET (1 .. k)
        BY <3>3
      <4>2. Highest(s) \in s
        BY <3>0, <3>3
      <4>3. s \ {Highest(s)} \in SUBSET (1 .. (k + 1)) /\ k + 1 \notin s \ {Highest(s)}
        BY <3>3
      <4>4. h[s \ {Highest(s)}] = g[s \ {Highest(s)}]
        BY <4>3
      <4>5. V(h, s) = V(g, s)
        BY <4>4 DEF Value
      <4> HIDE DEF V, h
      <4>6. g[s] = V(g, s)
        BY <2>1, <4>1
      <4>. QED
        BY <3>3, <4>5, <4>6
    <3>. QED
      BY <3>1, <3>2, <3>3
  <2> HIDE DEF V, W
  <2>3. h = [s \in SUBSET (1 .. (k + 1)) |-> V(h, s)]
    BY <2>2
  <2>4. k + 1 \in Nat
    OBVIOUS
  <2> HIDE DEF h
  <2>. QED
    BY <2>3, <2>4
<1> HIDE DEF S
<1>3. n \in S
  BY <1>1, <1>2, Induction
<1>4. PICK g : g = [s \in SUBSET (1 .. n) |-> V(g, s)]
  BY <1>3 DEF S
<1>. QED
  BY <1>4 DEF IsFold

\* The fold goes through h[0] = base, h[1], ..., h[n], its result.
THEOREM FoldSteps ==
  ASSUME NEW base, NEW seq, NEW c, NEW d, NEW n \in Nat
  PROVE  \E h : /\ h[0] = base
                /\ \A k \in 1 .. n : h[k] = Op(h[k - 1], seq[k], c, d)
                /\ Folded(base, seq, n, c, d) = h[n]
<1> DEFINE V(g, s) == Value(g, s, base, seq, c, d)
           g == CHOOSE f : IsFold(f, base, seq, n, c, d)
           h == [k \in 0 .. n |-> g[1 .. k]]
<1>1. Folded(base, seq, n, c, d) = g[1 .. n]
  BY DEF Folded
<1>2. IsFold(g, base, seq, n, c, d)
  BY FoldExists
<1> HIDE DEF g
<1>3. g = [s \in SUBSET (1 .. n) |-> V(g, s)]
  BY <1>2 DEF IsFold
<1> HIDE DEF V
<1>4. \A s \in SUBSET (1 .. n) : g[s] = V(g, s)
  BY <1>3
<1>5. h[0] = base
  <2>1. 1 .. 0 = {} /\ 0 \in 0 .. n
    OBVIOUS
  <2>2. g[{}] = V(g, {})
    BY <1>4
  <2>3. V(g, {}) = base
    BY DEF V, Value
  <2>. QED
    BY <2>1, <2>2, <2>3
<1>6. ASSUME NEW k \in 1 .. n PROVE h[k] = Op(h[k - 1], seq[k], c, d)
  <2>1. k \in Nat /\ k # 0 /\ k \in 0 .. n /\ k - 1 \in 0 .. n /\ 1 .. k \in SUBSET (1 .. n) /\ 1 .. k # {}
    OBVIOUS
  <2>2. Highest(1 .. k) = k /\ (1 .. k) \ {Highest(1 .. k)} = 1 .. (k - 1)
    BY <2>1, HighestOfFirst
  <2>3. h[k] = g[1 .. k] /\ h[k - 1] = g[1 .. (k - 1)]
    BY <2>1
  <2> HIDE DEF h
  <2>4. g[1 .. k] = V(g, 1 .. k)
    BY <1>4, <2>1
  <2>5. V(g, 1 .. k) = Op(g[1 .. (k - 1)], seq[k], c, d)
    BY <2>1, <2>2 DEF V, Value
  <2>. QED
    BY <2>3, <2>4, <2>5
<1>7. h[n] = g[1 .. n]
  OBVIOUS
<1> HIDE DEF h
<1>. QED
  BY <1>1, <1>5, <1>6, <1>7

\* What Op keeps is so of the result.
THEOREM FoldKeeps ==
  ASSUME NEW base, NEW seq, NEW c, NEW d, NEW n \in Nat, Is(base),
         \A a : Is(a) => \A k \in 1 .. n : Is(Op(a, seq[k], c, d))
  PROVE  Is(Folded(base, seq, n, c, d))
<1> DEFINE result == Folded(base, seq, n, c, d)
<1>1. \E h : /\ h[0] = base
             /\ \A k \in 1 .. n : h[k] = Op(h[k - 1], seq[k], c, d)
             /\ result = h[n]
  BY FoldSteps
<1> HIDE DEF result
<1>2. PICK h : /\ h[0] = base
               /\ \A k \in 1 .. n : h[k] = Op(h[k - 1], seq[k], c, d)
               /\ result = h[n]
  BY <1>1
<1> DEFINE T == {k \in Nat : k <= n => Is(h[k])}
<1>3. 0 \in T
  BY <1>2
<1>4. ASSUME NEW k \in Nat, k \in T PROVE k + 1 \in T
  <2> SUFFICES ASSUME k + 1 <= n PROVE Is(h[k + 1])
    OBVIOUS
  <2>1. k + 1 \in 1 .. n /\ (k + 1) - 1 = k /\ k <= n
    OBVIOUS
  <2>2. Is(h[k])
    BY <1>4, <2>1
  <2>3. h[k + 1] = Op(h[k], seq[k + 1], c, d)
    BY <1>2, <2>1
  <2>. QED
    BY <2>1, <2>2, <2>3
<1>5. n \in T
  <2> HIDE DEF T
  <2>. QED
    BY <1>3, <1>4, Induction
<1>. QED
  BY <1>2, <1>5 DEF result

-----------------------------------------------------------------------------
(* The order of the elements.                                                *)
Runs(h, base, seq, n, c, d) == h[0] = base /\ \A k \in 1 .. n : h[k] = Op(h[k - 1], seq[k], c, d)
Commutes(E, c, d) ==
  \A a : Is(a) => \A e, x \in E : /\ Is(Op(a, e, c, d))
                                  /\ (e # x => Op(Op(a, e, c, d), x, c, d) = Op(Op(a, x, c, d), e, c, d))
\* The first n elements of seq are those of E, each once.
Lists(seq, n, E) ==
  /\ \A k \in 1 .. n : seq[k] \in E
  /\ \A j, k \in 1 .. n : seq[j] = seq[k] => j = k
  /\ \A e \in E : \E k \in 1 .. n : seq[k] = e

Without(t, j, n) == [k \in 1 .. n |-> IF k < j THEN t[k] ELSE t[k + 1]]

\* The j-th element is left out of t, and comes last instead.
ComesLast(t, j, E, n, last, g, f, c, d) ==
  Lists(Without(t, j, n), n, E \ {t[j]}) /\ g[last] = Op(f[n], t[j], c, d)

THEOREM RunsExist ==
  ASSUME NEW base, NEW seq, NEW c, NEW d, NEW n \in Nat
  PROVE  \E h : Runs(h, base, seq, n, c, d)
<1> DEFINE result == Folded(base, seq, n, c, d)
<1>1. \E h : /\ h[0] = base
             /\ \A k \in 1 .. n : h[k] = Op(h[k - 1], seq[k], c, d)
             /\ result = h[n]
  BY FoldSteps
<1>. QED
  BY <1>1 DEF Runs

\* An element may be left out, and be the last one instead.
THEOREM RunWithout ==
  ASSUME NEW base, NEW c, NEW d, NEW E, Commutes(E, c, d), Is(base),
         NEW n \in Nat, NEW last, last = n + 1, NEW t, Lists(t, last, E), NEW j \in 1 .. last,
         NEW g, Runs(g, base, t, last, c, d),
         NEW f, Runs(f, base, Without(t, j, n), n, c, d)
  PROVE  ComesLast(t, j, E, n, last, g, f, c, d)
<1>0. Lists(t, n + 1, E) /\ j \in 1 .. (n + 1) /\ Runs(g, base, t, n + 1, c, d)
  OBVIOUS
<1> DEFINE u == Without(t, j, n)
<1>1. \A k \in 1 .. n : k \in 1 .. (n + 1) /\ k + 1 \in 1 .. (n + 1)
  OBVIOUS
<1>2. \A k \in 1 .. n : (k < j => u[k] = t[k]) /\ (~(k < j) => u[k] = t[k + 1])
  BY DEF Without
<1> HIDE DEF u
<1>3. Lists(u, n, E \ {t[j]})
  <2>1. \A k \in 1 .. n : u[k] \in E /\ u[k] # t[j]
    <3> TAKE k \in 1 .. n
    <3>1. k \in 1 .. (n + 1) /\ k + 1 \in 1 .. (n + 1) /\ (k < j => k # j) /\ (~(k < j) => k + 1 # j)
      OBVIOUS
    <3>. QED
      BY <1>0, <1>2, <3>1 DEF Lists
  <2>2. ASSUME NEW i \in 1 .. n, NEW k \in 1 .. n, u[i] = u[k] PROVE i = k
    <3> DEFINE P(m) == IF m < j THEN m ELSE m + 1
    <3>1. u[i] = t[P(i)] /\ u[k] = t[P(k)] /\ P(i) \in 1 .. (n + 1) /\ P(k) \in 1 .. (n + 1)
      BY <1>1, <1>2
    <3>2. P(i) = P(k)
      BY <1>0, <2>2, <3>1 DEF Lists
    <3>. QED
      BY <3>2
  <2>3. ASSUME NEW e \in E, e # t[j] PROVE \E k \in 1 .. n : u[k] = e
    <3>1. PICK m \in 1 .. (n + 1) : t[m] = e
      BY <1>0 DEF Lists
    <3>2. m # j
      BY <2>3, <3>1
    <3>3. CASE m < j
      <4>1. m \in 1 .. n
        BY <3>3
      <4>. QED
        BY <1>2, <3>1, <3>3, <4>1
    <3>4. CASE ~(m < j)
      <4>1. m - 1 \in 1 .. n /\ ~(m - 1 < j) /\ (m - 1) + 1 = m
        BY <3>2, <3>4
      <4>. QED
        BY <1>2, <3>1, <4>1
    <3>. QED
      BY <3>3, <3>4
  <2>. QED
    BY <2>1, <2>2, <2>3 DEF Lists
<1> HIDE DEF Lists
<1> DEFINE S == {k \in Nat : k <= n => Is(f[k]) /\ (k < j => f[k] = g[k]) /\ (k + 1 >= j => g[k + 1] = Op(f[k], t[j], c, d))}
<1>4. g[0] = base /\ f[0] = base /\ (\A k \in 1 .. (n + 1) : g[k] = Op(g[k - 1], t[k], c, d)) /\ \A k \in 1 .. n : f[k] = Op(f[k - 1], u[k], c, d)
  BY <1>0 DEF Runs, u
<1>5. (\A k \in 1 .. (n + 1) : t[k] \in E) /\ (\A i, k \in 1 .. (n + 1) : t[i] = t[k] => i = k) /\ \A k \in 1 .. n : u[k] \in E
  BY <1>0, <1>3 DEF Lists
<1>6. 0 \in S
  <2>0. 1 \in 1 .. (n + 1) /\ 1 - 1 = 0 /\ 0 + 1 = 1
    OBVIOUS
  <2>1. 0 + 1 >= j => j = 1
    OBVIOUS
  <2>2. 0 + 1 >= j => g[0 + 1] = Op(f[0], t[j], c, d)
    BY <1>4, <2>0, <2>1
  <2>. QED
    BY <1>4, <2>2
<1>7. ASSUME NEW k \in Nat, k \in S PROVE k + 1 \in S
  <2> SUFFICES ASSUME k + 1 <= n
               PROVE  /\ Is(f[k + 1])
                      /\ k + 1 < j => f[k + 1] = g[k + 1]
                      /\ (k + 1) + 1 >= j => g[(k + 1) + 1] = Op(f[k + 1], t[j], c, d)
    OBVIOUS
  <2>1. /\ k + 1 \in 1 .. n /\ k + 1 \in 1 .. (n + 1) /\ (k + 1) - 1 = k /\ k <= n
        /\ (k + 1) + 1 \in 1 .. (n + 1) /\ ((k + 1) + 1) - 1 = k + 1
    OBVIOUS
  <2>2. Is(f[k]) /\ (k < j => f[k] = g[k]) /\ (k + 1 >= j => g[k + 1] = Op(f[k], t[j], c, d))
    BY <1>7, <2>1
  <2>3. f[k + 1] = Op(f[k], u[k + 1], c, d) /\ g[k + 1] = Op(g[k], t[k + 1], c, d)
        /\ g[(k + 1) + 1] = Op(g[k + 1], t[(k + 1) + 1], c, d)
    BY <1>4, <2>1
  <2>4. Is(f[k + 1])
    BY <1>5, <2>1, <2>2, <2>3 DEF Commutes
  <2>5. k + 1 < j => f[k + 1] = g[k + 1]
    <3>1. k + 1 < j => k < j
      OBVIOUS
    <3>. QED
      BY <1>2, <2>1, <2>2, <2>3, <3>1
  <2>6. ASSUME (k + 1) + 1 >= j PROVE g[(k + 1) + 1] = Op(f[k + 1], t[j], c, d)
    <3>1. CASE (k + 1) + 1 = j
      <4>1. k + 1 < j
        BY <3>1
      <4>. QED
        BY <2>3, <2>5, <3>1, <4>1
    <3>2. CASE (k + 1) + 1 # j
      <4>1. k + 1 >= j /\ ~(k + 1 < j)
        BY <2>6, <3>2
      <4> DEFINE x == t[(k + 1) + 1]
                 e == t[j]
      <4>2. u[k + 1] = x
        BY <1>2, <2>1, <4>1
      <4>3. x \in E /\ e \in E /\ e # x
        BY <1>5, <2>1, <3>2
      <4>4. g[(k + 1) + 1] = Op(Op(f[k], e, c, d), x, c, d)
        BY <2>2, <2>3, <4>1
      <4>5. f[k + 1] = Op(f[k], x, c, d)
        BY <2>3, <4>2
      <4> HIDE DEF x, e
      <4>6. Op(Op(f[k], e, c, d), x, c, d) = Op(Op(f[k], x, c, d), e, c, d)
        BY <2>2, <4>3 DEF Commutes
      <4>. QED
        BY <4>4, <4>5, <4>6 DEF e
    <3>. QED
      BY <3>1, <3>2
  <2>. QED
    BY <2>4, <2>5, <2>6
<1>8. n \in S
  <2> HIDE DEF S
  <2>. QED
    BY <1>6, <1>7, Induction
<1>9. n + 1 >= j
  OBVIOUS
<1>. QED
  BY <1>3, <1>8, <1>9 DEF u, ComesLast

\* Two orders of the same elements have the same result.
THEOREM RunsMeet ==
  ASSUME NEW base, NEW c, NEW d, Is(base), NEW n \in Nat
  PROVE  \A E, s, t, h, g : Commutes(E, c, d) /\ Lists(s, n, E) /\ Lists(t, n, E)
                            /\ Runs(h, base, s, n, c, d) /\ Runs(g, base, t, n, c, d) => h[n] = g[n]
<1> DEFINE Meet(m) == \A E, s, t, h, g : Commutes(E, c, d) /\ Lists(s, m, E) /\ Lists(t, m, E)
                            /\ Runs(h, base, s, m, c, d) /\ Runs(g, base, t, m, c, d) => h[m] = g[m]
           S == {m \in Nat : Meet(m)}
<1>1. 0 \in S
  BY DEF Runs
<1>2. ASSUME NEW m \in Nat, Meet(m) PROVE Meet(m + 1)
  <2> SUFFICES ASSUME NEW E, NEW s, NEW t, NEW h, NEW g, Commutes(E, c, d), Lists(s, m + 1, E), Lists(t, m + 1, E),
                      Runs(h, base, s, m + 1, c, d), Runs(g, base, t, m + 1, c, d)
               PROVE  h[m + 1] = g[m + 1]
    OBVIOUS
  <2> HIDE DEF Meet
  <2> DEFINE last == m + 1
  <2>0. last = m + 1 /\ Lists(s, last, E) /\ Lists(t, last, E) /\ Runs(h, base, s, last, c, d) /\ Runs(g, base, t, last, c, d)
    OBVIOUS
  <2> HIDE DEF last
  <2>1. last \in 1 .. last /\ s[last] \in E
    BY <2>0 DEF Lists
  <2>2. PICK j \in 1 .. last : t[j] = s[last]
    BY <2>0, <2>1 DEF Lists
  <2> DEFINE w == Without(t, j, m)
             r == Without(s, last, m)
  <2> HIDE DEF w, r
  <2>4. PICK f : Runs(f, base, w, m, c, d)
    BY RunsExist
  <2>6. PICK q : Runs(q, base, r, m, c, d)
    BY RunsExist
  <2>8. Lists(w, m, E \ {t[j]}) /\ g[last] = Op(f[m], t[j], c, d)
    <3>1. Runs(f, base, Without(t, j, m), m, c, d)
      BY <2>4 DEF w
    <3>2. ComesLast(t, j, E, m, last, g, f, c, d)
      BY <2>0, <3>1, RunWithout
    <3>. QED
      BY <3>2 DEF w, ComesLast
  <2>9. Lists(r, m, E \ {s[last]}) /\ h[last] = Op(q[m], s[last], c, d)
    <3>1. Runs(q, base, Without(s, last, m), m, c, d)
      BY <2>6 DEF r
    <3>2. ComesLast(s, last, E, m, last, h, q, c, d)
      BY <2>0, <2>1, <3>1, RunWithout
    <3>. QED
      BY <3>2 DEF r, ComesLast
  <2>10. Commutes(E \ {t[j]}, c, d)
    BY DEF Commutes
  <2>11. q[m] = f[m]
    BY <1>2, <2>2, <2>4, <2>6, <2>8, <2>9, <2>10 DEF Meet
  <2>. QED
    BY <2>0, <2>2, <2>8, <2>9, <2>11
<1>3. \A m \in Nat : m \in S => m + 1 \in S
  <2> HIDE DEF Meet
  <2>. QED
    BY <1>2
<1>4. n \in S
  <2> HIDE DEF S
  <2>. QED
    BY <1>1, <1>3, Induction
<1>. QED
  BY <1>4

THEOREM FoldOrder ==
  ASSUME NEW base, NEW c, NEW d, Is(base), NEW n \in Nat, NEW E, Commutes(E, c, d),
         NEW s, Lists(s, n, E), NEW t, Lists(t, n, E)
  PROVE  Folded(base, s, n, c, d) = Folded(base, t, n, c, d)
<1> DEFINE a == Folded(base, s, n, c, d)
           b == Folded(base, t, n, c, d)
<1>1. \E h : h[0] = base /\ (\A k \in 1 .. n : h[k] = Op(h[k - 1], s[k], c, d)) /\ a = h[n]
  BY FoldSteps
<1>2. \E g : g[0] = base /\ (\A k \in 1 .. n : g[k] = Op(g[k - 1], t[k], c, d)) /\ b = g[n]
  BY FoldSteps
<1> HIDE DEF a, b
<1>3. \E h : Runs(h, base, s, n, c, d) /\ a = h[n]
  BY <1>1 DEF Runs
<1>4. \E g : Runs(g, base, t, n, c, d) /\ b = g[n]
  BY <1>2 DEF Runs
<1>5. a = b
  BY <1>3, <1>4, RunsMeet
<1>. QED
  BY <1>5 DEF a, b
=============================================================================
